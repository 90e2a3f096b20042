\* Sessions share, replace and evict the key maps of two graphs, builds throw. No symmetry: liveness.
SPECIFICATION Spec
CONSTANTS
  s1 = s1
  s2 = s2
  g1 = g1
  g2 = g2
  Sessions = {s1, s2}
  Graphs = {g1, g2}
  Snapshots = {1, 2}
  TableCount = 2
  Rows <- MCRows
  MapLimit = 1
  Invalid = 4
  AskLimit = 3
  VersionLimit = 1
INVARIANTS
  TypeOK
  GenerationsBounded
  OneBuilder
  IdentitiesTile
  LeasesAsAsked
PROPERTIES
  BindsEnd
CHECK_DEADLOCK FALSE
