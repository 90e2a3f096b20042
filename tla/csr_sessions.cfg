\* Two sessions share the snapshots while one writer announces, commits or rolls back.
SPECIFICATION Spec
CONSTANTS
  w1 = w1
  s1 = s1
  s2 = s2
  Writers = {w1}
  Sessions = {s1, s2}
  Kinds = {"sql_insert", "gql_insert", "prepared"}
  TransactionLimit = 1
  StatementLimit = 1
  InitialRows = 1
  Operations = {"query", "narrow", "unchanged", "build_memory"}
  CallLimit = 1
  AcquireLimit = 2
  DeltaRowLimit = 1
  CrashLimit = 0
  SerialSaves = FALSE
SYMMETRY Symmetry
INVARIANTS
  TypeOK
  LeaseFresh
  OneAutomaticBuild
PROPERTIES
  DeltaOnlyGrows
