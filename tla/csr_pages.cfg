\* Three statements read, build and save paged snapshots around writes, evictions and a restart.
SPECIFICATION Spec
CONSTANTS
  s1 = s1
  s2 = s2
  Sessions = {s1, s2}
  PageCount = 2
  SnapshotLimit = 3
  CallLimit = 2
  InsertLimit = 1
  WriteLimit = 1
  FailLimit = 1
  CrashLimit = 1
SYMMETRY Symmetry
INVARIANTS
  TypeOK
  NoReadAfterRelease
  NoForeignBytes
  NothingPinnedWhenIdle
