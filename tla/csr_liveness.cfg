\* Liveness: builds are claimed, thrown, waited for; catch-ups contend. No symmetry.
SPECIFICATION FairSpec
CONSTANTS
  w1 = w1
  s1 = s1
  s2 = s2
  Writers = {w1}
  Sessions = {s1, s2}
  Kinds = {"sql_insert"}
  TransactionLimit = 1
  StatementLimit = 1
  InitialRows = 1
  Operations = {"query", "build_memory"}
  CallLimit = 1
  AcquireLimit = 1
  DeltaRowLimit = 0
  CrashLimit = 0
  SerialSaves = FALSE
PROPERTIES
  StatementsEnd
  LeasesAsPromised
