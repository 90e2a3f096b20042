\* A DELETE commits between the choice of a snapshot and its catch-up.
SPECIFICATION Spec
CONSTANTS
  w1 = w1
  s1 = s1
  Writers = {w1}
  Sessions = {s1}
  Kinds = {"sql_insert", "delete"}
  TransactionLimit = 2
  StatementLimit = 1
  InitialRows = 1
  Operations = {"query", "build_memory"}
  CallLimit = 2
  AcquireLimit = 1
  DeltaRowLimit = 1
  CrashLimit = 0
  SerialSaves = FALSE
SYMMETRY Symmetry
INVARIANTS
  LeaseFresh
