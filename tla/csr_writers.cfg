\* Two writers commit in any order around the statements of one session.
SPECIFICATION Spec
CONSTANTS
  w1 = w1
  w2 = w2
  s1 = s1
  Writers = {w1, w2}
  Sessions = {s1}
  Kinds = {"sql_insert", "delete", "update", "appender"}
  TransactionLimit = 1
  StatementLimit = 1
  InitialRows = 1
  Operations = {"query", "build_memory"}
  CallLimit = 2
  AcquireLimit = 2
  DeltaRowLimit = 1
  CrashLimit = 0
  SerialSaves = FALSE
SYMMETRY Symmetry
INVARIANTS
  ReusableLeaseFresh
  SyncedMeansComplete
  OneVersionUnderInserts
