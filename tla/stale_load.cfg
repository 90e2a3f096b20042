\* A saved CSR is loaded while an UPDATE is planned and committed.
SPECIFICATION Spec
CONSTANTS
  w1 = w1
  s1 = s1
  Writers = {w1}
  Sessions = {s1}
  Kinds = {"update"}
  TransactionLimit = 1
  StatementLimit = 1
  InitialRows = 1
  Operations = {"build", "query"}
  CallLimit = 2
  AcquireLimit = 1
  DeltaRowLimit = 0
  CrashLimit = 1
  SerialSaves = TRUE
SYMMETRY Symmetry
INVARIANTS
  CheckedLoadDescribesTable
