\* gql_build_csr while a transaction with an UPDATE is open.
SPECIFICATION Spec
CONSTANTS
  w1 = w1
  s1 = s1
  Writers = {w1}
  Sessions = {s1}
  Kinds = {"update"}
  TransactionLimit = 1
  StatementLimit = 1
  InitialRows = 1
  Operations = {"build"}
  CallLimit = 1
  AcquireLimit = 1
  DeltaRowLimit = 0
  CrashLimit = 0
  SerialSaves = FALSE
SYMMETRY Symmetry
INVARIANTS
  LeftBehindDescribesTable
