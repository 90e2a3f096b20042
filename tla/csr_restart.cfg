\* Saved CSRs across a crash, when gql_build_csr is called while nothing else runs.
SPECIFICATION Spec
CONSTANTS
  w1 = w1
  s1 = s1
  s2 = s2
  Writers = {w1}
  Sessions = {s1, s2}
  Kinds = {"sql_insert", "delete", "prepared"}
  TransactionLimit = 2
  StatementLimit = 2
  InitialRows = 1
  Operations = {"query", "build", "build_memory"}
  CallLimit = 1
  AcquireLimit = 1
  DeltaRowLimit = 1
  CrashLimit = 1
  SerialSaves = TRUE
SYMMETRY Symmetry
INVARIANTS
  GenerationsCoverDestructiveWrites
  OneVersionUnderInserts
  SavedDescribesTable
  SavedIsNotOverlooked
