CONSTANTS
    Writers = {w1}
    Sessions = {s1, s2}
    Kinds = {"gql_insert", "appender"}
    TransactionLimit = 2
    StatementLimit = 1
    InitialRows = 1
    Settings = {"a", "b"}
    CallLimit = 2
SPECIFICATION Spec
SYMMETRY Symmetric
INVARIANTS
    TypeOK
    CacheNeverBehind
    KeptPlanIsCurrent
CHECK_DEADLOCK FALSE
