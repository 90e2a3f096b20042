SPECIFICATION Spec
CONSTANTS
    FanoutPairs = 3
    FanoutLabels = 2
    VectorSize = 2
    Null = Null
    MembershipThreshold = 2
    LargestDistance = 6
    Cases <- MCCases
INVARIANTS
    TypeOK
    TopologyDescribesGraph
    PostingsDescribeLabels
    FanoutExactOrAbsent
    ElementsExact
    ExpansionExact
    TrailsExact
    ShortestExact
    AllShortestExact
    SearchesExact
    SettledIsMinimal
    LengthExact
    ComponentsExact
    CountsExact
CHECK_DEADLOCK FALSE
