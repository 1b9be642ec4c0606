SPECIFICATION Spec
CONSTANTS
    Protocols = {"single", "sum", "both", "double", "twice", "scaled", "lowdegree",
                 "relayed", "tripled", "random", "mixed", "masktwice", "doublemask",
                 "single3", "sum3", "mixed3"}
    Base <- MCBase
    Value <- MCValue
    FieldSize <- MCFieldSize
    Scalar <- MCScalar
INVARIANTS
    TypeOK
    ListsSynced
    CountersExact
    VerdictReadsGraph
    EdgesStayTrue
    RandomNodesStayIndependent
    ProvedMeansSecure
PROPERTY ImplementsGuidedSearch
CHECK_DEADLOCK FALSE
