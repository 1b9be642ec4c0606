SPECIFICATION Spec
CONSTANTS
    Protocols = {"single", "sum", "both", "double", "twice", "scaled", "lowdegree", "relayed", "tripled", "random", "mixed", "masktwice", "doublemask",
                 "single3", "sum3"}
    Base <- MCBase
    Value <- MCValue
    Classes <- MCClasses
    Exactly = {2, 4}
    Processors = 2
    FieldSize <- MCFieldSize
    Scalar <- MCScalar
INVARIANTS
    TypeOK
    StopsOnlyWhenStuck
    TailsMakeNoDifference
    OnlyTheViewIsLeft
    AbortsExplained
    ProvedMeansSecure
PROPERTIES
    Terminates
    TailsKeepTheView
    JobsAreGuidedSearches
