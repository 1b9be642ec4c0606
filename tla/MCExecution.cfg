SPECIFICATION Spec
CONSTANTS
    Base = 5
    Word = 64
    Degree = 1
    MaxCalls = 5
    Par <- MCPar
    Alpha <- MCAlpha
    PartySets <- MCPartySets
    Samples <- MCSamples
INVARIANTS
    TypeOK
    QueuesAreFifo
    LeftoversFromFailures
    ChannelsBothWays
    BundlesShareZero
    DifferencesWrap
PROPERTIES
    RegisteredRunsReturn
    EveryRunEnds
CHECK_DEADLOCK FALSE
