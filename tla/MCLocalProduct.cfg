SPECIFICATION PipelineSpec
CONSTANTS
    PartyCnt = 3
    T = 1
    Inputs <- MCInputs
    Var = {"var", "protocol", "x", "y"}
    Reassigned = TRUE
    GivenNames = {}
    MaxSteps = 20
    MaxBuilds = 1
    Processors = 2
    Programs <- MCLocalProduct
    FieldSize = 5
    InputValues = {0, 1, 2}
    MaxRandomness = 4
INVARIANTS
    ProvedMeansPrivate
CHECK_DEADLOCK FALSE
