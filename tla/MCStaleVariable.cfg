SPECIFICATION MeaningSpec
CONSTANTS
    PartyCnt = 3
    T = 1
    Inputs <- SecretAndRandomness
    Var = {u, v}
    Reassigned = TRUE
    GivenNames = {}
    MaxSteps = 2
    MaxBuilds = 0
    FieldSize = 7
    Samples = {1, 2}
    Input <- MCInput
    Coefficient <- MCCoefficient
INVARIANT SharingsHold
CHECK_DEADLOCK FALSE
