SPECIFICATION MeaningSpec
CONSTANTS
    PartyCnt = 3
    T = 1
    Inputs <- SecretAndRandomness
    Var = {u, v}
    Reassigned = FALSE
    GivenNames = {}
    MaxSteps = 2
    MaxBuilds = 2
    FieldSize = 7
    Samples = {1, 2}
    Input <- MCInput
    Coefficient <- MCCoefficient
INVARIANT BuildsAgree
CHECK_DEADLOCK FALSE
