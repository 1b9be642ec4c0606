SPECIFICATION MeaningSpec
CONSTANTS
    PartyCnt = 3
    T = 1
    Inputs <- SecretAndRandomness
    Var = {u, v}
    Reassigned = FALSE
    GivenNames = {}
    MaxSteps = 4
    MaxBuilds = 1
    FieldSize = 7
    Samples = {1, 2}
    Input <- MCInput
    Coefficient <- MCCoefficient
INVARIANTS
    TypeOK
    NeverThrows
    NamesUnique
    SharingsHold
    OutputsOpen
    BuiltGraphFits
    EveryRandomnessOnce
    GraphHoldsProgram
SYMMETRY AnyVariable
CHECK_DEADLOCK FALSE
