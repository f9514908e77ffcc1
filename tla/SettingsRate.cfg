SPECIFICATION Spec
CONSTANTS
    i1 = i1
    i2 = i2
    Instances <- OneInstance
    Scenarios <- RateScenario
    Default <- SmallDefault
    Registries <- EmptyRegistry
    Typed = {0, 1, 2, 3, 5, 9}
    Matrices = {0, 3}
    Bt601 = 0
    MaxQuant = 2
    MaxBitrate = 2
    Kilo = 2
    Word = 8
INVARIANTS
    UnsentIsDefault
