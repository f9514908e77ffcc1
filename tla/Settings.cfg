SPECIFICATION Spec
CONSTANTS
    i1 = i1
    i2 = i2
    Instances <- TwoInstances
    Scenarios <- SmallScenarios
    Default <- SmallDefault
    Registries <- SmallRegistries
    Typed = {0, 1, 2, 3, 5, 9}
    Matrices = {0, 3}
    Bt601 = 0
    MaxQuant = 2
    MaxBitrate = 2
    Kilo = 2
    Word = 8
SYMMETRY Symmetry
INVARIANTS
    TypeOK
    ShownIsUsed
    DeviceExists
    ValuesHaveTheirCause
    VuiTellsTheMatrix
