SPECIFICATION Spec
CONSTANTS
    i1 = i1
    i2 = i2
    i3 = i3
    Instances <- ThreeInstances
    Faults = {"library", "version"}
    Careless = {"closeAgain", "useProbe"}
    MaxProbes = 2
    MaxPanels = 2
    MaxStray = 2
INVARIANTS
    TypeOK
    RefsMatchHandles
    LoadedWhileHeld
    NothingHeldNothingLoaded
PROPERTIES
    OnlyLastCloseReachesUnloaded
