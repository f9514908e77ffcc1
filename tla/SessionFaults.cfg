SPECIFICATION Spec
CONSTANTS
    Faults <- RoughFaults
    Careless <- CarelessMoves
    IDRPeriods = {2}
    MaxFrame = 1
    MaxSize = 1
    MaxSets = 0
    SetHeader = 1
INVARIANTS
    TypeOK
    StartedOwnsEncoder
    MisuseAttributed
