CONSTANTS
    Callers = {c1, c2}
    Commands <- MCCommands
    Places = {here, there}
    Temps = {1, 2}
    MaxSlots = 2
    StartDevices <- MCStartDevices
    MaxDrops = 1
    MaxPackets = 4
    MaxReports = 2
    None = None
SYMMETRY CallerSymmetry
SPECIFICATION AppSpec
INVARIANTS
    HappensOnce
PROPERTIES
    TogglesAsAsked
    SuccessIsTrue
CHECK_DEADLOCK FALSE
