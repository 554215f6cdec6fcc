CONSTANTS
    Callers = {c1, c2}
    MinTemp = 1
    MaxTemp = 3
    Jumper = 2
    MaxReports = 1
    MaxMoves = 1
    Initial <- DeviceStates
    None = None
SPECIFICATION HeatingSpec
SYMMETRY Symmetry
INVARIANTS
    ShownIsReported
PROPERTIES
    SafeSetpoint
    EntitiesAreLive
CHECK_DEADLOCK FALSE
