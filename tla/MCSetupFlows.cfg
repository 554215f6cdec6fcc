CONSTANTS
    d1 = d1
    d2 = d2
    wlan1 = wlan1
    bluetooth1 = bluetooth1
    wlan2 = wlan2
    Devices = {d1, d2}
    Targets = {t1, t2}
    Ids = {wlan1, bluetooth1, wlan2}
    Owner <- MCOwner
    Entries = {e1, e2}
    Flows = {f1, f2}
    MaxMoves = 2
    None = None
SYMMETRY NameSymmetry
SPECIFICATION SetupSpec
INVARIANTS
    OneEntryPerId
PROPERTIES
    OnlyRacesClash
    RetargetsItsOwn
CHECK_DEADLOCK FALSE
