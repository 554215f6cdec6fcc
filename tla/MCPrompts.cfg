SPECIFICATION MCSpec
CONSTANTS
    Tokens = {t1, t2}
    MaxRetries = 3
    None = None
    Callers = {f1, f2}
    Announced <- MCAnnounced
    Scanned <- MCScanned
    Labels <- MCLabels
    DefaultPort <- MCPort
    Before <- MCBefore
    Window = 2
    Ttl = 2
    MaxRecords = 2
    MaxTime = 3
    MaxEvents = 4
    Absent = Absent
INVARIANTS
    PauseIsJust
PROPERTIES
    EstablishedIsConfirmed
    RevokedIsNotUsed
    CardsAreSpaced
SYMMETRY Symmetry
