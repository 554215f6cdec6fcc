CONSTANTS
    BaseDelay = 1
    MaxDelay = 1
    StableResetAfter = 1
    GracePeriod = 1
    MaxAttempts = 1
    Runners = {r1}
    Sessions = {s1, s2}
    CommandKinds = {"retry"}
    MayUnload = TRUE
    None = None
SPECIFICATION FairSpec
INVARIANTS
    UnloadReleases
PROPERTIES
    UnloadEnds
    OutageIsShown
    GetsReady
