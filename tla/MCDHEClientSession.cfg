CONSTANTS
    BaseDelay = 1
    MaxDelay = 2
    StableResetAfter = 1
    GracePeriod = 2
    MaxAttempts = 2
    Runners = {r1}
    Sessions = {s1, s2, s3}
    CommandKinds = {"retry", "once", "repair", "reauth"}
    MayUnload = FALSE
    None = None
SPECIFICATION Spec
INVARIANTS
    OnlyCurrentSessionLives
    OutageIsTimed
    ReadyIsTrue
PROPERTIES
    FlappingKeepsBackoff
    GraceRunsFromFirstLoss
