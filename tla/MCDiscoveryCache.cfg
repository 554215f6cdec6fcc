CONSTANTS
    Observations = {o1, o2, o3}
    Readers = {r1}
    MaxFailures = 2
    Nil = Nil
SPECIFICATION FairDiscoverySpec
INVARIANTS
    RecordsAreKept
PROPERTIES
    ImplementsSnapshotStore
    ObservationIsSaved
