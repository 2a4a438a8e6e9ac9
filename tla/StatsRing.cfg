SPECIFICATION Spec
CONSTANTS
    Uids = {1}
    PortUids = {1}
    Points = 2
    Retention = 2
    MaxEvents = 2
    MaxCount = 2
    MaxPort = 1
    MaxSeq = 4
    MaxPoints = 4
    MaxTime = 3
    MaxBack = 2
CONSTRAINT OneTrouble
INVARIANTS
    NeverOverReports
    DeltasAddUp
    RingIsWindow
PROPERTY RetentionHolds
