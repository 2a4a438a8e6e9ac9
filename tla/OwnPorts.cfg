SPECIFICATION Spec
CONSTANTS
    Sockets <- ThreeSockets
    Ways = 1
    PendingTTL = 2
    SnapshotTTL = 6
    Reconcile = 3
    PortDelay = 2
    DiagDelay = 1
    ConfigDelay = 2
    SlowHooks = TRUE
    MaxPublishes = 1
    MaxFailures = 1
CONSTRAINT OneTrouble
INVARIANTS
    
    StalenessIsBounded
