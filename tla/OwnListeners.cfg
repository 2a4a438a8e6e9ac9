SPECIFICATION Spec
CONSTANTS
    Sockets <- OneSocket
    Ways = 2
    PendingTTL = 8
    SnapshotTTL = 30
    Reconcile = 15
    PortDelay = 2
    DiagDelay = 1
    ConfigDelay = 2
    SlowHooks = FALSE
    MaxPublishes = 0
    MaxFailures = 0
INVARIANT OwnListenersBypassRules
