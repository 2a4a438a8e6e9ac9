SPECIFICATION Spec
CONSTANTS
    Writers = {w1, w2}
    Updaters = {u1}
    Readers = {r1}
    Hooks = {h1, h2}
    Nobody = nobody
    MaxPolicies = 2
    MaxRuntime = 2
    Chunks = 2
SYMMETRY Symmetry
CONSTRAINT OneTrouble
INVARIANTS
    IInv
    RefillUsesOneLiveSnapshot
    HooksUseLiveSnapshots
    LookupsFollowAcknowledgedPolicies
    RefillDeliversAcknowledgedPolicy
    UnwokenStaleReaderIsExplained
PROPERTIES
    DocumentsMoveForward
    ImplementsConfigStream
