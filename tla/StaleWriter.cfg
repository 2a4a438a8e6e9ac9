SPECIFICATION Spec
CONSTANTS
    Writers = {w1, w2}
    Updaters = {u1}
    Readers = {r1}
    Hooks = {h1}
    Nobody = nobody
    MaxPolicies = 2
    MaxRuntime = 1
    Chunks = 2
SYMMETRY Symmetry
INVARIANT StaleWriterRejected
