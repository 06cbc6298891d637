SPECIFICATION Spec
CONSTANTS
    Threads = {th1}
    Tensors = {x}
    Addrs = {a1, a2}
    Bufs = {b1, b2}
    Values = {v1}
    Bundles = {m}
    MaxOutputs = 1
    PassThrough = FALSE
    NULL = NULL
    Uninit = Uninit
    Debug = TRUE
    Breakable = {}
CHECK_DEADLOCK FALSE
INVARIANT TrainAssertHolds
