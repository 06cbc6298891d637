SPECIFICATION Spec
CONSTANTS
    Threads = {th1}
    Tensors = {x, y}
    Addrs = {a1, a2, a3}
    Bufs = {b1, b2, b3}
    Values = {v1, v2}
    Bundles = {m}
    MaxOutputs = 1
    PassThrough = TRUE
    NULL = NULL
    Uninit = Uninit
    Debug = FALSE
    Breakable = {}
CHECK_DEADLOCK FALSE
INVARIANT HoldsLastWritten
