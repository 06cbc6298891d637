SPECIFICATION Spec
CONSTANTS
    Threads = {th1, th2}
    Tensors = {x, y}
    Addrs = {a1, a2, a3}
    Bufs = {b1, b2}
    Values = {v1}
    Bundles = {m}
    MaxOutputs = 2
    PassThrough = TRUE
    NULL = NULL
    Uninit = Uninit
    Debug = TRUE
    Breakable = {"noData"}
CHECK_DEADLOCK FALSE
SYMMETRY Symmetry
INVARIANTS
    RacesNeedForwarding
    ViewsAlive
    OnlyOutputsLeak
    OutputsByPosition
    OutputTensorsReadable
