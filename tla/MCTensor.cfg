SPECIFICATION TensorSpec
CONSTANTS
    Threads = {th1, th2}
    Tensors = {x, y}
    Addrs = {a1, a2, a3}
    Bufs = {b1, b2, b3}
    Values = {v1, v2}
    NULL = NULL
    Uninit = Uninit
    Debug = FALSE
    Breakable = {"overlap", "afterClose", "noData"}
CHECK_DEADLOCK FALSE
SYMMETRY Symmetry
INVARIANTS
    TensorTypeOK
    FaultsAreClientFaults
    HoldsLastWritten
    ViewsAlive
    NoLeak
