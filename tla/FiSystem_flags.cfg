CONSTANTS
    c1 = c1
    c2 = c2
    p1 = p1
    p2 = p2
    p3 = p3
    Cpus = {c1, c2}
    Pcbs = {p1, p2, p3}
    Inputs = {{"loadstore"}}
    Requests = {"START", "STOP"}
    Disciplined = TRUE
    Arch = "alpha"
    Core = "atomic"
    MaxThreads = 3
    UIntMod = 8
SYMMETRY Symmetric
SPECIFICATION Spec
INVARIANTS LoadStoreReached
CHECK_DEADLOCK FALSE
