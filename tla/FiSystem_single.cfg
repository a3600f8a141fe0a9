CONSTANTS
    c1 = c1
    c2 = c2
    p1 = p1
    p2 = p2
    p3 = p3
    Cpus = {c1}
    Pcbs = {p1, p2, p3}
    Inputs = {{}, {"fetch", "loadstore"}, {"decode", "iew"}}
    Requests = {"START", "PAUSE", "STOP", "DUMP"}
    Disciplined = TRUE
    Arch = "alpha"
    Core = "o3"
    MaxThreads = 3
    UIntMod = 8
SYMMETRY Symmetric
SPECIFICATION Spec
INVARIANTS NeverFails EnableCounts
CHECK_DEADLOCK FALSE
