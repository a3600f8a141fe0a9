CONSTANTS
    c1 = c1
    c2 = c2
    p1 = p1
    p2 = p2
    p3 = p3
    Cpus = {c1, c2}
    Pcbs = {p1, p2, p3}
    Inputs = {{}, {"main", "loadstore"}, {"fetch", "decode", "iew"}}
    Requests = {"START", "PAUSE", "STOP"}
    Disciplined = FALSE
    Arch = "x86"
    Core = "atomic"
    MaxThreads = 3
    UIntMod = 8
SYMMETRY Symmetric
SPECIFICATION Spec
INVARIANTS TypeOK CacheCoherent NeverFails EnabledIffStarted OneSwitch
CHECK_DEADLOCK FALSE
