CONSTANTS
    Threads = {"t1", "t2"}
    ThreadId <- Ids
    Cores = {"cpu0", "cpu1"}
    Faults = {"f1", "f2", "f3"}
    Addrs = {1}
    Setups <- AddrSetups
SPECIFICATION Spec
PROPERTIES InstructionCompletes
CHECK_DEADLOCK FALSE
