CONSTANTS
    Threads = {"t1", "t2"}
    ThreadId <- Ids
    Cores = {"cpu0", "cpu1"}
    Faults = {"f1", "f2", "f3"}
    Addrs = {0}
    Setups <- AllSetups
SPECIFICATION Spec
INVARIANTS TypeOK TotalsAgree  AtMostOccurrences 
PROPERTIES InstructionCompletes
CHECK_DEADLOCK FALSE
