CONSTANTS
    f1 = f1
    f2 = f2
    f3 = f3
    Faults = {f1, f2, f3}
    MaxTiming = 2
    NULL = NULL
    Wild = Wild
    Fresh = {NULL}
SPECIFICATION Spec
INVARIANTS NeverCrashes LinksAgree EnteredAscending
PROPERTIES ResetTerminates ImplementsList
CHECK_DEADLOCK FALSE
