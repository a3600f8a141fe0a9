CONSTANTS
    e1 = e1
    e2 = e2
    e3 = e3
    Workers = {w1, w2}
    Lists <- TwoLists
    Empty = Empty
    NoOne = NoOne
    Setups <- AllSetups
SPECIFICATION Spec
INVARIANTS TypeOK AtMostOnce Accounted EmptyRunsBounded OwnOutput
PROPERTIES AllRun SurvivorsFinish
CHECK_DEADLOCK FALSE
