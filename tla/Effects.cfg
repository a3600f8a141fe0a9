CONSTANTS
    Handouts <- OneOrTwo
    PythonBits = 4
    ByteBits = 2
    WordBytes = 4
    Archs = {"alpha", "x86"}
    Program <- ThreeInstructions
    OpcodeBits = 2
    InstSet <- SmallIsa
    FP_Reg_Base = 4
    Operands = {0, 105}
    MaxExecuted = 3
SPECIFICATION Spec
INVARIANTS TypeOK  ContextWasRead  DecodesAsFetched DamageContained RegisterKindKept
CHECK_DEADLOCK FALSE
