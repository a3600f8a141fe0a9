CONSTANTS
    Handouts <- OpcodeFault
    PythonBits = 0
    ByteBits = 2
    WordBytes = 4
    Archs = {"alpha"}
    Program <- ThreeInstructions
    OpcodeBits = 2
    InstSet <- SmallIsa
    FP_Reg_Base = 4
    Operands = {0, 105}
    MaxExecuted = 3
SPECIFICATION Spec
INVARIANTS OpcodeOnly
CHECK_DEADLOCK FALSE
