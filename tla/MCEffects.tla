------------------------------ MODULE MCEffects ------------------------------
(* Bytes of two bits, words of four bytes, instructions of two.            *)
EXTENDS Effects

(* Three instructions: two integer sources, a floating-point source and    *)
(* destination, and one with no operand.                                   *)
ThreeInstructions == <<1, 6, 11>>
SmallIsa ==
    [op \in [0..1 -> {0, 1}] |->
        CASE op[1] = 0 /\ op[0] = 0 -> [Src |-> <<0, 1>>, Dst |-> <<1>>]
          [] op[1] = 0 /\ op[0] = 1 -> [Src |-> <<4, 0>>, Dst |-> <<5>>]
          [] OTHER -> [Src |-> <<>>, Dst |-> <<>>]]

Fault(class, what, v, n) ==
    [class |-> class, type |-> "Inst", timing |-> 1, what |-> what, value |-> v,
     thread |-> "all", where |-> "all", occ |-> n, tcontext |-> 0,
     extra |-> CASE class = "RegisterInjectedFault" -> [kind |-> "int", reg |-> 1]
                 [] class = "RegisterDecodingInjectedFault" ->
                        [side |-> "Src", operand |-> 1, reg |-> 2]
                 [] OTHER -> 0]

(* What final_create_exp.c and faults_generator.py can write. *)
Generated ==
    FillFaults("GeneralFetchInjectedFault", 4, 0) \cup
    FillFaults("IEWStageInjectedFault", 8, 0) \cup
    FillFaults("LoadStoreInjectedFault", 8, 0) \cup
    FillFaults("PCInjectedFault", 8, 0) \cup
    FillFaults("RegisterInjectedFault", 8, [kind |-> "float", reg |-> 0]) \cup
    UNION {FillFaults("RegisterDecodingInjectedFault", 1, x) : x \in FillRegdec({2, 3})}

(* Hand-written ones: every way to alter, striking once, twice or always.  *)
Handwritten ==
    {Fault(class, w[1], w[2], n) :
        class \in CpuClasses \cup O3Classes, n \in 0..2,
        w \in {<<"Immd", 178>>, <<"Mask", 141>>, <<"Flip", 7>>, <<"All", 0>>, <<"All", 1>>}}

(* Two lines; the first may name a class without a queue or no class, as   *)
(* the report's ExecutionInjectedFault is.                                 *)
Two ==
    {<<Fault(c, "Flip", 3, 1), Fault(d, "Flip", 2, n)>> :
        c \in Classes \cup {"ExecutionInjectedFault"}, d \in O3Classes, n \in 1..2}

OneOrTwo == {<<f>> : f \in Generated \cup Handwritten} \cup Two

OpcodeFault == {<<Fault("OpCodeInjectedFault", "Flip", 1, 1)>>}

=============================================================================
