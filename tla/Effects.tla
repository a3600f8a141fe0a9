------------------------------- MODULE Effects -------------------------------
(***************************************************************************)
(* What faults do when they strike: the process() methods of the fault     *)
(* classes, the hooks that call them and the decode cache of the simulated *)
(* processor, composed with the reader of the fault file (FaultFile) and   *)
(* the alteration of a value (Manifest).  When a fault strikes is the      *)
(* subject of the modules Injection and FaultQueue; here any fault that a  *)
(* hook can find may strike at any of its calls.  Of x86, whose            *)
(* instructions have no fixed width, only the hooks on values are modelled.*)
(***************************************************************************)
EXTENDS FaultFile, Manifest, FiniteSets

CONSTANTS
    Archs,      \* the architectures simulated: "alpha", "x86"
    Program,    \* the instruction at each address, a number
    OpcodeBits, \* bits of the opcode, the topmost ones of an instruction
    InstSet,    \* opcode -> the registers of its sources and destinations
    FP_Reg_Base,\* the registers from here on are floating-point ones
    Operands,   \* the numbers operands are taken from
    MaxExecuted \* bound: instructions executed

ASSUME EffectsAssumption ==
    /\ WordBytes > 1 /\ OpcodeBits \in 0..(ByteBits * (WordBytes \div 2))
    /\ InstSet \in [[0..(OpcodeBits - 1) -> {0, 1}] -> [{"Src", "Dst"} -> Seq(Nat)]]
    /\ FP_Reg_Base \in Nat /\ MaxExecuted \in Nat /\ Operands \subseteq Nat
    /\ \A a \in DOMAIN Program : Program[a] \in Nat

VARIABLES
    arch,      \* the architecture the simulator is built for
    stage,     \* what the processor does next with the instruction
    cur,       \* [addr, inst]: the instruction, as fetched or altered
    pages,     \* decodePages: address -> the instruction decoded there last
    instMap,   \* DecodeCache::instMap: instruction -> its StaticInst
    later,     \* the faults rescheduled, to be found again from the next one on
    hits,      \* history: decode faults that struck each StaticInst
    operand,   \* [hook, type, value]: a value in the hands of a hook
    struck,    \* the strike just made, or NoStrike
    executed,  \* instructions executed
    failed     \* "none", or what stopped the simulator

cpuVars == <<arch, stage, cur, pages, instMap, later, hits, operand, struck,
             executed, failed>>
vars == <<fileVars, cpuVars>>

InstBytes == WordBytes \div 2
Width(type) == CASE type \in {"bool", "u8"} -> 1
                 [] type = "u32" -> InstBytes
                 [] type \in {"u64", "double"} -> WordBytes

(* The types of the values each hook is called with. *)
Types == [main |-> {"u64", "double"},
          iew |-> {"bool", "u32", "u64", "double"},
          lds |-> {"u8", "u32", "u64"}]

(* The hook whose queue the constructor of a class enters the fault in. *)
Queue(class) ==
    CASE class \in {"GeneralFetchInjectedFault", "OpCodeInjectedFault"} -> "fetch"
      [] class = "RegisterDecodingInjectedFault" -> "decode"
      [] class = "IEWStageInjectedFault" -> "iew"
      [] class = "LoadStoreInjectedFault" -> "lds"
      [] class \in CpuClasses -> "main"

FlatBit(v, k) == v[k \div ByteBits][k % ByteBits]
Opcode(inst) == [k \in 0..(OpcodeBits - 1) |->
                    FlatBit(inst, Bits(InstBytes) - OpcodeBits + k)]

(* Decoder::decodeInst, generated from the description of the ISA. *)
decodeInst(inst) == InstSet[Opcode(inst)]

NoStrike == [hook |-> "none"]

Init ==
    /\ FileInit
    /\ arch \in Archs
    /\ stage = "fetch"
    /\ cur = [addr |-> 0, inst |-> Bytes(0, InstBytes)]
    /\ pages = <<>>
    /\ instMap = <<>>
    /\ later = <<>>
    /\ hits = <<>>
    /\ operand = [hook |-> "none"]
    /\ struck = NoStrike
    /\ executed = 0
    /\ failed = "none"

Running == FileRead /\ failed = "none"

---------------------------------------------------------------------------
(* check4reschedule: the last occurrence leaves the queue, another one is  *)
(* due at the next instruction; to reschedule it the method looks the      *)
(* context tcontext up, which is out of range for some values of a         *)
(* variable that was never read.  The occurrences of a permanent fault go  *)
(* below 0, which is kept as 0.                                            *)
Reschedule(i, f) ==
    /\ faults' = SubSeq(faults, 1, i - 1) \o SubSeq(faults, i + 1, Len(faults))
    /\ IF f.occ = 1
       THEN failed' = "none" /\ UNCHANGED later
       ELSE /\ later' = Append(later, [f EXCEPT !.occ = IF @ = 0 THEN 0 ELSE @ - 1])
            /\ \/ failed' = "none"
               \/ f.tcontext = Unread /\ failed' = "context"

Stop(why) == failed' = why /\ UNCHANGED <<faults, later>>

Keep == UNCHANGED <<arch, input, rest, good, check, rejected>>

Fetch(a) ==
    /\ Running /\ stage = "fetch" /\ executed < MaxExecuted
    /\ arch = "alpha"
    /\ cur' = [addr |-> a, inst |-> Bytes(Program[a], InstBytes)]
    /\ stage' = "fetched"
    /\ struck' = NoStrike
    /\ UNCHANGED <<fileVars, arch, pages, instMap, later, hits, operand, executed, failed>>

(* fetch_fault: the call of process is bound to GeneralFetchInjectedFault, *)
(* for process is not virtual, whatever the class of the fault is.         *)
StrikeFetch(i) ==
    LET f == faults[i] IN
    /\ Running /\ stage = "fetched" /\ Queue(f.class) = "fetch"
    /\ cur' = [cur EXCEPT !.inst = manifest(@, InstBytes, f.value, f.what)]
    /\ struck' = [hook |-> "fetch", type |-> "u32", fault |-> f,
                  before |-> cur.inst, after |-> cur'.inst]
    /\ Reschedule(i, f)
    /\ Keep
    /\ UNCHANGED <<stage, pages, instMap, hits, operand, executed>>

Extend(f, x, v) == [y \in DOMAIN f \cup {x} |-> IF y = x THEN v ELSE f[y]]

PageHit_AnyInst(a, inst) == a \in DOMAIN pages
PageHit(a, inst) == a \in DOMAIN pages /\ pages[a] = inst

(* BasicDecodeCache::decode.  A page holds a pointer to an entry of        *)
(* instMap; both levels outlive the instruction.                           *)
Decode ==
    /\ Running /\ stage = "fetched"
    /\ LET a == cur.addr
           inst == cur.inst
       IN IF PageHit(a, inst)
          THEN UNCHANGED <<pages, instMap, hits>>
          ELSE /\ pages' = Extend(pages, a, inst)
               /\ IF inst \in DOMAIN instMap
                  THEN UNCHANGED <<instMap, hits>>
                  ELSE /\ instMap' = Extend(instMap, inst, decodeInst(inst))
                       /\ hits' = Extend(hits, inst, 0)
    /\ stage' = "decoded"
    /\ struck' = NoStrike
    /\ UNCHANGED <<fileVars, arch, cur, later, operand, executed, failed>>

DestinationReg_NotMoved(f, reg) == f.extra.reg

(* The register the operand becomes: a floating-point operand shifts the   *)
(* register of the fault, for good, by FP_Reg_Base.                        *)
DestinationReg(f, reg) ==
    IF reg >= FP_Reg_Base THEN f.extra.reg + FP_Reg_Base ELSE f.extra.reg

StrikeDecode_OtherOperand(i) ==
    LET f == faults[i]
        inst == pages[cur.addr]
        regs == instMap[inst][f.extra.side]
    IN
    /\ Running /\ stage = "decoded" /\ Queue(f.class) = "decode"
    /\ regs # <<>>
    /\ instMap' = [instMap EXCEPT ![inst][f.extra.side] =
                        [k \in DOMAIN regs |-> DestinationReg(f, regs[k])]]
    /\ hits' = [hits EXCEPT ![inst] = @ + 1]
    /\ Reschedule(i, f)
    /\ Keep
    /\ UNCHANGED <<stage, cur, pages, operand, struck, executed>>

(* decode_fault: process alters the StaticInst the cache holds.  On an     *)
(* instruction that has no such operand it divides by zero.                *)
StrikeDecode(i) ==
    LET f == faults[i]
        inst == pages[cur.addr]
        regs == instMap[inst][f.extra.side]
        at == (f.extra.operand % Len(regs)) + 1
        reg == DestinationReg(f, regs[at])
    IN
    /\ Running /\ stage = "decoded" /\ Queue(f.class) = "decode"
    /\ IF regs = <<>>
       THEN Stop("division") /\ UNCHANGED <<instMap, hits>>
       ELSE /\ instMap' = [instMap EXCEPT ![inst][f.extra.side][at] = reg]
            /\ hits' = [hits EXCEPT ![inst] = @ + 1]
            /\ Reschedule(i, [f EXCEPT !.extra.reg = reg])
    /\ Keep
    /\ UNCHANGED <<stage, cur, pages, operand, struck, executed>>

(* A hook on values is called: main_fault before an instruction is         *)
(* fetched, iew_fault and lds_fault when it executes.  A hook whose queue  *)
(* is empty changes nothing.                                               *)
Operand(hook, type, x) ==
    /\ Running /\ executed < MaxExecuted
    /\ stage = IF hook = "main" \/ arch = "x86" THEN "fetch" ELSE "decoded"
    /\ \E i \in DOMAIN faults : Queue(faults[i].class) = hook
    /\ operand' = [hook |-> hook, type |-> type,
                   value |-> Bytes(IF type = "bool" THEN x % 2 ELSE x, Width(type))]
    /\ stage' = "operand"
    /\ struck' = NoStrike
    /\ UNCHANGED <<fileVars, arch, cur, pages, instMap, later, hits, executed,
                   failed>>

Corrects(f, type) ==
    \/ f.class = "LoadStoreInjectedFault"
    \/ f.class = "IEWStageInjectedFault" /\ type \notin {"bool", "u64"}

(* The templates move a bit beyond the structure into it, for good; the    *)
(* overloads for bool and uint64_t, the register and PC faults do not.     *)
Corrected(f, type) ==
    LET bits == Bits(Width(type)) IN
    IF f.what = "Flip" /\ f.value > bits /\ Corrects(f, type)
    THEN [f EXCEPT !.value = (@ % bits) + 1] ELSE f

(* A branch condition is inverted.  On x86 lds_fault is given the address  *)
(* of the value and its result is dropped.                                 *)
Altered(f, op) ==
    CASE op.hook = "iew" /\ op.type = "bool" ->
            [op.value EXCEPT ![0][0] = 1 - @]
      [] op.hook = "lds" /\ arch = "x86" -> op.value
      [] OTHER -> manifest(op.value, Width(op.type), f.value, f.what)

(* The process() methods of the register, PC, IEW and load/store faults.   *)
(* A uint32_t is a MachInst of Alpha, so lds_fault selects the overload of *)
(* process that only asserts.                                              *)
StrikeOperand(i) ==
    LET type == IF operand.hook = "lds" /\ arch = "x86" THEN "u64" ELSE operand.type
        f == Corrected(faults[i], type)
    IN
    /\ Running /\ stage = "operand" /\ Queue(f.class) = operand.hook
    /\ IF operand.hook = "lds" /\ arch = "alpha" /\ operand.type = "u32"
       THEN Stop("overload") /\ UNCHANGED <<operand, struck>>
       ELSE /\ operand' = [operand EXCEPT !.value = Altered(f, operand)]
            /\ struck' = [hook |-> operand.hook, type |-> operand.type,
                          fault |-> faults[i], before |-> operand.value,
                          after |-> operand'.value]
            /\ Reschedule(i, f)
    /\ Keep
    /\ UNCHANGED <<stage, cur, pages, instMap, hits, executed>>

(* The hook's loop ends and the simulation goes on. *)
Retire ==
    /\ Running /\ stage \in {"decoded", "operand"}
    /\ stage' = "fetch"
    /\ executed' = executed + 1
    /\ faults' = faults \o later
    /\ later' = <<>>
    /\ operand' = [hook |-> "none"]
    /\ struck' = NoStrike
    /\ Keep
    /\ UNCHANGED <<cur, pages, instMap, hits, failed>>

Next ==
    \/ ReadFault /\ UNCHANGED cpuVars
    \/ \E a \in DOMAIN Program : Fetch(a)
    \/ Decode
    \/ \E i \in DOMAIN faults : StrikeFetch(i) \/ StrikeDecode(i) \/ StrikeOperand(i)
    \/ \E hook \in DOMAIN Types, x \in Operands :
        \E type \in Types[hook] : Operand(hook, type, x)
    \/ Retire

Spec == Init /\ [][Next]_vars

---------------------------------------------------------------------------
TypeOK ==
    /\ arch \in Archs
    /\ stage \in {"fetch", "fetched", "decoded", "operand"}
    /\ cur.inst \in Value(InstBytes)
    /\ DOMAIN pages \subseteq DOMAIN Program
    /\ DOMAIN hits = DOMAIN instMap
    /\ executed \in 0..MaxExecuted
    /\ failed \in {"none", "context", "division", "overload"}
    /\ operand.hook # "none" => operand.value \in Value(Width(operand.type))

(* A fault as the reader can know it: of its operand number the first      *)
(* digit is lost, and tcontext is compared elsewhere.                      *)
Meaning(f) ==
    IF f.class = "RegisterDecodingInjectedFault"
    THEN [f EXCEPT !.tcontext = 0, !.extra.operand = ParseOperand(@)]
    ELSE [f EXCEPT !.tcontext = 0]

(* getFromFile makes of every file the writers of the repository produce   *)
(* exactly the faults that were meant, no more and no fewer, and none of   *)
(* its assertions fails: although one writer ends the line with a newline  *)
(* the reader cannot stand and the other leaves a field out.               *)
ReadsAsWritten ==
    /\ ~rejected
    /\ FileRead /\ stage = "fetch" /\ executed = 0 =>
        /\ Len(faults) = Len(input.meant)
        /\ \A i \in DOMAIN faults :
            [faults[i] EXCEPT !.tcontext = 0] = Meaning(input.meant[i])

(* The field the Python writer leaves out is never used: check4reschedule  *)
(* looks a context up only for a fault that strikes again, and the faults  *)
(* without the field strike once.                                          *)
ContextWasRead == failed # "context"

(* The bit a Flip fault is to flip in a value of the type, counted from 1; *)
(* 0 where it flips none.                                                  *)
Target(f, type) ==
    LET bits == Bits(Width(type)) IN
    IF f.value <= bits THEN f.value
    ELSE IF Corrects(f, type) THEN (f.value % bits) + 1 ELSE 0

Expected(f, type, before, k) ==
    LET bit == FlatBit(before, k)
        other == Bit(f.value, k + Bits(WordBytes - Width(type)))
    IN CASE f.what = "Immd" -> other
         [] f.what = "Mask" -> (bit + other) % 2
         [] f.what = "All" -> f.value
         [] f.what = "Flip" -> IF k + 1 = Target(f, type) THEN 1 - bit ELSE bit

(* A strike changes the instruction or value as the fault file says, bit   *)
(* by bit, and no other bit: Flip inverts the one bit it names, or the bit *)
(* the correction moves it to, whatever loop over bytes does it.           *)
Manifested ==
    struck.hook # "none" /\ struck.type # "bool"
    /\ ~(struck.hook = "lds" /\ arch = "x86") =>
        \A k \in 0..(Bits(Width(struck.type)) - 1) :
            FlatBit(struck.after, k) =
                Expected(struck.fault, struck.type, struck.before, k)

(* The processor executes the instruction that was fetched, as the fault   *)
(* left it: an instruction altered once by a fetch fault stays in the      *)
(* decode cache, but never stands for the unaltered one at its address.    *)
DecodesAsFetched == stage = "decoded" => pages[cur.addr] = cur.inst

Altered_Positions(inst, side) ==
    {k \in DOMAIN instMap[inst][side] :
        instMap[inst][side][k] # decodeInst(inst)[side][k]}

(* A decode fault writes into the cached instruction, which all later      *)
(* executions share.  The damage is confined: an instruction no decode     *)
(* fault struck is decoded as the ISA says, and each strike alters at most *)
(* one operand.                                                            *)
DamageContained ==
    \A inst \in DOMAIN instMap :
        Cardinality(Altered_Positions(inst, "Src"))
            + Cardinality(Altered_Positions(inst, "Dst")) <= hits[inst]

Transient(f) ==
    /\ f.occ = 1
    /\ f.class = "RegisterDecodingInjectedFault" => f.extra.reg < FP_Reg_Base

(* Faults that strike once and name a register below FP_Reg_Base, as the   *)
(* generator writes them, replace a floating-point register by a           *)
(* floating-point one and an integer register by an integer one.           *)
RegisterKindKept ==
    (\A i \in DOMAIN input.meant : Transient(input.meant[i])) =>
        \A inst \in DOMAIN instMap, side \in {"Src", "Dst"} :
            \A k \in DOMAIN instMap[inst][side] :
                instMap[inst][side][k] >= FP_Reg_Base
                    <=> decodeInst(inst)[side][k] >= FP_Reg_Base

(* opcode_injfault.hh on the class OpCodeInjectedFault: "Alter the value   *)
(* of the opcode".  So a strike of such a fault leaves the other bits of   *)
(* the instruction alone.                                                  *)
OpcodeOnly ==
    struck.hook = "fetch" /\ struck.fault.class = "OpCodeInjectedFault" =>
        \A k \in 0..(Bits(InstBytes) - OpcodeBits - 1) :
            FlatBit(struck.after, k) = FlatBit(struck.before, k)

=============================================================================
