------------------------------ MODULE FaultFile ------------------------------
(***************************************************************************)
(* The input file of faults: the programs that write it and the reader,    *)
(* Fi_System::getFromFile with the constructors of the fault classes.  The *)
(* reader takes white-space separated tokens from a C++ stream whose state *)
(* it tests only between faults, so what it makes of a file depends on     *)
(* where the stream fails.  A token is a record [kind, val]; a token of    *)
(* kind "when" or "what" is a keyword, a colon and a number, one of kind   *)
(* "regdec" an operand of an instruction, a colon and a register.          *)
(***************************************************************************)
EXTENDS Naturals, Sequences, Functions

CONSTANTS
    Handouts,  \* files run.sh hands out or made by hand: the faults of their lines
    PythonBits \* the bits the Python generator draws from

VARIABLES
    input,   \* the file: [tokens, newline (a final one), meant]
    rest,    \* the tokens of it that are still in the stream
    good,    \* os.good()
    check,   \* the variable check of getFromFile, which keeps its value
    faults,  \* the faults constructed that are in a queue, oldest first
    rejected \* an assertion of a constructor has failed

fileVars == <<input, rest, good, check, faults, rejected>>

Token(k, v) == [kind |-> k, val |-> v]

(* A variable the stream wrote nothing to: an empty string, or an integer  *)
(* whose value is whatever the stack held.                                 *)
Unread == Token("unread", 0)

CpuClasses == {"PCInjectedFault", "RegisterInjectedFault"}
BaseClasses == {"InjectedFault", "CPUInjectedFault", "O3CPUInjectedFault"}
O3Classes == {"GeneralFetchInjectedFault", "OpCodeInjectedFault",
              "IEWStageInjectedFault", "LoadStoreInjectedFault",
              "RegisterDecodingInjectedFault"}
Classes == CpuClasses \cup BaseClasses \cup O3Classes

Queueing == CpuClasses \cup O3Classes

---------------------------------------------------------------------------
(* The writers.  A fault is a record [class, type, timing, what, value,    *)
(* thread, where, occ, tcontext, extra]; the file may name classes that    *)
(* the reader does not know.  All0 and All1 are All with the values 0, 1.  *)
WellFormed(f) ==
    /\ f = [class |-> f.class, type |-> f.type, timing |-> f.timing, what |-> f.what,
            value |-> f.value, thread |-> f.thread, where |-> f.where, occ |-> f.occ,
            tcontext |-> f.tcontext, extra |-> f.extra]
    /\ f.what \in {"Immd", "Mask", "Flip", "All"}
    /\ f.value \in Nat /\ (f.what = "All" => f.value \in {0, 1})
    /\ f.occ \in Nat
    /\ f.thread \notin Classes /\ f.where \notin Classes
    /\ f.class = "RegisterInjectedFault" => f.extra \in [kind : {"int", "float"}, reg : Nat]
    /\ f.class = "RegisterDecodingInjectedFault" =>
        f.extra \in [side : {"Src", "Dst"}, operand : Nat, reg : Nat]
    /\ f.class \notin {"RegisterInjectedFault", "RegisterDecodingInjectedFault"} => f.extra = 0

ASSUME FileAssumption ==
    /\ PythonBits \in Nat
    /\ \A fs \in Handouts : fs \in Seq(Range(fs)) /\ \A i \in DOMAIN fs : WellFormed(fs[i])

Line(f) ==
    <<Token("word", f.class), Token("when", [type |-> f.type, at |-> f.timing]),
      Token("what", [type |-> f.what, value |-> f.value]),
      Token("word", f.thread), Token("word", f.where), Token("num", f.occ)>>

(* print_faults of the experiment generator. *)
PrintFault(f) ==
    Line(f) \o <<Token("num", f.tcontext)>> \o
    CASE f.class = "RegisterInjectedFault" ->
            <<Token("regtype", f.extra.kind), Token("num", f.extra.reg)>>
      [] f.class = "RegisterDecodingInjectedFault" -> <<Token("regdec", f.extra)>>
      [] OTHER -> <<>>

(* Its fill_faults: bit is drawn from 0..range-1, incremented, and         *)
(* incremented again when it is printed.                                   *)
FillFaults(class, range, extra) ==
    {[class |-> class, type |-> "Inst", timing |-> 1, what |-> "Flip",
      value |-> bit + 2, thread |-> "all", where |-> "all", occ |-> 1,
      tcontext |-> 0, extra |-> extra] : bit \in 0..(range - 1)}

(* fill_regdec_faults, for the registers regs. *)
FillRegdec(regs) ==
    {[side |-> "Src", operand |-> n, reg |-> r] : n \in 0..1, r \in regs} \cup
    {[side |-> "Dst", operand |-> 0, reg |-> r] : r \in regs}

(* The tokens of the file from each line on. *)
Text(fs) ==
    LET from[n \in 1..(Len(fs) + 1)] ==
            IF n > Len(fs) THEN <<>> ELSE PrintFault(fs[n]) \o from[n + 1]
    IN from

(* The faults of its first n lines that enter a queue. *)
Meant(fs) ==
    LET first[n \in 0..Len(fs)] ==
            IF n = 0 THEN <<>>
            ELSE IF fs[n].class \in Queueing THEN Append(first[n - 1], fs[n])
            ELSE first[n - 1]
    IN first

(* run.sh hands the simulator one line of the generated list, with         *)
(* echo -n; a file made by hand may have several lines.                    *)
Handed(fs) ==
    [tokens |-> Text(fs)[1], newline |-> FALSE, meant |-> Meant(fs)[Len(fs)]]

PythonFault(bit, n) ==
    [class |-> "GeneralFetchInjectedFault", type |-> "Inst", timing |-> 1,
     what |-> "Flip", value |-> bit, thread |-> "all", where |-> "all",
     occ |-> n, tcontext |-> 0, extra |-> 0]

PythonFaults_Twice(bits) == {PythonFault(bit, 2) : bit \in 0..(bits - 1)}
PythonFile_WithContext(f) ==
    [tokens |-> Line(f) \o <<Token("num", 0)>>, newline |-> TRUE, meant |-> <<f>>]

(* faults_generator.py: one line per file, no tcontext, a final newline.   *)
PythonFaults(bits) == {PythonFault(bit, 1) : bit \in 0..(bits - 1)}
PythonFile(f) == [tokens |-> Line(f), newline |-> TRUE, meant |-> <<f>>]

Texts == {Handed(fs) : fs \in Handouts} \cup {PythonFile(f) : f \in PythonFaults(PythonBits)}

---------------------------------------------------------------------------
(* os >> x.  Taking the last token of a file that has no final newline     *)
(* meets the end of the file and sets eofbit; on a stream that is not good *)
(* the read fails and x keeps its value.  An int takes digits only.        *)
Get(stream, type) ==
    IF ~stream.good \/ stream.rest = <<>>
    THEN [rest |-> stream.rest, good |-> FALSE, vals |-> Append(stream.vals, Unread)]
    ELSE IF type = "int" /\ Head(stream.rest).kind # "num"
    THEN [rest |-> stream.rest, good |-> FALSE, vals |-> Append(stream.vals, Token("num", 0))]
    ELSE [rest |-> Tail(stream.rest),
          good |-> Len(stream.rest) > 1 \/ input.newline,
          vals |-> Append(stream.vals, Head(stream.rest))]

(* The reads of a constructor, one after the other. *)
GetAll(stream, types) ==
    LET after[n \in 0..Len(types)] ==
            IF n = 0 THEN stream ELSE Get(after[n - 1], types[n])
    IN after[Len(types)]

Common == <<"string", "string", "string", "string", "int">>

(* What the constructors of a class read, the base classes' fields first.  *)
Fields(class) ==
    Common \o
    (IF class = "InjectedFault" THEN <<>> ELSE <<"int">>) \o
    CASE class = "RegisterInjectedFault" -> <<"string", "int">>
      [] class = "RegisterDecodingInjectedFault" -> <<"string">>
      [] OTHER -> <<>>

(* parseRegDec takes the operand's number from the fifth character on,     *)
(* which loses its first digit.                                            *)
ParseOperand(n) == IF n < 10 THEN 0 ELSE n % 10

(* The assertions of parseWhat, parseWhen, setRegType and parseRegDec.     *)
Rejects(class, vals) ==
    \/ vals[1].kind # "when"
    \/ vals[2].kind # "what"
    \/ class = "RegisterInjectedFault" /\ vals[7].kind # "regtype"
    \/ class = "RegisterDecodingInjectedFault" /\ vals[7].kind # "regdec"

Construct(class, vals) ==
    [class |-> class,
     type |-> vals[1].val.type, timing |-> vals[1].val.at,
     what |-> vals[2].val.type, value |-> vals[2].val.value,
     thread |-> vals[3].val, where |-> vals[4].val, occ |-> vals[5].val,
     tcontext |-> vals[6],
     extra |-> CASE class = "RegisterInjectedFault" ->
                        [kind |-> vals[7].val, reg |-> vals[8].val]
                 [] class = "RegisterDecodingInjectedFault" ->
                        [vals[7].val EXCEPT !.operand = ParseOperand(@)]
                 [] OTHER -> 0]

FileInit ==
    /\ input \in Texts
    /\ rest = input.tokens
    /\ good = TRUE
    /\ check = "none"
    /\ faults = <<>>
    /\ rejected = FALSE

(* One round of the loop of getFromFile: a class name, if the stream still *)
(* has a token, and the constructor of that class.  A name that is no      *)
(* class is skipped; a fault of a base class enters no queue.              *)
ReadFault ==
    /\ good /\ ~rejected
    /\ check' = IF rest = <<>> THEN check
                ELSE IF Head(rest).kind = "word" THEN Head(rest).val ELSE "other"
    /\ LET first == Get([rest |-> rest, good |-> good, vals |-> <<>>], "string")
           s == GetAll([rest |-> first.rest, good |-> first.good, vals |-> <<>>],
                       Fields(check'))
       IN IF check' \in Classes
          THEN /\ rest' = s.rest /\ good' = s.good
               /\ rejected' = Rejects(check', s.vals)
               /\ faults' = IF rejected' \/ check' \in BaseClasses THEN faults
                            ELSE Append(faults, Construct(check', s.vals))
          ELSE /\ rest' = first.rest /\ good' = first.good
               /\ UNCHANGED <<faults, rejected>>
    /\ UNCHANGED input

(* The faults are in their queues and the simulation goes on. *)
FileRead == ~good /\ ~rejected

=============================================================================
