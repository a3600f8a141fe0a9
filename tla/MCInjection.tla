----------------------------- MODULE MCInjection -----------------------------
(* Instances of Injection for TLC. *)
EXTENDS Injection

Ids == [t \in Threads |-> IF t = "t1" THEN "0" ELSE "1"]

Fault(s, ty, at, th, wh, n) ==
    [stage |-> s, type |-> ty, timing |-> at, thread |-> th, where |-> wh, occ |-> n]

Nowhere == Fault("main", "Addr", 9, "all", "all", 1)
Three(x, y, z) == [f \in {"f1", "f2", "f3"} |-> CASE f = "f1" -> x [] f = "f2" -> y [] OTHER -> z]
Pair(x, y) == Three(x, y, Nowhere)

(* Two faults of one stage, for all threads and cores: transient,          *)
(* intermittent and permanent ones, due together or one after the other.   *)
StageFiles ==
    {Pair(Fault(s, "Inst", a, "all", "all", m), Fault(s, "Inst", b, "all", "all", n)) :
        s \in Stages, a \in 1..2, b \in 2..3, m \in 0..2, n \in 1..2}

(* A fault for one thread, one core or both, behind or before another one. *)
TargetFiles ==
    {Pair(Fault(s, "Inst", a, th, wh, n), Fault(s, "Inst", 1, "1", "all", 0)) :
        s \in {"fetch", "iew"}, a \in 1..2, th \in {"all", "0"},
        wh \in {"all", "cpu0"}, n \in 0..2}

(* Tick-timed faults before and between instruction-timed ones. *)
TickFiles ==
    {Pair(Fault("fetch", "Tick", a, "all", "all", m), Fault("fetch", ty, b, "all", "all", 1)) :
        a \in 1..3, b \in 1..3, m \in 0..1, ty \in {"Inst", "Tick"}}

(* One that is missed hides another, which is missed then and hides a      *)
(* third one from a thread that the first does not concern.                *)
ShadowFiles ==
    {Three(x, Fault("fetch", "Inst", a, "all", "all", m), Fault("fetch", "Inst", b, "all", "all", 1)) :
        x \in {Fault("fetch", "Tick", 1, "0", "all", 1), Fault("fetch", "Inst", 0, "0", "all", 1),
               Fault("fetch", "Tick", 3, "0", "all", 1)},
        a \in 1..2, b \in 2..3, m \in 0..1}

AddrFiles == {Pair(Fault("fetch", "Addr", 1, "all", "all", 0),
                   Fault("iew", "Addr", 2, "all", "all", 1))}

Setup(files, threads, cores, classes, metadata, instrs, ticks) ==
    {[file |-> f, threads |-> threads, cores |-> cores, classes |-> classes,
      metadata |-> metadata, instrs |-> instrs, ticks |-> ticks] : f \in files}

AllSetups ==
    Setup(StageFiles, {"t1"}, {"cpu0"}, {"op", "mem", "other"}, BOOLEAN, 4, 1) \cup
    Setup(TargetFiles, {"t1", "t2"}, {"cpu0", "cpu1"}, {"op"}, {FALSE}, 3, 1) \cup
    Setup(TickFiles, {"t1"}, {"cpu0"}, {"op"}, {FALSE}, 3, 20) \cup
    Setup(ShadowFiles, {"t1", "t2"}, {"cpu0"}, {"op"}, {FALSE}, 3, 20)

AddrSetups == Setup(AddrFiles, {"t1"}, {"cpu0"}, {"op"}, {FALSE}, 3, 1)

=============================================================================
