------------------------------ MODULE FiSystem ------------------------------
(***************************************************************************)
(* Activation of fault injection: class Fi_System and the places of the    *)
(* simulator that consult it.  A program activates injection for its own   *)
(* process with the pseudo-instruction fi_activate_inst; the process is    *)
(* identified by its process control block (PCB), whose address the        *)
(* operating system writes into a processor register at every context      *)
(* switch.  fi_activation maps PCBs to ThreadEnabledFault objects, and     *)
(* every hardware context caches what the map says of the process it runs. *)
(* One simulator thread executes all of this, so every handler is one      *)
(* action; the interleaving is that of the simulated processors.           *)
(***************************************************************************)
EXTENDS Integers, FiniteSets

CONSTANTS
    Cpus,        \* the hardware contexts (one ThreadContext per core)
    Pcbs,        \* the processes the simulated system schedules
    Inputs,      \* the sets of queues an input file can put faults in
    Requests,    \* the fi_activate_inst requests programs issue
    Disciplined, \* TRUE: programs PAUSE and STOP only what is started
    Arch,        \* "alpha" or "x86": whose context-switch hook is built in
    Core,        \* "atomic" or "o3": the CPU model that is simulated
    MaxThreads,  \* bound: ThreadEnabledFault objects ever created
    UIntMod      \* 2^w for the w bits of the unsigned int fi_enable

Queues == {"main", "fetch", "decode", "iew", "loadstore"}

NULL == 0

Threads == 1..MaxThreads

ASSUME FiAssumption ==
    /\ IsFiniteSet(Cpus) /\ IsFiniteSet(Pcbs)
    /\ Inputs \subseteq SUBSET Queues
    /\ Requests \subseteq {"START", "PAUSE", "STOP", "DUMP"}
    /\ Disciplined \in BOOLEAN
    /\ Arch \in {"alpha", "x86"}
    /\ Core \in {"atomic", "o3"}
    /\ MaxThreads \in Nat
    /\ UIntMod \in Nat /\ UIntMod > Cardinality(Pcbs) + 1

VARIABLES
    activation, \* fi_activation: PCB -> ThreadEnabledFault, NULL if absent
    mode,       \* ThreadEnabledFault::mode, "none" before the object exists
    created,    \* how many ThreadEnabledFault objects exist (none is freed)
    running,    \* the PCB register of each context (PALtemp23 / FS base)
    enabled,    \* ThreadContext::getEnabledFI of each context
    faulty,     \* ThreadContext::getEnabledFIThread of each context
    fi_enable,  \* the count of threads that have injection on
    flags,      \* the queues whose flag fi_main, fi_fetch, ... is true
    queued,     \* the queues that hold a fault
    switchcpu,  \* may a switch of the CPU model still be scheduled
    switches,   \* switch events scheduled so far
    failed      \* "none", or what stopped the simulator

vars == <<activation, mode, created, running, enabled, faulty, fi_enable,
          flags, queued, switchcpu, switches, failed>>

TypeOK ==
    /\ activation \in [Pcbs -> Threads \cup {NULL}]
    /\ mode \in [Threads -> {"none", "START", "PAUSE"}]
    /\ created \in 0..MaxThreads
    /\ running \in [Cpus -> Pcbs]
    /\ enabled \in [Cpus -> BOOLEAN]
    /\ faulty \in [Cpus -> Threads \cup {NULL}]
    /\ fi_enable \in 0..(UIntMod - 1)
    /\ flags \in SUBSET Queues
    /\ queued \in SUBSET Queues
    /\ switchcpu \in BOOLEAN
    /\ switches \in Nat
    /\ failed \in {"none", "assert", "null"}

(* The scheduler never runs one process on two processors. *)
Init ==
    /\ activation = [p \in Pcbs |-> NULL]
    /\ mode = [t \in Threads |-> "none"]
    /\ created = 0
    /\ running \in [Cpus -> Pcbs]
    /\ \A c, d \in Cpus : running[c] = running[d] => c = d
    /\ enabled = [c \in Cpus |-> FALSE]
    /\ faulty = [c \in Cpus |-> NULL]
    /\ fi_enable = 0
    /\ flags = {}
    /\ queued \in Inputs
    /\ switchcpu \in BOOLEAN
    /\ switches = 0
    /\ failed = "none"

---------------------------------------------------------------------------
(* A failed assertion or a null dereference ends the simulator. *)
Alive == failed = "none"

Started(p) == activation[p] # NULL /\ mode[activation[p]] = "START"

Decrement_Signed(n) == n - 1

(* fi_enable++ and fi_enable-- on an unsigned int. *)
Increment(n) == (n + 1) % UIntMod
Decrement(n) == (n + UIntMod - 1) % UIntMod

(* fi_x = fi_enable & (!queue.empty()): bitwise, so bit 0 of the count. *)
FlagsAfterStart(n) == IF n % 2 = 1 THEN queued ELSE {}

SetContext(c, b, t) ==
    /\ enabled' = [enabled EXCEPT ![c] = b]
    /\ faulty' = [faulty EXCEPT ![c] = t]

ScheduleSwitch_NotCleared ==
    /\ switchcpu' = switchcpu
    /\ switches' = IF switchcpu THEN switches + 1 ELSE switches

(* Fi_System::scheduleswitch: one event, then the option is cleared. *)
ScheduleSwitch ==
    /\ switchcpu' = FALSE
    /\ switches' = IF switchcpu THEN switches + 1 ELSE switches

---------------------------------------------------------------------------
(* Fi_System::start_fi, for the process that runs on c. *)
StartFi(c) ==
    LET p == running[c] IN
    /\ \/ /\ activation[p] = NULL
          /\ created < MaxThreads
          /\ created' = created + 1
          /\ activation' = [activation EXCEPT ![p] = created + 1]
          /\ mode' = [mode EXCEPT ![created + 1] = "START"]
          /\ SetContext(c, TRUE, created + 1)
          /\ fi_enable' = Increment(fi_enable)
          /\ flags' = FlagsAfterStart(fi_enable')
       \/ /\ activation[p] # NULL
          /\ mode[activation[p]] = "PAUSE"
          /\ mode' = [mode EXCEPT ![activation[p]] = "START"]
          /\ SetContext(c, TRUE, activation[p])
          /\ fi_enable' = Increment(fi_enable)
          /\ UNCHANGED <<activation, created, flags>>
    /\ UNCHANGED <<running, queued, switchcpu, switches, failed>>

PauseFi_NotCounted(c) ==
    LET p == running[c] IN
    /\ activation[p] # NULL
    /\ Disciplined => Started(p)
    /\ mode' = [mode EXCEPT ![activation[p]] = "PAUSE"]
    /\ SetContext(c, FALSE, NULL)
    /\ UNCHANGED <<activation, created, running, fi_enable, flags, queued,
                   switchcpu, switches, failed>>

PauseFi_LeavesEnabled(c) ==
    LET p == running[c] IN
    /\ activation[p] # NULL
    /\ Disciplined => Started(p)
    /\ mode' = [mode EXCEPT ![activation[p]] = "PAUSE"]
    /\ SetContext(c, enabled[c], NULL)
    /\ fi_enable' = Decrement(fi_enable)
    /\ UNCHANGED <<activation, created, running, flags, queued, switchcpu,
                   switches, failed>>

(* Fi_System::pause_fi: whatever mode the thread is in. *)
PauseFi(c) ==
    LET p == running[c] IN
    /\ activation[p] # NULL
    /\ Disciplined => Started(p)
    /\ mode' = [mode EXCEPT ![activation[p]] = "PAUSE"]
    /\ SetContext(c, FALSE, NULL)
    /\ fi_enable' = Decrement(fi_enable)
    /\ UNCHANGED <<activation, created, running, flags, queued, switchcpu,
                   switches, failed>>

StopFi_StaleContext(c) ==
    LET p == running[c] IN
    /\ activation[p] # NULL
    /\ Disciplined => Started(p)
    /\ activation' = [activation EXCEPT ![p] = NULL]
    /\ fi_enable' = Decrement(fi_enable)
    /\ UNCHANGED <<mode, created, running, enabled, faulty, flags, queued,
                   switchcpu, switches, failed>>

(* Fi_System::stop_fi: whatever mode the thread is in. *)
StopFi(c) ==
    LET p == running[c] IN
    /\ activation[p] # NULL
    /\ Disciplined => Started(p)
    /\ activation' = [activation EXCEPT ![p] = NULL]
    /\ SetContext(c, FALSE, NULL)
    /\ fi_enable' = Decrement(fi_enable)
    /\ UNCHANGED <<mode, created, running, flags, queued, switchcpu,
                   switches, failed>>

(* Fi_System::dump_fi: the whole map goes, but only c's context is reset. *)
DumpFi(c) ==
    /\ activation' = [p \in Pcbs |-> NULL]
    /\ SetContext(c, FALSE, NULL)
    /\ fi_enable' = 0
    /\ ScheduleSwitch
    /\ UNCHANGED <<mode, created, running, flags, queued, failed>>

(* fi_activate_inst: the request selects the handler. *)
ActivateInst(c) ==
    /\ Alive
    /\ \/ "START" \in Requests /\ StartFi(c)
       \/ "PAUSE" \in Requests /\ PauseFi(c)
       \/ "STOP" \in Requests /\ StopFi(c)
       \/ "DUMP" \in Requests /\ DumpFi(c)

(* init_fi_system: Fi_System::reset empties the queues and reads the input *)
(* file again (after a restore it may be another file); no flag changes.   *)
InitFiSystem ==
    /\ Alive
    /\ queued' \in Inputs
    /\ UNCHANGED <<activation, mode, created, running, enabled, faulty,
                   fi_enable, flags, switchcpu, switches, failed>>

Resumed_AnyMode(p) == activation[p] # NULL

(* The write of the PCB register at a context switch.  The Alpha hook      *)
(* enables every process of the map, the x86 hook only the started ones.   *)
Resumed(p) == activation[p] # NULL /\ (Arch = "x86" => Started(p))

ContextSwitch(c, p) ==
    /\ Alive
    /\ \A d \in Cpus \ {c} : running[d] # p
    /\ running' = [running EXCEPT ![c] = p]
    /\ SetContext(c, Resumed(p), IF Resumed(p) THEN activation[p] ELSE NULL)
    /\ UNCHANGED <<activation, mode, created, fi_enable, flags, queued,
                   switchcpu, switches, failed>>

---------------------------------------------------------------------------
(* The scans of the queues in reach inject from some of them and use up    *)
(* some.  Every injection but that of a register fault, which sits in the  *)
(* main queue, schedules the switch.                                       *)
Inject(reach) ==
    \E served \in SUBSET (reach \cap queued) : \E drained \in SUBSET served :
        /\ queued' = queued \ drained
        /\ \/ served # {} /\ ScheduleSwitch
           \/ served \subseteq {"main"} /\ UNCHANGED <<switchcpu, switches>>

Fail(kind) ==
    /\ failed' = kind
    /\ UNCHANGED <<queued, switchcpu, switches>>

Frame == UNCHANGED <<activation, mode, created, running, enabled, faulty,
                     fi_enable, flags>>

(* AtomicSimpleCPU::tick in user mode: the assertion, then the hooks of    *)
(* the main, fetch and decode queues, each of which tests the mode.        *)
Tick(c) ==
    /\ Alive
    /\ Core = "atomic"
    /\ fi_enable # 0 /\ enabled[c]
    /\ IF faulty[c] = NULL \/ activation[running[c]] # faulty[c]
       THEN Fail("assert")
       ELSE /\ failed' = failed
            /\ mode[faulty[c]] = "START"
            /\ Inject({"main", "fetch", "decode"})
    /\ Frame

(* DefaultFetch::fetch in user or kernel mode: the hook of the main queue  *)
(* is guarded by its flag alone, the others by the cached activation.      *)
Fetch(c, user) ==
    LET seen == fi_enable # 0 /\ user
        thread == IF seen THEN faulty[c] ELSE NULL
        stages == IF seen /\ enabled[c] THEN {"fetch"} \cup (flags \cap {"decode"})
                                        ELSE {}
        reach == stages \cup (flags \cap {"main"})
    IN
    /\ Alive
    /\ Core = "o3"
    /\ reach # {}
    /\ IF thread = NULL
       THEN Fail("null")
       ELSE /\ failed' = failed
            /\ mode[thread] = "START"
            /\ Inject(reach)
    /\ Frame

(* The hooks in an instruction's execute method: iew_fault of an operate   *)
(* instruction, lds_fault of a memory instruction under its flag.          *)
Execute(c) ==
    /\ Alive
    /\ enabled[c]
    /\ IF faulty[c] = NULL
       THEN Fail("null")
       ELSE /\ failed' = failed
            /\ mode[faulty[c]] = "START"
            /\ \/ Inject({"iew"})
               \/ "loadstore" \in flags /\ Inject({"loadstore"})
    /\ Frame

Next ==
    \/ InitFiSystem
    \/ \E c \in Cpus :
        \/ ActivateInst(c)
        \/ \E p \in Pcbs : ContextSwitch(c, p)
        \/ Tick(c)
        \/ \E user \in BOOLEAN : Fetch(c, user)
        \/ Execute(c)

Spec == Init /\ [][Next]_vars

---------------------------------------------------------------------------
(* The assertion of AtomicSimpleCPU::tick ("This should never happen") is  *)
(* never reached, and no hook dereferences a null thread.                  *)
NeverFails == failed = "none"

(* What a context caches is what the map says of the process it runs: an   *)
(* enabled context holds the thread object fi_activation has for its PCB,  *)
(* a disabled one holds none.  tick() relies on it without a null test.    *)
CacheCoherent ==
    /\ \A c, d \in Cpus : running[c] = running[d] => c = d
    /\ \A c \in Cpus :
        IF enabled[c] THEN /\ faulty[c] # NULL
                           /\ activation[running[c]] = faulty[c]
                      ELSE faulty[c] = NULL

(* A context has injection on exactly while the process it runs is         *)
(* started: a paused or stopped process is never injected into or counted, *)
(* and a started one never loses its injection by a context switch.        *)
EnabledIffStarted == \A c \in Cpus : enabled[c] <=> Started(running[c])

(* fi_enable, which switches the hooks of tick() and fetch() on, is the    *)
(* number of started processes, so that it is zero only when none is.      *)
EnableCounts == fi_enable = Cardinality({p \in Pcbs : Started(p)})

(* However many faults are injected and dumps requested, the switch to the *)
(* other CPU model is scheduled at most once.                              *)
OneSwitch == switches + (IF switchcpu THEN 1 ELSE 0) <= 1

(* fi_system.hh on the hooks: they "check if a fault is going to be        *)
(* injected during this cycle/instruction".  So while a started process    *)
(* runs, its memory instructions reach lds_fault whenever a load/store     *)
(* fault is queued: the flag in front of that hook is set.                 *)
LoadStoreReached ==
    \A c \in Cpus : enabled[c] /\ Started(running[c]) /\ "loadstore" \in queued
                    => "loadstore" \in flags

=============================================================================
