--------------------------- MODULE FiSystem_proofs ---------------------------
(***************************************************************************)
(* Theorems about FiSystem, for any number of processors, processes and    *)
(* thread objects.                                                         *)
(***************************************************************************)
EXTENDS FiSystem, FiniteSetTheorems, TLAPS

(* The unsigned arithmetic on fi_enable stays within its width. *)
LEMMA CountType ==
    ASSUME NEW n \in 0..(UIntMod - 1)
    PROVE  Increment(n) \in 0..(UIntMod - 1) /\ Decrement(n) \in 0..(UIntMod - 1)
<1>1. IsFiniteSet(Pcbs) => Cardinality(Pcbs) \in Nat
  BY FS_CardinalityType
<1>2. UIntMod \in Nat /\ UIntMod > 0
  BY <1>1, FiAssumption
<1>3. n + 1 \in Nat /\ n + UIntMod - 1 \in Nat
  BY <1>2
<1>4. \A m \in Nat : m % UIntMod \in 0..(UIntMod - 1)
  BY <1>2
<1> QED BY <1>3, <1>4 DEF Increment, Decrement

(* Scheduling the switch keeps its two variables in their types. *)
LEMMA SwitchType ==
    ASSUME TypeOK, ScheduleSwitch \/ UNCHANGED <<switchcpu, switches>>
    PROVE  switchcpu' \in BOOLEAN /\ switches' \in Nat
<1>1. switchcpu \in BOOLEAN /\ switches \in Nat /\ switches + 1 \in Nat
  BY DEF TypeOK
<1>2. CASE ScheduleSwitch
  <2>1. switches' \in {switches, switches + 1}
    BY <1>2, Zenon DEF ScheduleSwitch
  <2>2. switchcpu' = FALSE
    BY <1>2, Zenon DEF ScheduleSwitch
  <2> QED BY <1>1, <2>1, <2>2, Zenon
<1>3. CASE UNCHANGED <<switchcpu, switches>>
  BY <1>1, <1>3, Zenon
<1> QED BY <1>2, <1>3

(* An injection only removes queues from queued. *)
LEMMA InjectType ==
    ASSUME TypeOK, NEW reach, Inject(reach)
    PROVE  queued' \in SUBSET Queues /\ switchcpu' \in BOOLEAN /\ switches' \in Nat
<1>1. queued' \in SUBSET Queues
  BY DEF TypeOK, Inject
<1>2. ScheduleSwitch \/ UNCHANGED <<switchcpu, switches>>
  BY DEF Inject
<1> QED BY <1>1, <1>2, SwitchType

(* The hooks change no part of the activation state. *)
LEMMA HookType ==
    ASSUME TypeOK, Frame, failed' \in {"none", "assert", "null"},
           queued' \in SUBSET Queues, switchcpu' \in BOOLEAN, switches' \in Nat
    PROVE  TypeOK'
BY DEF TypeOK, Frame

(* Setting a context's cached activation keeps the caches in their types. *)
LEMMA ContextType ==
    ASSUME TypeOK, NEW c \in Cpus, NEW b \in BOOLEAN,
           NEW t \in Threads \cup {NULL}, SetContext(c, b, t)
    PROVE  enabled' \in [Cpus -> BOOLEAN] /\ faulty' \in [Cpus -> Threads \cup {NULL}]
BY DEF TypeOK, SetContext

(* Every handler of fi_activate_inst preserves the types. *)
LEMMA ActivateType ==
    ASSUME TypeOK, NEW c \in Cpus, ActivateInst(c)
    PROVE  TypeOK'
<1> DEFINE p == running[c]
<1>0. p \in Pcbs /\ activation[p] \in Threads \cup {NULL}
  BY DEF TypeOK
<1>1. CASE StartFi(c)
  <2>1. fi_enable' \in 0..(UIntMod - 1)
    BY <1>1, CountType, Zenon DEF StartFi, TypeOK
  <2>2. flags' \in SUBSET Queues
    BY <1>1, Zenon DEF StartFi, TypeOK, FlagsAfterStart
  <2>3. created < MaxThreads => created + 1 \in Threads
    BY FiAssumption DEF TypeOK, Threads
  <2>4. enabled' \in [Cpus -> BOOLEAN] /\ faulty' \in [Cpus -> Threads \cup {NULL}]
    <3>1. \E t \in Threads \cup {NULL} : SetContext(c, TRUE, t)
      BY <1>0, <1>1, <2>3, Zenon DEF StartFi
    <3> QED BY <3>1, ContextType, Zenon
  <2>5. activation' \in [Pcbs -> Threads \cup {NULL}]
    BY <1>0, <1>1, <2>3, Zenon DEF StartFi, TypeOK
  <2>6. mode' \in [Threads -> {"none", "START", "PAUSE"}]
    BY <1>0, <1>1, <2>3, Zenon DEF StartFi, TypeOK
  <2>7. created' \in 0..MaxThreads
    <3>1. created' = created \/ (created < MaxThreads /\ created' = created + 1)
      BY <1>1, Zenon DEF StartFi
    <3> QED BY <3>1, FiAssumption DEF TypeOK
  <2> QED BY <1>1, <2>1, <2>2, <2>4, <2>5, <2>6, <2>7 DEF StartFi, TypeOK
<1>2. CASE PauseFi(c)
  <2>1. fi_enable' \in 0..(UIntMod - 1)
    BY <1>2, CountType DEF PauseFi, TypeOK
  <2> QED BY <1>0, <1>2, <2>1 DEF PauseFi, TypeOK, SetContext
<1>3. CASE StopFi(c)
  <2>1. fi_enable' \in 0..(UIntMod - 1)
    BY <1>3, CountType DEF StopFi, TypeOK
  <2> QED BY <1>0, <1>3, <2>1 DEF StopFi, TypeOK, SetContext
<1>4. CASE DumpFi(c)
  <2>1. 0 \in 0..(UIntMod - 1)
    BY FiAssumption, FS_CardinalityType
  <2>2. switchcpu' \in BOOLEAN /\ switches' \in Nat
    BY <1>4, SwitchType DEF DumpFi
  <2> QED BY <1>4, <2>1, <2>2 DEF DumpFi, TypeOK, SetContext
<1> QED BY <1>1, <1>2, <1>3, <1>4 DEF ActivateInst

(* Every step preserves the types. *)
LEMMA NextType == TypeOK /\ [Next]_vars => TypeOK'
<1> SUFFICES ASSUME TypeOK, [Next]_vars PROVE TypeOK'
  OBVIOUS
<1>1. CASE InitFiSystem
  BY <1>1, FiAssumption DEF InitFiSystem, TypeOK
<1>2. ASSUME NEW c \in Cpus, ActivateInst(c) PROVE TypeOK'
  BY <1>2, ActivateType
<1>3. ASSUME NEW c \in Cpus, NEW p \in Pcbs, ContextSwitch(c, p) PROVE TypeOK'
  BY <1>3 DEF ContextSwitch, TypeOK, SetContext, Resumed
<1>4. ASSUME NEW c \in Cpus, Tick(c) PROVE TypeOK'
  <2>1. failed' \in {"none", "assert", "null"}
    BY <1>4 DEF Tick, Fail, TypeOK
  <2>2. queued' \in SUBSET Queues /\ switchcpu' \in BOOLEAN /\ switches' \in Nat
    BY <1>4, InjectType DEF Tick, Fail, TypeOK
  <2> QED BY <1>4, <2>1, <2>2, HookType DEF Tick
<1>5. ASSUME NEW c \in Cpus, NEW user \in BOOLEAN, Fetch(c, user) PROVE TypeOK'
  <2>1. failed' \in {"none", "assert", "null"}
    BY <1>5 DEF Fetch, Fail, TypeOK
  <2>2. queued' \in SUBSET Queues /\ switchcpu' \in BOOLEAN /\ switches' \in Nat
    BY <1>5, InjectType DEF Fetch, Fail, TypeOK
  <2> QED BY <1>5, <2>1, <2>2, HookType DEF Fetch
<1>6. ASSUME NEW c \in Cpus, Execute(c) PROVE TypeOK'
  <2>1. failed' \in {"none", "assert", "null"}
    BY <1>6 DEF Execute, Fail, TypeOK
  <2>2. queued' \in SUBSET Queues /\ switchcpu' \in BOOLEAN /\ switches' \in Nat
    BY <1>6, InjectType DEF Execute, Fail, TypeOK
  <2> QED BY <1>6, <2>1, <2>2, HookType DEF Execute
<1>7. CASE UNCHANGED vars
  BY <1>7 DEF vars, TypeOK
<1> QED BY <1>1, <1>2, <1>3, <1>4, <1>5, <1>6, <1>7 DEF Next

(* The variables of Fi_System keep their types in every reachable state;   *)
(* in particular fi_enable, which pause_fi and stop_fi decrement without a *)
(* test, stays within the width of an unsigned int.                        *)
THEOREM TypeCorrect == Spec => []TypeOK
<1>1. Init => TypeOK
  <2>1. 0 \in 0..(UIntMod - 1)
    BY FiAssumption, FS_CardinalityType
  <2> QED BY <2>1, FiAssumption DEF Init, TypeOK, Threads
<1> QED BY <1>1, NextType, PTL DEF Spec

---------------------------------------------------------------------------
(* DUMP clears the whole map but one context: it is safe on one processor. *)
LocalDump == "DUMP" \in Requests => \A c, d \in Cpus : c = d

(* A handler that leaves the other processes' entries alone and sets c's   *)
(* cache to the new entry of its own process, or to nothing, keeps the     *)
(* caches coherent.                                                        *)
LEMMA HandlerCoherent ==
    ASSUME TypeOK, TypeOK', CacheCoherent, NEW c \in Cpus, running' = running,
           \A d \in Cpus \ {c} : /\ activation'[running[d]] = activation[running[d]]
                                 /\ enabled'[d] = enabled[d]
                                 /\ faulty'[d] = faulty[d],
           \/ enabled'[c] = FALSE /\ faulty'[c] = NULL
           \/ /\ enabled'[c] = TRUE /\ faulty'[c] # NULL
              /\ activation'[running[c]] = faulty'[c]
    PROVE  CacheCoherent'
<1>1. \A a, b \in Cpus : running'[a] = running'[b] => a = b
  BY Zenon DEF CacheCoherent
<1>2. ASSUME NEW d \in Cpus
      PROVE  IF enabled'[d] THEN /\ faulty'[d] # NULL
                                 /\ activation'[running'[d]] = faulty'[d]
                            ELSE faulty'[d] = NULL
  <2>1. CASE d = c
    BY <2>1, Zenon
  <2>2. CASE d # c
    <3>1. IF enabled[d] THEN /\ faulty[d] # NULL
                             /\ activation[running[d]] = faulty[d]
                        ELSE faulty[d] = NULL
      BY Zenon DEF CacheCoherent
    <3>2. /\ activation'[running[d]] = activation[running[d]]
          /\ enabled'[d] = enabled[d] /\ faulty'[d] = faulty[d]
      BY <2>2
    <3> QED BY <3>1, <3>2, Zenon
  <2> QED BY <2>1, <2>2
<1> QED BY <1>1, <1>2, Zenon DEF CacheCoherent

(* Every request keeps the caches coherent, DUMP only on a uniprocessor. *)
LEMMA ActivateCoherent ==
    ASSUME LocalDump, TypeOK, TypeOK', CacheCoherent, NEW c \in Cpus, ActivateInst(c)
    PROVE  CacheCoherent'
<1>0. running' = running
  BY Zenon DEF ActivateInst, StartFi, PauseFi, StopFi, DumpFi
<1>1. \A d \in Cpus \ {c} : running[d] # running[c] /\ running[d] \in Pcbs
  BY DEF CacheCoherent, TypeOK
<1>2. running[c] \in Pcbs /\ NULL = 0 /\ \A t \in Threads : t # NULL
  BY DEF TypeOK, NULL, Threads
<1>3. CASE StartFi(c)
  <2>1. PICK t \in Threads : SetContext(c, TRUE, t) /\ activation'[running[c]] = t
    <3>1. CASE activation[running[c]] = NULL
      <4>1. created + 1 \in Threads
        BY <1>3, <3>1, FiAssumption DEF StartFi, TypeOK, Threads
      <4> QED BY <1>2, <1>3, <3>1, <4>1, Zenon DEF StartFi, TypeOK
    <3>2. CASE activation[running[c]] # NULL
      <4>1. activation[running[c]] \in Threads
        BY <1>2, <3>2 DEF TypeOK
      <4> QED BY <1>3, <3>2, <4>1, Zenon DEF StartFi
    <3> QED BY <3>1, <3>2, Zenon
  <2>2. \A d \in Cpus \ {c} : activation'[running[d]] = activation[running[d]]
    BY <1>1, <1>3, Zenon DEF StartFi, TypeOK
  <2>3. /\ enabled'[c] = TRUE /\ faulty'[c] = t
        /\ \A d \in Cpus \ {c} : enabled'[d] = enabled[d] /\ faulty'[d] = faulty[d]
    BY <2>1 DEF SetContext, TypeOK
  <2> QED BY <1>0, <1>2, <2>1, <2>2, <2>3, HandlerCoherent, Zenon
<1>4. CASE PauseFi(c) \/ StopFi(c) \/ ("DUMP" \in Requests /\ DumpFi(c))
  <2>1. SetContext(c, FALSE, NULL)
    BY <1>4, Zenon DEF PauseFi, StopFi, DumpFi
  <2>2. /\ enabled'[c] = FALSE /\ faulty'[c] = NULL
        /\ \A d \in Cpus \ {c} : enabled'[d] = enabled[d] /\ faulty'[d] = faulty[d]
    BY <2>1 DEF SetContext, TypeOK
  <2>3. \A d \in Cpus \ {c} : activation'[running[d]] = activation[running[d]]
    <3>1. CASE "DUMP" \in Requests
      BY <3>1 DEF LocalDump
    <3>2. CASE PauseFi(c) \/ StopFi(c)
      BY <1>1, <3>2, Zenon DEF PauseFi, StopFi, TypeOK
    <3> QED BY <1>4, <3>1, <3>2
  <2> QED BY <1>0, <2>2, <2>3, HandlerCoherent, Zenon
<1> QED BY <1>3, <1>4 DEF ActivateInst

(* Every step keeps the caches coherent, the context-switch hook included. *)
LEMMA NextCoherent ==
    ASSUME LocalDump, TypeOK, TypeOK', CacheCoherent, [Next]_vars
    PROVE  CacheCoherent'
<1>1. CASE InitFiSystem
  BY <1>1, Zenon DEF InitFiSystem, CacheCoherent
<1>2. ASSUME NEW c \in Cpus, ActivateInst(c) PROVE CacheCoherent'
  BY <1>2, ActivateCoherent
<1>3. ASSUME NEW c \in Cpus, NEW p \in Pcbs, ContextSwitch(c, p)
      PROVE  CacheCoherent'
  <2>1. /\ running'[c] = p /\ activation' = activation
        /\ \A d \in Cpus \ {c} : /\ running'[d] = running[d] /\ running[d] # p
                               /\ enabled'[d] = enabled[d] /\ faulty'[d] = faulty[d]
    BY <1>3 DEF ContextSwitch, SetContext, TypeOK
  <2>2. \/ enabled'[c] = FALSE /\ faulty'[c] = NULL
        \/ /\ enabled'[c] = TRUE /\ faulty'[c] # NULL
           /\ activation[p] = faulty'[c]
    <3> DEFINE on == Resumed(p)
    <3>1. /\ enabled'[c] = on
          /\ faulty'[c] = IF on THEN activation[p] ELSE NULL
      <4>1. SetContext(c, on, IF on THEN activation[p] ELSE NULL)
        BY <1>3, Zenon DEF ContextSwitch
      <4>2. enabled' = [enabled EXCEPT ![c] = on]
        BY <4>1, Zenon DEF SetContext
      <4>3. faulty' = [faulty EXCEPT ![c] = IF on THEN activation[p] ELSE NULL]
        BY <4>1, Zenon DEF SetContext
      <4> QED BY <4>2, <4>3, Zenon DEF TypeOK
    <3>2. CASE on
      BY <3>1, <3>2, Zenon DEF Resumed
    <3>3. CASE ~on
      <4>1. on = FALSE
        BY <3>3 DEF Resumed
      <4> QED BY <3>1, <4>1, Zenon
    <3> QED BY <3>2, <3>3, Zenon
  <2>3. \A a, b \in Cpus : running'[a] = running'[b] => a = b
    BY <2>1 DEF CacheCoherent
  <2>4. ASSUME NEW d \in Cpus
        PROVE  IF enabled'[d] THEN /\ faulty'[d] # NULL
                                   /\ activation'[running'[d]] = faulty'[d]
                              ELSE faulty'[d] = NULL
    <3>1. CASE d = c
      BY <3>1, <2>1, <2>2, Zenon
    <3>2. CASE d # c
      <4>1. IF enabled[d] THEN /\ faulty[d] # NULL
                               /\ activation[running[d]] = faulty[d]
                          ELSE faulty[d] = NULL
        BY Zenon DEF CacheCoherent
      <4>2. /\ activation' = activation /\ running'[d] = running[d]
            /\ enabled'[d] = enabled[d] /\ faulty'[d] = faulty[d]
        BY <3>2, <2>1
      <4> QED BY <4>1, <4>2, Zenon
    <3> QED BY <3>1, <3>2
  <2> QED BY <2>3, <2>4, Zenon DEF CacheCoherent
<1>4. CASE Frame
  BY <1>4, Zenon DEF Frame, CacheCoherent
<1>5. CASE UNCHANGED vars
  BY <1>5, Zenon DEF vars, CacheCoherent
<1> QED BY <1>1, <1>2, <1>3, <1>4, <1>5, Zenon DEF Next, Tick, Fetch, Execute

(* Every processor's cached activation agrees with fi_activation, whatever *)
(* the programs request and however the processes are scheduled, unless a  *)
(* DUMP is issued on a multiprocessor.                                     *)
THEOREM Coherence ==
    ASSUME LocalDump PROVE Spec => []CacheCoherent
<1>1. Init => CacheCoherent
  <2> SUFFICES ASSUME Init PROVE CacheCoherent
    OBVIOUS
  <2>1. \A c \in Cpus : enabled[c] = FALSE /\ faulty[c] = NULL
    BY DEF Init
  <2>2. \A c, d \in Cpus : running[c] = running[d] => c = d
    BY DEF Init
  <2> QED BY <2>1, <2>2, Zenon DEF CacheCoherent
<1>2. TypeOK /\ TypeOK' /\ CacheCoherent /\ [Next]_vars => CacheCoherent'
  BY NextCoherent
<1> QED BY <1>1, <1>2, TypeCorrect, PTL DEF Spec

---------------------------------------------------------------------------
(* The hook of the main queue in the O3 fetch stage has no null test: it   *)
(* is harmless when the input files hold no register or PC fault.          *)
StageFaultsOnly == Core = "o3" => \A i \in Inputs : "main" \notin i

MainUnused == Core = "o3" => "main" \notin queued /\ "main" \notin flags

(* No step brings a register or PC fault into an O3 simulation without any. *)
LEMMA NextMainUnused ==
    ASSUME StageFaultsOnly, MainUnused, [Next]_vars
    PROVE  MainUnused'
<1> SUFFICES ASSUME Core = "o3" PROVE "main" \notin queued' /\ "main" \notin flags'
  BY DEF MainUnused
<1>0. "main" \notin queued /\ "main" \notin flags
  BY DEF MainUnused
<1>1. CASE InitFiSystem
  BY <1>0, <1>1 DEF InitFiSystem, StageFaultsOnly
<1>2. ASSUME NEW c \in Cpus, ActivateInst(c)
      PROVE  "main" \notin queued' /\ "main" \notin flags'
  <2>1. queued' = queued
    BY <1>2, Zenon DEF ActivateInst, StartFi, PauseFi, StopFi, DumpFi
  <2>2. flags' = flags \/ flags' = queued \/ flags' = {}
    BY <1>2, Zenon DEF ActivateInst, StartFi, PauseFi, StopFi, DumpFi, FlagsAfterStart
  <2> QED BY <1>0, <2>1, <2>2
<1>3. ASSUME NEW c \in Cpus, NEW p \in Pcbs, ContextSwitch(c, p)
      PROVE  "main" \notin queued' /\ "main" \notin flags'
  BY <1>0, <1>3 DEF ContextSwitch
<1>4. ASSUME NEW reach, Inject(reach) PROVE "main" \notin queued'
  BY <1>0, <1>4 DEF Inject
<1>5. ASSUME NEW kind, Fail(kind) PROVE "main" \notin queued'
  BY <1>0, <1>5 DEF Fail
<1>6. ASSUME NEW c \in Cpus, Tick(c) \/ (\E user \in BOOLEAN : Fetch(c, user)) \/ Execute(c)
      PROVE  "main" \notin queued' /\ "main" \notin flags'
  <2>1. flags' = flags
    BY <1>6, Zenon DEF Tick, Fetch, Execute, Frame
  <2>2. (\E reach : Inject(reach)) \/ (\E kind : Fail(kind))
    <3>1. CASE Tick(c)
      BY <3>1, Zenon DEF Tick
    <3>2. ASSUME NEW user \in BOOLEAN, Fetch(c, user)
          PROVE  (\E reach : Inject(reach)) \/ (\E kind : Fail(kind))
      BY <3>2, Zenon DEF Fetch
    <3>3. CASE Execute(c)
      BY <3>3, Zenon DEF Execute
    <3> QED BY <1>6, <3>1, <3>2, <3>3
  <2> QED BY <1>0, <1>4, <1>5, <2>1, <2>2
<1>7. CASE UNCHANGED vars
  BY <1>0, <1>7 DEF vars
<1> QED BY <1>1, <1>2, <1>3, <1>6, <1>7 DEF Next

(* From coherent caches no step fails the assertion of tick() or          *)
(* dereferences a null thread.                                             *)
LEMMA NextSafe ==
    ASSUME CacheCoherent, MainUnused, NeverFails, [Next]_vars
    PROVE  NeverFails'
<1> USE DEF NeverFails
<1>1. \A c \in Cpus : enabled[c] => faulty[c] # NULL /\ activation[running[c]] = faulty[c]
  BY Zenon DEF CacheCoherent
<1>2. CASE InitFiSystem
  BY <1>2 DEF InitFiSystem
<1>3. ASSUME NEW c \in Cpus, ActivateInst(c) PROVE failed' = "none"
  BY <1>3, Zenon DEF ActivateInst, StartFi, PauseFi, StopFi, DumpFi
<1>4. ASSUME NEW c \in Cpus, NEW p \in Pcbs, ContextSwitch(c, p) PROVE failed' = "none"
  BY <1>4 DEF ContextSwitch
<1>5. ASSUME NEW c \in Cpus, Tick(c) PROVE failed' = "none"
  <2>1. ~(faulty[c] = NULL \/ activation[running[c]] # faulty[c])
    BY <1>1, <1>5, Zenon DEF Tick
  <2> QED BY <1>5, <2>1, Zenon DEF Tick
<1>6. ASSUME NEW c \in Cpus, NEW user \in BOOLEAN, Fetch(c, user) PROVE failed' = "none"
  <2>1. flags \cap {"main"} = {}
    BY <1>6 DEF Fetch, MainUnused
  <2>2. fi_enable # 0 /\ user /\ enabled[c]
    BY <1>6, <2>1 DEF Fetch
  <2>3. faulty[c] # NULL
    BY <1>1, <2>2
  <2> QED BY <1>6, <2>2, <2>3 DEF Fetch
<1>7. ASSUME NEW c \in Cpus, Execute(c) PROVE failed' = "none"
  <2>1. ~(faulty[c] = NULL)
    BY <1>1, <1>7, Zenon DEF Execute
  <2> QED BY <1>7, <2>1, Zenon DEF Execute
<1>8. CASE UNCHANGED vars
  BY <1>8 DEF vars
<1> QED BY <1>2, <1>3, <1>4, <1>5, <1>6, <1>7, <1>8 DEF Next

(* The assertion "This should never happen" of AtomicSimpleCPU::tick never *)
(* fails and no hook dereferences a null thread, on any number of          *)
(* processors: unless a DUMP is issued on a multiprocessor, or an O3       *)
(* simulation is given register or PC faults.                              *)
THEOREM Safety ==
    ASSUME LocalDump, StageFaultsOnly PROVE Spec => []NeverFails
<1>1. Init => NeverFails /\ MainUnused
  BY DEF Init, NeverFails, MainUnused, StageFaultsOnly
<1>2. MainUnused /\ [Next]_vars => MainUnused'
  BY NextMainUnused
<1>3. CacheCoherent /\ MainUnused /\ NeverFails /\ [Next]_vars => NeverFails'
  BY NextSafe
<1> QED BY <1>1, <1>2, <1>3, Coherence, PTL DEF Spec

---------------------------------------------------------------------------
(* No two processes share a thread object, and start_fi makes a new one.   *)
OwnThreads ==
    /\ \A p \in Pcbs : activation[p] <= created
    /\ \A p, q \in Pcbs : activation[p] = activation[q] /\ activation[p] # NULL => p = q

(* START, PAUSE and STOP change the state of the calling process alone. *)
LEMMA StartStarts ==
    ASSUME TypeOK, OwnThreads, NEW c \in Cpus, NEW p \in Pcbs, p = running[c], StartFi(c)
    PROVE  /\ ~Started(p) /\ Started(p)'
           /\ \A q \in Pcbs \ {p} : Started(q)' <=> Started(q)
           /\ OwnThreads'
<1>1. CASE activation[p] = NULL
  <2> DEFINE t == created + 1
  <2>1. t \in Threads /\ t # NULL
    BY <1>1, FiAssumption DEF StartFi, TypeOK, Threads, NULL
  <2>2. created' = t /\ activation' = [activation EXCEPT ![p] = t]
        /\ mode' = [mode EXCEPT ![t] = "START"]
    BY <1>1 DEF StartFi
  <2>3. \A q \in Pcbs : activation[q] # t /\ activation[q] \in Threads \cup {NULL}
    BY DEF OwnThreads, TypeOK, Threads, NULL
  <2>4. OwnThreads'
    <3>1. activation'[p] = t /\ \A q \in Pcbs \ {p} : activation'[q] = activation[q]
      BY <2>2 DEF TypeOK
    <3>2. created \in Nat /\ \A q \in Pcbs : activation[q] \in Nat /\ activation[q] <= created
      BY FiAssumption DEF OwnThreads, TypeOK, Threads, NULL
    <3>3. \A q \in Pcbs : activation'[q] <= created'
      BY <2>2, <3>1, <3>2
    <3>4. \A q, r \in Pcbs : activation'[q] = activation'[r] /\ activation'[q] # NULL => q = r
      BY <2>3, <3>1 DEF OwnThreads
    <3> QED BY <3>3, <3>4 DEF OwnThreads
  <2>5. \A q \in Pcbs \ {p} : Started(q)' <=> Started(q)
    BY <2>1, <2>2, <2>3 DEF Started, TypeOK
  <2> QED BY <1>1, <2>1, <2>2, <2>4, <2>5 DEF Started, TypeOK
<1>2. CASE activation[p] # NULL
  <2> DEFINE t == activation[p]
  <2>1. t \in Threads /\ mode[t] = "PAUSE"
    BY <1>2, Zenon DEF StartFi, TypeOK
  <2>2. created' = created /\ activation' = activation
        /\ mode' = [mode EXCEPT ![t] = "START"]
    BY <1>2, Zenon DEF StartFi
  <2>3. OwnThreads'
    BY <2>2 DEF OwnThreads
  <2>4. \A q \in Pcbs \ {p} : Started(q)' <=> Started(q)
    BY <1>2, <2>1, <2>2 DEF Started, TypeOK, OwnThreads
  <2> QED BY <1>2, <2>1, <2>2, <2>3, <2>4 DEF Started, TypeOK
<1> QED BY <1>1, <1>2

(* PAUSE and STOP take the calling process out of the started ones. *)
LEMMA PauseStops ==
    ASSUME TypeOK, OwnThreads, NEW c \in Cpus, NEW p \in Pcbs, p = running[c],
           PauseFi(c) \/ StopFi(c)
    PROVE  /\ Disciplined => Started(p)
           /\ ~Started(p)'
           /\ \A q \in Pcbs \ {p} : Started(q)' <=> Started(q)
           /\ OwnThreads'
<1>1. CASE PauseFi(c)
  <2>1. activation[p] # NULL /\ activation[p] \in Threads
    BY <1>1 DEF PauseFi, TypeOK
  <2>2. created' = created /\ activation' = activation
        /\ mode' = [mode EXCEPT ![activation[p]] = "PAUSE"]
    BY <1>1 DEF PauseFi
  <2>3. \A q \in Pcbs \ {p} : Started(q)' <=> Started(q)
    BY <2>1, <2>2 DEF Started, TypeOK, OwnThreads
  <2> QED BY <1>1, <2>1, <2>2, <2>3 DEF PauseFi, Started, TypeOK, OwnThreads
<1>2. CASE StopFi(c)
  <2>1. created' = created /\ mode' = mode
        /\ activation' = [activation EXCEPT ![p] = NULL]
    BY <1>2 DEF StopFi
  <2>2. OwnThreads'
    <3>1. activation'[p] = NULL /\ \A q \in Pcbs \ {p} : activation'[q] = activation[q]
      BY <2>1 DEF TypeOK
    <3>2. NULL <= created
      BY DEF TypeOK, NULL
    <3> QED BY <2>1, <3>1, <3>2 DEF OwnThreads
  <2> QED BY <1>2, <2>1, <2>2 DEF StopFi, Started, TypeOK
<1> QED BY <1>1, <1>2

(* A DUMP stops every process. *)
LEMMA DumpStops ==
    ASSUME TypeOK, NEW c \in Cpus, DumpFi(c)
    PROVE  (\A p \in Pcbs : ~Started(p)') /\ OwnThreads'
<1>1. \A p \in Pcbs : activation'[p] = NULL
  BY DEF DumpFi
<1>2. created' = created /\ NULL <= created
  BY DEF DumpFi, TypeOK, NULL
<1> QED BY <1>1, <1>2 DEF Started, OwnThreads

(* The other steps leave the map, the modes and the count alone. *)
LEMMA OtherSteps ==
    ASSUME [Next]_vars, ~\E c \in Cpus : ActivateInst(c)
    PROVE  UNCHANGED <<activation, mode, created, fi_enable>>
BY Zenon DEF Next, vars, InitFiSystem, ContextSwitch, Tick, Fetch, Execute, Frame

(* Every step keeps the thread objects apart. *)
LEMMA NextOwnThreads ==
    ASSUME TypeOK, OwnThreads, [Next]_vars
    PROVE  OwnThreads'
<1>1. CASE \E c \in Cpus : ActivateInst(c)
  <2>1. PICK c \in Cpus : ActivateInst(c)
    BY <1>1
  <2>2. running[c] \in Pcbs
    BY DEF TypeOK
  <2> QED BY <2>1, <2>2, StartStarts, PauseStops, DumpStops DEF ActivateInst
<1>2. CASE ~\E c \in Cpus : ActivateInst(c)
  BY <1>2, OtherSteps DEF OwnThreads
<1> QED BY <1>1, <1>2

(* Two processes never share a ThreadEnabledFault, so that neither counts  *)
(* nor pauses for the other.                                               *)
THEOREM ThreadOwnership == Spec => []OwnThreads
<1>1. Init => OwnThreads
  BY DEF Init, OwnThreads, NULL
<1>2. TypeOK /\ OwnThreads /\ [Next]_vars => OwnThreads'
  BY NextOwnThreads
<1> QED BY <1>1, <1>2, TypeCorrect, PTL DEF Spec

---------------------------------------------------------------------------
(* With the counter wider than the number of processes, it counts them.    *)
LEMMA NextCounts ==
    ASSUME Disciplined, TypeOK, OwnThreads, EnableCounts, [Next]_vars
    PROVE  EnableCounts'
<1> DEFINE S == {q \in Pcbs : Started(q)}
           T == {q \in Pcbs : Started(q)'}
<1>1. /\ IsFiniteSet(Pcbs) /\ Cardinality(Pcbs) \in Nat /\ IsFiniteSet(S)
      /\ Cardinality(S) \in Nat /\ Cardinality(S) <= Cardinality(Pcbs)
  BY FiAssumption, FS_CardinalityType, FS_Subset
<1>2. fi_enable = Cardinality(S) /\ UIntMod \in Nat /\ UIntMod > Cardinality(Pcbs) + 1
  BY FiAssumption DEF EnableCounts
<1>3. SUFFICES fi_enable' = Cardinality(T)
  BY DEF EnableCounts
<1>4. ASSUME NEW c \in Cpus, StartFi(c) PROVE fi_enable' = Cardinality(T)
  <2>1. PICK p \in Pcbs : p = running[c]
    BY DEF TypeOK
  <2>2. p \notin S /\ T = S \cup {p}
    BY <1>4, <2>1, StartStarts
  <2>3. Cardinality(T) = Cardinality(S) + 1
    BY <1>1, <2>2, FS_AddElement, ZenonT(30)
  <2>4. fi_enable' = Increment(fi_enable)
    BY <1>4, Zenon DEF StartFi
  <2>5. (Cardinality(S) + 1) % UIntMod = Cardinality(S) + 1
    BY <1>1, <1>2
  <2> QED BY <1>2, <2>3, <2>4, <2>5 DEF Increment
<1>5. ASSUME NEW c \in Cpus, PauseFi(c) \/ StopFi(c) PROVE fi_enable' = Cardinality(T)
  <2>1. PICK p \in Pcbs : p = running[c]
    BY DEF TypeOK
  <2>2. p \in S /\ T = S \ {p}
    BY <1>5, <2>1, PauseStops
  <2>3. Cardinality(T) = Cardinality(S) - 1
    BY <1>1, <2>2, FS_RemoveElement, Zenon
  <2>4. Cardinality(S) > 0
    BY <1>1, <2>2, FS_EmptySet
  <2>5. fi_enable' = Decrement(fi_enable)
    BY <1>5, Zenon DEF PauseFi, StopFi
  <2>6. (Cardinality(S) + UIntMod - 1) % UIntMod = Cardinality(S) - 1
    <3> DEFINE n == Cardinality(S) - 1
    <3>1. n \in Nat /\ n < UIntMod /\ Cardinality(S) + UIntMod - 1 = n + UIntMod
      BY <1>1, <1>2, <2>4
    <3>2. \A k \in Nat : k < UIntMod => (k + UIntMod) % UIntMod = k
      BY <1>2
    <3> QED BY <3>1, <3>2
  <2> QED BY <1>2, <2>3, <2>5, <2>6 DEF Decrement
<1>6. ASSUME NEW c \in Cpus, DumpFi(c) PROVE fi_enable' = Cardinality(T)
  <2>1. T = {} /\ fi_enable' = 0
    BY <1>6, DumpStops, Zenon DEF DumpFi
  <2> QED BY <2>1, FS_EmptySet
<1>7. CASE ~\E c \in Cpus : ActivateInst(c)
  <2>1. T = S /\ fi_enable' = fi_enable
    BY <1>7, OtherSteps DEF Started
  <2> QED BY <1>2, <2>1
<1> QED BY <1>4, <1>5, <1>6, <1>7 DEF ActivateInst

(* When programs pause and stop only what is started, fi_enable is the     *)
(* number of started processes: the hooks are off exactly when no process  *)
(* has injection on, and the count never wraps around.                     *)
THEOREM Counting ==
    ASSUME Disciplined PROVE Spec => []EnableCounts
<1>1. Init => EnableCounts
  <2> SUFFICES ASSUME Init PROVE EnableCounts
    OBVIOUS
  <2>1. {p \in Pcbs : Started(p)} = {} /\ fi_enable = 0
    BY DEF Init, Started
  <2> QED BY <2>1, FS_EmptySet DEF EnableCounts
<1>2. TypeOK /\ OwnThreads /\ EnableCounts /\ [Next]_vars => EnableCounts'
  BY NextCounts
<1> QED BY <1>1, <1>2, TypeCorrect, ThreadOwnership, PTL DEF Spec

---------------------------------------------------------------------------
(* START, PAUSE and STOP set the caller's cache to the caller's new state. *)
LEMMA ActivateEnabled ==
    ASSUME LocalDump, TypeOK, CacheCoherent, OwnThreads, EnabledIffStarted,
           NEW c \in Cpus, ActivateInst(c)
    PROVE  EnabledIffStarted'
<1>1. PICK p \in Pcbs : p = running[c]
  BY DEF TypeOK
<1>2. \A d \in Cpus \ {c} : running[d] \in Pcbs \ {p}
  BY <1>1 DEF CacheCoherent, TypeOK
<1>3. running' = running
  BY Zenon DEF ActivateInst, StartFi, PauseFi, StopFi, DumpFi
<1>4. ASSUME NEW b \in BOOLEAN, NEW t, SetContext(c, b, t),
             Started(p)' <=> b,
             \A d \in Cpus \ {c} : Started(running[d])' <=> Started(running[d])
      PROVE  EnabledIffStarted'
  <2>1. enabled' = [enabled EXCEPT ![c] = b]
    BY <1>4, Zenon DEF SetContext
  <2>2. (enabled'[c] <=> b) /\ \A d \in Cpus \ {c} : enabled'[d] = enabled[d]
    BY <2>1, Zenon DEF TypeOK
  <2>3. ASSUME NEW d \in Cpus PROVE enabled'[d] <=> Started(running[d])'
    <3>1. CASE d = c
      BY <1>1, <1>3, <1>4, <2>2, <3>1 DEF Started
    <3>2. CASE d # c
      <4>1. enabled[d] <=> Started(running[d])
        BY Zenon DEF EnabledIffStarted
      <4>2. Started(running[d])' <=> Started(running[d])
        BY <1>4, <3>2
      <4>3. enabled'[d] = enabled[d]
        BY <2>2, <3>2
      <4> QED BY <4>1, <4>2, <4>3, Zenon
    <3> QED BY <3>1, <3>2
  <2> QED BY <2>3, Zenon DEF EnabledIffStarted
<1>5. CASE StartFi(c)
  <2>1. Started(p)' /\ \A q \in Pcbs \ {p} : Started(q)' <=> Started(q)
    BY <1>1, <1>5, StartStarts
  <2>2. \E t : SetContext(c, TRUE, t)
    BY <1>5, Zenon DEF StartFi
  <2>3. \A d \in Cpus \ {c} : Started(running[d])' <=> Started(running[d])
    BY <1>2, <1>3, <2>1 DEF Started
  <2> QED BY <1>4, <2>1, <2>2, <2>3, Zenon
<1>6. CASE PauseFi(c) \/ StopFi(c)
  <2>1. ~Started(p)' /\ \A q \in Pcbs \ {p} : Started(q)' <=> Started(q)
    BY <1>1, <1>6, PauseStops
  <2>2. SetContext(c, FALSE, NULL)
    BY <1>6, Zenon DEF PauseFi, StopFi
  <2>3. \A d \in Cpus \ {c} : Started(running[d])' <=> Started(running[d])
    BY <1>2, <1>3, <2>1 DEF Started
  <2> QED BY <1>4, <2>1, <2>2, <2>3, Zenon
<1>7. CASE "DUMP" \in Requests /\ DumpFi(c)
  <2>1. ~Started(p)'
    BY <1>7, DumpStops
  <2>2. SetContext(c, FALSE, NULL)
    BY <1>7, Zenon DEF DumpFi
  <2>3. \A d \in Cpus \ {c} : Started(running[d])' <=> Started(running[d])
    BY <1>7 DEF LocalDump
  <2> QED BY <1>4, <2>1, <2>2, <2>3, Zenon
<1> QED BY <1>5, <1>6, <1>7 DEF ActivateInst

(* Every step keeps enabled and started in agreement on x86. *)
LEMMA NextEnabled ==
    ASSUME LocalDump, Arch = "x86", TypeOK, CacheCoherent, OwnThreads,
           EnabledIffStarted, [Next]_vars
    PROVE  EnabledIffStarted'
<1>1. ASSUME NEW c \in Cpus, ActivateInst(c) PROVE EnabledIffStarted'
  BY <1>1, ActivateEnabled
<1>2. ASSUME NEW c \in Cpus, NEW p \in Pcbs, ContextSwitch(c, p)
      PROVE  EnabledIffStarted'
  <2>1. enabled' = [enabled EXCEPT ![c] = Resumed(p)]
    BY <1>2, Zenon DEF ContextSwitch, SetContext
  <2>2. running' = [running EXCEPT ![c] = p] /\ activation' = activation /\ mode' = mode
    BY <1>2, Zenon DEF ContextSwitch
  <2>3. Resumed(p) <=> Started(p)
    BY Zenon DEF Resumed, Started
  <2>4. (enabled'[c] <=> Resumed(p)) /\ \A d \in Cpus \ {c} : enabled'[d] = enabled[d]
    BY <2>1, Zenon DEF TypeOK
  <2>5. ASSUME NEW d \in Cpus PROVE enabled'[d] <=> Started(running[d])'
    <3>1. CASE d = c
      BY <2>2, <2>3, <2>4, <3>1 DEF Started, TypeOK
    <3>2. CASE d # c
      <4>1. enabled[d] <=> Started(running[d])
        BY Zenon DEF EnabledIffStarted
      <4>2. Started(running[d])' <=> Started(running[d])
        BY <2>2, <3>2 DEF Started, TypeOK
      <4>3. enabled'[d] = enabled[d]
        BY <2>4, <3>2
      <4> QED BY <4>1, <4>2, <4>3, Zenon
    <3> QED BY <3>1, <3>2
  <2> QED BY <2>5, Zenon DEF EnabledIffStarted
<1>3. CASE UNCHANGED <<activation, mode, running, enabled>>
  BY <1>3, Zenon DEF EnabledIffStarted, Started
<1>4. CASE InitFiSystem \/ Frame \/ UNCHANGED vars
  BY <1>3, <1>4 DEF InitFiSystem, Frame, vars
<1> QED BY <1>1, <1>2, <1>4, Zenon DEF Next, Tick, Fetch, Execute

(* With the x86 context-switch hook, a processor has injection on exactly  *)
(* while the process it runs is started, for every schedule and every      *)
(* order of requests (a DUMP on a multiprocessor excepted).                *)
THEOREM Activation ==
    ASSUME LocalDump, Arch = "x86" PROVE Spec => []EnabledIffStarted
<1>1. Init => EnabledIffStarted
  <2> SUFFICES ASSUME Init, NEW c \in Cpus PROVE enabled[c] <=> Started(running[c])
    BY Zenon DEF EnabledIffStarted
  <2>1. enabled[c] = FALSE /\ activation[running[c]] = NULL
    BY DEF Init
  <2> QED BY <2>1, Zenon DEF Started
<1>2. TypeOK /\ CacheCoherent /\ OwnThreads /\ EnabledIffStarted /\ [Next]_vars
      => EnabledIffStarted'
  BY NextEnabled
<1>3. Spec => []CacheCoherent
  BY Coherence
<1> QED BY <1>1, <1>2, <1>3, TypeCorrect, ThreadOwnership, PTL DEF Spec
---------------------------------------------------------------------------
(* Whatever a step does, scheduleswitch is all that touches the option and *)
(* the events.                                                             *)
LEMMA SwitchSteps ==
    ASSUME [Next]_vars
    PROVE  ScheduleSwitch \/ UNCHANGED <<switchcpu, switches>>
<1>1. ASSUME NEW reach, Inject(reach) PROVE ScheduleSwitch \/ UNCHANGED <<switchcpu, switches>>
  BY <1>1, Zenon DEF Inject
<1>2. ASSUME NEW kind, Fail(kind) PROVE UNCHANGED <<switchcpu, switches>>
  BY <1>2 DEF Fail
<1>3. ASSUME NEW c \in Cpus, ActivateInst(c)
      PROVE  ScheduleSwitch \/ UNCHANGED <<switchcpu, switches>>
  BY <1>3, Zenon DEF ActivateInst, StartFi, PauseFi, StopFi, DumpFi
<1>4. ASSUME NEW c \in Cpus, NEW p \in Pcbs, ContextSwitch(c, p)
      PROVE  UNCHANGED <<switchcpu, switches>>
  BY <1>4 DEF ContextSwitch
<1>5. ASSUME NEW c \in Cpus, Tick(c)
      PROVE  ScheduleSwitch \/ UNCHANGED <<switchcpu, switches>>
  <2>1. (\E kind : Fail(kind)) \/ (\E reach : Inject(reach))
    BY <1>5, Zenon DEF Tick
  <2> QED
    BY <1>1, <1>2, <2>1
<1>6. ASSUME NEW c \in Cpus, NEW user \in BOOLEAN, Fetch(c, user)
      PROVE  ScheduleSwitch \/ UNCHANGED <<switchcpu, switches>>
  <2>1. (\E kind : Fail(kind)) \/ (\E reach : Inject(reach))
    BY <1>6, Zenon DEF Fetch
  <2> QED
    BY <1>1, <1>2, <2>1
<1>7. ASSUME NEW c \in Cpus, Execute(c)
      PROVE  ScheduleSwitch \/ UNCHANGED <<switchcpu, switches>>
  <2>1. (\E kind : Fail(kind)) \/ (\E reach : Inject(reach))
    BY <1>7, Zenon DEF Execute
  <2> QED
    BY <1>1, <1>2, <2>1
<1>8. InitFiSystem \/ UNCHANGED vars => UNCHANGED <<switchcpu, switches>>
  BY DEF InitFiSystem, vars
<1> QED
  BY <1>3, <1>4, <1>5, <1>6, <1>7, <1>8, Zenon DEF Next

(* The switch to the other CPU model is scheduled at most once, however    *)
(* many faults are injected and dumps requested and on however many        *)
(* processors: scheduleswitch clears the option with the first event.      *)
THEOREM SwitchedOnce == Spec => []OneSwitch
<1>1. TypeOK /\ Init => OneSwitch
  <2>1. SUFFICES ASSUME TypeOK, Init PROVE OneSwitch
    OBVIOUS
  <2>2. switches = 0 /\ (IF switchcpu THEN 1 ELSE 0) \in {0, 1}
    BY <2>1, Zenon DEF Init
  <2> QED
    BY <2>2 DEF OneSwitch
<1>2. TypeOK /\ OneSwitch /\ [Next]_vars => OneSwitch'
  <2>1. SUFFICES ASSUME TypeOK, OneSwitch, ScheduleSwitch PROVE OneSwitch'
    BY SwitchSteps DEF OneSwitch
  <2>2. switches \in Nat
    BY <2>1 DEF TypeOK
  <2>3. (IF switchcpu' THEN 1 ELSE 0) = 0
    BY <2>1, Zenon DEF ScheduleSwitch
  <2>4. switches' = switches + (IF switchcpu THEN 1 ELSE 0) \/ switches' = switches + 0
    BY <2>1, <2>2 DEF ScheduleSwitch
  <2>5. (IF switchcpu THEN 1 ELSE 0) \in {0, 1}
    OBVIOUS
  <2>6. switches' \in {0, 1}
    BY <2>1, <2>2, <2>4, <2>5 DEF OneSwitch
  <2>7. \A n \in {0, 1} : n + 0 <= 1
    OBVIOUS
  <2>8. switches' + 0 <= 1
    BY <2>6, <2>7, Zenon
  <2> QED
    BY <2>3, <2>8, Zenon DEF OneSwitch
<1> QED
  BY <1>1, <1>2, TypeCorrect, PTL DEF Spec

=============================================================================
