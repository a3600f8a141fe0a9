------------------------------ MODULE Injection ------------------------------
(***************************************************************************)
(* The injection of faults into the instructions of started threads: the   *)
(* counters of ThreadEnabledFault, the scan of a stage's queue, and the    *)
(* hooks of Fi_System in the order in which AtomicSimpleCPU::tick and the  *)
(* instruction's execute method call them.  One simulator event runs an    *)
(* instruction to its end, so instructions of different cores interleave   *)
(* whole; the steps of one instruction are separate actions because every  *)
(* hook is a loop, "while scan() finds a fault, process it".               *)
(***************************************************************************)
EXTENDS Integers, FiniteSets, Sequences, Functions

CONSTANTS
    Threads,    \* ThreadEnabledFault objects
    ThreadId,   \* the id each thread passed to fi_activate_inst
    Cores,      \* the names of the CPUs
    Faults,     \* the faults of the input file
    Addrs,      \* PC values, relative to the thread's MagicInstVirtualAddr
    Setups      \* what is simulated, a set of records with the fields
                \*  file: what the input file says of each fault,
                \*  threads, cores: the ones that take part,
                \*  classes: the kinds of instructions, "op", "mem", "other",
                \*  metadata: the values getSignificance returns ({FALSE}
                \*    without a meta file),
                \*  instrs: bound, the instructions run,
                \*  ticks: bound, tick counters stop there (scan of an
                \*    instruction-timed fault only asks whether one is zero)

Stages == {"main", "fetch", "decode", "iew", "loadstore"}
Counters == {"fetched", "executed", "loadstore", "ticks"}

Objects == Threads \cup {"allthreads"}
Slots == Cores \cup {"all"}

(* The last conjunct on a fault is the bound's: strikes are counted as far *)
(* as the occurrences of every fault go.                                   *)
ASSUME InjectionAssumption ==
    /\ DOMAIN ThreadId = Threads
    /\ IsFiniteSet(Threads) /\ IsFiniteSet(Cores) /\ IsFiniteSet(Faults)
    /\ \A u \in Setups :
        /\ DOMAIN u.file = Faults /\ u.instrs \in Nat /\ u.ticks \in Nat
        /\ \A f \in Faults : /\ u.file[f].stage \in Stages /\ u.file[f].where \in Slots
                             /\ u.file[f].type \in {"Inst", "Tick", "Addr"}
                             /\ u.file[f].timing \in Nat /\ u.file[f].occ \in Int
                             /\ u.file[f].occ <= u.instrs + 1
        /\ u.threads \subseteq Threads /\ u.cores \subseteq Cores
        /\ u.metadata \subseteq BOOLEAN /\ u.classes \subseteq {"op", "mem", "other"}
    /\ "all" \notin Cores /\ "allthreads" \notin Threads

VARIABLES
    setup,   \* what is simulated (never changes)
    queue,   \* the queue of each stage, head first
    timing,  \* InjectedFault::_timing
    occ,     \* InjectedFault::_occurrence; -1 and -2 stand for the odd and even
             \* negative values
    started, \* threads that have activated injection
    known,   \* the keys of ThreadEnabledFault::cores, "all" left out
    count,   \* count[k][o][s]: counter k of object o, on core s or on "all"
    now,     \* instructions run so far; the clock edge of the current one
    cur,     \* the instruction in progress
    stage,   \* the hook it is in, "end", or "idle" between instructions
    strikes  \* how often each fault was injected

vars == <<setup, queue, timing, occ, started, known, count, now, cur, stage, strikes>>

file == setup.file

(* Bound: more strikes than instructions look alike. *)
MaxStrikes == setup.instrs + 1

Idle == [thread |-> "none", core |-> "none", addr |-> 0, class |-> "other", reliable |-> FALSE]

(* A queue that was filled by insert: ascending, ties in any order. *)
Sorted(s) ==
    LET own == {f \in Faults : file[f].stage = s} IN
    {q \in Bijection(1..Cardinality(own), own) :
        \A i \in 2..Len(q) : file[q[i - 1]].timing <= file[q[i]].timing}

Init ==
    /\ setup \in Setups
    /\ queue \in [Stages -> UNION {Sorted(s) : s \in Stages}]
    /\ \A s \in Stages : queue[s] \in Sorted(s)
    /\ timing = [f \in Faults |-> file[f].timing]
    /\ occ = [f \in Faults |-> file[f].occ]
    /\ started = {}
    /\ known = [o \in Objects |-> {}]
    /\ count = [k \in Counters |-> [o \in Objects |-> [s \in Slots |-> 0]]]
    /\ now = 0
    /\ cur = Idle
    /\ stage = "idle"
    /\ strikes = [f \in Faults |-> 0]

---------------------------------------------------------------------------
(* increaseTicks, increaseFetchedInstr, ...: on the running thread and on  *)
(* allthreads.  A core met for the first time gets an entry, not a count.  *)
Capped(k, n) == IF k = "ticks" /\ n > setup.ticks THEN setup.ticks ELSE n

Increased(k, n) ==
    [count EXCEPT ![k] = [o \in Objects |-> [s \in Slots |->
        IF o \in {cur.thread, "allthreads"} /\ (s = "all" \/ (s = cur.core /\ s \in known[o]))
        THEN Capped(k, count[k][o][s] + n) ELSE count[k][o][s]]]]

MeetCore_NotAll(t, c) == [known EXCEPT ![t] = @ \cup {c}]

MeetCore(t, c) == [known EXCEPT ![t] = @ \cup {c}, !["allthreads"] = @ \cup {c}]

(* start_fi creates the thread, and allthreads with the first thread. *)
Start_NoCore(t, c) ==
    /\ stage = "idle" /\ t \notin started
    /\ started' = started \cup {t}
    /\ UNCHANGED <<setup, queue, timing, occ, known, count, now, cur, stage, strikes>>

Start(t, c) ==
    /\ stage = "idle" /\ t \notin started
    /\ started' = started \cup {t}
    /\ known' = [known EXCEPT ![t] = {c},
                              !["allthreads"] = IF started = {} THEN {c} ELSE @]
    /\ UNCHANGED <<setup, queue, timing, occ, count, now, cur, stage, strikes>>

---------------------------------------------------------------------------
(* get_fi_fetch_counters and its siblings: which object's counter and      *)
(* which slot of it a fault looks at, if the running thread concerns it.   *)
Concerns(f) ==
    /\ file[f].thread \in {"all", ThreadId[cur.thread]}
    /\ file[f].where \in {"all", cur.core}

Clock_ThreadOnly(f, k) == count[k][cur.thread][file[f].where]

Clock(f, k) ==
    count[k][IF file[f].thread = "all" THEN "allthreads" ELSE cur.thread][file[f].where]

Counter(s) == CASE s = "iew" -> "executed"
                [] s = "loadstore" -> "loadstore"
                [] OTHER -> "fetched"

Considered(f, s) ==
    Concerns(f) /\ (Clock(f, "ticks") # 0 \/ Clock(f, Counter(s)) # 0)

(* The value that InjectedFaultQueue::scan compares with the timing. *)
Reading(f, s) == CASE file[f].type = "Inst" -> Clock(f, Counter(s))
                   [] file[f].type = "Tick" -> Clock(f, "ticks")
                   [] file[f].type = "Addr" -> cur.addr

Matches(f, s) == Considered(f, s) /\ Reading(f, s) = timing[f]

Missed_Earlier(f, s) ==
    Considered(f, s) /\ file[f].type # "Addr" /\ Reading(f, s) < timing[f]

Missed(f, s) ==
    Considered(f, s) /\ file[f].type # "Addr" /\ Reading(f, s) > timing[f]

(* scan: the first match, unless a fault before it was missed (flag = 0).  *)
Found(s) == {i \in DOMAIN queue[s] :
                /\ Matches(queue[s][i], s)
                /\ \A j \in 1..(i - 1) :
                     ~Matches(queue[s][j], s) /\ ~Missed(queue[s][j], s)}

(* process() and check4reschedule(): the last occurrence takes the fault   *)
(* out; any other gives it a new timing where it stands in the queue.      *)
Rescheduled_Same(f) == timing[f]

Rescheduled_Skip(f) == timing[f] + 2

Rescheduled(f) == CASE file[f].type = "Inst" -> timing[f] + 1
                    [] file[f].type = "Tick" -> timing[f] + now + 1
                    [] file[f].type = "Addr" -> timing[f]

LastOccurrence_Zero(f) == occ[f] = 0

LastOccurrence(f) == occ[f] = 1

Removed(q, i) == SubSeq(q, 1, i - 1) \o SubSeq(q, i + 1, Len(q))

Process(s) ==
    \E i \in Found(s) : LET f == queue[s][i] IN
        /\ strikes' = [strikes EXCEPT ![f] = IF @ < MaxStrikes THEN @ + 1 ELSE @]
        /\ IF LastOccurrence(f)
           THEN /\ queue' = [queue EXCEPT ![s] = Removed(@, i)]
                /\ UNCHANGED <<timing, occ>>
           ELSE /\ timing' = [timing EXCEPT ![f] = Rescheduled(f)]
                /\ occ' = [occ EXCEPT ![f] = IF @ = -2 THEN -1 ELSE @ - 1]
                /\ UNCHANGED queue
        /\ UNCHANGED <<setup, started, known, count, now, cur, stage>>

---------------------------------------------------------------------------
(* tick(): the ticks are counted (the absolute time of the next clock      *)
(* edge is added), then the hooks follow one another.                      *)
Begin(t, c) ==
    /\ stage = "idle" /\ t \in started /\ now < setup.instrs
    /\ \E a \in Addrs, k \in setup.classes, r \in setup.metadata :
        cur' = [thread |-> t, core |-> c, addr |-> a, class |-> k, reliable |-> r]
    /\ stage' = "ticks"
    /\ UNCHANGED <<setup, queue, timing, occ, started, known, count, now, strikes>>

CountTicks ==
    /\ stage = "ticks"
    /\ count' = Increased("ticks", now + 1)
    /\ known' = MeetCore(cur.thread, cur.core)
    /\ stage' = "main"
    /\ UNCHANGED <<setup, queue, timing, occ, started, now, cur, strikes>>

Hook(s, after, k) ==
    /\ stage = s
    /\ \/ Process(s)
       \/ /\ Found(s) = {}
          /\ stage' = after
          /\ count' = IF k = "none" THEN count ELSE Increased(k, 1)
          /\ UNCHANGED <<setup, queue, timing, occ, started, known, now, cur, strikes>>

(* main_fault, then fetch_fault counts the instruction before it scans;    *)
(* an instruction marked reliable is neither counted nor injected into.    *)
MainFault == IF cur.reliable THEN Hook("main", "end", "none")
                             ELSE Hook("main", "fetch", "fetched")
FetchFault == Hook("fetch", "decode", "none")
DecodeFault == Hook("decode", CASE cur.class = "op" -> "iew"
                                [] cur.class = "mem" -> "loadstore"
                                [] OTHER -> "end", "none")

(* iew_fault and lds_fault scan first and count the instruction after. *)
IewFault == Hook("iew", "end", "executed")
LdsFault == Hook("loadstore", "end", "loadstore")

End ==
    /\ stage = "end"
    /\ count' = Increased("ticks", 1)
    /\ now' = now + 1
    /\ cur' = Idle
    /\ stage' = "idle"
    /\ UNCHANGED <<setup, queue, timing, occ, started, known, strikes>>

Run == CountTicks \/ MainFault \/ FetchFault \/ DecodeFault \/ IewFault \/ LdsFault \/ End

Next ==
    \/ \E t \in setup.threads, c \in setup.cores : Start(t, c) \/ Begin(t, c)
    \/ Run

(* The hooks run inside one simulator event: nothing holds them up. *)
Spec == Init /\ [][Next]_vars /\ WF_vars(Run)

---------------------------------------------------------------------------
TypeOK ==
    /\ \A s \in Stages : Range(queue[s]) \subseteq {f \in Faults : file[f].stage = s}
    /\ timing \in [Faults -> Nat] /\ occ \in [Faults -> Int]
    /\ started \subseteq Threads /\ \A t \in Threads : t \in started <=> known[t] # {}
    /\ known \in [Objects -> SUBSET Cores]
    /\ count \in [Counters -> [Objects -> [Slots -> Nat]]]
    /\ now \in 0..setup.instrs
    /\ stage \in Stages \cup {"idle", "ticks", "end"}
    /\ strikes \in [Faults -> Nat]

(* The instruction counters agree with one another however threads migrate *)
(* and whichever core is met first: "all" is the sum over the cores, and   *)
(* allthreads the sum over the threads, so faults on one core and faults   *)
(* on all cores see the same history.                                      *)
TotalsAgree ==
    \A k \in Counters \ {"ticks"} :
        /\ \A o \in Objects :
               count[k][o]["all"] = SumFunction([c \in Cores |-> count[k][o][c]])
        /\ \A s \in Slots :
               count[k]["allthreads"][s] = SumFunction([t \in Threads |-> count[k][t][s]])

(* How many instructions the clock of a fault has seen: the foremost one,  *)
(* where threads of the same id each have their own.                       *)
Owners(f) == IF file[f].thread = "all" THEN {"allthreads"}
             ELSE {t \in Threads : ThreadId[t] = file[f].thread}
Elapsed(f) ==
    LET clocks == {0} \cup {count[Counter(file[f].stage)][o][file[f].where] : o \in Owners(f)}
    IN CHOOSE m \in clocks : \A n \in clocks : m >= n

(* The readings at which a fault that was due at T occ times is to strike. *)
Due(f, upto) ==
    Cardinality({v \in file[f].timing..upto :
                    file[f].occ >= 1 => v < file[f].timing + file[f].occ})

(* No reading ever goes past such a fault without being compared with it:  *)
(* ticks go up in leaps, and the first reading in the fetch stage is 1.    *)
Punctual(f) == file[f].type = "Addr" \/ (file[f].type = "Inst" /\ file[f].timing >= 1)

(* No fault that scan can miss is queued before it. *)
Unhidden(f) ==
    \A g \in Faults : file[g].stage = file[f].stage /\ file[g].timing <= file[f].timing
                      => Punctual(g)

(* Between instructions every instruction-timed fault has been injected    *)
(* once for each of its occurrences that has come up, none skipped, none   *)
(* repeated, whatever is queued behind it: at the T-th, (T+1)-th, ...      *)
(* fetched instruction in the fetch and decode stages, and after T, T+1,   *)
(* ... instructions in the stages whose hook scans before it counts.  One  *)
(* that may be hidden is excepted, see HiddenByMissed.                     *)
StruckOnSchedule ==
    stage = "idle" =>
        \A f \in Faults : file[f].type = "Inst" /\ Unhidden(f) =>
            IF file[f].stage \in {"fetch", "decode"} THEN strikes[f] = Due(f, Elapsed(f))
            ELSE IF file[f].stage = "main"
                 THEN strikes[f] \in {Due(f, Elapsed(f) - 1), Due(f, Elapsed(f))}
            ELSE strikes[f] = Due(f, Elapsed(f) - 1)

(* A fault of occurrence n >= 1 strikes at most n times, and is out of its *)
(* queue after the last: no thread can meet it again.                      *)
AtMostOccurrences ==
    \A f \in Faults : file[f].occ >= 1 =>
        /\ strikes[f] <= file[f].occ
        /\ strikes[f] = file[f].occ <=> f \notin Range(queue[file[f].stage])

(* "Scan the specific queue to find if any fault matches the provided      *)
(* criteria": scan stops at the first missed fault, and what that costs is *)
(* this.  When it returns NULL although a queued fault matches, the file   *)
(* has a tick-timed fault, or one due at instruction 0, before that one;   *)
(* another instruction-timed fault is missed only after such a one has     *)
(* hidden it.                                                              *)
HiddenByMissed ==
    stage \in Stages /\ Found(stage) = {} =>
        \A i \in DOMAIN queue[stage] :
            Matches(queue[stage][i], stage) => ~Unhidden(queue[stage][i])

(* Every instruction gets through its hooks: the loops "while scan finds a *)
(* fault" end, permanent faults and faults of equal timing included.       *)
InstructionCompletes == stage # "idle" ~> stage = "idle"

=============================================================================
