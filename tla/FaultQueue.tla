----------------------------- MODULE FaultQueue -----------------------------
(***************************************************************************)
(* InjectedFaultQueue: a doubly linked list through the nxt and prv fields *)
(* of the faults.  The constructor of a fault initialises neither field,   *)
(* and insert sets only some of them; Fresh holds the values that a newly  *)
(* allocated field may have.  A fault is allocated and inserted when the   *)
(* input file is read, taken out or rescheduled when it strikes, and       *)
(* delete_faults empties the queue before the next file is read.  A fault  *)
(* that was taken out is never used again: its name stands for a new one.  *)
(***************************************************************************)
EXTENDS Naturals, FiniteSets, Sequences

CONSTANTS
    Faults,    \* the faults of an input file
    MaxTiming, \* bound: the latest timing
    NULL,
    Wild,      \* a pointer to memory that is no fault
    Fresh      \* the contents of an uninitialised pointer field

(* The null pointer and a wild one point to no fault. *)
ASSUME QueueAssumption ==
    /\ IsFiniteSet(Faults) /\ MaxTiming \in Nat
    /\ NULL \notin Faults /\ Wild \notin Faults /\ NULL # Wild

Timings == 0..MaxTiming
Pointers == Faults \cup {NULL, Wild}

VARIABLES
    head, tail, \* of the queue
    nxt, prv,   \* of every fault
    timing,     \* of every fault
    phase,      \* "load", "run", or "clear" during delete_faults
    crashed     \* TRUE: a wild pointer was used, or remove asserted

vars == <<head, tail, nxt, prv, timing, phase, crashed>>

(* Types, as part of LinksAgree. *)
TypeOK ==
    /\ head \in Pointers /\ tail \in Pointers
    /\ nxt \in [Faults -> Pointers] /\ prv \in [Faults -> Pointers]
    /\ timing \in [Faults -> Timings]
    /\ phase \in {"load", "run", "clear"}
    /\ crashed \in BOOLEAN

Init ==
    /\ head = NULL /\ tail = NULL
    /\ nxt \in [Faults -> {NULL}] /\ prv \in [Faults -> {NULL}]
    /\ timing \in [Faults -> {0}]
    /\ phase = "load"
    /\ crashed = FALSE

Empty == head = NULL /\ tail = NULL

(* The pointers that p = head; p = p->nxt; ... goes through. *)
Visit[n \in 0..Cardinality(Faults)] ==
    IF n = 0 THEN head
    ELSE IF Visit[n - 1] \in Faults THEN nxt[Visit[n - 1]] ELSE Visit[n - 1]

(* Where a traversal stops that goes on while p points into S. *)
Seek(S) ==
    Visit[CHOOSE n \in DOMAIN Visit :
            Visit[n] \notin S /\ \A m \in 0..(n - 1) : Visit[m] \in S]

(* The queued faults, in the order of a traversal. *)
Length == CHOOSE n \in DOMAIN Visit :
            Visit[n] \notin Faults /\ \A m \in 0..(n - 1) : Visit[m] \in Faults
Contents == [i \in 1..Length |-> Visit[i - 1]]

Queued(f) == \E i \in 1..Length : Contents[i] = f

Crash ==
    /\ crashed' = TRUE
    /\ UNCHANGED <<head, tail, nxt, prv>>

---------------------------------------------------------------------------
(* insert(): the loop passes the faults that are due before t; f arrives   *)
(* with the nxt and prv that its memory happened to hold.                  *)
Passed_All(t) == Faults

Passed(t) == {g \in Faults : timing[g] < t}

InsertFirst(f) ==
    /\ head' = f /\ tail' = f
    /\ nxt' = [nxt EXCEPT ![f] = NULL]
    /\ prv' = [prv EXCEPT ![f] = NULL]

InsertAtEnd(f, n) ==
    /\ nxt' = [nxt EXCEPT ![f] = n, ![tail] = f]
    /\ prv' = [prv EXCEPT ![f] = tail]
    /\ tail' = f
    /\ UNCHANGED head

InsertAtHead(f, v) ==
    /\ nxt' = [nxt EXCEPT ![f] = head]
    /\ prv' = [prv EXCEPT ![f] = v, ![head] = f]
    /\ head' = f
    /\ UNCHANGED tail

InsertBetween_OneWay(f, p) ==
    /\ nxt' = [nxt EXCEPT ![prv[p]] = f, ![f] = p]
    /\ prv' = [prv EXCEPT ![f] = prv[p]]
    /\ UNCHANGED <<head, tail>>

InsertBetween(f, p) ==
    /\ nxt' = [nxt EXCEPT ![prv[p]] = f, ![f] = p]
    /\ prv' = [prv EXCEPT ![f] = prv[p], ![p] = f]
    /\ UNCHANGED <<head, tail>>

Insert(f, t) ==
    LET p == Seek(Passed(t)) IN
    /\ phase = "load" /\ ~crashed /\ ~Queued(f)
    /\ timing' = [timing EXCEPT ![f] = t]
    /\ IF p = Wild \/ (p = NULL /\ tail = Wild) THEN Crash ELSE
       /\ crashed' = FALSE
       /\ \/ Empty /\ InsertFirst(f)
          \/ ~Empty /\ p = NULL /\ \E n \in Fresh : InsertAtEnd(f, n)
          \/ ~Empty /\ p = head /\ \E v \in Fresh : InsertAtHead(f, v)
          \/ p \in Faults \ {head} /\ InsertBetween(f, p)
    /\ UNCHANGED phase

(* remove(): the links of f are followed without a look at the queue's.    *)
Unlink_TailKept(f) ==
    /\ head' = IF prv[f] = NULL THEN nxt[f] ELSE head
    /\ nxt' = IF prv[f] = NULL THEN nxt ELSE [nxt EXCEPT ![prv[f]] = nxt[f]]
    /\ prv' = IF nxt[f] = NULL THEN prv ELSE [prv EXCEPT ![nxt[f]] = prv[f]]
    /\ UNCHANGED tail

Unlink(f) ==
    /\ head' = IF prv[f] = NULL THEN nxt[f] ELSE head
    /\ nxt' = IF prv[f] = NULL THEN nxt ELSE [nxt EXCEPT ![prv[f]] = nxt[f]]
    /\ tail' = IF nxt[f] = NULL THEN prv[f] ELSE tail
    /\ prv' = IF nxt[f] = NULL THEN prv ELSE [prv EXCEPT ![nxt[f]] = prv[f]]

Remove(f) ==
    /\ IF Seek(Faults \ {f}) # f \/ f \notin Faults \/ Wild \in {nxt[f], prv[f]}
       THEN Crash
       ELSE Unlink(f) /\ crashed' = FALSE
    /\ UNCHANGED timing

(* check4reschedule() of a fault that struck: the last occurrence takes it *)
(* out, any other one gives it a later timing where it stands.             *)
Strike(f) ==
    /\ phase = "run" /\ ~crashed /\ Queued(f)
    /\ \/ Remove(f)
       \/ /\ \E t \in Timings : t > timing[f] /\ timing' = [timing EXCEPT ![f] = t]
          /\ UNCHANGED <<head, tail, nxt, prv, crashed>>
    /\ UNCHANGED phase

(* scan() when no fault is due goes through the whole queue. *)
Scan ==
    /\ phase = "run" /\ ~crashed
    /\ crashed' = (Seek(Faults) = Wild)
    /\ UNCHANGED <<head, tail, nxt, prv, timing, phase>>

(* The input file is read; injection starts. *)
Loaded ==
    /\ phase = "load" /\ ~crashed
    /\ phase' = "run"
    /\ UNCHANGED <<head, tail, nxt, prv, timing, crashed>>

(* reset(): delete_faults removes the head until the queue is empty. *)
Reset ==
    /\ phase \in {"load", "run"} /\ ~crashed
    /\ phase' = "clear"
    /\ UNCHANGED <<head, tail, nxt, prv, timing, crashed>>

DeleteFaults ==
    /\ phase = "clear" /\ ~crashed
    /\ \/ ~Empty /\ Remove(head) /\ UNCHANGED phase
       \/ /\ Empty /\ phase' = "load"
          /\ UNCHANGED <<head, tail, nxt, prv, timing, crashed>>

Next ==
    \/ \E f \in Faults :
        \/ \E t \in Timings : Insert(f, t)
        \/ Strike(f)
    \/ Scan
    \/ Loaded
    \/ Reset
    \/ DeleteFaults

(* The loop of delete_faults runs in one handler: nothing can hold it up. *)
Spec == Init /\ [][Next]_vars /\ WF_vars(DeleteFaults)

---------------------------------------------------------------------------
(* The header promises "pointers on the next and previous fault in the     *)
(* queue", so no traversal of insert, remove or scan leaves the queue's    *)
(* faults and the null pointer, and remove finds what it is given.         *)
NeverCrashes == ~crashed

(* Both directions of the list tell the same story: the null ends are at   *)
(* head and tail and prv inverts nxt, so that remove, which trusts the     *)
(* fault's own links, keeps head and tail right.                           *)
LinksAgree ==
    LET q == Contents IN
    TypeOK /\
    IF q = <<>> THEN Empty
    ELSE /\ head = q[1] /\ tail = q[Length]
         /\ prv[head] = NULL /\ nxt[tail] = NULL
         /\ \A i \in 2..Length : prv[q[i]] = q[i - 1]

(* "The faults are entered in a ascending order based on their timing      *)
(* value": while the file is read, every traversal meets them in order.    *)
EnteredAscending ==
    phase = "load" =>
        \A i \in 2..Length : timing[Contents[i - 1]] <= timing[Contents[i]]

(* delete_faults ends: removing the head until the queue is empty does not *)
(* go on for ever and leaves a queue that the next file can be read into.  *)
ResetTerminates == phase = "clear" ~> phase = "load" /\ Empty

(* The linked list implements the abstract list of faults. *)
Abstract == INSTANCE FaultList WITH list <- Contents

ImplementsList == Abstract!ListSpec

=============================================================================
