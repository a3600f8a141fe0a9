------------------------------ MODULE FaultList ------------------------------
(***************************************************************************)
(* What an InjectedFaultQueue promises its callers: a list of faults,      *)
(* filled in ascending order of timing, from which a fault that was used   *)
(* up is taken out and in which a fault that is to strike again gets a     *)
(* later timing and keeps its place.                                       *)
(***************************************************************************)
EXTENDS Naturals, FiniteSets, Sequences

CONSTANTS Faults, Timings

VARIABLES
    list,   \* the queued faults, first to last
    timing  \* InjectedFault::_timing of every fault

Queued == {list[i] : i \in DOMAIN list}

ListInit ==
    /\ list = <<>>
    /\ timing \in [Faults -> Timings]

(* A new fault goes after the leading faults that are due earlier. *)
Enter(f, t) ==
    LET earlier == {i \in DOMAIN list : \A j \in 1..i : timing[list[j]] < t}
        k == Cardinality(earlier) IN
    /\ f \notin Queued
    /\ timing' = [timing EXCEPT ![f] = t]
    /\ list' = SubSeq(list, 1, k) \o <<f>> \o SubSeq(list, k + 1, Len(list))

Take(f) ==
    /\ \E i \in DOMAIN list :
        /\ list[i] = f
        /\ list' = SubSeq(list, 1, i - 1) \o SubSeq(list, i + 1, Len(list))
    /\ UNCHANGED timing

Reschedule(f) ==
    /\ f \in Queued
    /\ \E t \in Timings : t > timing[f] /\ timing' = [timing EXCEPT ![f] = t]
    /\ UNCHANGED list

ListNext ==
    \E f \in Faults :
        \/ \E t \in Timings : Enter(f, t)
        \/ Take(f)
        \/ Reschedule(f)

ListSpec == ListInit /\ [][ListNext]_<<list, timing>>

=============================================================================
