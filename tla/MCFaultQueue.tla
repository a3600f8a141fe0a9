---------------------------- MODULE MCFaultQueue ----------------------------
(* Three faults in one queue. *)
EXTENDS FaultQueue, TLC

CONSTANTS f1, f2, f3

=============================================================================
