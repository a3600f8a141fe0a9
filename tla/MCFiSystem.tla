----------------------------- MODULE MCFiSystem -----------------------------
(* Instances of FiSystem for TLC. *)
EXTENDS FiSystem, TLC

CONSTANTS c1, c2, p1, p2, p3

Symmetric == Permutations(Cpus) \cup Permutations(Pcbs)

=============================================================================
