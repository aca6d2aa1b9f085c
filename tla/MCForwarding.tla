---------------------------- MODULE MCForwarding ----------------------------
(* Forwarding for TLC. *)
EXTENDS Forwarding, TLC

\* Goroutines are interchangeable.
Symmetry == Permutations(Workers)
=============================================================================
