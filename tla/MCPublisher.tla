------------------------------ MODULE MCPublisher ------------------------------
(* Instances of Publisher for TLC. *)
EXTENDS Publisher, TLC

Symmetry == Permutations(Goroutines) \cup Permutations(Streams)
=============================================================================
