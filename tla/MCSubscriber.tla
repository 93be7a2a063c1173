----------------------------- MODULE MCSubscriber -----------------------------
(* Instances of Subscriber for TLC. *)
EXTENDS Subscriber

Symmetry == Permutations(Goroutines) \cup Permutations(Streams)
=============================================================================
