---------------------------- MODULE MCStreamClient ----------------------------
(* Instances of StreamClient for TLC.  Goroutines and streams are            *)
(* interchangeable identities, so permuting them is a symmetry; it is used   *)
(* only in the runs that check no liveness.                                  *)
EXTENDS StreamClient, TLC

Symmetry == Permutations(Goroutines) \cup Permutations(Streams)
=============================================================================
