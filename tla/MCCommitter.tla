----------------------------- MODULE MCCommitter -----------------------------
(***************************************************************************)
(* Committer for TLC.                                                      *)
(***************************************************************************)
EXTENDS Committer, TLC

Symmetry == Permutations(Goroutines) \cup Permutations(Streams)
=============================================================================
