------------------------ MODULE MCAssigningSubscriber ------------------------
(* Instances of AssigningSubscriber for TLC. *)
EXTENDS AssigningSubscriber

MCServices == Subscribers \cup {Assigner}
=============================================================================
