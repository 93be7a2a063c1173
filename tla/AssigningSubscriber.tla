-------------------------- MODULE AssigningSubscriber --------------------------
(***************************************************************************)
(* The subscriber with partition assignment                                *)
(* (assigningSubscriber in pubsublite/internal/wire/subscriber.go and      *)
(* assigner.go): a composite of the assigner and one subscriber per        *)
(* assigned partition.                                                     *)
(*                                                                         *)
(* The assigner's stream is seen through its callbacks: StreamClient shows *)
(* what they may be.  While a listener is in onResponse nobody receives,   *)
(* and when handleAssignment takes longer than the stream's idle timeout   *)
(* of ten minutes a new stream and listener handle the next assignment at  *)
(* the same time.  A listener that comes back to a stream which is not     *)
(* current ends: its identity is then free for a new one, and "recv"       *)
(* stands for both.                                                        *)
(***************************************************************************)
EXTENDS CompositeService

CONSTANTS
  Partitions,
  Listeners,       \* handles of goroutines that listen on the assigner's streams
  MaxGenerations,  \* bound on the subscribers created for one partition
  MaxAssignments,  \* bound on the assignments of the server
  MaxOverlapping   \* bound on them when listeners overlap

\* Subscriber n of partition p is <<p, n>>.
Subscribers == Partitions \X (1..MaxGenerations)

Assigner == <<"assigner", 0>>

ASSUME AssigningAssumption ==
  /\ Services = Subscribers \cup {Assigner}
  /\ MaxGenerations \in Nat
  /\ MaxAssignments \in Nat
  /\ MaxOverlapping \in 0..MaxAssignments

VARIABLES
  subscribers,  \* assigningSubscriber.subscribers
  created,      \* how many subscribers the factory made for each partition
  listener,     \* where each listener of the assigner is in onResponse
  next,         \* the assignment it handles
  waitFor,      \* its removedSubscribers
  assignments,  \* how many assignments the server sent
  overlapped    \* history: an assignment came while another was handled

handlerVars == <<subscribers, created, listener, next, waitFor, overlapped>>
vars == <<compositeVars, childVars, handlerVars, assignments>>

TypeOK ==
  /\ CompositeTypeOK
  /\ subscribers \subseteq Subscribers
  /\ created \in [Partitions -> 0..MaxGenerations]
  /\ listener \in [Listeners -> {"recv", "onResponse", "handler", "wait", "done", "failed"}]
  /\ next \in [Listeners -> SUBSET Partitions]
  /\ waitFor \in [Listeners -> SUBSET Subscribers]
  /\ assignments \in 0..MaxAssignments
  /\ overlapped \in BOOLEAN

\* newAssigningSubscriber
Init ==
  /\ CompositeInit({Assigner})
  /\ subscribers = {}
  /\ created = [p \in Partitions |-> 0]
  /\ listener = [l \in Listeners |-> "recv"]
  /\ next = [l \in Listeners |-> {}]
  /\ waitFor = [l \in Listeners |-> {}]
  /\ assignments = 0
  /\ overlapped = FALSE

-----------------------------------------------------------------------------
(* Operations of the user *)

Start == CompositeStart /\ UNCHANGED <<handlerVars, assignments>>

Stop == CompositeStop /\ UNCHANGED <<handlerVars, assignments>>

\* Terminate stops the children of every subscriber, which makes it stop: at
\* once here, and with any delay as a ChildFailure.
SubscribersTerminate ==
  /\ subscribers # {}
  /\ child' = Stopped(subscribers)
  /\ UNCHANGED <<compositeVars, handlerVars, assignments>>
  /\ NotifyReceivers({})

-----------------------------------------------------------------------------
(* A listener of the assigner: onResponse and handleAssignment *)

Busy(l) == listener[l] # "recv"

\* The listener of the current stream reads the next assignment; if others are
\* in onResponse, after an idle timeout.  The stream is checked to be current
\* here, and not looked at again.
RecvAssignment(l, partitions) ==
  /\ ~Busy(l)
  /\ child[Assigner] = serviceActive
  /\ overlapped' = (overlapped \/ \E m \in Listeners : Busy(m))
  /\ assignments < IF overlapped' THEN MaxOverlapping ELSE MaxAssignments
  /\ assignments' = assignments + 1
  /\ listener' = [listener EXCEPT ![l] = "onResponse"]
  /\ next' = [next EXCEPT ![l] = partitions]
  /\ UNCHANGED <<compositeVars, childVars, subscribers, created, waitFor>>

Assigned == {c[1] : c \in subscribers}

\* Mutant: the existing subscribers are not looked up.
NewSubscribersAlways(partitions) == {<<p, created[p] + 1>> : p \in partitions}

\* subFactory.New for the partitions that have no subscriber
NewSubscribers(partitions) == {<<p, created[p] + 1>> : p \in partitions \ Assigned}

\* Mutant: partitions are removed and not their subscribers.
OldPartitions(partitions) == {c[1] : c \in {d \in subscribers : d[1] \notin partitions}}

OldSubscribers(partitions) == {c \in subscribers : c[1] \notin partitions}

\* doHandleAssignment.  It fails, and changes nothing, if partitions are added
\* when the composite is stopping.
DoHandleAssignment(l) ==
  /\ listener[l] = "onResponse"
  /\ IF NewSubscribers(next[l]) # {} /\ composite >= serviceTerminating
     THEN /\ listener' = [listener EXCEPT ![l] = "failed"]
          /\ UNCHANGED <<compositeVars, childVars, subscribers, created, waitFor>>
     ELSE /\ NewSubscribers(next[l]) \subseteq Subscribers
          /\ AddAndRemove(NewSubscribers(next[l]), OldSubscribers(next[l]))
          /\ subscribers' = (subscribers \cup NewSubscribers(next[l])) \ OldSubscribers(next[l])
          /\ created' = [p \in Partitions |-> IF p \in next[l] \ Assigned THEN created[p] + 1
                                              ELSE created[p]]
          /\ waitFor' = [waitFor EXCEPT ![l] = OldSubscribers(next[l])]
          /\ listener' = [listener EXCEPT ![l] = "handler"]
  /\ UNCHANGED <<next, assignments, overlapped>>

\* The user's reassignmentHandler returns, with an error or not.
ReassignmentHandler(l) ==
  /\ listener[l] = "handler"
  /\ \E point \in {"wait", "failed"} : listener' = [listener EXCEPT ![l] = point]
  /\ UNCHANGED <<compositeVars, childVars, subscribers, created, next, waitFor, assignments,
                 overlapped>>

\* Mutant: the removed subscribers are not waited for.
RemovedStoppedAlways(l) == TRUE

\* WaitStopped of every subscriber that this listener removed
RemovedStopped(l) == \A c \in waitFor[l] : child[c] = serviceTerminated

WaitStopped(l) ==
  /\ listener[l] = "wait"
  /\ RemovedStopped(l)
  /\ listener' = [listener EXCEPT ![l] = "done"]
  /\ UNCHANGED <<compositeVars, childVars, subscribers, created, next, waitFor, assignments,
                 overlapped>>

\* The rest of onResponse: from "done" the assignment is acked, on the stream that
\* is then current, from "failed" the assigner is shut down with the error;
\* neither if it is stopping.
FinishAssignment(l) ==
  /\ listener[l] \in {"done", "failed"}
  /\ listener' = [listener EXCEPT ![l] = "recv"]
  /\ waitFor' = [waitFor EXCEPT ![l] = {}]
  /\ next' = [next EXCEPT ![l] = {}]
  /\ IF listener[l] = "failed" /\ child[Assigner] < serviceTerminating
     THEN ChildUpdate(Assigner, serviceTerminated)
     ELSE UNCHANGED <<compositeVars, childVars>>
  /\ UNCHANGED <<subscribers, created, assignments, overlapped>>

-----------------------------------------------------------------------------
(* The children by themselves, and their notifications *)

ChildStep(c) ==
  /\ ChildActive(c) \/ ChildTerminated(c)
  /\ UNCHANGED <<handlerVars, assignments>>

\* A subscriber, a composite itself, may fail in two steps.
ChildFailure(c) ==
  /\ \/ ChildFails(c, serviceTerminated)
     \/ c \in Subscribers /\ ChildFails(c, serviceTerminating)
  /\ UNCHANGED <<handlerVars, assignments>>

StatusChange ==
  /\ \E n \in notices : OnServiceStatusChange(n)
  /\ UNCHANGED <<handlerVars, assignments>>

Listener(l) ==
  DoHandleAssignment(l) \/ ReassignmentHandler(l) \/ WaitStopped(l) \/ FinishAssignment(l)

Next ==
  \/ Start \/ Stop \/ SubscribersTerminate
  \/ \E l \in Listeners, partitions \in SUBSET Partitions : RecvAssignment(l, partitions)
  \/ \E l \in Listeners : Listener(l)
  \/ \E c \in Services : ChildStep(c) \/ ChildFailure(c)
  \/ StatusChange

Spec == Init /\ [][Next]_vars

-----------------------------------------------------------------------------
(* Safety *)

\* A service that was started and has not come to its end.
Running(c) == child[c] \in serviceStarting..serviceTerminating

\* When the composite reports its termination no child runs any more:
\* apiClientService.WaitStopped then closes the API clients that they use.
TerminatedTogether == composite = serviceTerminated => \A c \in Services : ~Running(c)

\* "This avoids commits racing with the new assigned client": when an
\* assignment is acked, and the server may give the partitions that it does not
\* name to others, no subscriber of such a partition is left running.  An idle
\* timeout in the middle of handleAssignment voids this: the next assignment does
\* not wait for what the first one removed.
AckAfterStop ==
  [][\A l \in Listeners :
       /\ listener[l] = "done" /\ listener'[l] = "recv"
       /\ child[Assigner] < serviceTerminating
       /\ ~overlapped
       => \A c \in Subscribers : c[1] \notin next[l] => ~Running(c)]_vars

\* A partition that is taken away and given back never has two subscribers that
\* run at the same time, as long as assignments are handled one after the other.
OneSubscriberPerPartition ==
  ~overlapped =>
    \A c, d \in Subscribers : c[1] = d[1] /\ Running(c) /\ Running(d) => c = d

-----------------------------------------------------------------------------
(* Liveness.  Goroutines run, the user's handler returns, and the children   *)
(* start or fail and complete their shutdowns (Committer, Subscriber).       *)

Fairness ==
  /\ \A l \in Listeners : WF_vars(Listener(l))
  /\ \A c \in Services : WF_vars(ChildStep(c))
  /\ WF_vars(StatusChange)

FairSpec == Spec /\ Fairness

\* WaitStarted and WaitStopped return: a composite that is starting gets active
\* or fails, and one that is terminating terminates, although children come and
\* go and notifications arrive out of order; unless a subscriber was removed
\* after its termination had been notified.
Settles ==
  composite \in {serviceStarting, serviceTerminating} ~>
    \/ composite \in {serviceActive, serviceTerminated}
    \/ \E c \in removed :
         /\ child[c] = serviceTerminated
         /\ \A n \in notices : n.service = c => n.status # serviceTerminated

\* "WaitStopped waits for all dependencies to stop", and "The service will be
\* completely removed after it has terminated": WaitStopped returns whatever
\* was removed when.
StopCompletes == composite >= serviceTerminating ~> composite = serviceTerminated
=============================================================================
