--------------------------- MODULE CompositeService ---------------------------
(***************************************************************************)
(* A service made of child services (compositeService in                   *)
(* pubsublite/internal/wire/service.go).  Children notify the composite of *)
(* every change of their status from a goroutine of its own, so that the   *)
(* notifications arrive at any time and in any order.  Their errors are   *)
(* not modelled.                                                           *)
(*                                                                         *)
(* One action is one critical section of the composite's mutex.  It reads  *)
(* the children's statuses in one step: they only grow, and what grows     *)
(* during the loop is notified again.                                      *)
(***************************************************************************)
EXTENDS Service, FiniteSets

CONSTANT Services   \* handles of all services that can become children

VARIABLES
  composite,     \* compositeService.status
  dependencies,  \* compositeService.dependencies
  removed,       \* compositeService.removed
  registered,    \* children that have the composite as statusChangeReceiver
  child,         \* the status of each service
  notices        \* goroutines that have yet to call onServiceStatusChange

compositeVars == <<composite, dependencies, removed, registered>>
childVars == <<child, notices>>

Notices == [service : Services, status : ServiceStatuses]

CompositeTypeOK ==
  /\ composite \in ServiceStatuses
  /\ dependencies \subseteq Services
  /\ removed \subseteq Services
  /\ registered \subseteq Services
  /\ child \in [Services -> ServiceStatuses]
  /\ notices \subseteq Notices

\* init, followed by unsafeAddServices of the first children
CompositeInit(first) ==
  /\ composite = serviceUninitialized
  /\ dependencies = first
  /\ removed = {}
  /\ registered = first
  /\ child = [c \in Services |-> serviceUninitialized]
  /\ notices = {}

\* The second half of abstractService.unsafeUpdateStatus, for every child whose
\* status changes; read is the set of notifications that were delivered.
NotifyReceivers(read) ==
  notices' = (notices \ read) \cup
    {[service |-> c, status |-> child'[c]] : c \in {d \in registered' : child'[d] # child[d]}}

\* The children after Start was called on those of set S, and after Stop.
Started(S) ==
  [c \in Services |-> IF c \in S THEN UpdateStatus(child[c], serviceStarting) ELSE child[c]]

Stopped(S) ==
  [c \in Services |-> IF c \in S THEN UpdateStatus(child[c], serviceTerminating) ELSE child[c]]

\* compositeService.unsafeUpdateStatus.  waitStarted and waitTerminated are
\* closed with the step to serviceActive or beyond and to serviceTerminated.
UpdateComposite(target) == composite' = UpdateStatus(composite, target)

\* Mutant: the children are not stopped.
CompositeStopForgets ==
  /\ composite < serviceTerminating
  /\ UpdateComposite(serviceTerminating)
  /\ UNCHANGED <<childVars, dependencies, removed, registered>>

\* unsafeInitiateShutdown(serviceTerminating, nil)
CompositeStop ==
  /\ composite < serviceTerminating
  /\ UpdateComposite(serviceTerminating)
  /\ child' = Stopped(dependencies)
  /\ UNCHANGED <<dependencies, removed, registered>>
  /\ NotifyReceivers({})

CompositeStart ==
  /\ composite < serviceStarting
  /\ UpdateComposite(serviceStarting)
  /\ child' = Started(dependencies)
  /\ UNCHANGED <<dependencies, removed, registered>>
  /\ NotifyReceivers({})

\* unsafeAddServices of the services in set add and unsafeRemoveService of those
\* in set remove, in one critical section
AddAndRemove(add, remove) ==
  /\ registered' = registered \cup add
  /\ dependencies' = (dependencies \cup add) \ remove
  /\ removed' = removed \cup (remove \cap dependencies)
  /\ child' = [c \in Services |->
                 CASE c \in add /\ composite > serviceUninitialized -> Started(add)[c]
                   [] c \in remove -> Stopped(remove)[c]
                   [] OTHER -> child[c]]
  /\ UNCHANGED composite
  /\ NotifyReceivers({})

\* Mutant: services in the process of being removed are forgotten.
NothingLeftEarly == \A c \in dependencies : child'[c] = serviceTerminated

\* "numTerminated == len(cs.dependencies) && len(cs.removed) == 0"
NothingLeft == removed' = {} /\ \A c \in dependencies : child'[c] = serviceTerminated

AllStarted == \A c \in dependencies : child'[c] >= serviceActive

\* onServiceStatusChange for notification n
OnServiceStatusChange(n) ==
  /\ n \in notices
  /\ LET gone == {c \in removed : c = n.service /\ n.status = serviceTerminated}
         shouldTerminate == n.status >= serviceTerminating /\ n.service \in dependencies IN
       /\ removed' = removed \ gone
       /\ registered' = registered \ gone
       /\ child' = IF shouldTerminate THEN Stopped(dependencies) ELSE child
       /\ CASE NothingLeft -> UpdateComposite(serviceTerminated)
            [] ~NothingLeft /\ shouldTerminate -> UpdateComposite(serviceTerminating)
            [] ~NothingLeft /\ ~shouldTerminate /\ AllStarted -> UpdateComposite(serviceActive)
            [] OTHER -> UNCHANGED composite
  /\ UNCHANGED dependencies
  /\ NotifyReceivers({n})

\* What a child does by itself (abstractService.unsafeUpdateStatus): it gets
\* active, fails, or completes its shutdown.
ChildUpdate(c, target) ==
  /\ CanUpdateStatus(child[c], target)
  /\ child' = [child EXCEPT ![c] = target]
  /\ UNCHANGED compositeVars
  /\ NotifyReceivers({})

ChildActive(c) == child[c] = serviceStarting /\ ChildUpdate(c, serviceActive)

ChildFails(c, target) ==
  /\ child[c] \in {serviceStarting, serviceActive}
  /\ ChildUpdate(c, target)

ChildTerminated(c) ==
  child[c] = serviceTerminating /\ ChildUpdate(c, serviceTerminated)
=============================================================================
