---------------------------- MODULE AssigningProofs ----------------------------
(***************************************************************************)
(* A composite service terminates after its children, and a partition has  *)
(* one subscriber that runs, whatever is assigned, fails or is notified    *)
(* late, for all partitions and any number of assignments.  The second     *)
(* holds until an idle timeout makes two listeners handle assignments at   *)
(* the same time, the first in any case.                                   *)
(***************************************************************************)
EXTENDS AssigningSubscriber, TLAPS

LEMMA StatusValues ==
  /\ ServiceStatuses = 0..4
  /\ serviceUninitialized = 0 /\ serviceStarting = 1 /\ serviceActive = 2
  /\ serviceTerminating = 3 /\ serviceTerminated = 4
BY DEF ServiceStatuses, serviceUninitialized, serviceStarting, serviceActive,
       serviceTerminating, serviceTerminated

-----------------------------------------------------------------------------
(* The composite *)

\* A notification tells of a status that the child has reached or passed.
NoticesPast == \A n \in notices : n.status <= child[n.service]

\* The composite knows of every child that runs.
RunningKnown == \A c \in Services : Running(c) => c \in dependencies \cup removed

\* What a terminated composite knows of has terminated.
AllStopped ==
  composite = serviceTerminated => \A c \in dependencies \cup removed : child[c] = serviceTerminated

CompositeInv == CompositeTypeOK /\ NoticesPast /\ RunningKnown /\ AllStopped

\* Children only move forwards.
Forwards == \A c \in Services : child[c] <= child'[c]

\* Nothing starts to run except among the services of set S.
NoneStarts(S) == \A c \in Services : Running(c)' => Running(c) \/ c \in S

LEMMA NotifyKeepsPast ==
  ASSUME CompositeTypeOK, NoticesPast, Forwards, NEW read, NotifyReceivers(read),
         child' \in [Services -> ServiceStatuses], registered' \subseteq Services
  PROVE  notices' \subseteq Notices /\ NoticesPast'
<1>1. ASSUME NEW n \in notices'
      PROVE  n \in Notices /\ n.status <= child'[n.service]
  <2>1. CASE n \in notices
    <3>1. n \in Notices /\ n.service \in Services /\ n.status <= child[n.service]
      BY <2>1 DEF CompositeTypeOK, NoticesPast, Notices
    <3>2. child[n.service] <= child'[n.service]
      BY <3>1 DEF Forwards
    <3>3. n.status \in 0..4 /\ child[n.service] \in 0..4 /\ child'[n.service] \in 0..4
      BY <3>1, StatusValues DEF CompositeTypeOK, Notices
    <3> QED
      BY <3>1, <3>2, <3>3
  <2>2. CASE n \notin notices
    <3>1. PICK c \in registered' : n = [service |-> c, status |-> child'[c]]
      BY <2>2 DEF NotifyReceivers
    <3>2. c \in Services /\ child'[c] \in 0..4
      BY StatusValues
    <3> QED
      BY <3>1, <3>2, StatusValues DEF Notices
  <2> QED
    BY <2>1, <2>2
<1> QED
  BY <1>1 DEF NoticesPast

LEMMA StoppedChildren ==
  ASSUME CompositeTypeOK, NEW S, child' = Stopped(S)
  PROVE  /\ child' \in [Services -> ServiceStatuses]
         /\ Forwards
         /\ NoneStarts(S)
         /\ \A c \in Services : child[c] = serviceTerminated => child'[c] = serviceTerminated
BY StatusValues DEF CompositeTypeOK, Stopped, UpdateStatus, CanUpdateStatus, Forwards, NoneStarts,
                    Running

LEMMA StartedChildren ==
  ASSUME CompositeTypeOK, NEW S, child' = Started(S)
  PROVE  /\ child' \in [Services -> ServiceStatuses]
         /\ Forwards
         /\ NoneStarts(S)
BY StatusValues DEF CompositeTypeOK, Started, UpdateStatus, CanUpdateStatus, Forwards, NoneStarts,
                    Running

LEMMA StopKeepsInv ==
  ASSUME CompositeInv, CompositeStop
  PROVE  CompositeInv' /\ Forwards /\ NoneStarts(dependencies)
<1>1. /\ child' \in [Services -> ServiceStatuses]
      /\ Forwards
      /\ NoneStarts(dependencies)
  BY StoppedChildren DEF CompositeInv, CompositeStop
<1>2. notices' \subseteq Notices /\ NoticesPast'
  BY <1>1, NotifyKeepsPast DEF CompositeInv, CompositeTypeOK, CompositeStop
<1>3. composite' \in ServiceStatuses /\ composite' # serviceTerminated
  BY StatusValues DEF CompositeInv, CompositeTypeOK, CompositeStop, UpdateComposite, UpdateStatus,
                      CanUpdateStatus
<1> QED
  BY <1>1, <1>2, <1>3 DEF CompositeInv, CompositeTypeOK, CompositeStop, RunningKnown, AllStopped,
                          NoneStarts

LEMMA StartKeepsInv ==
  ASSUME CompositeInv, CompositeStart
  PROVE  CompositeInv' /\ Forwards /\ NoneStarts(dependencies)
<1>1. /\ child' \in [Services -> ServiceStatuses]
      /\ Forwards
      /\ NoneStarts(dependencies)
  BY StartedChildren DEF CompositeInv, CompositeStart
<1>2. notices' \subseteq Notices /\ NoticesPast'
  BY <1>1, NotifyKeepsPast DEF CompositeInv, CompositeTypeOK, CompositeStart
<1>3. composite' \in ServiceStatuses /\ composite' # serviceTerminated
  BY StatusValues DEF CompositeInv, CompositeTypeOK, CompositeStart, UpdateComposite, UpdateStatus,
                      CanUpdateStatus
<1> QED
  BY <1>1, <1>2, <1>3 DEF CompositeInv, CompositeTypeOK, CompositeStart, RunningKnown, AllStopped,
                          NoneStarts

\* Terminate: some children of the composite are told to stop.
LEMMA TerminateKeepsInv ==
  ASSUME CompositeInv, NEW S, S \subseteq dependencies, child' = Stopped(S),
         NotifyReceivers({}), UNCHANGED compositeVars
  PROVE  CompositeInv' /\ Forwards /\ NoneStarts(dependencies)
<1>1. /\ child' \in [Services -> ServiceStatuses]
      /\ Forwards
      /\ NoneStarts(S)
      /\ \A c \in Services : child[c] = serviceTerminated => child'[c] = serviceTerminated
  BY StoppedChildren DEF CompositeInv
<1>2. notices' \subseteq Notices /\ NoticesPast'
  BY <1>1, NotifyKeepsPast DEF CompositeInv, CompositeTypeOK, compositeVars
<1> QED
  BY <1>1, <1>2 DEF CompositeInv, CompositeTypeOK, compositeVars, RunningKnown, AllStopped,
                    NoneStarts

LEMMA ChildUpdateKeepsInv ==
  ASSUME CompositeInv, NEW c \in Services, NEW target \in ServiceStatuses,
         c \in dependencies \cup removed, ChildUpdate(c, target)
  PROVE  CompositeInv' /\ Forwards /\ NoneStarts({c})
<1>1. child' \in [Services -> ServiceStatuses] /\ Forwards /\ NoneStarts({c})
  BY StatusValues DEF CompositeInv, CompositeTypeOK, ChildUpdate, CanUpdateStatus, Forwards,
                      NoneStarts, Running
<1>2. notices' \subseteq Notices /\ NoticesPast'
  BY <1>1, NotifyKeepsPast DEF CompositeInv, CompositeTypeOK, ChildUpdate, compositeVars
<1>3. composite # serviceTerminated
  BY StatusValues DEF CompositeInv, CompositeTypeOK, AllStopped, ChildUpdate, CanUpdateStatus
<1> QED
  BY <1>1, <1>2, <1>3 DEF CompositeInv, CompositeTypeOK, ChildUpdate, compositeVars, RunningKnown,
                          AllStopped, NoneStarts

\* A child that runs takes a step by itself.
LEMMA ChildMoves ==
  ASSUME CompositeInv, NEW c \in Services,
         ChildActive(c) \/ ChildTerminated(c) \/ (\E target \in {serviceTerminating,
           serviceTerminated} : ChildFails(c, target))
  PROVE  CompositeInv' /\ Forwards /\ NoneStarts({}) /\ UNCHANGED compositeVars
<1>1. Running(c)
  BY StatusValues DEF CompositeInv, CompositeTypeOK, Running, ChildActive, ChildTerminated,
                      ChildFails
<1>2. PICK target \in ServiceStatuses : ChildUpdate(c, target)
  BY StatusValues DEF ChildActive, ChildTerminated, ChildFails
<1>3. CompositeInv' /\ Forwards /\ NoneStarts({c})
  BY <1>1, <1>2, ChildUpdateKeepsInv DEF CompositeInv, RunningKnown
<1> QED
  BY <1>1, <1>2, <1>3 DEF NoneStarts, ChildUpdate

LEMMA AddAndRemoveKeepsInv ==
  ASSUME CompositeInv, NEW add \in SUBSET Services, NEW remove \in SUBSET dependencies,
         add \cap remove = {}, add = {} \/ composite < serviceTerminating,
         AddAndRemove(add, remove)
  PROVE  CompositeInv' /\ Forwards /\ NoneStarts(dependencies \cup add)
<1>1. ASSUME NEW c \in Services
      PROVE  /\ child'[c] \in ServiceStatuses
             /\ child[c] <= child'[c]
             /\ Running(c)' => Running(c) \/ c \in remove \cup add
             /\ child[c] = serviceTerminated => child'[c] = serviceTerminated
  <2>1. child'[c] \in {child[c], UpdateStatus(child[c], serviceStarting),
                       UpdateStatus(child[c], serviceTerminating)}
        /\ (c \notin remove \cup add => child'[c] = child[c])
    BY DEF AddAndRemove, Started, Stopped
  <2> QED
    BY <2>1, StatusValues DEF CompositeInv, CompositeTypeOK, UpdateStatus, CanUpdateStatus, Running
<1>2. child' \in [Services -> ServiceStatuses] /\ Forwards /\ NoneStarts(remove \cup add)
  <2>1. child' = [c \in Services |-> child'[c]]
    BY DEF AddAndRemove
  <2> QED
    BY <1>1, <2>1 DEF Forwards, NoneStarts
<1>3. notices' \subseteq Notices /\ NoticesPast'
  BY <1>2, NotifyKeepsPast DEF CompositeInv, CompositeTypeOK, AddAndRemove
<1>4. RunningKnown'
  BY <1>2 DEF CompositeInv, RunningKnown, AddAndRemove, NoneStarts
<1>5. AllStopped'
  <2> SUFFICES ASSUME composite = serviceTerminated
               PROVE  \A c \in dependencies' \cup removed' : child'[c] = serviceTerminated
    BY DEF AllStopped, AddAndRemove
  <2>1. add = {}
    BY StatusValues
  <2>2. dependencies' \cup removed' \subseteq dependencies \cup removed
    BY <2>1 DEF AddAndRemove
  <2> QED
    BY <1>1, <2>2 DEF CompositeInv, CompositeTypeOK, AllStopped
<1>6. CompositeTypeOK'
  BY <1>2, <1>3 DEF CompositeInv, CompositeTypeOK, AddAndRemove
<1> QED
  BY <1>2, <1>3, <1>4, <1>5, <1>6 DEF CompositeInv, NoneStarts

LEMMA StatusChangeKeepsInv ==
  ASSUME CompositeInv, NEW n \in notices, OnServiceStatusChange(n)
  PROVE  CompositeInv' /\ Forwards /\ NoneStarts(dependencies)
<1>1. /\ child' \in [Services -> ServiceStatuses]
      /\ Forwards
      /\ NoneStarts(dependencies)
      /\ \A c \in Services : child[c] = serviceTerminated => child'[c] = serviceTerminated
  <2>1. CASE child' = Stopped(dependencies)
    BY <2>1, StoppedChildren DEF CompositeInv
  <2>2. CASE child' = child
    BY <2>2, StatusValues DEF CompositeInv, CompositeTypeOK, Forwards, NoneStarts, Running
  <2> QED
    BY <2>1, <2>2 DEF OnServiceStatusChange
<1>2. /\ removed' \subseteq removed
      /\ registered' \subseteq registered
      /\ dependencies' = dependencies
      /\ \A c \in removed \ removed' : c = n.service /\ n.status = serviceTerminated
      /\ NotifyReceivers({n})
  BY DEF OnServiceStatusChange
<1>3. notices' \subseteq Notices /\ NoticesPast'
  BY <1>1, <1>2, NotifyKeepsPast DEF CompositeInv, CompositeTypeOK
<1>4. RunningKnown'
  <2> SUFFICES ASSUME NEW c \in Services, Running(c)'
               PROVE  c \in dependencies \cup removed'
    BY <1>2 DEF RunningKnown
  <2>1. c \in dependencies \cup removed
    BY <1>1 DEF CompositeInv, RunningKnown, NoneStarts
  <2>2. CASE c \in removed \ removed'
    <3>1. child[c] = serviceTerminated
      BY <1>2, <2>2, StatusValues DEF CompositeInv, CompositeTypeOK, NoticesPast
    <3> QED
      BY <1>1, <3>1, StatusValues DEF Running
  <2> QED
    BY <2>1, <2>2
<1>5. composite' \in ServiceStatuses
      /\ (composite' = serviceTerminated => composite = serviceTerminated \/ NothingLeft)
  BY StatusValues DEF CompositeInv, CompositeTypeOK, OnServiceStatusChange, UpdateComposite,
                      UpdateStatus, CanUpdateStatus
<1>6. AllStopped'
  BY <1>1, <1>2, <1>5 DEF CompositeInv, CompositeTypeOK, AllStopped, NothingLeft
<1>7. CompositeTypeOK'
  BY <1>1, <1>2, <1>3, <1>5 DEF CompositeInv, CompositeTypeOK
<1> QED
  BY <1>1, <1>3, <1>4, <1>6, <1>7 DEF CompositeInv

-----------------------------------------------------------------------------
(* The handler of assignments *)

\* A subscriber that was removed and still runs.
LeftOver(c) == c \in Subscribers \ subscribers /\ Running(c)

\* Assignments are handled one after the other.
OneBusy == \A l, m \in Listeners : Busy(l) /\ Busy(m) => l = m

\* A removed subscriber that runs is awaited before the next assignment is
\* handled, or the assigner failed.
LeftOversAwaited ==
  \A c \in Subscribers : LeftOver(c) =>
    /\ \A l \in Listeners : /\ listener[l] \notin {"onResponse", "done"}
                            /\ listener[l] \in {"handler", "wait"} => c \in waitFor[l]
    /\ (\A l \in Listeners : ~Busy(l)) => child[Assigner] >= serviceTerminating

\* It is not of a partition that has a subscriber, nor one of two.
LeftOversApart ==
  /\ \A c \in Subscribers, d \in subscribers : LeftOver(c) => c[1] # d[1]
  /\ \A c, d \in Subscribers : LeftOver(c) /\ LeftOver(d) /\ c[1] = d[1] => c = d

\* After an assignment was handled the subscribers are those of the partitions
\* that it names.
SubscribersAssigned ==
  \A l \in Listeners : listener[l] \in {"handler", "wait", "done"} =>
    \A c \in subscribers : c[1] \in next[l]

\* The subscribers are the last ones created for their partitions.
SubscribersCurrent == \A c \in subscribers : c[2] = created[c[1]]

\* What needs assignments that do not overlap
OrderlyInv == OneBusy /\ LeftOversAwaited /\ LeftOversApart /\ SubscribersAssigned

HandlerInv ==
  /\ dependencies = subscribers \cup {Assigner}
  /\ SubscribersCurrent
  /\ ~overlapped => OrderlyInv

Inv == TypeOK /\ CompositeInv /\ HandlerInv

LEMMA AssignerApart == Assigner \notin Subscribers /\ Subscribers \subseteq Services /\ Assigner \in Services
BY AssigningAssumption DEF Assigner, Subscribers

LEMMA LeftOversShrink ==
  ASSUME Inv, NoneStarts(dependencies), UNCHANGED subscribers, NEW c \in Subscribers, LeftOver(c)'
  PROVE  LeftOver(c)
BY AssignerApart DEF Inv, HandlerInv, LeftOver, NoneStarts

\* Steps that the handler takes no part in.
LEMMA HandlerUntouched ==
  ASSUME Inv, CompositeInv', Forwards, NoneStarts(dependencies),
         UNCHANGED <<dependencies, handlerVars>>
  PROVE  HandlerInv'
<1>1. \A c \in Subscribers : LeftOver(c)' => LeftOver(c)
  BY LeftOversShrink DEF handlerVars
<1>2. child[Assigner] >= serviceTerminating => child'[Assigner] >= serviceTerminating
  BY AssignerApart, StatusValues DEF Forwards, CompositeInv, CompositeTypeOK, Inv
<1>3. LeftOversAwaited => LeftOversAwaited'
  BY <1>1, <1>2 DEF LeftOversAwaited, Busy, handlerVars
<1>4. LeftOversApart => LeftOversApart'
  BY <1>1 DEF LeftOversApart, handlerVars
<1>5. (OneBusy => OneBusy') /\ (SubscribersAssigned => SubscribersAssigned')
  BY DEF OneBusy, Busy, SubscribersAssigned, handlerVars
<1>6. SubscribersCurrent'
  BY DEF Inv, HandlerInv, SubscribersCurrent, handlerVars
<1> QED
  BY <1>3, <1>4, <1>5, <1>6 DEF Inv, HandlerInv, OrderlyInv, handlerVars

\* Steps in which a listener only goes on with its assignment.
LEMMA HandlerProceeds ==
  ASSUME Inv, UNCHANGED <<compositeVars, childVars, subscribers, created>>,
         ~overlapped' => ~overlapped /\ OneBusy' /\ LeftOversAwaited' /\ SubscribersAssigned'
  PROVE  CompositeInv' /\ HandlerInv'
<1>1. CompositeInv'
  BY DEF Inv, CompositeInv, CompositeTypeOK, NoticesPast, RunningKnown, AllStopped, Running,
         compositeVars, childVars
<1>2. LeftOversApart => LeftOversApart'
  BY DEF LeftOversApart, LeftOver, Running, childVars
<1>3. SubscribersCurrent' /\ dependencies' = subscribers' \cup {Assigner}
  BY DEF Inv, HandlerInv, SubscribersCurrent, compositeVars
<1> QED
  BY <1>1, <1>2, <1>3 DEF Inv, HandlerInv, OrderlyInv

\* The listener of an assignment is the only one that is busy.
LEMMA OthersReceive ==
  ASSUME OneBusy, NEW l \in Listeners, Busy(l)
  PROVE  \A m \in Listeners : m # l => listener[m] = "recv"
BY DEF OneBusy, Busy

LEMMA InitInv == Init => Inv
<1> SUFFICES ASSUME Init PROVE Inv
  OBVIOUS
<1>1. TypeOK
  <2>1. CompositeTypeOK
    BY AssignerApart, StatusValues DEF Init, CompositeInit, CompositeTypeOK, Notices
  <2>2. created \in [Partitions -> 0..MaxGenerations] /\ assignments \in 0..MaxAssignments
    BY AssigningAssumption DEF Init
  <2>3. /\ listener \in [Listeners -> {"recv", "onResponse", "handler", "wait", "done", "failed"}]
        /\ next \in [Listeners -> SUBSET Partitions]
        /\ waitFor \in [Listeners -> SUBSET Subscribers]
        /\ subscribers \subseteq Subscribers
    BY DEF Init
  <2>4. overlapped \in BOOLEAN
    BY Zenon DEF Init
  <2> QED
    BY <2>1, <2>2, <2>3, <2>4, Zenon DEF TypeOK
<1>2. \A c \in Services : ~Running(c)
  BY StatusValues DEF Init, CompositeInit, Running
<1>3. CompositeInv
  BY <1>1, <1>2, StatusValues DEF Init, CompositeInit, TypeOK, CompositeInv, NoticesPast, RunningKnown,
                                  AllStopped
<1>4. HandlerInv
  BY <1>2, AssignerApart DEF Init, CompositeInit, HandlerInv, OrderlyInv, OneBusy, Busy,
                             LeftOversAwaited, LeftOversApart, LeftOver, SubscribersCurrent,
                             SubscribersAssigned
<1> QED
  BY <1>1, <1>3, <1>4 DEF Inv

-----------------------------------------------------------------------------
(* doHandleAssignment *)

LEMMA NewAndOld ==
  ASSUME Inv, NEW partitions, NewSubscribers(partitions) \subseteq Subscribers
  PROVE  /\ NewSubscribers(partitions) \in SUBSET Services
         /\ OldSubscribers(partitions) \in SUBSET dependencies
         /\ OldSubscribers(partitions) \subseteq subscribers
         /\ NewSubscribers(partitions) \cap OldSubscribers(partitions) = {}
         /\ Assigner \notin OldSubscribers(partitions)
         /\ \A c \in NewSubscribers(partitions) :
              c[1] \in partitions \ Assigned /\ c[2] = created[c[1]] + 1
         /\ \A c \in OldSubscribers(partitions) : c[1] \notin partitions
         /\ \A c \in subscribers \ OldSubscribers(partitions) :
              c[1] \in partitions /\ c[1] \in Assigned
<1>1. \A c \in NewSubscribers(partitions) :
        c[1] \in partitions \ Assigned /\ c[2] = created[c[1]] + 1
  BY DEF NewSubscribers
<1>2. /\ OldSubscribers(partitions) \subseteq subscribers
      /\ \A c \in OldSubscribers(partitions) : c[1] \notin partitions
      /\ \A c \in subscribers \ OldSubscribers(partitions) :
           c[1] \in partitions /\ c[1] \in Assigned
  BY DEF OldSubscribers, Assigned
<1> QED
  BY <1>1, <1>2, AssignerApart DEF Inv, HandlerInv, TypeOK

\* Where listener l goes when it only moves on in onResponse.
LEMMA ListenerMoves ==
  ASSUME TypeOK, NEW l \in Listeners, NEW point, listener' = [listener EXCEPT ![l] = point]
  PROVE  listener'[l] = point /\ \A m \in Listeners : m # l => listener'[m] = listener[m]
BY DEF TypeOK

LEMMA DoHandleAssignmentKeepsInv ==
  ASSUME Inv, NEW l \in Listeners, DoHandleAssignment(l)
  PROVE  Inv'
<1> DEFINE New == NewSubscribers(next[l])
           Old == OldSubscribers(next[l])
<1>0. /\ listener[l] = "onResponse" /\ Busy(l)
      /\ listener[l]' \in {"failed", "handler"}
      /\ \A m \in Listeners : m # l => listener'[m] = listener[m]
      /\ UNCHANGED <<next, assignments, overlapped>>
      /\ listener' \in [Listeners -> {"recv", "onResponse", "handler", "wait", "done", "failed"}]
  BY DEF DoHandleAssignment, Busy, Inv, TypeOK
<1>B. OneBusy => OneBusy' /\ \A m \in Listeners : m # l => listener'[m] = "recv"
  BY <1>0, OthersReceive DEF OneBusy, Busy
<1>1. CASE listener'[l] = "failed"
  <2>1. UNCHANGED <<compositeVars, childVars, subscribers, created, waitFor>>
    BY <1>0, <1>1 DEF DoHandleAssignment, Inv, TypeOK
  <2>2. ~overlapped' => ~overlapped /\ OneBusy' /\ LeftOversAwaited' /\ SubscribersAssigned'
    <3> SUFFICES ASSUME ~overlapped
                 PROVE  OneBusy' /\ LeftOversAwaited' /\ SubscribersAssigned'
      BY <1>0
    <3>1. OrderlyInv
      BY DEF Inv, HandlerInv
    <3>2. LeftOversAwaited'
      BY <1>0, <1>1, <1>B, <2>1, <3>1 DEF OrderlyInv, LeftOversAwaited, LeftOver, Running, Busy,
                                          childVars
    <3> QED
      BY <1>1, <1>B, <3>1, <3>2 DEF OrderlyInv, SubscribersAssigned
  <2>3. TypeOK'
    BY <1>0, <2>1 DEF Inv, TypeOK, CompositeTypeOK, compositeVars, childVars
  <2> QED
    BY <2>1, <2>2, <2>3, HandlerProceeds DEF Inv
<1>2. CASE listener'[l] # "failed"
  <2>1. /\ listener'[l] = "handler"
        /\ New = {} \/ composite < serviceTerminating
        /\ New \subseteq Subscribers
        /\ AddAndRemove(New, Old)
        /\ subscribers' = (subscribers \cup New) \ Old
        /\ created' = [p \in Partitions |-> IF p \in next[l] \ Assigned THEN created[p] + 1
                                            ELSE created[p]]
        /\ waitFor' = [waitFor EXCEPT ![l] = Old]
    <3>1. ~(New # {} /\ composite >= serviceTerminating)
      BY <1>2 DEF DoHandleAssignment, Inv, TypeOK
    <3> QED
      BY <1>0, <1>2, <3>1, StatusValues DEF DoHandleAssignment, Inv, TypeOK, CompositeTypeOK
  <2>2. /\ New \in SUBSET Services
        /\ Old \in SUBSET dependencies
        /\ Old \subseteq subscribers
        /\ New \cap Old = {}
        /\ Assigner \notin Old
        /\ \A c \in New : c[1] \in next[l] \ Assigned /\ c[2] = created[c[1]] + 1
        /\ \A c \in Old : c[1] \notin next[l]
        /\ \A c \in subscribers \ Old : c[1] \in next[l] /\ c[1] \in Assigned
    BY <2>1, NewAndOld
  <2> HIDE DEF New, Old
  <2>3. CompositeInv' /\ NoneStarts(dependencies \cup New)
    BY <2>1, <2>2, AddAndRemoveKeepsInv DEF Inv
  <2>4. dependencies' = subscribers' \cup {Assigner}
    BY <2>1, <2>2, AssignerApart DEF AddAndRemove, Inv, HandlerInv
  <2>5. \A c \in subscribers' : c[1] \in next[l]
    BY <2>1, <2>2
  <2>6. ASSUME ~overlapped
        PROVE  OrderlyInv'
    <3>1. OrderlyInv
      BY <2>6 DEF Inv, HandlerInv
    <3>2. ASSUME NEW c \in Subscribers, LeftOver(c)'
          PROVE  c \in Old
      <4>1. ~LeftOver(c)
        BY <1>0, <3>1 DEF OrderlyInv, LeftOversAwaited
      <4> QED
        BY <2>1, <2>3, <3>2, <4>1, AssignerApart DEF NoneStarts, LeftOver, Inv, HandlerInv
    <3>3. LeftOversAwaited'
      <4>1. waitFor'[l] = Old
        BY <2>1 DEF Inv, TypeOK
      <4> QED
        BY <1>B, <2>1, <3>1, <3>2, <4>1 DEF OrderlyInv, LeftOversAwaited, Busy
    <3>4. LeftOversApart'
      <4>1. \A c \in Subscribers, d \in subscribers' : LeftOver(c)' => c[1] # d[1]
        BY <2>2, <2>5, <3>2
      <4>2. \A c, d \in Subscribers : LeftOver(c)' /\ LeftOver(d)' /\ c[1] = d[1] => c = d
        <5> SUFFICES ASSUME NEW c \in Subscribers, NEW d \in Subscribers,
                            c \in Old, d \in Old, c[1] = d[1]
                     PROVE  c = d
          BY <3>2
        <5>1. c[2] = d[2]
          BY <2>2 DEF Inv, HandlerInv, SubscribersCurrent
        <5> QED
          BY <5>1 DEF Subscribers
      <4> QED
        BY <4>1, <4>2 DEF LeftOversApart
    <3>5. SubscribersAssigned'
      BY <1>0, <1>B, <2>5, <3>1 DEF OrderlyInv, SubscribersAssigned
    <3> QED
      BY <1>B, <3>1, <3>3, <3>4, <3>5 DEF OrderlyInv
  <2>7. SubscribersCurrent'
    <3>1. ASSUME NEW c \in subscribers'
          PROVE  c[2] = created'[c[1]]
      <4>1. c[1] \in Partitions
        BY <2>1 DEF Inv, TypeOK, Subscribers
      <4>2. CASE c \in New
        BY <2>1, <2>2, <4>1, <4>2
      <4>3. CASE c \in subscribers \ Old
        BY <2>1, <2>2, <4>1, <4>3 DEF Inv, HandlerInv, SubscribersCurrent
      <4> QED
        BY <2>1, <4>2, <4>3
    <3> QED
      BY <3>1 DEF SubscribersCurrent
  <2>8. TypeOK'
    <3>1. created' \in [Partitions -> 0..MaxGenerations]
      <4>1. ASSUME NEW p \in next[l] \ Assigned
            PROVE  created[p] + 1 \in 1..MaxGenerations
        <5>1. <<p, created[p] + 1>> \in Subscribers
          BY <2>1 DEF NewSubscribers, New
        <5> QED
          BY <5>1 DEF Subscribers
      <4> QED
        BY <2>1, <4>1, AssigningAssumption DEF Inv, TypeOK
    <3>2. subscribers' \subseteq Subscribers
      BY <2>1, <2>2 DEF Inv, TypeOK
    <3>3. waitFor' \in [Listeners -> SUBSET Subscribers]
      BY <2>1, <2>2 DEF Inv, TypeOK
    <3> QED
      BY <1>0, <2>3, <3>1, <3>2, <3>3 DEF Inv, TypeOK, CompositeInv
  <2> QED
    BY <1>0, <2>3, <2>4, <2>6, <2>7, <2>8 DEF Inv, HandlerInv
<1> QED
  BY <1>1, <1>2

-----------------------------------------------------------------------------
(* All steps *)

LEMMA RecvAssignmentKeepsInv ==
  ASSUME Inv, NEW l \in Listeners, NEW partitions \in SUBSET Partitions,
         RecvAssignment(l, partitions)
  PROVE  Inv'
<1>1. /\ listener'[l] = "onResponse"
      /\ \A m \in Listeners : m # l => listener'[m] = listener[m]
      /\ overlapped' = (overlapped \/ \E m \in Listeners : Busy(m))
      /\ child[Assigner] = serviceActive
      /\ UNCHANGED <<compositeVars, childVars, subscribers, created, waitFor>>
  BY DEF RecvAssignment, Inv, TypeOK
<1>2. ASSUME ~overlapped'
      PROVE  ~overlapped /\ OneBusy' /\ LeftOversAwaited' /\ SubscribersAssigned'
  <2>1. ~overlapped /\ \A m \in Listeners : ~Busy(m)
    BY <1>1, <1>2
  <2>2. \A m \in Listeners : m # l => listener'[m] = "recv"
    BY <1>1, <2>1 DEF Busy
  <2>3. \A c \in Subscribers : ~LeftOver(c)
    BY <1>1, <2>1, StatusValues DEF Inv, HandlerInv, OrderlyInv, LeftOversAwaited
  <2>4. \A c \in Subscribers : ~LeftOver(c)'
    BY <1>1, <2>3 DEF LeftOver, Running, childVars
  <2> QED
    BY <1>1, <2>1, <2>2, <2>4 DEF OneBusy, Busy, LeftOversAwaited, SubscribersAssigned
<1>3. TypeOK'
  <2>1. overlapped' \in BOOLEAN
    BY <1>1 DEF Inv, TypeOK
  <2>2. assignments' \in 0..MaxAssignments
    BY AssigningAssumption DEF RecvAssignment, Inv, TypeOK
  <2>3. /\ listener' \in [Listeners -> {"recv", "onResponse", "handler", "wait", "done", "failed"}]
        /\ next' \in [Listeners -> SUBSET Partitions]
    BY DEF RecvAssignment, Inv, TypeOK
  <2> QED
    BY <1>1, <2>1, <2>2, <2>3 DEF Inv, TypeOK, CompositeTypeOK, compositeVars, childVars
<1> QED
  BY <1>1, <1>2, <1>3, HandlerProceeds DEF Inv

\* ReassignmentHandler and WaitStopped
LEMMA MoveKeepsInv ==
  ASSUME Inv, NEW l \in Listeners, ReassignmentHandler(l) \/ WaitStopped(l)
  PROVE  Inv'
<1>1. PICK point \in {"wait", "failed", "done"} :
        /\ listener' = [listener EXCEPT ![l] = point]
        /\ listener[l] \in {"handler", "wait"}
        /\ point = "done" => \A c \in waitFor[l] : ~Running(c)
        /\ point = "wait" => listener[l] = "handler"
  BY StatusValues DEF ReassignmentHandler, WaitStopped, RemovedStopped, Running
<1>2. UNCHANGED <<compositeVars, childVars, subscribers, created, next, waitFor, assignments,
                  overlapped>>
  BY DEF ReassignmentHandler, WaitStopped
<1>3. listener'[l] = point /\ \A m \in Listeners : m # l => listener'[m] = listener[m]
  BY <1>1, ListenerMoves DEF Inv
<1>4. ASSUME ~overlapped
      PROVE  OneBusy' /\ LeftOversAwaited' /\ SubscribersAssigned'
  <2>1. OrderlyInv
    BY <1>4 DEF Inv, HandlerInv
  <2>2. OneBusy' /\ \A m \in Listeners : m # l => listener'[m] = "recv"
    BY <1>1, <1>3, <2>1, OthersReceive DEF OrderlyInv, OneBusy, Busy
  <2>3. LeftOversAwaited'
    <3> SUFFICES ASSUME NEW c \in Subscribers, LeftOver(c)'
                 PROVE  /\ point # "done"
                        /\ c \in waitFor[l]
      BY <1>1, <1>2, <1>3, <2>2 DEF LeftOversAwaited, Busy
    <3>1. LeftOver(c)
      BY <1>2 DEF LeftOver, Running, childVars
    <3>2. c \in waitFor[l]
      BY <1>1, <2>1, <3>1 DEF OrderlyInv, LeftOversAwaited
    <3> QED
      BY <1>1, <3>1, <3>2 DEF LeftOver
  <2>4. SubscribersAssigned'
    BY <1>1, <1>2, <1>3, <2>1, <2>2 DEF OrderlyInv, SubscribersAssigned
  <2> QED
    BY <2>2, <2>3, <2>4
<1>5. TypeOK'
  BY <1>1, <1>2 DEF Inv, TypeOK, CompositeTypeOK, compositeVars, childVars
<1> QED
  BY <1>2, <1>4, <1>5, HandlerProceeds DEF Inv

LEMMA FinishAssignmentKeepsInv ==
  ASSUME Inv, NEW l \in Listeners, FinishAssignment(l)
  PROVE  Inv'
<1>0. /\ listener[l] \in {"done", "failed"} /\ Busy(l)
      /\ listener'[l] = "recv"
      /\ \A m \in Listeners : m # l => listener'[m] = listener[m]
      /\ UNCHANGED <<subscribers, created, assignments, overlapped>>
  BY ListenerMoves DEF FinishAssignment, Busy, Inv
<1>T. /\ listener' \in [Listeners -> {"recv", "onResponse", "handler", "wait", "done", "failed"}]
      /\ next' \in [Listeners -> SUBSET Partitions]
      /\ waitFor' \in [Listeners -> SUBSET Subscribers]
  BY DEF FinishAssignment, Inv, TypeOK
<1>B. ASSUME OneBusy
      PROVE  OneBusy' /\ SubscribersAssigned' /\ \A m \in Listeners : listener'[m] = "recv"
  <2>1. \A m \in Listeners : listener'[m] = "recv"
    BY <1>0, <1>B, OthersReceive
  <2> QED
    BY <2>1 DEF OneBusy, Busy, SubscribersAssigned
<1>1. CASE listener[l] = "failed" /\ child[Assigner] < serviceTerminating
  <2>1. ChildUpdate(Assigner, serviceTerminated)
    BY <1>1 DEF FinishAssignment
  <2>2. CompositeInv' /\ NoneStarts({Assigner}) /\ UNCHANGED compositeVars
    <3>1. /\ CompositeInv
          /\ Assigner \in Services /\ Assigner \in dependencies \cup removed
          /\ serviceTerminated \in ServiceStatuses
      BY AssignerApart, StatusValues DEF Inv, HandlerInv
    <3>2. CompositeInv' /\ NoneStarts({Assigner})
      BY <2>1, <3>1, ChildUpdateKeepsInv
    <3> QED
      BY <2>1, <3>2 DEF ChildUpdate
  <2>3. \A c \in Subscribers : LeftOver(c)' => LeftOver(c)
    BY <1>0, <2>2, AssignerApart DEF NoneStarts, LeftOver
  <2>4. child'[Assigner] = serviceTerminated
    BY <2>1, AssignerApart DEF ChildUpdate, Inv, TypeOK, CompositeTypeOK
  <2>5. OneBusy => LeftOversAwaited'
    BY <1>B, <2>4, StatusValues DEF LeftOversAwaited
  <2>6. LeftOversApart => LeftOversApart'
    BY <1>0, <2>3 DEF LeftOversApart
  <2>7. HandlerInv'
    BY <1>0, <1>B, <2>2, <2>5, <2>6 DEF Inv, HandlerInv, OrderlyInv, SubscribersCurrent,
                                        compositeVars
  <2> QED
    BY <1>0, <1>T, <2>2, <2>7 DEF Inv, TypeOK, CompositeInv
<1>2. CASE ~(listener[l] = "failed" /\ child[Assigner] < serviceTerminating)
  <2>1. UNCHANGED <<compositeVars, childVars>>
    BY <1>2 DEF FinishAssignment
  <2>2. listener[l] = "failed" => child[Assigner] >= serviceTerminating
    BY <1>2, AssignerApart, StatusValues DEF Inv, TypeOK, CompositeTypeOK
  <2>3. ~overlapped => LeftOversAwaited'
    <3> SUFFICES ASSUME ~overlapped, NEW c \in Subscribers, LeftOver(c)'
                 PROVE  child'[Assigner] >= serviceTerminating
      BY <1>B DEF LeftOversAwaited, Inv, HandlerInv, OrderlyInv
    <3>1. LeftOver(c)
      BY <1>0, <2>1 DEF LeftOver, Running, childVars
    <3>2. listener[l] # "done"
      BY <3>1 DEF Inv, HandlerInv, OrderlyInv, LeftOversAwaited
    <3> QED
      BY <1>0, <2>1, <2>2, <3>2 DEF childVars
  <2>4. TypeOK'
    BY <1>0, <1>T, <2>1 DEF Inv, TypeOK, CompositeTypeOK, compositeVars, childVars
  <2>5. ~overlapped' => ~overlapped /\ OneBusy' /\ LeftOversAwaited' /\ SubscribersAssigned'
    BY <1>0, <1>B, <2>3 DEF Inv, HandlerInv, OrderlyInv
  <2> QED
    BY <1>0, <2>1, <2>4, <2>5, HandlerProceeds DEF Inv
<1> QED
  BY <1>1, <1>2

LEMMA NextInv == Inv /\ [Next]_vars => Inv'
<1> SUFFICES ASSUME Inv, [Next]_vars PROVE Inv'
  OBVIOUS
\* Steps of the composite and its children.
<1>1. ASSUME CompositeInv', Forwards, NoneStarts(dependencies),
             UNCHANGED <<dependencies, handlerVars, assignments>>
      PROVE  Inv'
  BY <1>1, HandlerUntouched DEF Inv, TypeOK, CompositeInv, handlerVars
<1>2. CASE Start
  BY <1>1, <1>2, StartKeepsInv DEF Start, Inv, CompositeStart
<1>3. CASE Stop
  BY <1>1, <1>3, StopKeepsInv DEF Stop, Inv, CompositeStop
<1>4. CASE SubscribersTerminate
  <2>1. subscribers \subseteq dependencies
    BY DEF Inv, HandlerInv
  <2> QED
    BY <1>1, <1>4, <2>1, TerminateKeepsInv DEF SubscribersTerminate, Inv, compositeVars
<1>5. ASSUME NEW c \in Services, ChildStep(c) \/ ChildFailure(c)
      PROVE  Inv'
  <2>1. CompositeInv' /\ Forwards /\ NoneStarts({}) /\ UNCHANGED compositeVars
    BY <1>5, ChildMoves DEF ChildStep, ChildFailure, Inv
  <2>2. NoneStarts(dependencies)
    BY <2>1 DEF NoneStarts
  <2> QED
    BY <1>1, <1>5, <2>1, <2>2 DEF ChildStep, ChildFailure, compositeVars
<1>6. CASE StatusChange
  BY <1>1, <1>6, StatusChangeKeepsInv DEF StatusChange, Inv, OnServiceStatusChange
\* Steps of the listeners.
<1>7. ASSUME NEW l \in Listeners, NEW partitions \in SUBSET Partitions,
             RecvAssignment(l, partitions)
      PROVE  Inv'
  BY <1>7, RecvAssignmentKeepsInv
<1>8. ASSUME NEW l \in Listeners, Listener(l)
      PROVE  Inv'
  BY <1>8, DoHandleAssignmentKeepsInv, MoveKeepsInv, FinishAssignmentKeepsInv DEF Listener
<1>9. CASE UNCHANGED vars
  <2>1. NoneStarts(dependencies) /\ Forwards
    BY <1>9, StatusValues DEF vars, childVars, NoneStarts, Running, Forwards, Inv, TypeOK,
                              CompositeTypeOK
  <2>2. CompositeInv'
    BY <1>9 DEF vars, Inv, CompositeInv, CompositeTypeOK, NoticesPast, RunningKnown, AllStopped,
                Running, compositeVars, childVars
  <2> QED
    BY <1>1, <1>9, <2>1, <2>2 DEF vars, compositeVars
<1> QED
  BY <1>2, <1>3, <1>4, <1>5, <1>6, <1>7, <1>8, <1>9 DEF Next

-----------------------------------------------------------------------------
(* The theorems *)

\* The inductive invariant holds: the composite knows of every child that runs,
\* and a removed subscriber that still runs is awaited.
THEOREM InvHolds == Spec => []Inv
<1>1. Init => Inv
  BY InitInv
<1>2. Inv /\ [Next]_vars => Inv'
  BY NextInv
<1> QED
  BY <1>1, <1>2, PTL DEF Spec

\* The composite, its maps of children and the state of every handleAssignment
\* keep their types.
THEOREM AssigningTypeCorrect == Spec => []TypeOK
<1>1. Inv => TypeOK
  BY DEF Inv
<1> QED
  BY <1>1, InvHolds, PTL

\* When onServiceStatusChange takes the composite to serviceTerminated, which
\* lets WaitStopped close the API clients, no child runs, and none ever does
\* again.
THEOREM NoChildOutlives == Spec => []TerminatedTogether
<1>1. Inv => TerminatedTogether
  <2> SUFFICES ASSUME Inv, composite = serviceTerminated, NEW c \in Services, Running(c)
               PROVE  FALSE
    BY DEF TerminatedTogether
  <2>1. c \in dependencies \cup removed
    BY DEF Inv, CompositeInv, RunningKnown
  <2>2. child[c] = serviceTerminated
    BY <2>1 DEF Inv, CompositeInv, AllStopped
  <2> QED
    BY <2>2, StatusValues DEF Running
<1> QED
  BY <1>1, InvHolds, PTL

\* handleAssignment never lets two subscribers of one partition run, although
\* the old one stops on its own time, until an idle timeout has made listeners
\* handle two assignments at the same time.
THEOREM SubscribersExclusive == Spec => []OneSubscriberPerPartition
<1>1. Inv => OneSubscriberPerPartition
  <2> SUFFICES ASSUME Inv, ~overlapped, NEW c \in Subscribers, NEW d \in Subscribers,
                      c[1] = d[1], Running(c), Running(d)
               PROVE  c = d
    BY DEF OneSubscriberPerPartition
  <2>1. CASE c \in subscribers /\ d \in subscribers
    <3>1. c[2] = d[2]
      BY <2>1 DEF Inv, HandlerInv, SubscribersCurrent
    <3> QED
      BY <3>1 DEF Subscribers
  <2>2. CASE c \notin subscribers \/ d \notin subscribers
    BY <2>2 DEF Inv, HandlerInv, OrderlyInv, LeftOversApart, LeftOver
  <2> QED
    BY <2>1, <2>2
<1> QED
  BY <1>1, InvHolds, PTL

\* The assigner acks an assignment only after the subscribers of the partitions
\* that were taken away have stopped, and with them their commits, as long as
\* onResponse was never called for two assignments at the same time.
THEOREM AcksFollowStops == Spec => AckAfterStop
<1>1. ASSUME Inv, ~overlapped, NEW l \in Listeners, listener[l] = "done"
      PROVE  \A c \in Subscribers : c[1] \notin next[l] => ~Running(c)
  <2>1. OrderlyInv
    BY <1>1 DEF Inv, HandlerInv
  <2> QED
    BY <1>1, <2>1 DEF OrderlyInv, LeftOversAwaited, LeftOver, SubscribersAssigned
<1>2. Inv /\ [Next]_vars =>
        [\A l \in Listeners :
           /\ listener[l] = "done" /\ listener'[l] = "recv"
           /\ child[Assigner] < serviceTerminating
           /\ ~overlapped
           => \A c \in Subscribers : c[1] \notin next[l] => ~Running(c)]_vars
  BY <1>1
<1> QED
  BY <1>2, InvHolds, PTL DEF Spec, AckAfterStop
=============================================================================
