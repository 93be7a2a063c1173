-------------------------------- MODULE Service --------------------------------
(***************************************************************************)
(* The life cycle of a client service (pubsublite/internal/wire/service.go,*)
(* serviceStatus and abstractService).                                     *)
(***************************************************************************)
EXTENDS Naturals

serviceUninitialized == 0
serviceStarting == 1
serviceActive == 2
serviceTerminating == 3
serviceTerminated == 4

ServiceStatuses == serviceUninitialized..serviceTerminated

\* abstractService.unsafeUpdateStatus: the status never moves backwards; the
\* update is refused (and nobody notified) if it would not move forwards.
CanUpdateStatus(status, target) == status < target

UpdateStatus(status, target) == IF CanUpdateStatus(status, target) THEN target ELSE status
=============================================================================
