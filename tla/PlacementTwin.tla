----------------------------- MODULE PlacementTwin -----------------------------
(***************************************************************************)
(* One placement as the in-memory service keeps it (placement.service.ts), *)
(* for one request at a time: the abstract specification PlacementMonitor  *)
(* implements.                                                             *)
(*                                                                         *)
(* No workers, no leases, no retries: a check is one step that needs an    *)
(* active placement.  An active placement always has a next check, another *)
(* never has one; a job the monitor gives up is still planned here.        *)
(***************************************************************************)
EXTENDS Integers

VARIABLES
  status,    \* businessStatus, or "archived" when in archivedPlacementIds
  planned,   \* nextCheckAt is not null
  fails,     \* consecutiveFailures, up to 2
  alert      \* activeAlert is not null

vars == <<status, planned, fails, alert>>

\* planned is paused under another name.
Living == {"active", "paused", "ended"}

\* register: only an active placement is planned at once.
Register ==
  /\ status \in {"active", "paused"}
  /\ planned = (status = "active")
  /\ fails = 0
  /\ alert = FALSE

-------------------------------------------------------------------------------

\* applyPlacementHealthCheck: a failure counts and the second one alerts; the alert goes
\* with a healthy result and outlives an unknown one.
HealthCheck ==
  \/ fails' = 0 /\ alert' \in {alert, FALSE}
  \/ fails < 2 /\ fails' = fails + 1 /\ alert' = (alert \/ fails = 1)
  \/ fails = 2 /\ UNCHANGED fails /\ alert'

\* runL0Check
Check ==
  /\ status = "active"
  /\ planned' = TRUE
  /\ HealthCheck
  /\ UNCHANGED status

\* applyPlacementUpdate: an active placement that is not planned is checked now.
Applied(s) == status' = s /\ planned' = (s = "active")

\* update: the end of a placement closes its alert.
Update(s) ==
  /\ status \in Living
  /\ Applied(s)
  /\ alert' = (alert /\ s # "ended")
  /\ UNCHANGED fails

Archive ==
  /\ status \in Living
  /\ status' = "archived"
  /\ planned' = FALSE
  /\ alert' = FALSE
  /\ UNCHANGED fails

Next ==
  \/ Check
  \/ \E s \in Living : Update(s)
  \/ Archive

Spec == Register /\ [][Next]_vars
===============================================================================
