------------------------------ MODULE RadarTwin ------------------------------
(***************************************************************************)
(* One candidate of the radar as radar.service.ts keeps it in memory: each *)
(* operation is a synchronous step, and a requested inspection runs in the *)
(* background of the same process.  RadarInspection, where processes share *)
(* the queue of requests over PostgreSQL, implements it.                   *)
(***************************************************************************)

VARIABLES
  status,   \* of the candidate, "absent" before it is created
  pending,  \* inspectionPending
  evidence  \* the candidate has evidence

vars == <<status, pending, evidence>>

\* rejected: or merged, which is the same for this candidate.
Final == {"accepted", "rejected"}

\* requireMutable
Mutable == status \notin Final \cup {"absent"}

Init == status = "absent" /\ pending = FALSE /\ evidence = FALSE

Create ==
  /\ status = "absent"
  /\ status' = "new"
  /\ UNCHANGED <<pending, evidence>>

RequestInspection ==
  /\ Mutable
  /\ pending' = TRUE
  /\ UNCHANGED <<status, evidence>>

\* runRequestedInspection, applyInspection: the observation goes to the candidate as it
\* is after the page was fetched.
ApplyInspection ==
  /\ Mutable
  /\ status' = "ready"
  /\ pending' = FALSE
  /\ evidence' = TRUE

\* A failure only clears the flag.
ClearInspectionPending ==
  /\ pending
  /\ pending' = FALSE
  /\ UNCHANGED <<status, evidence>>

\* applyDecision: every decision but a deferral clears the flag.
Decide(decision) ==
  /\ Mutable
  /\ decision = "accepted" => evidence
  /\ status' = decision
  /\ pending' = (pending /\ decision = "deferred")
  /\ UNCHANGED evidence

Next ==
  \/ Create \/ RequestInspection \/ ApplyInspection \/ ClearInspectionPending
  \/ \E decision \in Final \cup {"deferred"} : Decide(decision)

Spec == Init /\ [][Next]_vars
=============================================================================
