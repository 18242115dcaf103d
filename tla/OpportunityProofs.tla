-------------------------- MODULE OpportunityProofs --------------------------
(***************************************************************************)
(* What holds of an opportunity for any number of requests, monitors,      *)
(* tasks and versions.                                                     *)
(*                                                                         *)
(* The inductive invariant IInv says what a reader may still rely on when  *)
(* it writes: a task in fresh is open (FreshTasks), the row a transition   *)
(* has in its snapshot is the current one (FreshRows), a completion whose  *)
(* version is still current has read the current stage (SeenVersions).     *)
(* The rest relates the tasks nobody may make the next action              *)
(* (SystemTasks), the history (HistoryInv) and the monitors (IncidentInv). *)
(***************************************************************************)
EXTENDS OpportunityLifecycle, TLAPS

USE TasksAssumption, StagesAssumption, MaxVersionAssumption
    DEF TasksAssumption, StagesAssumption, MaxVersionAssumption,
        row, placement, incidents, request, monitor

\* The tasks of an alert and of an incident exist, and none of them is the next task:
\* closing the alert or the incident never takes the next action away.
SystemTasks ==
  /\ alertTask # NoTask => task[alertTask] # "absent" /\ alertTask # nextTask
  /\ \A v \in Versions : slaTask[v] # NoTask =>
       task[slaTask[v]] # "absent" /\ slaTask[v] # nextTask

\* A task that was read as open, and not written since, is open.
FreshTasks == \A u \in Users : fresh[u] \subseteq OpenTasks

\* A transition with the current row in its snapshot decided on the current facts.
FreshRows ==
  \A u \in freshRow : /\ pc[u] = "moving"
                      /\ seen[u].stage = stage
                      /\ seen[u].next = nextTask
                      /\ Allowed(stage, target[u])
                      /\ target[u] = 9 => live

\* A completion that read the current version read the current stage.
SeenVersions ==
  \A u \in Users : pc[u] = "completing" =>
    /\ seen[u].version <= version
    /\ seen[u].version = version => seen[u].stage = stage

\* The newest history row leads to the stage, and a pause resumes to its origin.
HistoryInv ==
  /\ lastMove.to = stage
  /\ stage = SX => pausedFrom \in {NoStage, lastMove.from}

\* Monitors that passed the recheck agree on the activity they watch, it is the one
\* of the open incident, and once it is outdated nobody can be about to open another:
\* the new activity is younger than any threshold.
IncidentInv ==
  /\ \A v \in OpenIncidents : v <= version
  /\ \A m \in Monitors : watched[m] <= version
  /\ \A m \in Monitors : mpc[m] = "opening" =>
       /\ OpenIncidents \subseteq {watched[m]}
       /\ \A n \in Monitors : mpc[n] = "opening" => watched[n] = watched[m]
       /\ watched[m] # version => /\ ~stale
                                  /\ \A n \in Monitors : ~(mpc[n] = "open" /\ watched[n] = version)

-------------------------------------------------------------------------------

\* What a scan of the SLA monitor may leave in the monitor.
LEMMA EvaluateEffect ==
  ASSUME TypeOK, IncidentInv, NEW m \in Monitors, Evaluate(m)
  PROVE  /\ UNCHANGED <<row, task, placement, incidents, stale, request>>
         /\ \E step \in {"open", "escalate", "resolve"}, v \in Versions :
              /\ mpc' = [mpc EXCEPT ![m] = step]
              /\ watched' = [watched EXCEPT ![m] = v]
              /\ v <= version
              /\ step = "open" => v = version /\ stale
<1> USE DEF TypeOK, OpportunityTypeOK, IncidentTypeOK, MonitorTypeOK, IncidentInv, Versions, OpenIncidents
<1>1. ASSUME Go(m, "open", version)
      PROVE  /\ UNCHANGED <<row, placement, request, stale>>
             /\ mpc' = [mpc EXCEPT ![m] = "open"]
             /\ watched' = [watched EXCEPT ![m] = version]
             /\ version <= version
  BY <1>1 DEF Go
<1>2. ASSUME NEW v \in OpenIncidents, Go(m, "escalate", v) \/ Go(m, "resolve", v)
      PROVE  /\ UNCHANGED <<row, placement, request, stale>>
             /\ \E step \in {"escalate", "resolve"} :
                  /\ mpc' = [mpc EXCEPT ![m] = step]
                  /\ watched' = [watched EXCEPT ![m] = v]
             /\ v <= version /\ v \in Versions
  BY <1>2 DEF Go
<1>3. UNCHANGED <<task, incidents>>
  BY DEF Evaluate
<1>4. QED
  BY <1>1, <1>2, <1>3 DEF Evaluate

\* What the check inside the transaction of the SLA monitor guarantees.
LEMMA RecheckEffect ==
  ASSUME TypeOK, NEW m \in Monitors, Recheck(m)
  PROVE  /\ UNCHANGED <<row, task, placement, incidents, stale, request>>
         /\ watched[m] = version
         /\ watched' = watched
         /\ \E step \in {"opening", "escalating"} :
              /\ mpc' = [mpc EXCEPT ![m] = step]
              /\ step = "opening" => mpc[m] = "open" /\ OpenIncidents = {}
<1> USE DEF TypeOK, MonitorTypeOK
<1>1. UNCHANGED <<task, incidents>> /\ watched[m] = version
  BY DEF Recheck, Obsolete
<1>2. CASE Go(m, "opening", watched[m]) /\ mpc[m] = "open" /\ OpenIncidents = {}
  BY <1>1, <1>2 DEF Go
<1>3. CASE Go(m, "escalating", watched[m])
  BY <1>1, <1>3 DEF Go
<1>4. QED
  BY <1>2, <1>3 DEF Recheck

\* Which steps write the opportunity, its tasks or its placement; all others only read.
LEMMA ReadersWriteNothing ==
  ASSUME TypeOK, IncidentInv, Next
  PROVE  \/ UNCHANGED <<row, task, placement>>
         \/ \E u \in Users : \/ \E t \in Tasks, s \in {"ACTIVE", "WAITING"} : FollowUp(u, t, s)
                             \/ Close(u)
                             \/ Transition(u)
         \/ PlacementCheck
         \/ \E m \in Monitors : ResolveIncident(m) \/ \E t \in Tasks : OpenIncident(m, t)
<1>1. ASSUME NEW u \in Users, NEW t \in Tasks, ReadTask(u, t)
      PROVE  UNCHANGED <<row, task, placement>>
  BY <1>1 DEF ReadTask
<1>2. ASSUME NEW u \in Users, Reschedule(u) \/ ReadOpportunity(u) \/ Abort(u)
      PROVE  UNCHANGED <<row, task, placement>>
  BY <1>2 DEF Reschedule, ReadOpportunity, Abort
<1>3. ASSUME NEW u \in Users, NEW to, ReadSnapshot(u, to)
      PROVE  UNCHANGED <<row, task, placement>>
  BY <1>3 DEF ReadSnapshot
<1>4. ASSUME NEW m \in Monitors, Evaluate(m) \/ Recheck(m)
      PROVE  UNCHANGED <<row, task, placement>>
  BY <1>4, EvaluateEffect, RecheckEffect
<1>5. ASSUME NEW m \in Monitors, EscalateIncident(m) \/ GiveUp(m)
      PROVE  UNCHANGED <<row, task, placement>>
  BY <1>5 DEF EscalateIncident, GiveUp
<1>6. ASSUME ThresholdPasses \/ \E v \in Versions : EscalationFallsDue(v)
      PROVE  UNCHANGED <<row, task, placement>>
  BY <1>6 DEF ThresholdPasses, EscalationFallsDue
<1>7. ASSUME NEW u \in Users, Request(u)
      PROVE  \/ UNCHANGED <<row, task, placement>>
             \/ \E t \in Tasks, s \in {"ACTIVE", "WAITING"} : FollowUp(u, t, s)
             \/ Close(u)
             \/ Transition(u)
  BY <1>1, <1>2, <1>3, <1>7 DEF Request
<1>8. ASSUME NEW m \in Monitors, Monitor(m)
      PROVE  \/ UNCHANGED <<row, task, placement>>
             \/ ResolveIncident(m)
             \/ \E t \in Tasks : OpenIncident(m, t)
  BY <1>4, <1>5, <1>8 DEF Monitor
<1>9. QED
  BY <1>6, <1>7, <1>8 DEF Next

\* The columns keep their types.  A transition writes a stage its snapshot allowed.
LEMMA OpportunityTyped ==
  ASSUME TypeOK, FreshRows, IncidentInv, Next
  PROVE  OpportunityTypeOK'
<1> USE DEF TypeOK, OpportunityTypeOK, Stages, Statuses, Versions
<1>1. ASSUME UNCHANGED <<row, task, placement>> PROVE OpportunityTypeOK'
  BY <1>1
<1>2. ASSUME NEW u \in Users, NEW t \in Tasks, NEW s \in {"ACTIVE", "WAITING"}, FollowUp(u, t, s)
      PROVE  OpportunityTypeOK'
  BY <1>2 DEF FollowUp, Activity
<1>3. ASSUME NEW u \in Users, Close(u) PROVE OpportunityTypeOK'
  <2>1. seen[u].stage \in Stages
    BY DEF RequestTypeOK, Seen
  <2>2. lastMove' \in [from : Stages \cup {NoStage}, to : Stages]
    BY <1>3, <2>1 DEF Close
  <2>3. task' \in [Tasks -> {"absent", "OPEN", "COMPLETED", "CANCELLED"}]
    BY <1>3 DEF Close
  <2>4. QED
    BY <1>3, <2>2, <2>3 DEF Close, Activity
<1>4. ASSUME NEW u \in Users, Transition(u) PROVE OpportunityTypeOK'
  <2>1. u \in freshRow /\ seen[u] \in Seen /\ target[u] \in Stages
    BY <1>4 DEF Transition, Serializable, FreshRows, Allowed, RequestTypeOK
  <2>2. seen[u].stage \in Stages /\ seen[u].next \in Tasks \cup {NoTask}
    BY <2>1 DEF Seen
  <2>3. QED
    BY <1>4, <2>1, <2>2 DEF Transition, Activity, StatusFor
<1>5. ASSUME PlacementCheck PROVE OpportunityTypeOK'
  BY <1>5 DEF PlacementCheck, LoseHealth, OpenAlert, CloseAlert
<1>6. ASSUME NEW m \in Monitors, ResolveIncident(m) PROVE OpportunityTypeOK'
  BY <1>6 DEF ResolveIncident
<1>7. ASSUME NEW m \in Monitors, NEW t \in Tasks, OpenIncident(m, t) PROVE OpportunityTypeOK'
  BY <1>7 DEF OpenIncident
<1>8. QED
  BY <1>1, <1>2, <1>3, <1>4, <1>5, <1>6, <1>7, ReadersWriteNothing

\* What requests remember keeps its type.
LEMMA RequestsTyped ==
  ASSUME TypeOK, IncidentInv, Next
  PROVE  RequestTypeOK'
<1> USE DEF TypeOK, RequestTypeOK, Stages
<1>1. ASSUME NEW u \in Users, Finish(u)
      PROVE  /\ pc' \in [Users -> {"idle", "reading", "completing", "moving"}]
             /\ subject' \in [Users -> Tasks \cup {NoTask}]
             /\ target' \in [Users -> Stages \cup {NoStage}]
             /\ seen' \in [Users -> Seen]
  <2>1. Unread \in Seen
    BY DEF Unread, Seen, Versions
  <2>2. QED
    BY <1>1, <2>1 DEF Finish
<1>2. ASSUME NEW u \in Users, NEW S \in SUBSET Tasks
      PROVE  /\ Touched(S) \in [Users -> SUBSET Tasks]
             /\ [Touched(S) EXCEPT ![u] = {}] \in [Users -> SUBSET Tasks]
  BY DEF Touched
<1>3. ASSUME NEW u \in Users, NEW t \in Tasks, ReadTask(u, t) PROVE RequestTypeOK'
  BY <1>3 DEF ReadTask
<1>4. ASSUME NEW u \in Users, Reschedule(u) PROVE RequestTypeOK'
  <2>1. {subject[u]} \in SUBSET Tasks
    BY <1>4 DEF Reschedule
  <2>2. QED
    BY <1>1, <1>2, <1>4, <2>1 DEF Reschedule
<1>5. ASSUME NEW u \in Users, ReadOpportunity(u) PROVE RequestTypeOK'
  <2>1. [version |-> version, stage |-> stage, next |-> NoTask, writes |-> {}] \in Seen
    BY DEF Seen, OpportunityTypeOK
  <2>2. seen' \in [Users -> Seen]
    BY <1>5, <2>1 DEF ReadOpportunity
  <2>3. QED
    BY <1>5, <2>2 DEF ReadOpportunity
<1>6. ASSUME NEW u \in Users, UnchangedSince(u), Activity, Finish(u),
             fresh' = [Touched({subject[u]}) EXCEPT ![u] = {}]
      PROVE  RequestTypeOK'
  <2>1. {subject[u]} \in SUBSET Tasks
    BY <1>6 DEF UnchangedSince
  <2>2. QED
    BY <1>1, <1>2, <1>6, <2>1 DEF Activity
<1>7. ASSUME NEW u \in Users, NEW to \in Stages \cup {NoStage}, ReadSnapshot(u, to)
      PROVE  RequestTypeOK'
  <2>1. Rewritten(to) \in SUBSET Tasks
    BY DEF Rewritten, OpenTasks
  <2>2. [version |-> version, stage |-> stage, next |-> nextTask, writes |-> Rewritten(to)] \in Seen
    BY <2>1 DEF Seen, OpportunityTypeOK
  <2>3. seen' \in [Users -> Seen] /\ fresh' \in [Users -> SUBSET Tasks]
    BY <1>7, <2>1, <2>2 DEF ReadSnapshot
  <2>4. QED
    BY <1>7, <2>3 DEF ReadSnapshot
<1>8. ASSUME NEW u \in Users, Transition(u) PROVE RequestTypeOK'
  <2>1. seen[u].writes \in SUBSET Tasks
    BY DEF Seen
  <2>2. QED
    BY <1>1, <1>2, <1>8, <2>1 DEF Transition, Activity
<1>9. ASSUME NEW u \in Users, Abort(u) PROVE RequestTypeOK'
  BY <1>1, <1>9 DEF Abort
<1>10. ASSUME PlacementCheck PROVE RequestTypeOK'
  <2>1. \A S \in SUBSET Tasks : Touched(S) \in [Users -> SUBSET Tasks]
    BY DEF Touched
  <2>2. {alertTask} \cap OpenTasks \in SUBSET Tasks
    BY DEF OpenTasks
  <2>3. QED
    BY <1>10, <2>1, <2>2 DEF PlacementCheck, LoseHealth, OpenAlert, CloseAlert
<1>11. ASSUME NEW m \in Monitors, Evaluate(m) \/ Recheck(m) PROVE RequestTypeOK'
  <2>1. UNCHANGED request
    BY <1>11, EvaluateEffect, RecheckEffect
  <2>2. QED
    BY <2>1
<1>12. ASSUME NEW m \in Monitors, ResolveIncident(m) PROVE RequestTypeOK'
  <2>1. Touched({slaTask[watched[m]]} \cap OpenTasks) \in [Users -> SUBSET Tasks]
    BY DEF Touched
  <2>2. QED
    BY <1>12, <2>1 DEF ResolveIncident
<1>13. ASSUME NEW m \in Monitors, NEW t, OpenIncident(m, t) PROVE RequestTypeOK'
  BY <1>13 DEF OpenIncident
<1>14. ASSUME NEW m \in Monitors, EscalateIncident(m) \/ GiveUp(m) PROVE RequestTypeOK'
  BY <1>14 DEF EscalateIncident, GiveUp
<1>15. ASSUME ThresholdPasses \/ \E v \in Versions : EscalationFallsDue(v) PROVE RequestTypeOK'
  BY <1>15 DEF ThresholdPasses, EscalationFallsDue
<1>16. ASSUME NEW u \in Users, Request(u) PROVE RequestTypeOK'
  BY <1>3, <1>4, <1>5, <1>6, <1>7, <1>8, <1>9, <1>16 DEF Request, FollowUp, Close
<1>17. ASSUME NEW m \in Monitors, Monitor(m) PROVE RequestTypeOK'
  BY <1>11, <1>12, <1>13, <1>14, <1>17 DEF Monitor
<1>18. QED
  BY <1>10, <1>15, <1>16, <1>17 DEF Next

\* Incidents and monitors keep their types.
LEMMA MonitorsTyped ==
  ASSUME TypeOK, IncidentInv, Next
  PROVE  IncidentTypeOK' /\ MonitorTypeOK'
<1> DEFINE Typed == IncidentTypeOK /\ MonitorTypeOK
<1> USE DEF TypeOK, IncidentTypeOK, MonitorTypeOK, Versions
<1>1. ASSUME NEW u \in Users, Request(u) PROVE Typed'
  <2>1. UNCHANGED <<incidents, monitor>> /\ stale' \in BOOLEAN
    BY <1>1 DEF Request, ReadTask, Reschedule, ReadOpportunity, FollowUp, Close,
                ReadSnapshot, Transition, Abort, Activity
  <2>2. QED
    BY <2>1
<1>2. ASSUME PlacementCheck PROVE Typed'
  BY <1>2 DEF PlacementCheck, LoseHealth, OpenAlert, CloseAlert
<1>3. ASSUME NEW m \in Monitors, Done(m) PROVE MonitorTypeOK'
  BY <1>3 DEF Done
<1>4. ASSUME NEW m \in Monitors, Evaluate(m) PROVE Typed'
  BY <1>4, EvaluateEffect
<1>5. ASSUME NEW m \in Monitors, Recheck(m) PROVE Typed'
  BY <1>5, RecheckEffect
<1>6. ASSUME NEW m \in Monitors, NEW t \in Tasks, OpenIncident(m, t) PROVE Typed'
  <2>1. IncidentTypeOK'
    BY <1>6 DEF OpenIncident
  <2>2. QED
    BY <1>3, <1>6, <2>1 DEF OpenIncident
<1>7. ASSUME NEW m \in Monitors, EscalateIncident(m) PROVE Typed'
  <2>1. IncidentTypeOK'
    BY <1>7 DEF EscalateIncident
  <2>2. QED
    BY <1>3, <1>7, <2>1 DEF EscalateIncident
<1>8. ASSUME NEW m \in Monitors, ResolveIncident(m) PROVE Typed'
  <2>1. IncidentTypeOK'
    BY <1>8 DEF ResolveIncident
  <2>2. QED
    BY <1>3, <1>8, <2>1 DEF ResolveIncident
<1>9. ASSUME NEW m \in Monitors, GiveUp(m) PROVE Typed'
  BY <1>3, <1>9 DEF GiveUp
<1>10. ASSUME ThresholdPasses \/ \E v \in Versions : EscalationFallsDue(v) PROVE Typed'
  BY <1>10 DEF ThresholdPasses, EscalationFallsDue
<1>11. ASSUME NEW m \in Monitors, Monitor(m) PROVE Typed'
  BY <1>4, <1>5, <1>6, <1>7, <1>8, <1>9, <1>11 DEF Monitor
<1>12. QED
  BY <1>1, <1>2, <1>10, <1>11 DEF Next

\* Every write of the stage moves the version and the history with it.
LEMMA RowsKept ==
  ASSUME TypeOK, FreshRows, SeenVersions, HistoryInv, IncidentInv, Next
  PROVE  SeenVersions' /\ HistoryInv'
<1> USE DEF SeenVersions, HistoryInv
<1>1. version \in Nat /\ SL # SX /\ \A u \in Users : seen[u].version \in Nat
  BY DEF TypeOK, OpportunityTypeOK, RequestTypeOK, Seen, Versions
<1>2. ASSUME NEW u \in Users, Finish(u)
      PROVE  \A w \in Users : pc'[w] = "completing" =>
               pc[w] = "completing" /\ seen'[w] = seen[w]
  BY <1>2 DEF Finish, TypeOK, RequestTypeOK
<1>3. ASSUME NEW u \in Users, NEW t \in Tasks, ReadTask(u, t) PROVE SeenVersions' /\ HistoryInv'
  BY <1>3 DEF ReadTask, TypeOK, RequestTypeOK
<1>4. ASSUME NEW u \in Users, Reschedule(u) PROVE SeenVersions' /\ HistoryInv'
  BY <1>2, <1>4 DEF Reschedule
<1>5. ASSUME NEW u \in Users, ReadOpportunity(u) PROVE SeenVersions' /\ HistoryInv'
  BY <1>1, <1>5 DEF ReadOpportunity, TypeOK, RequestTypeOK
<1>6. ASSUME NEW u \in Users, NEW t \in Tasks, NEW s \in {"ACTIVE", "WAITING"}, FollowUp(u, t, s)
      PROVE  SeenVersions' /\ HistoryInv'
  BY <1>1, <1>2, <1>6 DEF FollowUp, Activity
<1>7. ASSUME NEW u \in Users, Close(u) PROVE SeenVersions' /\ HistoryInv'
  <2>1. seen[u].stage = stage
    BY <1>7 DEF Close, UnchangedSince
  <2>2. SeenVersions'
    BY <1>1, <1>2, <1>7 DEF Close, Activity
  <2>3. HistoryInv'
    BY <1>1, <1>7, <2>1 DEF Close
  <2>4. QED
    BY <2>2, <2>3
<1>8. ASSUME NEW u \in Users, NEW to \in Stages \cup {NoStage}, ReadSnapshot(u, to)
      PROVE  SeenVersions' /\ HistoryInv'
  BY <1>8 DEF ReadSnapshot, TypeOK, RequestTypeOK
<1>9. ASSUME NEW u \in Users, Transition(u) PROVE SeenVersions' /\ HistoryInv'
  <2>1. SeenVersions'
    BY <1>1, <1>2, <1>9 DEF Transition, Activity
  <2>2. HistoryInv'
    BY <1>9 DEF Transition
  <2>3. QED
    BY <2>1, <2>2
<1>10. ASSUME NEW u \in Users, Abort(u) PROVE SeenVersions' /\ HistoryInv'
  BY <1>2, <1>10 DEF Abort
<1>11. ASSUME UNCHANGED <<row, pc, seen>> PROVE SeenVersions' /\ HistoryInv'
  BY <1>11
<1>12. ASSUME NEW m \in Monitors, Monitor(m) PROVE UNCHANGED <<row, pc, seen>>
  BY <1>12, EvaluateEffect, RecheckEffect
     DEF Monitor, OpenIncident, EscalateIncident, ResolveIncident, GiveUp
<1>13. ASSUME PlacementCheck \/ ThresholdPasses \/ \E v \in Versions : EscalationFallsDue(v)
       PROVE  UNCHANGED <<row, pc, seen>>
  BY <1>13 DEF PlacementCheck, LoseHealth, OpenAlert, CloseAlert, ThresholdPasses,
               EscalationFallsDue
<1>14. ASSUME NEW u \in Users, Request(u) PROVE SeenVersions' /\ HistoryInv'
  BY <1>3, <1>4, <1>5, <1>6, <1>7, <1>8, <1>9, <1>10, <1>14 DEF Request
<1>15. QED
  BY <1>11, <1>12, <1>13, <1>14 DEF Next

\* A write of the opportunity row, or of the placement, invalidates every snapshot.
LEMMA FreshRowsKept ==
  ASSUME TypeOK, FreshRows, IncidentInv, Next
  PROVE  FreshRows'
<1> USE DEF FreshRows, Allowed
<1>1. ASSUME freshRow' = {} PROVE FreshRows'
  BY <1>1
<1>2. ASSUME UNCHANGED <<row, live>>, NEW u \in Users, freshRow' \subseteq freshRow,
             \A w \in freshRow' : /\ pc'[w] = pc[w]
                                  /\ seen'[w] = seen[w]
                                  /\ target'[w] = target[w]
      PROVE  FreshRows'
  BY <1>2
<1>3. ASSUME UNCHANGED <<row, live, freshRow, pc, seen, target>> PROVE FreshRows'
  BY <1>3
<1>4. ASSUME NEW u \in Users, Finish(u), u \notin freshRow', freshRow' \subseteq freshRow,
             UNCHANGED <<row, live>>
      PROVE  FreshRows'
  <2>1. \A w \in freshRow' : pc'[w] = pc[w] /\ seen'[w] = seen[w] /\ target'[w] = target[w]
    BY <1>4 DEF Finish, TypeOK, RequestTypeOK
  <2>2. QED
    BY <1>2, <1>4, <2>1
<1>5. ASSUME NEW u \in Users, NEW t \in Tasks, ReadTask(u, t) PROVE FreshRows'
  BY <1>5 DEF ReadTask, TypeOK, RequestTypeOK
<1>6. ASSUME NEW u \in Users, Reschedule(u) PROVE FreshRows'
  BY <1>4, <1>6 DEF Reschedule
<1>7. ASSUME NEW u \in Users, ReadOpportunity(u) PROVE FreshRows'
  BY <1>7 DEF ReadOpportunity, TypeOK, RequestTypeOK
<1>8. ASSUME NEW u \in Users, NEW to \in Stages \cup {NoStage}, ReadSnapshot(u, to)
      PROVE  FreshRows'
  <2>1. \A w \in freshRow : w # u /\ pc'[w] = pc[w] /\ seen'[w] = seen[w] /\ target'[w] = target[w]
    BY <1>8 DEF ReadSnapshot, TypeOK, RequestTypeOK
  <2>2. /\ pc'[u] = "moving" /\ target'[u] = to
        /\ seen'[u].stage = stage /\ seen'[u].next = nextTask
    BY <1>8 DEF ReadSnapshot, TypeOK, RequestTypeOK
  <2>3. Allowed(stage, to) /\ (to = 9 => live)
    BY <1>8 DEF ReadSnapshot, Ready
  <2>4. QED
    BY <1>8, <2>1, <2>2, <2>3 DEF ReadSnapshot
<1>9. ASSUME NEW u \in Users, Abort(u) PROVE FreshRows'
  BY <1>4, <1>9 DEF Abort
<1>10. ASSUME NEW u \in Users, \/ \E t \in Tasks, s \in {"ACTIVE", "WAITING"} : FollowUp(u, t, s)
                               \/ Close(u)
                               \/ Transition(u)
       PROVE  FreshRows'
  BY <1>1, <1>10 DEF FollowUp, Close, Transition, Activity
<1>11. ASSUME PlacementCheck PROVE FreshRows'
  BY <1>1, <1>11 DEF PlacementCheck, LoseHealth, OpenAlert, CloseAlert
<1>12. ASSUME NEW m \in Monitors, Monitor(m) PROVE FreshRows'
  <2>1. UNCHANGED <<row, live, freshRow, pc, seen, target>>
    BY <1>12, EvaluateEffect, RecheckEffect
       DEF Monitor, OpenIncident, EscalateIncident, ResolveIncident, GiveUp
  <2>2. QED
    BY <1>3, <2>1
<1>13. ASSUME ThresholdPasses \/ \E v \in Versions : EscalationFallsDue(v) PROVE FreshRows'
  BY <1>3, <1>13 DEF ThresholdPasses, EscalationFallsDue
<1>14. ASSUME NEW u \in Users, Request(u) PROVE FreshRows'
  BY <1>5, <1>6, <1>7, <1>8, <1>9, <1>10, <1>14 DEF Request
<1>15. QED
  BY <1>11, <1>12, <1>13, <1>14 DEF Next

\* Whoever takes a task out of OPEN tells its readers, and it is not the next task.
LEMMA TasksKept ==
  ASSUME TypeOK, FreshRows, FreshTasks, SystemTasks, NextTaskIsOpen, IncidentInv, Next
  PROVE  FreshTasks' /\ SystemTasks' /\ NextTaskIsOpen'
<1> DEFINE Kept == FreshTasks /\ SystemTasks /\ NextTaskIsOpen
<1> USE DEF FreshTasks, SystemTasks, NextTaskIsOpen, OpenTasks, Versions
<1>1. /\ task \in [Tasks -> {"absent", "OPEN", "COMPLETED", "CANCELLED"}]
      /\ fresh \in [Users -> SUBSET Tasks]
      /\ subject \in [Users -> Tasks \cup {NoTask}]
      /\ seen \in [Users -> Seen]
      /\ nextTask \in Tasks \cup {NoTask} /\ alertTask \in Tasks \cup {NoTask}
      /\ slaTask \in [Versions -> Tasks \cup {NoTask}]
  BY DEF TypeOK, OpportunityTypeOK, RequestTypeOK, IncidentTypeOK
<1>2. ASSUME UNCHANGED <<task, nextTask, alertTask, slaTask>>,
             \A u \in Users : fresh'[u] \subseteq OpenTasks
      PROVE  Kept'
  BY <1>2
<1>3. ASSUME NEW S, \A x \in Tasks \ S : task'[x] = task[x],
              \A u \in Users : fresh'[u] \subseteq fresh[u] \ S
       PROVE  FreshTasks'
  <2>1. ASSUME NEW u \in Users, NEW x \in fresh'[u] PROVE x \in Tasks /\ task'[x] = "OPEN"
    <3>1. x \in fresh[u] /\ x \notin S
      BY <1>3, <2>1
    <3>2. x \in Tasks /\ task[x] = "OPEN"
      BY <3>1
    <3>3. QED
      BY <1>3, <3>1, <3>2
  <2>2. QED
    BY <2>1
<1>4. ASSUME slaTask' = slaTask, alertTask' \in {alertTask, NoTask},
              \A x \in Tasks : task[x] # "absent" => task'[x] # "absent",
              \/ nextTask' \in {nextTask, NoTask}
              \/ nextTask' \in Tasks /\ task[nextTask'] = "absent"
       PROVE  SystemTasks'
  <2>1. ASSUME NEW x \in Tasks, task[x] # "absent", x # nextTask
        PROVE  task'[x] # "absent" /\ x # nextTask'
    BY <1>4, <2>1
  <2>2. ASSUME alertTask' # NoTask
        PROVE  task'[alertTask'] # "absent" /\ alertTask' # nextTask'
    BY <1>1, <1>4, <2>1, <2>2
  <2>3. ASSUME NEW v \in Versions, slaTask'[v] # NoTask
        PROVE  task'[slaTask'[v]] # "absent" /\ slaTask'[v] # nextTask'
    BY <1>1, <1>4, <2>1, <2>3
  <2>4. QED
    BY <2>2, <2>3
<1>5. ASSUME NEW u \in Users, NEW t \in Tasks, ReadTask(u, t) PROVE Kept'
  BY <1>1, <1>2, <1>5 DEF ReadTask
<1>6. ASSUME NEW u \in Users, Reschedule(u) PROVE Kept'
  <2>1. \A w \in Users : fresh'[w] \subseteq fresh[w]
    BY <1>1, <1>6 DEF Reschedule, Touched
  <2>2. QED
    BY <1>2, <1>6, <2>1 DEF Reschedule
<1>7. ASSUME NEW u \in Users, ReadOpportunity(u) PROVE Kept'
  BY <1>2, <1>7 DEF ReadOpportunity
<1>8. ASSUME NEW u \in Users, UnchangedSince(u) PROVE subject[u] \in Tasks /\ task[subject[u]] = "OPEN"
  BY <1>1, <1>8 DEF UnchangedSince
<1>9. ASSUME NEW u \in Users, NEW t \in Tasks, NEW s \in {"ACTIVE", "WAITING"}, FollowUp(u, t, s)
      PROVE  Kept'
  <2>1. t # subject[u] /\ task[t] = "absent" /\ subject[u] \in Tasks
    BY <1>8, <1>9 DEF FollowUp, IsNew
  <2>2. /\ task'[t] = "OPEN" /\ task'[subject[u]] = "COMPLETED"
        /\ \A x \in Tasks \ {t, subject[u]} : task'[x] = task[x]
    BY <1>1, <1>9, <2>1 DEF FollowUp
  <2>3. UNCHANGED <<alertTask, slaTask>> /\ nextTask' = t
    BY <1>9 DEF FollowUp
  <2>4. \A w \in Users : fresh'[w] \subseteq fresh[w] \ {t, subject[u]}
    BY <1>1, <1>9, <2>1 DEF FollowUp, Touched
  <2>5. FreshTasks'
    BY <1>3, <2>2, <2>4
  <2>6. SystemTasks'
    BY <1>4, <2>1, <2>2, <2>3
  <2>7. QED
    BY <2>2, <2>3, <2>5, <2>6
<1>10. ASSUME NEW u \in Users, Close(u) PROVE Kept'
  <2>1. /\ subject[u] \in Tasks /\ task'[subject[u]] = "COMPLETED"
        /\ \A x \in Tasks \ {subject[u]} : task'[x] = task[x]
    BY <1>1, <1>8, <1>10 DEF Close
  <2>2. UNCHANGED <<alertTask, slaTask>> /\ nextTask' = NoTask
    BY <1>10 DEF Close
  <2>3. \A w \in Users : fresh'[w] \subseteq fresh[w] \ {subject[u]}
    BY <1>1, <1>10 DEF Close, Touched
  <2>4. FreshTasks'
    BY <1>3, <2>1, <2>3
  <2>5. SystemTasks'
    BY <1>4, <2>1, <2>2
  <2>6. QED
    BY <2>2, <2>4, <2>5
<1>11. ASSUME NEW u \in Users, NEW to \in Stages \cup {NoStage}, ReadSnapshot(u, to) PROVE Kept'
  <2>1. \A w \in Users : fresh'[w] = IF w = u THEN Rewritten(to) ELSE fresh[w]
    BY <1>1, <1>11 DEF ReadSnapshot
  <2>2. Rewritten(to) \subseteq OpenTasks
    BY DEF Rewritten
  <2>3. QED
    BY <1>2, <1>11, <2>1, <2>2 DEF ReadSnapshot
<1>12. ASSUME NEW u \in Users, Transition(u) PROVE Kept'
  <2>1. seen[u].writes \subseteq fresh[u] /\ fresh[u] \subseteq OpenTasks /\ seen[u].next = nextTask
    BY <1>12 DEF Transition, Serializable, FreshRows
  <2>2. \A w \in Users : fresh'[w] \subseteq fresh[w] \ seen[u].writes
    BY <1>1, <1>12 DEF Transition, Touched
  <2>3. UNCHANGED <<alertTask, slaTask>>
    BY <1>12 DEF Transition
  <2>4. CASE target[u] = SL
    <3>1. /\ nextTask' = NoTask
          /\ \A x \in Tasks : task'[x] = IF x \in seen[u].writes THEN "CANCELLED" ELSE task[x]
      BY <1>12, <2>4 DEF Transition
    <3>2. FreshTasks'
      BY <1>3, <2>2, <3>1
    <3>3. SystemTasks'
      BY <1>4, <2>3, <3>1
    <3>4. QED
      BY <3>1, <3>2, <3>3
  <2>5. CASE target[u] # SL
    <3>1. nextTask' = nextTask /\ task' = task
      BY <1>1, <1>12, <2>1, <2>5 DEF Transition
    <3>2. QED
      BY <1>2, <2>2, <2>3, <3>1
  <2>6. QED
    BY <2>4, <2>5
<1>13. ASSUME NEW u \in Users, Abort(u) PROVE Kept'
  BY <1>1, <1>2, <1>13 DEF Abort
<1>14. ASSUME NEW t \in Tasks, OpenAlert(t) PROVE Kept'
  <2>1. /\ task[t] = "absent" /\ task'[t] = "OPEN" /\ \A x \in Tasks \ {t} : task'[x] = task[x]
        /\ UNCHANGED <<nextTask, slaTask, fresh>> /\ alertTask' = t
    BY <1>1, <1>14 DEF OpenAlert, IsNew
  <2>2. QED
    BY <1>1, <2>1
<1>15. ASSUME NEW healthy \in BOOLEAN, CloseAlert(healthy) PROVE Kept'
  <2>1. /\ \A x \in Tasks : task'[x] = IF x = alertTask /\ task[x] = "OPEN" THEN "COMPLETED"
                                       ELSE task[x]
        /\ UNCHANGED <<nextTask, slaTask>> /\ alertTask' = NoTask
    BY <1>1, <1>15 DEF CloseAlert
  <2>2. \A w \in Users : fresh'[w] \subseteq fresh[w] \ {alertTask}
    BY <1>1, <1>15 DEF CloseAlert, Touched
  <2>3. FreshTasks'
    BY <1>3, <2>1, <2>2
  <2>4. SystemTasks'
    BY <1>4, <2>1
  <2>5. NextTaskIsOpen'
    BY <1>1, <2>1
  <2>6. QED
    BY <2>3, <2>4, <2>5
<1>16. ASSUME NEW m \in Monitors, NEW t \in Tasks, OpenIncident(m, t) PROVE Kept'
  <2>1. /\ task[t] = "absent" /\ task'[t] = "OPEN" /\ \A x \in Tasks \ {t} : task'[x] = task[x]
        /\ UNCHANGED <<nextTask, alertTask, fresh>>
    BY <1>1, <1>16 DEF OpenIncident, IsNew
  <2>2. \A v \in Versions : slaTask'[v] = slaTask[v] \/ slaTask'[v] = t
    BY <1>1, <1>16 DEF OpenIncident
  <2>3. QED
    BY <1>1, <2>1, <2>2
<1>17. ASSUME NEW m \in Monitors, ResolveIncident(m) PROVE Kept'
  <2>1. PICK x \in Tasks \cup {NoTask} : x = slaTask[watched[m]]
    BY <1>1 DEF TypeOK, MonitorTypeOK
  <2>2. /\ x # nextTask \/ x = NoTask
        /\ \A y \in Tasks : task'[y] = IF y = x /\ task[y] = "OPEN" THEN "CANCELLED" ELSE task[y]
        /\ UNCHANGED <<nextTask, alertTask, slaTask>>
    BY <1>1, <1>17, <2>1 DEF ResolveIncident, TypeOK, MonitorTypeOK
  <2>3. \A w \in Users : fresh'[w] \subseteq fresh[w] \ {x}
    BY <1>1, <1>17, <2>1 DEF ResolveIncident, Touched
  <2>4. QED
    BY <1>1, <2>2, <2>3
<1>18. ASSUME UNCHANGED <<task, nextTask, alertTask, slaTask, fresh>> PROVE Kept'
  BY <1>18
<1>19. ASSUME NEW m \in Monitors, Evaluate(m) \/ Recheck(m) PROVE Kept'
  <2>1. UNCHANGED <<row, task, placement, incidents, request>>
    BY <1>19, EvaluateEffect, RecheckEffect
  <2>2. QED
    BY <1>18, <2>1
<1>20. ASSUME \/ LoseHealth \/ ThresholdPasses
              \/ \E v \in Versions : EscalationFallsDue(v)
              \/ \E m \in Monitors : EscalateIncident(m) \/ GiveUp(m)
       PROVE  Kept'
  BY <1>18, <1>20 DEF LoseHealth, ThresholdPasses, EscalationFallsDue, EscalateIncident, GiveUp
<1>21. ASSUME NEW u \in Users, Request(u) PROVE Kept'
  BY <1>5, <1>6, <1>7, <1>9, <1>10, <1>11, <1>12, <1>13, <1>21 DEF Request
<1>22. ASSUME NEW m \in Monitors, Monitor(m) PROVE Kept'
  BY <1>16, <1>17, <1>19, <1>20, <1>22 DEF Monitor
<1>23. QED
  BY <1>14, <1>15, <1>20, <1>21, <1>22 DEF Next, PlacementCheck

\* Two monitors never both open an incident.
LEMMA IncidentsKept ==
  ASSUME TypeOK, IncidentInv, OneOpenIncident, Next
  PROVE  IncidentInv' /\ OneOpenIncident'
<1> DEFINE Kept == IncidentInv /\ OneOpenIncident
<1> USE DEF IncidentInv, OneOpenIncident, OpenIncidents, Versions
<1>1. /\ version \in Nat \ {0} /\ version \in Versions
      /\ incident \in [Versions -> {"none", "open", "resolved"}]
      /\ watched \in [Monitors -> Versions]
      /\ mpc \in [Monitors -> {"idle", "open", "opening", "escalate", "escalating", "resolve"}]
  BY DEF TypeOK, OpportunityTypeOK, IncidentTypeOK, MonitorTypeOK
<1>2. ASSUME UNCHANGED <<incident, watched, mpc>>, Activity PROVE Kept'
  BY <1>1, <1>2 DEF Activity
<1>3. ASSUME UNCHANGED <<incident, watched, mpc, version, stale>> PROVE Kept'
  BY <1>3
<1>4. ASSUME NEW u \in Users, Request(u)
      PROVE  /\ UNCHANGED <<incident, watched, mpc>>
             /\ Activity \/ UNCHANGED <<version, stale>>
  BY <1>4 DEF Request, ReadTask, Reschedule, ReadOpportunity, FollowUp, Close,
              ReadSnapshot, Transition, Abort
<1>5. ASSUME PlacementCheck PROVE UNCHANGED <<incident, watched, mpc, version, stale>>
  BY <1>5 DEF PlacementCheck, LoseHealth, OpenAlert, CloseAlert
<1>6. ASSUME NEW v \in Versions, EscalationFallsDue(v)
      PROVE  UNCHANGED <<incident, watched, mpc, version, stale>>
  BY <1>6 DEF EscalationFallsDue
<1>7. ASSUME ThresholdPasses PROVE Kept'
  BY <1>7 DEF ThresholdPasses, Passing
<1>8. ASSUME NEW m \in Monitors, Done(m), UNCHANGED <<version, stale>>,
             \A v \in OpenIncidents' : v \in OpenIncidents
      PROVE  Kept'
  <2>1. /\ mpc'[m] = "idle" /\ watched'[m] = 1
        /\ \A n \in Monitors \ {m} : mpc'[n] = mpc[n] /\ watched'[n] = watched[n]
    BY <1>1, <1>8 DEF Done
  <2>2. ASSUME NEW n \in Monitors, mpc'[n] \in {"open", "opening"}
        PROVE  n # m /\ mpc'[n] = mpc[n] /\ watched'[n] = watched[n]
    BY <2>1, <2>2
  <2>3. (\A v \in OpenIncidents : v <= version)' /\ OneOpenIncident'
    BY <1>8
  <2>4. (\A n \in Monitors : watched[n] <= version)'
    BY <1>1, <1>8, <2>1
  <2>5. ASSUME NEW n \in Monitors, mpc'[n] = "opening"
        PROVE  /\ OpenIncidents' \subseteq {watched'[n]}
               /\ \A k \in Monitors : mpc'[k] = "opening" => watched'[k] = watched'[n]
               /\ watched'[n] # version' =>
                    /\ ~stale'
                    /\ \A k \in Monitors : ~(mpc'[k] = "open" /\ watched'[k] = version')
    BY <1>8, <2>2, <2>5
  <2>6. QED
    BY <2>3, <2>4, <2>5
<1>9. ASSUME NEW m \in Monitors, Evaluate(m) PROVE Kept'
  <2>1. PICK step \in {"open", "escalate", "resolve"}, v \in Versions :
          /\ mpc' = [mpc EXCEPT ![m] = step]
          /\ watched' = [watched EXCEPT ![m] = v]
          /\ v <= version
          /\ step = "open" => v = version /\ stale
    BY <1>9, EvaluateEffect
  <2>2. UNCHANGED <<version, incident, stale>>
    BY <1>9, EvaluateEffect
  <2>3. /\ mpc'[m] = step /\ watched'[m] = v
        /\ \A n \in Monitors \ {m} : mpc'[n] = mpc[n] /\ watched'[n] = watched[n]
    BY <1>1, <2>1
  <2>4. QED
    BY <1>1, <2>1, <2>2, <2>3
<1>10. ASSUME NEW m \in Monitors, Recheck(m) PROVE Kept'
  <2>1. PICK step \in {"opening", "escalating"} :
          /\ mpc' = [mpc EXCEPT ![m] = step]
          /\ step = "opening" => mpc[m] = "open" /\ OpenIncidents = {}
    BY <1>10, RecheckEffect
  <2>2. UNCHANGED <<version, incident, stale, watched>> /\ watched[m] = version
    BY <1>10, RecheckEffect
  <2>3. mpc'[m] = step /\ \A n \in Monitors \ {m} : mpc'[n] = mpc[n]
    BY <1>1, <2>1
  <2>4. QED
    BY <1>1, <2>1, <2>2, <2>3
<1>11. ASSUME NEW m \in Monitors, NEW t \in Tasks, OpenIncident(m, t) PROVE Kept'
  <2>1. PICK v \in Versions : v = watched[m] /\ v <= version /\ mpc[m] = "opening"
    BY <1>1, <1>11 DEF OpenIncident
  <2>2. /\ incident'[v] = "open" /\ \A w \in Versions \ {v} : incident'[w] = incident[w]
        /\ UNCHANGED <<version, stale>>
    BY <1>1, <1>11, <2>1 DEF OpenIncident
  <2>3. /\ mpc'[m] = "idle" /\ watched'[m] = 1
        /\ \A n \in Monitors \ {m} : mpc'[n] = mpc[n] /\ watched'[n] = watched[n]
    BY <1>1, <1>11 DEF OpenIncident, Done
  <2>4. \A w \in Versions : incident'[w] = "open" => w = v
    BY <2>1, <2>2
  <2>5. (\A w \in OpenIncidents : w <= version)' /\ OneOpenIncident'
    BY <2>1, <2>2, <2>4
  <2>6. (\A n \in Monitors : watched[n] <= version)'
    BY <1>1, <2>2, <2>3
  <2>7. ASSUME NEW n \in Monitors, mpc'[n] = "opening"
        PROVE  /\ OpenIncidents' \subseteq {watched'[n]}
               /\ \A k \in Monitors : mpc'[k] = "opening" => watched'[k] = watched'[n]
               /\ watched'[n] # version' =>
                    /\ ~stale'
                    /\ \A k \in Monitors : ~(mpc'[k] = "open" /\ watched'[k] = version')
    <3>1. n # m /\ mpc[n] = "opening" /\ watched'[n] = watched[n] /\ watched[n] = v
      BY <2>1, <2>3, <2>7
    <3>2. \A k \in Monitors : mpc'[k] \in {"open", "opening"} =>
            mpc[k] = mpc'[k] /\ watched'[k] = watched[k]
      BY <2>3
    <3>3. OpenIncidents' \subseteq {watched'[n]}
      BY <2>4, <3>1
    <3>4. QED
      BY <2>2, <3>1, <3>2, <3>3
  <2>8. QED
    BY <2>5, <2>6, <2>7
<1>12. ASSUME NEW m \in Monitors, EscalateIncident(m) \/ GiveUp(m) PROVE Kept'
  BY <1>8, <1>12 DEF EscalateIncident, GiveUp
<1>13. ASSUME NEW m \in Monitors, ResolveIncident(m) PROVE Kept'
  <2>1. \A v \in OpenIncidents' : v \in OpenIncidents
    BY <1>1, <1>13 DEF ResolveIncident
  <2>2. QED
    BY <1>8, <1>13, <2>1 DEF ResolveIncident
<1>14. ASSUME NEW m \in Monitors, Monitor(m) PROVE Kept'
  BY <1>9, <1>10, <1>11, <1>12, <1>13, <1>14 DEF Monitor
<1>15. QED
  BY <1>2, <1>3, <1>4, <1>5, <1>6, <1>7, <1>14 DEF Next

-------------------------------------------------------------------------------

\* The inductive invariant.
IInv ==
  /\ TypeOK
  /\ NextTaskIsOpen /\ SystemTasks /\ FreshTasks
  /\ FreshRows /\ SeenVersions /\ HistoryInv
  /\ OneOpenIncident /\ IncidentInv

\* A created or imported opportunity satisfies the invariant.
LEMMA Initially == Init => IInv
<1> SUFFICES ASSUME Init PROVE IInv
  OBVIOUS
<1>1. OpportunityTypeOK
  BY DEF Init, OpportunityTypeOK, Stages, Statuses, StatusFor, Versions
<1>2. IncidentTypeOK /\ MonitorTypeOK
  <2>1. IncidentTypeOK
    BY DEF Init, IncidentTypeOK
  <2>2. 1 \in Versions
    BY DEF Versions
  <2>3. MonitorTypeOK
    BY <2>2 DEF Init, MonitorTypeOK
  <2>4. QED
    BY <2>1, <2>3
<1>3. Unread \in Seen
  BY DEF Unread, Seen, Versions, Stages
<1>4. RequestTypeOK
  BY <1>3 DEF Init, RequestTypeOK
<1>5. NextTaskIsOpen /\ SystemTasks /\ FreshTasks
  <2>1. \A t \in Tasks : t = nextTask => task[t] = "OPEN"
    BY DEF Init
  <2>2. NextTaskIsOpen
    BY <1>1, <2>1 DEF NextTaskIsOpen, OpportunityTypeOK
  <2>3. alertTask = NoTask /\ \A v \in Versions : slaTask[v] = NoTask
    BY DEF Init
  <2>4. \A u \in Users : fresh[u] = {}
    BY DEF Init
  <2>5. QED
    BY <2>2, <2>3, <2>4 DEF SystemTasks, FreshTasks
<1>6. FreshRows /\ SeenVersions /\ HistoryInv
  BY DEF Init, FreshRows, SeenVersions, HistoryInv
<1>7. OneOpenIncident /\ IncidentInv
  BY DEF Init, OneOpenIncident, IncidentInv, OpenIncidents, Versions
<1>8. QED
  BY <1>1, <1>2, <1>4, <1>5, <1>6, <1>7 DEF IInv, TypeOK

\* Every step preserves the invariant.
LEMMA Inductive == IInv /\ [Next]_vars => IInv'
<1> SUFFICES ASSUME IInv, [Next]_vars PROVE IInv'
  OBVIOUS
<1>1. CASE Next
  <2>1. TypeOK'
    BY <1>1, OpportunityTyped, RequestsTyped, MonitorsTyped DEF IInv, TypeOK
  <2>2. QED
    BY <1>1, <2>1, RowsKept, FreshRowsKept, TasksKept, IncidentsKept DEF IInv
<1>2. CASE UNCHANGED vars
  <2>1. TypeOK'
    BY <1>2 DEF IInv, vars, TypeOK, OpportunityTypeOK, IncidentTypeOK, RequestTypeOK, MonitorTypeOK
  <2>2. (NextTaskIsOpen /\ SystemTasks /\ FreshTasks)'
    BY <1>2 DEF IInv, vars, NextTaskIsOpen, SystemTasks, FreshTasks, OpenTasks
  <2>3. (FreshRows /\ SeenVersions /\ HistoryInv)'
    BY <1>2 DEF IInv, vars, FreshRows, SeenVersions, HistoryInv, Allowed
  <2>4. (OneOpenIncident /\ IncidentInv)'
    BY <1>2 DEF IInv, vars, OneOpenIncident, IncidentInv, OpenIncidents
  <2>5. QED
    BY <2>1, <2>2, <2>3, <2>4 DEF IInv
<1>3. QED
  BY <1>1, <1>2

\* The invariant holds in every reachable state.
THEOREM Invariance == Spec => []IInv
  BY Initially, Inductive, PTL DEF Spec

\* Every column and every local has its type in every reachable state.
THEOREM TypeCorrect == Spec => []TypeOK
  BY Invariance, PTL DEF IInv

\* The next task of an opportunity is open, whatever completions, transitions, monitors
\* and checks run at the same time.
THEOREM NextTaskStaysOpen == Spec => []NextTaskIsOpen
  BY Invariance, PTL DEF IInv

\* Any number of monitors and owners: never two open incidents.
THEOREM AtMostOneIncident == Spec => []OneOpenIncident
  BY Invariance, PTL DEF IInv

\* No step writes the status of a task that was completed or cancelled.
LEMMA FinishedStaysFinished ==
  ASSUME IInv, Next
  PROVE  \A t \in Tasks : task[t] \in {"COMPLETED", "CANCELLED"} => task'[t] = task[t]
<1> DEFINE Kept == \A t \in Tasks : task[t] \in {"COMPLETED", "CANCELLED"} => task'[t] = task[t]
<1>1. task \in [Tasks -> {"absent", "OPEN", "COMPLETED", "CANCELLED"}]
  BY DEF IInv, TypeOK, OpportunityTypeOK
<1>2. ASSUME NEW u \in Users, FreshTasks, UnchangedSince(u) PROVE task[subject[u]] = "OPEN"
  BY <1>2 DEF UnchangedSince, FreshTasks, OpenTasks
<1>3. ASSUME NEW u \in Users, NEW n \in Tasks, NEW s \in {"ACTIVE", "WAITING"}, FollowUp(u, n, s)
      PROVE  Kept
  <2>1. task[n] = "absent" /\ task[subject[u]] = "OPEN"
    BY <1>2, <1>3 DEF FollowUp, IsNew, IInv
  <2>2. \A t \in Tasks : t \notin {n, subject[u]} => task'[t] = task[t]
    BY <1>1, <1>3 DEF FollowUp
  <2>3. QED
    BY <2>1, <2>2
<1>4. ASSUME NEW u \in Users, Close(u) PROVE Kept
  <2>1. task[subject[u]] = "OPEN"
    BY <1>2, <1>4 DEF Close, IInv
  <2>2. \A t \in Tasks : t # subject[u] => task'[t] = task[t]
    BY <1>1, <1>4 DEF Close
  <2>3. QED
    BY <2>1, <2>2
<1>5. ASSUME NEW u \in Users, Transition(u) PROVE Kept
  <2>1. \A t \in seen[u].writes : task[t] = "OPEN"
    BY <1>5 DEF Transition, Serializable, IInv, FreshTasks, OpenTasks
  <2>2. \A t \in Tasks : t \notin seen[u].writes => task'[t] = task[t]
    BY <1>5 DEF Transition
  <2>3. QED
    BY <2>1, <2>2
<1>6. ASSUME NEW n \in Tasks, task[n] = "absent", task' = [task EXCEPT ![n] = "OPEN"] PROVE Kept
  BY <1>1, <1>6
<1>7. ASSUME PlacementCheck PROVE Kept
  BY <1>6, <1>7 DEF PlacementCheck, LoseHealth, OpenAlert, CloseAlert, IsNew, OpenTasks
<1>8. ASSUME NEW m \in Monitors, NEW n \in Tasks, OpenIncident(m, n) PROVE Kept
  BY <1>6, <1>8 DEF OpenIncident, IsNew
<1>9. ASSUME NEW m \in Monitors, ResolveIncident(m) PROVE Kept
  BY <1>9 DEF ResolveIncident, OpenTasks
<1>10. QED
  BY <1>3, <1>4, <1>5, <1>7, <1>8, <1>9, ReadersWriteNothing DEF IInv

\* The first decision on a task stands: completed or cancelled for ever.
THEOREM TasksAreFinal == Spec => TaskIsFinal
<1> DEFINE Kept == \A t \in Tasks : task[t] \in {"COMPLETED", "CANCELLED"} => task'[t] = task[t]
<1>1. IInv /\ [Next]_vars => [Kept]_vars
  BY FinishedStaysFinished
<1>2. QED
  BY <1>1, Invariance, PTL DEF Spec, TaskIsFinal

\* Only these steps write the opportunity's row.
LEMMA RowWriters ==
  ASSUME IInv, Next
  PROVE  \/ UNCHANGED row
         \/ \E u \in Users : \/ \E t \in Tasks, s \in {"ACTIVE", "WAITING"} : FollowUp(u, t, s)
                             \/ Close(u)
                             \/ Transition(u)
<1>1. PlacementCheck => UNCHANGED row
  BY DEF PlacementCheck, LoseHealth, OpenAlert, CloseAlert
<1>2. ASSUME NEW m \in Monitors PROVE ResolveIncident(m) => UNCHANGED row
  BY DEF ResolveIncident
<1>3. ASSUME NEW m \in Monitors, NEW t \in Tasks PROVE OpenIncident(m, t) => UNCHANGED row
  BY DEF OpenIncident
<1>4. QED
  BY <1>1, <1>2, <1>3, ReadersWriteNothing DEF IInv

\* Stage history is a chain through every interleaving of completions and transitions.
THEOREM HistoryChain == Spec => HistoryIsAChain
<1> DEFINE Chained == /\ lastMove' # lastMove => lastMove' = [from |-> stage, to |-> stage']
                      /\ stage' # stage => lastMove' # lastMove
<1>1. IInv /\ [Next]_vars => [Chained]_vars
  <2> SUFFICES ASSUME IInv, Next PROVE Chained
    OBVIOUS
  <2>1. ASSUME UNCHANGED row PROVE Chained
    BY <2>1
  <2>2. ASSUME NEW u \in Users, NEW t \in Tasks, NEW s \in {"ACTIVE", "WAITING"}, FollowUp(u, t, s)
        PROVE  Chained
    BY <2>2 DEF FollowUp
  <2>3. lastMove.to = stage
    BY DEF IInv, HistoryInv
  <2>4. ASSUME NEW u \in Users, Close(u) PROVE Chained
    <3>1. seen[u].stage = stage
      BY <2>4 DEF Close, UnchangedSince, IInv, SeenVersions
    <3>2. QED
      BY <2>3, <2>4, <3>1 DEF Close
  <2>5. ASSUME NEW u \in Users, Transition(u) PROVE Chained
    <3>1. seen[u].stage = stage
      BY <2>5 DEF Transition, Serializable, IInv, FreshRows
    <3>2. lastMove' = [from |-> stage, to |-> stage']
      BY <2>5, <3>1 DEF Transition
    <3>3. QED
      BY <2>3, <3>2
  <2>6. QED
    BY <2>1, <2>2, <2>4, <2>5, RowWriters
<1>2. QED
  BY <1>1, Invariance, PTL DEF Spec, HistoryIsAChain

\* Short of closing, a committed transition follows the published graph from the stage
\* the opportunity then has, a resume included.
THEOREM FunnelInOrder == Spec => FunnelOrder
<1> DEFINE InOrder == stage' \notin {stage, SL} =>
                        \/ stage \in Working /\ (stage' = SX \/ stage' = stage + 1)
                        \/ stage = SX /\ stage' = lastMove.from
<1>1. IInv /\ [Next]_vars => [InOrder]_vars
  <2> SUFFICES ASSUME IInv, Next PROVE InOrder
    OBVIOUS
  <2>1. ASSUME \/ UNCHANGED row
               \/ \E u \in Users : \E t \in Tasks, s \in {"ACTIVE", "WAITING"} : FollowUp(u, t, s)
               \/ \E u \in Users : Close(u)
        PROVE  stage' \in {stage, SL}
    BY <2>1 DEF FollowUp, Close
  <2>2. ASSUME NEW u \in Users, Transition(u) PROVE InOrder
    <3>1. Allowed(stage, stage')
      BY <2>2 DEF Transition, Serializable, IInv, FreshRows
    <3>2. stage = SX => pausedFrom \in {NoStage, lastMove.from}
      BY DEF IInv, HistoryInv
    <3>3. QED
      BY <3>1, <3>2 DEF Allowed
  <2>3. QED
    BY <2>1, <2>2, RowWriters
<1>2. QED
  BY <1>1, Invariance, PTL DEF Spec, FunnelOrder

\* The placement is healthy at the moment a launch commits, not only when it was read.
THEOREM LaunchIsHealthy == Spec => LaunchedHealthy
<1>1. IInv /\ [Next]_vars => [stage # 9 /\ stage' = 9 => live]_vars
  <2> SUFFICES ASSUME IInv, Next, stage # 9, stage' = 9 PROVE live
    OBVIOUS
  <2>1. ASSUME \/ UNCHANGED row
               \/ \E u \in Users : \E t \in Tasks, s \in {"ACTIVE", "WAITING"} : FollowUp(u, t, s)
               \/ \E u \in Users : Close(u)
        PROVE  stage' \in {stage, SL}
    BY <2>1 DEF FollowUp, Close
  <2>2. SL # 9
    OBVIOUS
  <2>3. ASSUME NEW u \in Users, Transition(u) PROVE live
    BY <2>3 DEF Transition, Serializable, IInv, FreshRows
  <2>4. QED
    BY <2>1, <2>2, <2>3, RowWriters
<1>2. QED
  BY <1>1, Invariance, PTL DEF Spec, LaunchedHealthy

-------------------------------------------------------------------------------

\* No task of a resolved incident is left to do.
ResolvedTasksDone ==
  \A v \in Versions : incident[v] = "resolved" /\ slaTask[v] # NoTask => task[slaTask[v]] # "OPEN"

\* Which steps write incidents.
LEMMA IncidentWriters ==
  ASSUME IInv, Next
  PROVE  \/ UNCHANGED <<incident, slaTask, escalated>>
         \/ \E m \in Monitors : \/ ResolveIncident(m) \/ EscalateIncident(m)
                                \/ \E t \in Tasks : OpenIncident(m, t)
<1>1. ASSUME NEW u \in Users, Request(u) PROVE UNCHANGED <<incident, slaTask, escalated>>
  BY <1>1 DEF Request, ReadTask, Reschedule, ReadOpportunity, FollowUp, Close,
              ReadSnapshot, Transition, Abort
<1>2. PlacementCheck => UNCHANGED <<incident, slaTask, escalated>>
  BY DEF PlacementCheck, LoseHealth, OpenAlert, CloseAlert
<1>3. ASSUME NEW m \in Monitors, Evaluate(m) \/ Recheck(m) \/ GiveUp(m)
      PROVE  UNCHANGED <<incident, slaTask, escalated>>
  BY <1>3, EvaluateEffect, RecheckEffect DEF GiveUp, IInv
<1>4. ThresholdPasses \/ (\E v \in Versions : EscalationFallsDue(v)) =>
        UNCHANGED <<incident, slaTask, escalated>>
  BY DEF ThresholdPasses, EscalationFallsDue
<1>5. QED
  BY <1>1, <1>2, <1>3, <1>4 DEF Next, Monitor

\* A resolved incident is never escalated afterwards, and its task is never open again.
THEOREM ResolvedForEver == Spec => ResolvedIsFinal
<1> USE DEF Versions
<1>1. Init => ResolvedTasksDone
  BY DEF Init, ResolvedTasksDone
<1>2. IInv /\ ResolvedTasksDone /\ [Next]_vars =>
        /\ ResolvedTasksDone'
        /\ [\A v \in Versions : incident[v] = "resolved" => (v \in escalated' <=> v \in escalated)]_vars
  <2> SUFFICES ASSUME IInv, ResolvedTasksDone, [Next]_vars
               PROVE  /\ ResolvedTasksDone'
                      /\ \A v \in Versions : incident[v] = "resolved" =>
                           (v \in escalated' <=> v \in escalated)
    OBVIOUS
  <2>1. /\ incident \in [Versions -> {"none", "open", "resolved"}]
        /\ slaTask \in [Versions -> Tasks \cup {NoTask}]
        /\ task \in [Tasks -> {"absent", "OPEN", "COMPLETED", "CANCELLED"}]
        /\ \A v \in Versions : slaTask[v] # NoTask => task[slaTask[v]] # "absent"
    BY DEF IInv, TypeOK, IncidentTypeOK, OpportunityTypeOK, SystemTasks
  <2>2. CASE UNCHANGED vars
    BY <2>2 DEF vars, ResolvedTasksDone
  <2>3. ASSUME Next, NEW v \in Versions, incident[v] = "resolved", slaTask'[v] = slaTask[v],
               slaTask[v] # NoTask
        PROVE  task'[slaTask[v]] # "OPEN"
    <3>1. slaTask[v] \in Tasks /\ task[slaTask[v]] \in {"COMPLETED", "CANCELLED"}
      BY <2>1, <2>3 DEF ResolvedTasksDone
    <3>2. QED
      BY <2>3, <3>1, FinishedStaysFinished
  <2>4. ASSUME Next, UNCHANGED <<incident, slaTask>> PROVE ResolvedTasksDone'
    BY <2>3, <2>4 DEF ResolvedTasksDone
  <2>5. ASSUME NEW m \in Monitors, EscalateIncident(m), Next
        PROVE  /\ UNCHANGED <<incident, slaTask>>
               /\ \A v \in Versions : incident[v] = "resolved" =>
                    (v \in escalated' <=> v \in escalated)
    BY <2>5 DEF EscalateIncident
  <2>6. ASSUME NEW m \in Monitors, NEW t \in Tasks, OpenIncident(m, t), Next
        PROVE  ResolvedTasksDone' /\ escalated' = escalated
    <3>1. \A v \in Versions : incident'[v] = "resolved" =>
            incident[v] = "resolved" /\ slaTask'[v] = slaTask[v]
      BY <2>1, <2>6 DEF OpenIncident
    <3>2. QED
      BY <2>3, <2>6, <3>1 DEF ResolvedTasksDone, OpenIncident
  <2>7. ASSUME NEW m \in Monitors, ResolveIncident(m), Next
        PROVE  ResolvedTasksDone' /\ escalated' = escalated
    <3>1. /\ slaTask' = slaTask /\ escalated' = escalated
          /\ \A v \in Versions : incident'[v] = "resolved" =>
               incident[v] = "resolved" \/ v = watched[m]
      BY <2>1, <2>7 DEF ResolveIncident
    <3>2. slaTask[watched[m]] \in Tasks => task'[slaTask[watched[m]]] # "OPEN"
      BY <2>1, <2>7 DEF ResolveIncident, OpenTasks
    <3>3. QED
      BY <2>1, <2>3, <2>7, <3>1, <3>2 DEF ResolvedTasksDone
  <2>8. QED
    BY <2>2, <2>4, <2>5, <2>6, <2>7, IncidentWriters
<1>3. Spec => []ResolvedTasksDone
  BY <1>1, <1>2, Invariance, PTL DEF Spec
<1>4. ResolvedTasksDone' /\ [\A v \in Versions : incident[v] = "resolved" =>
                               (v \in escalated' <=> v \in escalated)]_vars =>
        [\A v \in Versions : incident'[v] = "resolved" =>
           /\ slaTask'[v] # NoTask => task'[slaTask'[v]] # "OPEN"
           /\ incident[v] = "resolved" => (v \in escalated' <=> v \in escalated)]_vars
  BY DEF ResolvedTasksDone
<1>5. QED
  BY <1>2, <1>3, <1>4, Invariance, PTL DEF Spec, ResolvedIsFinal
-------------------------------------------------------------------------------
(* The opportunity in memory.  It has no SLA monitor, so none runs here.       *)

\* Who closes the opportunity has all its open tasks in the snapshot, or fails.
WholeSnapshots == \A u \in freshRow : target[u] = SL => OpenTasks \subseteq seen[u].writes

\* A task that is completed leaves the list, and the new one enters it.
LEMMA FollowUpIsTwins ==
  ASSUME IInv, NEW u \in Users, NEW new \in Tasks, NEW s, FollowUp(u, new, s)
  PROVE  Twin!Complete(subject[u], new) /\ subject[u] \in Tasks
<1>1. /\ task \in [Tasks -> {"absent", "OPEN", "COMPLETED", "CANCELLED"}]
      /\ subject[u] \in OpenTasks /\ task[new] = "absent"
  BY DEF IInv, TypeOK, OpportunityTypeOK, FreshTasks, FollowUp, UnchangedSince, IsNew
<1>2. task' = [task EXCEPT ![subject[u]] = "COMPLETED", ![new] = "OPEN"]
  BY DEF FollowUp
<1>3. OpenTasks' = (OpenTasks \ {subject[u]}) \cup {new}
  BY <1>1, <1>2 DEF OpenTasks
<1>4. UNCHANGED <<stage, pausedFrom, alertTask>>
  BY DEF FollowUp
<1>5. QED
  BY <1>1, <1>3, <1>4 DEF Twin!Complete, OpenTasks

\* Closing by completion leaves the other actions in the list.
LEMMA CloseIsTwins ==
  ASSUME IInv, NEW u \in Users, Close(u)
  PROVE  Twin!CompleteLast(subject[u]) /\ subject[u] \in Tasks
<1>1. /\ task \in [Tasks -> {"absent", "OPEN", "COMPLETED", "CANCELLED"}]
      /\ subject[u] \in OpenTasks
  BY DEF IInv, TypeOK, OpportunityTypeOK, FreshTasks, Close, UnchangedSince
<1>2. task' = [task EXCEPT ![subject[u]] = "COMPLETED"]
  BY DEF Close
<1>3. OpenTasks' = OpenTasks \ {subject[u]}
  BY <1>1, <1>2 DEF OpenTasks
<1>4. stage' = SL /\ SL # SX /\ UNCHANGED alertTask
  BY DEF Close
<1>5. QED
  BY <1>1, <1>3, <1>4 DEF Twin!CompleteLast, OpenTasks

\* A transition commits what the stage, the pause and the list then allow.
LEMMA TransitionIsTwins ==
  ASSUME IInv, WholeSnapshots, NEW u \in Users, Transition(u)
  PROVE  Twin!Transition(target[u]) /\ target[u] \in Stages
<1>1. /\ u \in freshRow /\ seen[u].writes \subseteq OpenTasks
      /\ seen[u].stage = stage /\ Allowed(stage, target[u])
  BY DEF IInv, FreshRows, FreshTasks, Transition, Serializable
<1>2. stage' = target[u] /\ UNCHANGED alertTask /\ stage \in Stages
  BY DEF Transition, IInv, TypeOK, OpportunityTypeOK
<1>3. /\ Working \subseteq 0 .. 10 /\ SX \notin Working /\ SL \notin Working /\ SX # SL
      /\ NoStage \notin Stages
  BY DEF Stages
<1>4. Twin!Allowed(target[u]) /\ target[u] \in Stages
  BY <1>1, <1>2, <1>3 DEF Allowed, Twin!Allowed, Stages, IInv, TypeOK, OpportunityTypeOK
<1>5. target[u] = SX => pausedFrom' = stage
  BY <1>1 DEF Transition
<1>6. OpenTasks' = IF target[u] = SL THEN {} ELSE OpenTasks
  <2>1. task' = [t \in Tasks |-> IF target[u] = SL /\ t \in seen[u].writes THEN "CANCELLED"
                                 ELSE task[t]]
    BY DEF Transition
  <2>2. CASE target[u] = SL
    BY <1>1, <2>1, <2>2 DEF WholeSnapshots, OpenTasks
  <2>3. CASE target[u] # SL
    BY <2>1, <2>3 DEF OpenTasks
  <2>4. QED
    BY <2>2, <2>3
<1>7. QED
  BY <1>2, <1>3, <1>4, <1>5, <1>6 DEF Twin!Transition

\* An alert and its end are those of the list.
LEMMA AlertsAreTwins ==
  ASSUME IInv, PlacementCheck
  PROVE  [Twin!Next]_(Twin!twin) /\ freshRow' = {}
<1>1. task \in [Tasks -> {"absent", "OPEN", "COMPLETED", "CANCELLED"}]
      /\ alertTask \in Tasks \cup {NoTask}
  BY DEF IInv, TypeOK, OpportunityTypeOK
<1>2. CASE LoseHealth
  BY <1>2 DEF LoseHealth, Twin!twin, OpenTasks
<1>3. ASSUME NEW new \in Tasks, OpenAlert(new)
      PROVE  [Twin!Next]_(Twin!twin) /\ freshRow' = {}
  <2>1. task[new] = "absent" /\ task' = [task EXCEPT ![new] = "OPEN"]
    BY <1>3 DEF OpenAlert, IsNew
  <2>2. new \notin OpenTasks /\ OpenTasks' = OpenTasks \cup {new}
    BY <1>1, <2>1 DEF OpenTasks
  <2>3. Twin!Alert(new) /\ freshRow' = {}
    BY <1>3, <2>2 DEF OpenAlert, Twin!Alert
  <2>4. QED
    BY <2>3 DEF Twin!Next
<1>4. ASSUME NEW healthy \in BOOLEAN, CloseAlert(healthy)
      PROVE  [Twin!Next]_(Twin!twin) /\ freshRow' = {}
  <2>1. UNCHANGED <<stage, pausedFrom>> /\ alertTask' = NoTask /\ freshRow' = {}
    BY <1>4 DEF CloseAlert
  <2>2. OpenTasks' = OpenTasks \ {alertTask}
    BY <1>1, <1>4 DEF CloseAlert, OpenTasks
  <2>3. CASE alertTask # NoTask
    BY <2>1, <2>2, <2>3 DEF Twin!Resolve, Twin!Next
  <2>4. CASE alertTask = NoTask
    <3>1. OpenTasks' = OpenTasks
      BY <2>2, <2>4 DEF OpenTasks
    <3>2. QED
      BY <2>1, <2>4, <3>1 DEF Twin!twin
  <2>5. QED
    BY <2>1, <2>3, <2>4
<1>5. QED
  BY <1>2, <1>3, <1>4 DEF PlacementCheck

\* A step of a request is one of the service in memory, or none.
LEMMA RequestIsTwins ==
  ASSUME IInv, WholeSnapshots, NEW u \in Users, Request(u)
  PROVE  [Twin!Next]_(Twin!twin) /\ WholeSnapshots'
<1> DEFINE Simulates == [Twin!Next]_(Twin!twin) /\ WholeSnapshots'
<1>1. /\ \A w \in freshRow : pc[w] = "moving"
      /\ target \in [Users -> Stages \cup {NoStage}] /\ seen \in [Users -> Seen]
      /\ freshRow \subseteq Users
  BY DEF IInv, FreshRows, TypeOK, RequestTypeOK
<1>2. ASSUME UNCHANGED <<row, task, placement>>,
             \A w \in freshRow' : w \in freshRow /\ target'[w] = target[w] /\ seen'[w] = seen[w]
      PROVE  Simulates
  BY <1>2 DEF Twin!twin, OpenTasks, WholeSnapshots
<1>3. ASSUME freshRow' = {} PROVE WholeSnapshots'
  BY <1>3 DEF WholeSnapshots
<1>4. ASSUME NEW t \in Tasks, ReadTask(u, t) PROVE Simulates
  BY <1>2, <1>4 DEF ReadTask
<1>5. ASSUME Reschedule(u) \/ ReadOpportunity(u) PROVE Simulates
  <2>1. u \notin freshRow
    BY <1>1, <1>5 DEF Reschedule, ReadOpportunity
  <2>2. \A w \in freshRow : target'[w] = target[w] /\ seen'[w] = seen[w]
    BY <1>1, <1>5, <2>1 DEF Reschedule, ReadOpportunity, Finish
  <2>3. UNCHANGED <<row, task, placement, freshRow>>
    BY <1>5 DEF Reschedule, ReadOpportunity
  <2>4. QED
    BY <1>2, <2>2, <2>3
<1>6. ASSUME Abort(u) PROVE Simulates
  <2>1. \A w \in freshRow' : w \in freshRow /\ target'[w] = target[w] /\ seen'[w] = seen[w]
    BY <1>1, <1>6 DEF Abort, Finish
  <2>2. QED
    BY <1>2, <1>6, <2>1 DEF Abort
<1>7. ASSUME NEW to \in Stages \cup {NoStage}, ReadSnapshot(u, to) PROVE Simulates
  <2>1. /\ UNCHANGED <<row, task, placement>> /\ freshRow' = freshRow \cup {u}
        /\ target' = [target EXCEPT ![u] = to]
        /\ seen' = [seen EXCEPT ![u] = [version |-> version, stage |-> stage,
                                        next |-> nextTask, writes |-> Rewritten(to)]]
    BY <1>7 DEF ReadSnapshot
  <2>2. OpenTasks' = OpenTasks /\ UNCHANGED Twin!twin
    BY <2>1 DEF OpenTasks, Twin!twin
  <2>3. target'[u] = SL => OpenTasks' \subseteq seen'[u].writes
    BY <1>1, <2>1, <2>2 DEF Rewritten
  <2>4. \A w \in freshRow : w # u => target'[w] = target[w] /\ seen'[w] = seen[w]
    BY <1>1, <2>1
  <2>5. WholeSnapshots'
    BY <2>1, <2>2, <2>3, <2>4 DEF WholeSnapshots
  <2>6. QED
    BY <2>2, <2>5
<1>8. ASSUME NEW t \in Tasks, NEW s \in {"ACTIVE", "WAITING"}, FollowUp(u, t, s) PROVE Simulates
  BY <1>3, <1>8, FollowUpIsTwins DEF FollowUp, Activity, Twin!Next
<1>9. ASSUME Close(u) PROVE Simulates
  BY <1>3, <1>9, CloseIsTwins DEF Close, Activity, Twin!Next
<1>10. ASSUME Transition(u) PROVE Simulates
  <2>1. freshRow' = {}
    BY <1>10 DEF Transition, Activity
  <2>2. Twin!Next
    BY <1>10, TransitionIsTwins DEF Twin!Next, Stages
  <2>3. QED
    BY <1>3, <2>1, <2>2
<1> HIDE DEF Simulates
<1>11. Simulates
  BY <1>4, <1>5, <1>6, <1>7, <1>8, <1>9, <1>10 DEF Request
<1>12. QED
  BY <1>11 DEF Simulates

\* So is every step, when no SLA monitor runs.
LEMMA StepIsTwins ==
  ASSUME Monitors = {}, IInv, WholeSnapshots, [Next]_vars
  PROVE  [Twin!Next]_(Twin!twin) /\ WholeSnapshots'
<1>1. ASSUME UNCHANGED <<row, task, placement, request>>
      PROVE  [Twin!Next]_(Twin!twin) /\ WholeSnapshots'
  BY <1>1 DEF Twin!twin, OpenTasks, WholeSnapshots
<1>2. CASE PlacementCheck
  BY <1>2, AlertsAreTwins DEF WholeSnapshots
<1>3. CASE ThresholdPasses \/ \E v \in Versions : EscalationFallsDue(v)
  BY <1>1, <1>3 DEF ThresholdPasses, EscalationFallsDue
<1>4. CASE UNCHANGED vars
  BY <1>1, <1>4 DEF vars
<1>5. QED
  BY <1>2, <1>3, <1>4, RequestIsTwins DEF Next

\* An opportunity begins with an empty list, or with one action.
LEMMA InitiallyTwins == Init => Twin!Init /\ WholeSnapshots
<1> SUFFICES ASSUME Init PROVE Twin!Init /\ WholeSnapshots
  OBVIOUS
<1>1. stage \in Working \cup {SX, SL} /\ pausedFrom = NoStage /\ alertTask = NoTask /\ freshRow = {}
  BY DEF Init
<1>2. nextTask = NoTask \/ nextTask \in Tasks
  BY DEF Init
<1>3. task = [t \in Tasks |-> IF t = nextTask THEN "OPEN" ELSE "absent"]
  BY DEF Init
<1>4. OpenTasks = {} \/ \E t \in Tasks : OpenTasks = {t}
  <2>1. CASE nextTask = NoTask
    BY <1>3, <2>1 DEF OpenTasks
  <2>2. CASE nextTask \in Tasks
    <3>1. OpenTasks = {nextTask}
      BY <1>3, <2>2 DEF OpenTasks
    <3>2. QED
      BY <2>2, <3>1
  <2>3. QED
    BY <1>2, <2>1, <2>2
<1>5. QED
  BY <1>1, <1>4 DEF Twin!Init, WholeSnapshots

\* For any number of requests at once: what they leave in the database is what they leave
\* in memory, where they run one after the other.
THEOREM ImplementsService ==
  ASSUME Monitors = {} PROVE Spec => ImplementsTwin
<1>1. Init => Twin!Init /\ WholeSnapshots
  BY InitiallyTwins
<1>2. IInv /\ WholeSnapshots /\ [Next]_vars => [Twin!Next]_(Twin!twin) /\ WholeSnapshots'
  BY StepIsTwins
<1> HIDE DEF IInv, WholeSnapshots
<1>3. QED
  BY <1>1, <1>2, Invariance, PTL DEF Spec, ImplementsTwin, Twin!Spec
===============================================================================
