------------------------- MODULE OpportunityLifecycle -------------------------
(***************************************************************************)
(* One opportunity and everybody who writes it at the same time:           *)
(*   - users who complete and reschedule its tasks                         *)
(*     (application/task-completion.service.ts over                        *)
(*     prisma-task-completion.store.ts, READ COMMITTED;                    *)
(*     postgres-today.service.ts),                                         *)
(*   - users who move it through the funnel                                *)
(*     (postgres-opportunity.service.ts, SERIALIZABLE),                    *)
(*   - the SLA monitor (prisma-opportunity-sla-monitor.store.ts), and      *)
(*   - the L0 checks of its placement, whose alerts are tasks of it.       *)
(*                                                                         *)
(* A transaction is the steps at which it reads, and one step for its      *)
(* commit: what it writes is invisible until then, and the row locks it    *)
(* holds keep every WHERE clause it has passed true until then.  A         *)
(* statement that updates a row written since the transaction read it      *)
(* counts no row (READ COMMITTED with a version in its WHERE clause) or    *)
(* fails (SERIALIZABLE); both roll back, which is Abort.                   *)
(***************************************************************************)
EXTENDS Integers, FiniteSets, TLC

CONSTANTS
  Users,          \* requests in flight
  Monitors,       \* opportunity-sla-worker processes
  Tasks,          \* task ids
  NoTask,         \* NULL in a task column
  Working,        \* working stages, numbered as in their codes: 8 is S8
  SX, SL,         \* paused, closed without launch
  NoStage,        \* no stage
  InitialStages,  \* stages an opportunity is created or imported with
  MaxVersion      \* bound: the model follows an opportunity up to this version

ASSUME TasksAssumption == Tasks \subseteq Nat /\ NoTask \notin Tasks
ASSUME StagesAssumption ==
  /\ Working \subseteq 0 .. 10
  /\ SX \notin 0 .. 10 /\ SL \notin 0 .. 10 /\ SX # SL
  /\ NoStage \notin (0 .. 10) \cup {SX, SL}
  /\ InitialStages \subseteq Working \cup {SX, SL}
ASSUME MaxVersionAssumption == MaxVersion \in Nat \ {0}

VARIABLES
  \* the opportunity row and its newest stage_history rows
  stage,       \* stage_code
  status,      \* status
  version,     \* version
  nextTask,    \* next_task_id
  lastMove,    \* from_stage and to_stage of the newest stage_history row
  pausedFrom,  \* from_stage of the newest stage_history row to SX
  \* its tasks and its placement
  task,        \* the status of each task row
  live,        \* the placement is active, launched, checked and healthy
  alertTask,   \* the technical task of the open alert, if an alert is open
  \* its SLA incidents, named by the version whose activity they watch
  incident,    \* status of each incident
  slaTask,     \* the sla_reaction task of each incident
  escalated,   \* incidents with escalated_at
  stale,       \* the stage's threshold has passed since the last activity
  overdue,     \* incidents whose owner was notified escalationAfterDays ago
  \* requests
  pc,          \* where each request is
  subject,     \* the task a request is about
  target,      \* toStageCode of a transition
  seen,        \* what a request has read of the opportunity
  fresh,       \* the tasks a request has read as OPEN and nobody has written since
  freshRow,    \* the transitions whose snapshot has the current opportunity row
  \* SLA monitors
  mpc,         \* where each monitor is
  watched      \* the incident (version) a monitor is about to act on

row == <<stage, status, version, nextTask, lastMove, pausedFrom>>
placement == <<live, alertTask>>
incidents == <<incident, slaTask, escalated, overdue>>
request == <<pc, subject, target, seen, fresh, freshRow>>
monitor == <<mpc, watched>>
vars == <<row, task, placement, incidents, stale, request, monitor>>

-------------------------------------------------------------------------------
(* Data *)

Stages == Working \cup {SX, SL}
Statuses == {"ACTIVE", "WAITING", "PAUSED", "CLOSED"}
Versions == 1 .. MaxVersion
Seen == [version : Versions, stage : Stages, next : Tasks \cup {NoTask},
         writes : SUBSET Tasks]

OpportunityTypeOK ==
  /\ stage \in Stages
  /\ status \in Statuses
  /\ version \in Versions
  /\ nextTask \in Tasks \cup {NoTask}
  /\ lastMove \in [from : Stages \cup {NoStage}, to : Stages]
  /\ pausedFrom \in Stages \cup {NoStage}
  /\ task \in [Tasks -> {"absent", "OPEN", "COMPLETED", "CANCELLED"}]
  /\ live \in BOOLEAN
  /\ alertTask \in Tasks \cup {NoTask}

IncidentTypeOK ==
  /\ incident \in [Versions -> {"none", "open", "resolved"}]
  /\ slaTask \in [Versions -> Tasks \cup {NoTask}]
  /\ escalated \in SUBSET Versions
  /\ stale \in BOOLEAN
  /\ overdue \in SUBSET Versions

RequestTypeOK ==
  /\ pc \in [Users -> {"idle", "reading", "completing", "moving"}]
  /\ subject \in [Users -> Tasks \cup {NoTask}]
  /\ target \in [Users -> Stages \cup {NoStage}]
  /\ seen \in [Users -> Seen]
  /\ fresh \in [Users -> SUBSET Tasks]
  /\ freshRow \in SUBSET Users

MonitorTypeOK ==
  /\ mpc \in [Monitors -> {"idle", "open", "opening", "escalate", "escalating", "resolve"}]
  /\ watched \in [Monitors -> Versions]

TypeOK == OpportunityTypeOK /\ IncidentTypeOK /\ RequestTypeOK /\ MonitorTypeOK

OpenTasks == {t \in Tasks : task[t] = "OPEN"}
OpenIncidents == {v \in Versions : incident[v] = "open"}

\* What an idle request has read.
Unread == [version |-> 1, stage |-> SL, next |-> NoTask, writes |-> {}]

\* randomUUID: the next row takes the smallest id no row has.
IsNew(t) == task[t] = "absent" /\ \A u \in Tasks : u < t => task[u] # "absent"

StatusFor(s) == IF s = SX THEN "PAUSED" ELSE IF s = SL THEN "CLOSED" ELSE "ACTIVE"

\* Mutant: a pause without history resumes to whatever the query returned.
AllowedUnknown(from, to) ==
  \/ from \in Working /\ to = SX
  \/ from \in Working /\ to \in Working /\ to = from + 1
  \/ from \in Working /\ from <= 8 /\ to = SL
  \/ from = SX /\ to \in {pausedFrom, SL}

\* assertOpportunityTransitionAllowed
Allowed(from, to) ==
  \/ from \in Working /\ to = SX
  \/ from \in Working /\ to \in Working /\ to = from + 1
  \/ from \in Working /\ from <= 8 /\ to = SL
  \/ from = SX /\ to \in {pausedFrom, SL} \ {NoStage}

\* assertOpportunityStageReady, for the facts that can stop being true; stage data is
\* in the command, and contacts and interactions are not taken back here.
Ready(to) ==
  /\ to \in {2, 3} => nextTask # NoTask
  /\ to = 9 => live

Init ==
  /\ stage \in InitialStages
  /\ status = StatusFor(stage)
  /\ version = 1
  /\ nextTask \in {NoTask} \cup {t \in Tasks : \A u \in Tasks : t <= u}
  /\ lastMove = [from |-> NoStage, to |-> stage]
  /\ pausedFrom = NoStage
  /\ task = [t \in Tasks |-> IF t = nextTask THEN "OPEN" ELSE "absent"]
  /\ live \in BOOLEAN
  /\ alertTask = NoTask
  /\ incident = [v \in Versions |-> "none"]
  /\ slaTask = [v \in Versions |-> NoTask]
  /\ escalated = {}
  /\ stale = FALSE
  /\ overdue = {}
  /\ pc = [u \in Users |-> "idle"]
  /\ subject = [u \in Users |-> NoTask]
  /\ target = [u \in Users |-> NoStage]
  /\ seen = [u \in Users |-> Unread]
  /\ fresh = [u \in Users |-> {}]
  /\ freshRow = {}
  /\ mpc = [m \in Monitors |-> "idle"]
  /\ watched = [m \in Monitors |-> 1]

-------------------------------------------------------------------------------
(* What a step does to the requests that have read what it writes *)

\* The rows of the tasks in S are written.
Touched(S) == [u \in Users |-> fresh[u] \ S]

\* The request is over, and what it has read forgotten.
Finish(u) ==
  /\ pc' = [pc EXCEPT ![u] = "idle"]
  /\ subject' = [subject EXCEPT ![u] = NoTask]
  /\ target' = [target EXCEPT ![u] = NoStage]
  /\ seen' = [seen EXCEPT ![u] = Unread]

\* An error, a conflict (409), a serialization failure or a lost connection: rollback.
Abort(u) ==
  /\ pc[u] # "idle"
  /\ Finish(u)
  /\ fresh' = [fresh EXCEPT ![u] = {}]
  /\ freshRow' = freshRow \ {u}
  /\ UNCHANGED <<row, task, placement, incidents, stale, monitor>>

\* What every operation that counts as activity does: it writes an interaction or
\* a stage_history row and increments the version, and no other operation does
\* either.  So the version stands for the activity marker of the SLA monitor.
Activity ==
  /\ version < MaxVersion
  /\ version' = version + 1
  /\ stale' = FALSE
  /\ freshRow' = {}

-------------------------------------------------------------------------------
(* Rescheduling and completing a task.  Both read the task; getTask, in several *)
(* SELECTs with a snapshot each, goes on to read its opportunity.               *)

ReadTask(u, t) ==
  /\ pc[u] = "idle"
  /\ task[t] = "OPEN"
  /\ pc' = [pc EXCEPT ![u] = "reading"]
  /\ subject' = [subject EXCEPT ![u] = t]
  /\ fresh' = [fresh EXCEPT ![u] = {t}]
  /\ UNCHANGED <<row, task, placement, incidents, stale, target, seen, freshRow, monitor>>

\* The deadline moves if the task's version is still the one read.
Reschedule(u) ==
  /\ pc[u] = "reading"
  /\ subject[u] \in fresh[u]
  /\ Finish(u)
  /\ fresh' = [Touched({subject[u]}) EXCEPT ![u] = {}]
  /\ UNCHANGED <<row, task, placement, incidents, stale, freshRow, monitor>>

ReadOpportunity(u) ==
  /\ pc[u] = "reading"
  /\ pc' = [pc EXCEPT ![u] = "completing"]
  /\ seen' = [seen EXCEPT ![u] = [version |-> version, stage |-> stage,
                                  next |-> NoTask, writes |-> {}]]
  /\ UNCHANGED <<row, task, placement, incidents, stale, subject, target, fresh, freshRow,
                 monitor>>

\* Mutant: updateOpportunityIfVersion without the version in its WHERE clause.
UnchangedTask(u) == pc[u] = "completing" /\ subject[u] \in fresh[u]

\* Mutant: completeTaskIfVersion without the version in its WHERE clause.
UnchangedRow(u) == pc[u] = "completing" /\ seen[u].version = version

\* completeTaskIfVersion and updateOpportunityIfVersion find their rows.
UnchangedSince(u) ==
  /\ pc[u] = "completing"
  /\ subject[u] \in fresh[u]
  /\ seen[u].version = version

\* Mutant: the patch leaves next_task_id alone.
FollowUpKeepsNext(u, new, next) ==
  /\ UnchangedSince(u)
  /\ IsNew(new)
  /\ Activity
  /\ task' = [task EXCEPT ![subject[u]] = "COMPLETED", ![new] = "OPEN"]
  /\ status' = next
  /\ Finish(u)
  /\ fresh' = [Touched({subject[u]}) EXCEPT ![u] = {}]
  /\ UNCHANGED <<stage, nextTask, lastMove, pausedFrom, placement, incidents, monitor>>

\* next.mode is "task" (ACTIVE) or "waiting" (WAITING): the new task is the next one,
\* the stage stays what it is.
FollowUp(u, new, next) ==
  /\ UnchangedSince(u)
  /\ IsNew(new)
  /\ Activity
  /\ task' = [task EXCEPT ![subject[u]] = "COMPLETED", ![new] = "OPEN"]
  /\ nextTask' = new
  /\ status' = next
  /\ Finish(u)
  /\ fresh' = [Touched({subject[u]}) EXCEPT ![u] = {}]
  /\ UNCHANGED <<stage, lastMove, pausedFrom, placement, incidents, monitor>>

\* next.mode is "close".  The other open tasks of the opportunity stay open.
Close(u) ==
  /\ UnchangedSince(u)
  /\ Activity
  /\ task' = [task EXCEPT ![subject[u]] = "COMPLETED"]
  /\ nextTask' = NoTask
  /\ status' = "CLOSED"
  /\ stage' = SL
  /\ lastMove' = IF seen[u].stage = SL THEN lastMove
                 ELSE [from |-> seen[u].stage, to |-> SL]
  /\ Finish(u)
  /\ fresh' = [Touched({subject[u]}) EXCEPT ![u] = {}]
  /\ UNCHANGED <<pausedFrom, placement, incidents, monitor>>

-------------------------------------------------------------------------------
(* A stage transition.  The snapshot is that of the transaction's first        *)
(* statement; the advisory lock comes later and only delays its failure.       *)

\* Mutant: SL cancels the next task only.
RewrittenNext(to) == IF to \in {SL, SX} THEN OpenTasks \cap {nextTask} ELSE {}

\* The task rows a transition writes: all it sees open are cancelled by SL, the next
\* one becomes the review of the pause by SX.
Rewritten(to) ==
  CASE to = SL -> OpenTasks
    [] to = SX -> OpenTasks \cap {nextTask}
    [] OTHER -> {}

ReadSnapshot(u, to) ==
  /\ pc[u] = "idle"
  /\ Allowed(stage, to)
  /\ Ready(to)
  /\ pc' = [pc EXCEPT ![u] = "moving"]
  /\ target' = [target EXCEPT ![u] = to]
  /\ seen' = [seen EXCEPT ![u] = [version |-> version, stage |-> stage,
                                  next |-> nextTask, writes |-> Rewritten(to)]]
  /\ fresh' = [fresh EXCEPT ![u] = Rewritten(to)]
  /\ freshRow' = freshRow \cup {u}
  /\ UNCHANGED <<row, task, placement, incidents, stale, subject, monitor>>

\* Mutant: READ COMMITTED, and no version in the WHERE clause.
ReadCommitted(u) == seen[u].writes \subseteq OpenTasks

\* SERIALIZABLE: no row the transition writes was written since its snapshot.
Serializable(u) == u \in freshRow /\ seen[u].writes \subseteq fresh[u]

Transition(u) ==
  LET to == target[u]
  IN  /\ pc[u] = "moving"
      /\ Serializable(u)
      /\ Activity
      /\ task' = [t \in Tasks |-> IF to = SL /\ t \in seen[u].writes THEN "CANCELLED"
                                  ELSE task[t]]
      /\ stage' = to
      /\ status' = StatusFor(to)
      /\ nextTask' = IF to = SL THEN NoTask ELSE seen[u].next
      /\ lastMove' = [from |-> seen[u].stage, to |-> to]
      /\ pausedFrom' = IF to = SX THEN seen[u].stage ELSE pausedFrom
      /\ Finish(u)
      /\ fresh' = [Touched(seen[u].writes) EXCEPT ![u] = {}]
      /\ UNCHANGED <<placement, incidents, monitor>>

-------------------------------------------------------------------------------
(* The placement's L0 checks (postgres-placement.service.ts).  Every one of     *)
(* them writes technical_risk into the opportunity row.                         *)

\* A check fails, or the placement ends.
LoseHealth ==
  /\ live
  /\ live' = FALSE
  /\ freshRow' = {}
  /\ UNCHANGED <<row, task, alertTask, incidents, stale, pc, subject, target, seen, fresh,
                 monitor>>

\* A second check in a row fails: an alert with its technical task.
OpenAlert(new) ==
  /\ ~live
  /\ alertTask = NoTask
  /\ IsNew(new)
  /\ task' = [task EXCEPT ![new] = "OPEN"]
  /\ alertTask' = new
  /\ freshRow' = {}
  /\ UNCHANGED <<row, live, incidents, stale, pc, subject, target, seen, fresh, monitor>>

\* A check succeeds, or the placement is ended or archived: the alert is closed and
\* its task completed if still open.
CloseAlert(healthy) ==
  LET done == {alertTask} \cap OpenTasks
  IN  /\ ~live
      /\ healthy \/ alertTask # NoTask
      /\ live' = healthy
      /\ alertTask' = NoTask
      /\ task' = [t \in Tasks |-> IF t \in done THEN "COMPLETED" ELSE task[t]]
      /\ freshRow' = {}
      /\ fresh' = Touched(done)
      /\ UNCHANGED <<row, incidents, stale, pc, subject, target, seen, monitor>>

-------------------------------------------------------------------------------
(* The SLA monitor *)

\* Days pass.  A transaction (at most seconds) does not see a threshold pass.
Passing == \A m \in Monitors : mpc[m] \notin {"opening", "escalating"}

ThresholdPasses ==
  /\ Passing
  /\ ~stale
  /\ stale' = TRUE
  /\ UNCHANGED <<row, task, placement, incidents, request, monitor>>

EscalationFallsDue(v) ==
  /\ Passing
  /\ incident[v] = "open" /\ v \notin overdue
  /\ overdue' = overdue \cup {v}
  /\ UNCHANGED <<row, task, placement, incident, slaTask, escalated, stale, request, monitor>>

Go(m, step, v) ==
  /\ mpc' = [mpc EXCEPT ![m] = step]
  /\ watched' = [watched EXCEPT ![m] = v]
  /\ UNCHANGED <<row, placement, request, stale>>

Done(m) ==
  /\ mpc' = [mpc EXCEPT ![m] = "idle"]
  /\ watched' = [watched EXCEPT ![m] = 1]

\* evaluateOpportunitySla: is an incident open that no longer describes the opportunity?
Obsolete(v) == status # "ACTIVE" \/ v # version

\* Mutant: listCandidates never looks at closed opportunities.
EvaluateUnclosed(m) ==
  /\ mpc[m] = "idle"
  /\ status # "CLOSED"
  /\ UNCHANGED <<task, incidents>>
  /\ \/ /\ OpenIncidents = {}
        /\ status = "ACTIVE" /\ stage \in Working /\ stale
        /\ Go(m, "open", version)
     \/ \E v \in OpenIncidents :
        /\ ~Obsolete(v) /\ v \notin escalated /\ v \in overdue
        /\ Go(m, "escalate", v)
     \/ \E v \in OpenIncidents :
        /\ Obsolete(v)
        /\ Go(m, "resolve", v)

\* listCandidates and the domain's evaluation.  SX and SL have no threshold.
Evaluate(m) ==
  /\ mpc[m] = "idle"
  /\ UNCHANGED <<task, incidents>>
  /\ \/ /\ OpenIncidents = {}
        /\ status = "ACTIVE" /\ stage \in Working /\ stale
        /\ Go(m, "open", version)
     \/ \E v \in OpenIncidents :
        /\ ~Obsolete(v) /\ v \notin escalated /\ v \in overdue
        /\ Go(m, "escalate", v)
     \/ \E v \in OpenIncidents :
        /\ Obsolete(v)
        /\ Go(m, "resolve", v)

\* Mutant: openIncident trusts the candidate.
RecheckNothing(m) ==
  LET v == watched[m]
  IN  /\ UNCHANGED <<task, incidents>>
      /\ \/ /\ mpc[m] = "open"
            /\ Go(m, "opening", v)
         \/ /\ mpc[m] = "escalate"
            /\ incident[v] = "open" /\ v \notin escalated
            /\ Go(m, "escalating", v)

\* openIncident and escalateIncident read again, in their transaction.
Recheck(m) ==
  LET v == watched[m]
  IN  /\ ~Obsolete(v)
      /\ UNCHANGED <<task, incidents>>
      /\ \/ /\ mpc[m] = "open"
            /\ OpenIncidents = {}
            /\ Go(m, "opening", v)
         \/ /\ mpc[m] = "escalate"
            /\ incident[v] = "open" /\ v \notin escalated
            /\ Go(m, "escalating", v)

\* The incident is unique per opportunity and activity marker.
OpenIncident(m, new) ==
  LET v == watched[m]
  IN  /\ mpc[m] = "opening"
      /\ incident[v] = "none"
      /\ IsNew(new)
      /\ incident' = [incident EXCEPT ![v] = "open"]
      /\ slaTask' = [slaTask EXCEPT ![v] = new]
      /\ task' = [task EXCEPT ![new] = "OPEN"]
      /\ UNCHANGED <<escalated, overdue>>
      /\ Done(m)
      /\ UNCHANGED <<row, placement, stale, request>>

EscalateIncident(m) ==
  LET v == watched[m]
  IN  /\ mpc[m] = "escalating"
      /\ incident[v] = "open" /\ v \notin escalated
      /\ escalated' = escalated \cup {v}
      /\ Done(m)
      /\ UNCHANGED <<row, task, placement, incident, slaTask, overdue, stale, request>>

\* Mutant: the task is forgotten.
ResolveKeepingTask(m) ==
  LET v == watched[m]
  IN  /\ mpc[m] = "resolve"
      /\ incident[v] = "open"
      /\ incident' = [incident EXCEPT ![v] = "resolved"]
      /\ Done(m)
      /\ UNCHANGED <<row, task, placement, slaTask, escalated, overdue, stale, request>>

ResolveIncident(m) ==
  LET v == watched[m]
      cancelled == {slaTask[v]} \cap OpenTasks
  IN  /\ mpc[m] = "resolve"
      /\ incident[v] = "open"
      /\ incident' = [incident EXCEPT ![v] = "resolved"]
      /\ task' = [t \in Tasks |-> IF t \in cancelled THEN "CANCELLED" ELSE task[t]]
      /\ fresh' = Touched(cancelled)
      /\ Done(m)
      /\ UNCHANGED <<row, placement, slaTask, escalated, overdue, stale, pc, subject, target,
                     seen, freshRow>>

\* The operation returns false or fails (a repeated marker, a crash): rollback, and
\* the next poll evaluates the opportunity anew.
GiveUp(m) ==
  /\ mpc[m] # "idle"
  /\ Done(m)
  /\ UNCHANGED <<row, task, placement, incidents, stale, request>>

-------------------------------------------------------------------------------

Request(u) ==
  \/ \E t \in Tasks : ReadTask(u, t)
  \/ Reschedule(u)
  \/ ReadOpportunity(u)
  \/ \E t \in Tasks, s \in {"ACTIVE", "WAITING"} : FollowUp(u, t, s)
  \/ Close(u)
  \/ \E to \in Stages \cup {NoStage} : ReadSnapshot(u, to)
  \/ Transition(u)
  \/ Abort(u)

PlacementCheck ==
  \/ LoseHealth
  \/ \E t \in Tasks : OpenAlert(t)
  \/ \E healthy \in BOOLEAN : CloseAlert(healthy)

Monitor(m) ==
  \/ Evaluate(m)
  \/ Recheck(m)
  \/ \E t \in Tasks : OpenIncident(m, t)
  \/ EscalateIncident(m)
  \/ ResolveIncident(m)
  \/ GiveUp(m)

Next ==
  \/ \E u \in Users : Request(u)
  \/ PlacementCheck
  \/ \E m \in Monitors : Monitor(m)
  \/ ThresholdPasses
  \/ \E v \in Versions : EscalationFallsDue(v)

Spec == Init /\ [][Next]_vars

\* The worker polls for ever, and not every poll that resolves an incident fails.
\* Nothing is assumed of the users.
Fairness ==
  /\ \A m \in Monitors : WF_vars(Monitor(m))
  /\ SF_vars(\E m \in Monitors : ResolveIncident(m))

FairSpec == Spec /\ Fairness

-------------------------------------------------------------------------------
(* Properties *)

\* The next action of an opportunity is a task that is still to be done, whoever
\* completed, cancelled or created tasks in the meantime.
NextTaskIsOpen == nextTask # NoTask => task[nextTask] = "OPEN"

\* Concurrent monitors and reacting owners never leave an opportunity with two open
\* incidents.
OneOpenIncident == \A v, w \in OpenIncidents : v = w

\* A task that was done or cancelled stays so: of a completion, a closing transition,
\* a resolved incident and a closed alert, the first one decides.
TaskIsFinal ==
  [][\A t \in Tasks : task[t] \in {"COMPLETED", "CANCELLED"} => task'[t] = task[t]]_vars

\* Stage history is a chain: every row leaves from the stage the opportunity had when
\* the row was committed and leads to the one it then has.
HistoryIsAChain ==
  [][/\ lastMove' # lastMove => lastMove' = [from |-> stage, to |-> stage']
     /\ stage' # stage => lastMove' # lastMove]_vars

\* Short of closing, the funnel moves one stage ahead, into a pause, or from the pause
\* to where it began - when the transition commits, not only in what it had read.
FunnelOrder ==
  [][stage' \notin {stage, SL} =>
        \/ stage \in Working /\ (stage' = SX \/ stage' = stage + 1)
        \/ stage = SX /\ stage' = lastMove.from]_vars

\* The funnel reaches S9 (a launch in every report) only while the placement is
\* healthy, although the check and the transition are different transactions.
LaunchedHealthy == [][stage # 9 /\ stage' = 9 => live]_vars

\* A resolved incident is history: it is not opened, escalated or resolved again, and
\* its task is never left for the owner to do.
ResolvedIsFinal ==
  [][\A v \in Versions : incident'[v] = "resolved" =>
        /\ slaTask'[v] # NoTask => task'[slaTask'[v]] # "OPEN"
        /\ incident[v] = "resolved" => (v \in escalated' <=> v \in escalated)]_vars

\* An incident that no longer describes its opportunity - the owner acted, paused,
\* waits or closed - is resolved in the end.
IncidentSettles ==
  \A v \in Versions :
    incident[v] = "open" /\ (status # "ACTIVE" \/ version # v) ~> incident[v] = "resolved"

\* opportunity-stage-transitions.md: no transition leaves SL, a new opportunity is
\* created instead.  So a closed opportunity stays closed.
ClosedIsFinal == [][stage = SL => stage' = SL /\ status' = status]_vars

\* In memory what is open is in the list, and a pause that is over has no resume stage.
Twin ==
  INSTANCE OpportunityTwin WITH
    open <- OpenTasks, technical <- alertTask,
    resume <- IF stage = SX THEN pausedFrom ELSE NoStage

\* However requests, transitions and checks overlap, the opportunity over PostgreSQL goes
\* through states it has in memory, where they run one after the other.
ImplementsTwin == Twin!Spec

\* Requests are interchangeable: TLC needs one of each set of them.
Requests == Permutations(Users)
==============================================================================
