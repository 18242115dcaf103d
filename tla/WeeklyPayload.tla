----------------------------- MODULE WeeklyPayload -----------------------------
(***************************************************************************)
(* What a weekly report says of the team's funnel and what of it reaches   *)
(* the digest (application/weekly-report.ts, reporting/report-digest.ts,   *)
(* reporting/report-digest-publisher.ts), as of any moment in a history    *)
(* of opportunities, their stages, next actions and SLA incidents.         *)
(*                                                                         *)
(* Time is in days.  Every list that is cut is cut to the first of an      *)
(* order, so a list is the set of what is left of it.  An opportunity has  *)
(* one action at a time, or none if it was imported without; the task of   *)
(* an SLA incident is left out of the overdue ones, and so are names,      *)
(* labels, the medians, and what the report calls unavailable.             *)
(***************************************************************************)
EXTENDS Integers, FiniteSets

CONSTANTS
  Opportunities,   \* their ids, in order
  Stages,          \* the stages whose entries the report counts
  None,
  Week,            \* days of a week, 7 in the code
  Weeks,           \* that a report compares its own with: 4 in the code
  Stall, HighStall, HighOverdue,   \* days: 7, 14 and 3 in the code
  Top,             \* length of the lists: 10 in the code
  DigestSize,      \* 7 in the code
  MaxDay           \* bound: days of the history

PayloadAssumption ==
  /\ Opportunities \subseteq Nat /\ IsFiniteSet(Opportunities)
  /\ {Week, Top} \subseteq Nat \ {0}
  /\ {Weeks, Stall, HighStall, HighOverdue, MaxDay} \subseteq Nat
  /\ DigestSize \in Nat /\ DigestSize >= 3 /\ None \notin Nat

VARIABLES
  today,
  created,      \* of each opportunity: the day, or None
  closed,       \* the closed ones
  due,          \* when the open action of each is due, or None
  history,      \* stage_history
  marker,       \* activity_marker_at of the open incident of each, or None
  escalated     \* its escalated_at, or None

vars == <<today, created, closed, due, history, marker, escalated>>

Day == 0 .. MaxDay

Known == {o \in Opportunities : created[o] # None}

TypeOK ==
  /\ today \in Day
  /\ created \in [Opportunities -> Day \cup {None}]
  /\ closed \subseteq Known
  /\ due \in [Opportunities -> Day \cup {None, MaxDay + 1}]
  /\ history \subseteq [opportunity : Opportunities, stage : Stages, day : Day]
  /\ marker \in [Opportunities -> Day \cup {None}] /\ escalated \in [Opportunities -> Day \cup {None}]

Init ==
  /\ today = 0 /\ closed = {} /\ history = {}
  /\ created = [o \in Opportunities |-> None] /\ due = created
  /\ marker = created /\ escalated = created

-------------------------------------------------------------------------------
(* What happens, see OpportunityLifecycle and OrganizationImport *)

Working == Known \ closed

\* The row of an import: with a next action, due whenever the file says, or without, at any
\* stage, SL among them.
Discover(o, next, lost) ==
  /\ o \notin Known
  /\ created' = [created EXCEPT ![o] = today] /\ due' = [due EXCEPT ![o] = next]
  /\ closed' = IF lost THEN closed \cup {o} ELSE closed
  /\ UNCHANGED <<today, history, marker, escalated>>

\* A transition leaves the next action as it is.
Move(o, stage) ==
  /\ o \in Working
  /\ \A h \in history : h.opportunity = o => h.stage # stage
  /\ history' = history \cup {[opportunity |-> o, stage |-> stage, day |-> today]}
  /\ UNCHANGED <<today, created, closed, due, marker, escalated>>

\* The action, or the task of the incident, is completed with a next one: a closed
\* opportunity is ACTIVE again.
FollowUp(o) ==
  /\ due[o] # None \/ escalated[o] # None
  /\ due' = [due EXCEPT ![o] = today + 1] /\ closed' = closed \ {o}
  /\ UNCHANGED <<today, created, history, marker, escalated>>

Close(o) ==
  /\ o \in Working
  /\ closed' = closed \cup {o} /\ due' = [due EXCEPT ![o] = None]
  /\ UNCHANGED <<today, created, history, marker, escalated>>

\* The last activity: the last stage that was entered, the day the opportunity is known, or an
\* interaction after them.
Escalate(o, activity) ==
  /\ o \in Working /\ escalated[o] = None
  /\ created[o] <= activity /\ activity < today
  /\ \A h \in history : h.opportunity = o => h.day <= activity
  /\ marker' = [marker EXCEPT ![o] = activity] /\ escalated' = [escalated EXCEPT ![o] = today]
  /\ UNCHANGED <<today, created, closed, due, history>>

\* Some time after an activity, or the end, the monitor closes the incident.
Resolve(o) ==
  /\ escalated[o] # None
  /\ marker' = [marker EXCEPT ![o] = None] /\ escalated' = [escalated EXCEPT ![o] = None]
  /\ UNCHANGED <<today, created, closed, due, history>>

Tomorrow ==
  /\ today < MaxDay
  /\ today' = today + 1
  /\ UNCHANGED <<created, closed, due, history, marker, escalated>>

Next ==
  \/ \E o \in Opportunities :
       \/ \E next \in Day \cup {None}, lost \in BOOLEAN : Discover(o, next, lost)
       \/ FollowUp(o) \/ Close(o) \/ Resolve(o)
       \/ \E stage \in Stages : Move(o, stage)
       \/ \E activity \in Day : Escalate(o, activity)
  \/ Tomorrow

Spec == Init /\ [][Next]_vars

-------------------------------------------------------------------------------
(* loadWeeklySource *)

Loaded(asOf) == {o \in Known : created[o] <= asOf}

HistoryStart(start) == start - Weeks * Week

StageEvents(start, asOf) == {h \in history : HistoryStart(start) <= h.day /\ h.day <= asOf}

Incidents(asOf) == {o \in Known : escalated[o] # None /\ escalated[o] <= asOf}

\* The last stage entered by then, or the day it was created.
Entered(o, asOf) ==
  LET days == {created[o]} \cup {h.day : h \in {x \in history : x.opportunity = o /\ x.day <= asOf}}
  IN  CHOOSE d \in days : \A e \in days : e <= d

-------------------------------------------------------------------------------
(* buildWeeklyReportPayload *)

Active(asOf) == Loaded(asOf) \ closed

\* compareExceptions, and the orders of the lists it is made of.
SeverityIndex(e) == IF e.severity = "high" THEN 0 ELSE 1
CodeIndex(e) == CASE e.code = "missing-next-action" -> 0 [] e.code = "overdue-task" -> 1
                  [] e.code = "sla-escalation" -> 2 [] OTHER -> 3

Before(e, f) ==
  \/ SeverityIndex(e) < SeverityIndex(f)
  \/ SeverityIndex(e) = SeverityIndex(f) /\ e.age > f.age
  \/ SeverityIndex(e) = SeverityIndex(f) /\ e.age = f.age /\ e.opportunity < f.opportunity
  \/ /\ SeverityIndex(e) = SeverityIndex(f) /\ e.age = f.age /\ e.opportunity = f.opportunity
     /\ CodeIndex(e) < CodeIndex(f)

First(n, exceptions) == {e \in exceptions : Cardinality({f \in exceptions : Before(f, e)}) < n}

Trouble(code, o, age, high) ==
  [code |-> code, opportunity |-> o, age |-> age, severity |-> IF high THEN "high" ELSE "medium"]

SlaEscalations(asOf) ==
  {Trouble("sla-escalation", o, asOf - marker[o], TRUE) : o \in Incidents(asOf)}

StallsOf(S, asOf) ==
  {Trouble("stage-stall", o, asOf - Entered(o, asOf), asOf - Entered(o, asOf) >= HighStall) :
     o \in {x \in S : asOf - Entered(x, asOf) >= Stall}}

\* Mutant: the escalated ones are left out after the list is cut.
CutStageStalls(asOf) ==
  {e \in First(Top, StallsOf(Active(asOf), asOf)) : e.opportunity \notin Incidents(asOf)}

StageStalls(asOf) == First(Top, StallsOf(Active(asOf) \ Incidents(asOf), asOf))

TopStalls(asOf) == First(Top, SlaEscalations(asOf) \cup StageStalls(asOf))

OverdueTasks(asOf) ==
  {Trouble("overdue-task", o, asOf - due[o], asOf - due[o] >= HighOverdue) :
     o \in {x \in Loaded(asOf) : due[x] # None /\ due[x] < asOf}}

MissingNextAction(asOf) ==
  {Trouble("missing-next-action", o, asOf - Entered(o, asOf), TRUE) :
     o \in {x \in Active(asOf) : due[x] = None}}

\* All there is, before anything is cut.
Troubles(asOf) ==
  OverdueTasks(asOf) \cup MissingNextAction(asOf) \cup SlaEscalations(asOf)
    \cup StallsOf(Active(asOf) \ Incidents(asOf), asOf)

Exceptions(asOf) ==
  First(Top, OverdueTasks(asOf) \cup MissingNextAction(asOf) \cup TopStalls(asOf))

Decisions(asOf) ==
  (IF OverdueTasks(asOf) # {} THEN {"resolve-overdue"} ELSE {})
    \cup (IF MissingNextAction(asOf) # {} THEN {"assign-next-action"} ELSE {})
    \cup (IF TopStalls(asOf) # {} THEN {"review-stalls"} ELSE {})

\* metricFromStageEvents: opportunities that entered the stage from one day to another.
Entries(events, stage, from, to) ==
  Cardinality({h.opportunity : h \in {x \in events : x.stage = stage /\ from <= x.day /\ x.day <= to}})

\* metricWithHistory: the value of a week k weeks before the one that begins at start.
WeekValue(start, asOf, stage, k) ==
  Entries(StageEvents(start, asOf), stage, start - k * Week, start - (k - 1) * Week - 1)

-------------------------------------------------------------------------------
(* buildWeeklyReportDigestItems: decisions first.  Only the exceptions that have   *)
(* room follow.                                                                    *)

DigestRisks(asOf) == First(DigestSize - Cardinality(Decisions(asOf)), Exceptions(asOf))

\* digestItems of the publisher throws at an age that is not a non-negative integer, and
\* the event is then tried for ever.
Accepted(risk) == risk.age \in Nat /\ risk.severity \in {"high", "medium"}

-------------------------------------------------------------------------------
(* Properties.  A report may be of any moment that has passed. *)

Moments == 0 .. today

\* Although lists are cut and put together and cut again, the report's exceptions are the
\* worst of all there are: nothing that is left out comes before one that is told.
WorstAreTold == \A asOf \in Moments : Exceptions(asOf) = First(Top, Troubles(asOf))

\* The weeks a report compares its own with are whole, as far as the database knows
\* them, and the same in every report that reaches them.
WeeksAreWhole ==
  \A asOf \in Moments, stage \in Stages, k \in 0 .. Weeks :
    \A start \in 0 .. asOf :
      WeekValue(start, asOf, stage, k) =
        Entries({h \in history : h.day <= asOf}, stage, start - k * Week, start - (k - 1) * Week - 1)

\* What a manager is asked to decide about each kind of trouble.
DecisionOn(code) ==
  CASE code = "overdue-task" -> "resolve-overdue"
    [] code = "missing-next-action" -> "assign-next-action"
    [] OTHER -> "review-stalls"

\* Every kind of trouble there is, be it all cut from the list of exceptions, is a decision of
\* the digest; high risks that are not in the digest leave it no room for others; and no digest
\* is refused by the publisher.
DigestTellsTrouble ==
  \A asOf \in Moments :
    LET decisions == Decisions(asOf)
        told == Exceptions(asOf)
        risks == DigestRisks(asOf)
    IN  /\ \A e \in Troubles(asOf) : DecisionOn(e.code) \in decisions
        /\ \A e \in told \ risks, f \in risks : e.severity = "high" => f.severity = "high"
        /\ \A e \in told : Accepted(e)
===============================================================================
