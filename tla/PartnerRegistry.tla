---------------------------- MODULE PartnerRegistry ----------------------------
(***************************************************************************)
(* The registry of organizations and its export                            *)
(* (persistence/postgres-partner.service.ts,                               *)
(* application/partner-export.ts), read while others work.                 *)
(*                                                                         *)
(* The listing is one findMany with relations: Prisma reads organizations, *)
(* opportunities, their next actions, placements and their alerts by       *)
(* queries of their own, without a transaction.  What is read comes from   *)
(* different moments; a row is put together from it.  RowNow is the row    *)
(* of one moment.                                                          *)
(*                                                                         *)
(* An organization is listed by its stage, integration status and next     *)
(* action; names, domains, contacts and the team of the reader are left    *)
(* out, and so is the search.                                              *)
(***************************************************************************)
EXTENDS Integers, FiniteSets

CONSTANTS
  Opportunities,    \* ids
  OrganizationOf,   \* of each opportunity
  ScoreOf,          \* score of each opportunity: no two are alike
  Changing,         \* bound: opportunities that others work on meanwhile
  Placed,           \* the organizations that have a placement
  None,
  PageLimit,        \* PARTNER_PAGE_LIMIT, 200 in the code
  MaxTask           \* bound: actions of an opportunity

Organizations == {OrganizationOf[o] : o \in Opportunities}

RegistryAssumption ==
  /\ IsFiniteSet(Opportunities)
  /\ DOMAIN OrganizationOf = Opportunities /\ ScoreOf \in [Opportunities -> Int]
  /\ \A o, p \in Opportunities : ScoreOf[o] = ScoreOf[p] => o = p
  /\ Placed \subseteq Organizations /\ Changing \subseteq Opportunities
  /\ {PageLimit, MaxTask} \subseteq Nat \ {0}

VARIABLES
  stage,       \* of each opportunity: "S2" or, from S7 on, "S7"
  nextTask,    \* number of the open action of each opportunity
  business, health, alert,   \* of the placement of each organization in Placed
  permitted,   \* the reader may export
  \* a request
  pc,          \* "idle", "reading", "auditing" or "answering"
  query,       \* what it asks for: whether a file, and the integration status, or None
  read,        \* what it has read of each kind, or None
  rows,        \* what it answers, organizations in the order of their scores
  audits,      \* number of rows in audit_log of each export that the request has made
  \* history, since the request began
  changed,     \* organizations that changed
  troubled,    \* organizations that had trouble with their placement
  calm         \* organizations that had none

facts == <<stage, nextTask, business, health, alert>>
request == <<query, read, rows, audits>>
vars == <<facts, permitted, pc, request, changed, troubled, calm>>

NothingRead == [opportunities |-> None, tasks |-> None, placements |-> None, alerts |-> None]

TypeOK ==
  /\ stage \in [Opportunities -> {"S2", "S7"}] /\ nextTask \in [Opportunities -> 1 .. MaxTask]
  /\ business \in [Placed -> {"planned", "active"}]
  /\ health \in [Placed -> {"healthy", "failed"}] /\ alert \in [Placed -> BOOLEAN]
  /\ pc \in {"idle", "reading", "auditing", "answering"}
  /\ DOMAIN read = DOMAIN NothingRead
  /\ changed \cup troubled \cup calm \subseteq Organizations

-------------------------------------------------------------------------------
(* The row of an organization *)

\* Mutant: only an open alert is an issue.
AlertOnly(placements, alerts, org) == org \in Placed /\ alerts[org]

\* A failed or degraded placement, or one with an open alert.
Issue(placements, alerts, org) ==
  org \in Placed /\ (placements[org].health = "failed" \/ alerts[org])

IntegrationStatus(opportunities, placements, alerts, org) ==
  IF Issue(placements, alerts, org) THEN "issue"
  ELSE IF org \in Placed /\ placements[org].business = "active" THEN "active"
  ELSE IF \/ org \in Placed /\ placements[org].business = "planned"
          \/ \E o \in Opportunities : OrganizationOf[o] = org /\ opportunities[o].stage = "S7"
       THEN "planned"
  ELSE "not_started"

\* The opportunity with the highest score.
Primary(org) ==
  CHOOSE o \in Opportunities :
    /\ OrganizationOf[o] = org
    /\ \A p \in Opportunities : OrganizationOf[p] = org => ScoreOf[p] <= ScoreOf[o]

\* mapPartner: the next action is shown if it is still open.
MapPartner(loaded, org) ==
  LET primary == Primary(org) IN
  [organization |-> org,
   score |-> ScoreOf[primary],
   stage |-> loaded.opportunities[primary].stage,
   integration |-> IntegrationStatus(loaded.opportunities, loaded.placements, loaded.alerts, org),
   action |-> IF loaded.tasks[primary] THEN loaded.opportunities[primary].next ELSE None]

OpportunitiesNow == [o \in Opportunities |-> [stage |-> stage[o], next |-> nextTask[o]]]
PlacementsNow == [org \in Placed |-> [business |-> business[org], health |-> health[org]]]

\* What a listing of one moment says.
RowNow(org) ==
  MapPartner([opportunities |-> OpportunitiesNow, tasks |-> [o \in Opportunities |-> TRUE],
              placements |-> PlacementsNow, alerts |-> alert], org)

InTrouble == {org \in Placed : health[org] = "failed" \/ alert[org]}

Init ==
  /\ stage = [o \in Opportunities |-> "S2"] /\ nextTask = [o \in Opportunities |-> 1]
  /\ business = [org \in Placed |-> "planned"]
  /\ health = [org \in Placed |-> "healthy"] /\ alert = [org \in Placed |-> FALSE]
  /\ permitted = TRUE
  /\ pc = "idle" /\ query = None /\ read = NothingRead /\ rows = {} /\ audits = {}
  /\ changed = {} /\ troubled = {} /\ calm = {}

-------------------------------------------------------------------------------
(* What others do, see OpportunityLifecycle and PlacementMonitor *)

\* Every change of an organization, with the history of the request.
Changes(org) ==
  /\ IF pc = "idle" THEN UNCHANGED <<changed, troubled, calm>> ELSE
       /\ changed' = changed \cup {org}
       /\ troubled' = troubled \cup InTrouble'
       /\ calm' = calm \cup (Organizations \ InTrouble')
  /\ UNCHANGED <<permitted, pc, request>>

Transition(o) ==
  /\ stage[o] = "S2" /\ nextTask[o] < MaxTask
  /\ stage' = [stage EXCEPT ![o] = "S7"] /\ nextTask' = [nextTask EXCEPT ![o] = @ + 1]
  /\ UNCHANGED <<business, health, alert>>
  /\ Changes(OrganizationOf[o])

CompleteTask(o) ==
  /\ nextTask[o] < MaxTask
  /\ nextTask' = [nextTask EXCEPT ![o] = @ + 1]
  /\ UNCHANGED <<stage, business, health, alert>>
  /\ Changes(OrganizationOf[o])

\* The second failure opens an alert, a healthy result closes it.
Check(org, healthy) ==
  /\ business[org] = "active"
  /\ health' = [health EXCEPT ![org] = IF healthy THEN "healthy" ELSE "failed"]
  /\ alert' = [alert EXCEPT ![org] = ~healthy /\ health[org] = "failed"]
  /\ UNCHANGED <<stage, nextTask, business>>
  /\ Changes(org)

Launch(org) ==
  /\ business[org] = "planned"
  /\ business' = [business EXCEPT ![org] = "active"]
  /\ UNCHANGED <<stage, nextTask, health, alert>>
  /\ Changes(org)

Revoke ==
  /\ permitted /\ permitted' = FALSE
  /\ UNCHANGED <<facts, pc, request, changed, troubled, calm>>

-------------------------------------------------------------------------------
(* listPartners and exportPartners *)

\* exportActor: the permission is asked for once, before anything is read.
Begin(file, integration) ==
  /\ pc = "idle"
  /\ file => permitted
  /\ pc' = "reading"
  /\ query' = [file |-> file, integration |-> integration]
  /\ changed' = {} /\ troubled' = InTrouble /\ calm' = Organizations \ InTrouble
  /\ UNCHANGED <<facts, permitted, read, rows, audits>>

Reads(kind, what) ==
  /\ pc = "reading" /\ read[kind] = None
  /\ read' = [read EXCEPT ![kind] = what]
  /\ UNCHANGED <<facts, permitted, pc, query, rows, audits, changed, troubled, calm>>

ReadOpportunities == Reads("opportunities", OpportunitiesNow)

\* nextTask of the rows that have been read.
ReadTasks ==
  /\ read.opportunities # None
  /\ Reads("tasks", [o \in Opportunities |-> read.opportunities[o].next = nextTask[o]])

ReadPlacements == Reads("placements", PlacementsNow)

\* alerts WHERE status = 'open'.
ReadAlerts ==
  /\ read.placements # None
  /\ Reads("alerts", alert)

Matching ==
  {row \in {MapPartner(read, org) : org \in Organizations} :
     query.integration # None => row.integration = query.integration}

\* partners.slice: the page is cut, the file is not.
Page(partners) ==
  {row \in partners : Cardinality({other \in partners : other.score > row.score}) < PageLimit}

Load ==
  /\ pc = "reading" /\ \A kind \in DOMAIN read : read[kind] # None
  /\ rows' = IF query.file THEN Matching ELSE Page(Matching)
  /\ pc' = IF query.file THEN "auditing" ELSE "answering"
  /\ read' = NothingRead
  /\ UNCHANGED <<facts, permitted, query, audits, changed, troubled, calm>>

\* Mutant: the file is answered before it is recorded.
AnswerFirst ==
  /\ pc = "auditing" /\ pc' = "answering"
  /\ UNCHANGED <<facts, permitted, request, changed, troubled, calm>>

\* auditLog.create
Audit ==
  /\ pc = "auditing" /\ pc' = "answering"
  /\ audits' = audits \cup {Cardinality(rows)}
  /\ UNCHANGED <<facts, permitted, query, read, rows, changed, troubled, calm>>

\* The answer is given, or a query or the process fails.
Over ==
  /\ pc # "idle" /\ pc' = "idle"
  /\ query' = None /\ read' = NothingRead /\ rows' = {} /\ audits' = {}
  /\ changed' = {} /\ troubled' = {} /\ calm' = {}
  /\ UNCHANGED <<facts, permitted>>

Next ==
  \/ \E o \in Changing : Transition(o) \/ CompleteTask(o)
  \/ \E org \in Placed : Launch(org) \/ \E healthy \in BOOLEAN : Check(org, healthy)
  \/ Revoke
  \/ \E file \in BOOLEAN, integration \in {None, "issue", "planned"} : Begin(file, integration)
  \/ ReadOpportunities \/ ReadTasks \/ ReadPlacements \/ ReadAlerts
  \/ Load \/ Audit \/ Over

Spec == Init /\ [][Next]_vars

-------------------------------------------------------------------------------
(* Properties *)

\* docs/runbooks/partner-card.md: the status of the integration is computed from the
\* placements and trouble comes first.  Although placements and alerts are read apart, an
\* organization is listed with an issue only if it had one while the request ran, and
\* without only if for a moment it had none.
IssueIsReal ==
  pc = "answering" =>
    \A row \in rows : row.organization \in (IF row.integration = "issue" THEN troubled ELSE calm)

\* An organization that did not change while the request ran is listed as it is, and nothing
\* else is listed for it.
QuietRowIsExact ==
  pc = "answering" =>
    \A org \in Organizations \ changed :
      /\ \A row \in rows : row.organization = org => row = RowNow(org)
      /\ query.file /\ query.integration \in {None, RowNow(org).integration} => RowNow(org) \in rows

\* docs/runbooks/partner-export.md: an export is recorded, with its number of rows, before
\* it is answered.
ExportIsAudited == pc = "answering" /\ query.file => Cardinality(rows) \in audits
===============================================================================
