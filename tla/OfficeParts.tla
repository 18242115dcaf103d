------------------------------ MODULE OfficeParts ------------------------------
(***************************************************************************)
(* Those components of Office that read and write the database or talk to  *)
(* the interface: the constants, the variables and the instances.  Office  *)
(* adds the ones that work on pages, lists and files from outside, and     *)
(* puts all of them beside each other.                                     *)
(***************************************************************************)
EXTENDS Naturals

CONSTANTS
  Requests,   \* bound: transactions, cycles, inspections or calls at once
  None,
  \* RadarCandidates, RadarScore
  Candidates, CheckedHosts,
  Inspectors, Managers, ScoreCommands, ScoreFindings, Observations, Adjustments, MaxScoreTime,
  \* OrganizationImport
  Jobs, ImportHosts, Names, Files,
  \* AccessAdministration, ActorSession
  Accounts, Founders, MaxUserVersion,
  Users, Local, TeamOf, ScopedOrganizations, OwnerOf, DealOwner, UserRequests, Term, MaxSessionTime,
  MaxBoots,
  \* SlaSettings
  Opportunities, Publishers, MaxProcessVersion,
  \* WeeklyReport, WeeklyPayload
  Week, Due, MaxTime, Requested, ReportFormulas, Scheduled, Worker, Processes,
  Reported, Stages, WeekDays, Weeks, Stall, HighStall, HighOverdue, Top, DigestSize, MaxDay,
  \* PartnerRegistry, TodayQueue
  Listed, OrganizationOf, ScoreOf, Changing, Placed, PageLimit, MaxTask,
  Keys, QueueCommands, PartnerScore, Acted, MaxDue, LastDay,
  \* WebMutation, WebEditor, WebSession
  Contents, MaxIntent, MaxRequest,
  EditorPages, Items, MaxRowVersion, MaxFetch,
  MaxToken, MaxPromise, MaxSync

VARIABLES
  host, status, inspected, mergedInto, dupCand, dupOrg, partners, act,
  now, features, duplicate, evidence, score, snapshots, open, version, decision, inspection, seen,
  name, jobStatus, rows, protocol, request, stale,
  known, admin, active, userVersion, admitted, command,
  published, processVersion, closed, reopened, form, publication,
  time, reports, keys, dueAt, generation,
  dialog, shown, content, intent, sentKeys, waiting, error, sent, travelling, records, answers,
  applied,
  page, row, unseen, list, selected, draft, fetches, fetched, save, single,
  today, born, ended, due, history, marker, escalated,
  stage, nextTask, business, health, alert, permitted, pc, query, loaded, listing, audits,
  changed, troubled, calm,
  clock, boots, role, working, granted, password, token, served, held,
  day, todo, kept, trail, serving, posted, overlapped,
  issued, accepted, signedIn, bearer, promises, inFlight, pageCall, screen, syncs,
  out, doomed

candidates == <<host, status, inspected, mergedInto, dupCand, dupOrg, partners, act>>
scores == <<now, features, duplicate, evidence, score, snapshots, open, version, decision,
            inspection, seen>>
imports == <<name, jobStatus, rows, protocol, request, stale>>
accounts == <<known, admin, active, userVersion, admitted, command>>
settings == <<published, processVersion, closed, reopened, form, publication>>
weekly == <<time, reports, keys, dueAt, generation>>
forms == <<dialog, shown, content, intent, sentKeys, waiting, error, sent, travelling, records,
           answers, applied>>
editor == <<page, row, unseen, list, selected, draft, fetches, fetched, save, single>>
payload == <<today, born, ended, due, history, marker, escalated>>
registry == <<stage, nextTask, business, health, alert, permitted, pc, query, loaded, listing,
              audits, changed, troubled, calm>>
session == <<clock, boots, role, working, granted, password, token, served, held>>
conflicts == <<out, doomed>>
tasks == <<day, todo, kept, trail, serving, posted, overlapped>>
tokens == <<issued, accepted, signedIn, bearer, promises, inFlight, pageCall, screen, syncs>>

-------------------------------------------------------------------------------
(* Instances *)

Cand == INSTANCE RadarCandidates WITH Hosts <- CheckedHosts

Scores ==
  INSTANCE RadarScore WITH
    Commands <- ScoreCommands, Findings <- ScoreFindings, MaxTime <- MaxScoreTime

Import == INSTANCE OrganizationImport WITH status <- jobStatus, Hosts <- ImportHosts

Access == INSTANCE AccessAdministration WITH Users <- Accounts, MaxVersion <- MaxUserVersion

Settings ==
  INSTANCE SlaSettings WITH MaxVersion <- MaxProcessVersion, Administrators <- Publishers

Weekly ==
  INSTANCE WeeklyReport WITH now <- time, snapshots <- reports, Formulas <- ReportFormulas

Web == INSTANCE WebMutation WITH form <- dialog, keys <- sentKeys

Editor == INSTANCE WebEditor WITH MaxVersion <- MaxRowVersion, Pages <- EditorPages

Payload ==
  INSTANCE WeeklyPayload WITH
    created <- born, closed <- ended, Opportunities <- Reported, Week <- WeekDays

Registry ==
  INSTANCE PartnerRegistry WITH read <- loaded, rows <- listing, Opportunities <- Listed

Session ==
  INSTANCE ActorSession WITH
    time <- clock, active <- working, request <- served, Requests <- UserRequests, Ttl <- Term,
    MaxTime <- MaxSessionTime, Organizations <- ScopedOrganizations

Queue ==
  INSTANCE TodayQueue WITH
    task <- todo, records <- kept, sent <- posted, ScoreOf <- PartnerScore, MaxDay <- LastDay,
    Commands <- QueueCommands

Tokens == INSTANCE WebSession WITH token <- bearer, call <- pageCall, Calls <- Requests

ASSUME PartsAssumption ==
  /\ Cand!CandidatesAssumption /\ Cand!NamesAssumption
  /\ Scores!AdjustmentsAssumption /\ Scores!TimeAssumption
  /\ Import!NoneAssumption /\ Import!FilesAssumption
  /\ Access!FoundersAssumption /\ Access!VersionAssumption
  /\ Settings!VersionAssumption
  /\ Weekly!WeekAssumption /\ Weekly!ScheduledAssumption /\ Weekly!WorkerAssumption
  /\ Weekly!ClockAssumption /\ Weekly!RequestedAssumption
  /\ Web!WebAssumption /\ Editor!EditorAssumption /\ Tokens!SessionAssumption
  /\ Payload!PayloadAssumption /\ Registry!RegistryAssumption /\ Queue!QueueAssumption
  /\ Session!SessionAssumption
================================================================================
