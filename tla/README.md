# A verification project for Embed Partner OS

Embed Partner OS is a CRM for partners that embed a video player. Its API
(`src/apps/api`) is a NestJS application over PostgreSQL (Prisma); beside it run
eight worker processes (`src/apps/api/src/workers`), and a React client
(`src/apps/web`) in front. The processes share one database and nothing else, so
most of what is hard in the system is two transactions, or a transaction and a
crash, or a form and the row it was filled from, in an order nobody wrote a test
for.

This directory holds TLA+ models of that behaviour, the TLC configurations that
check them on small instances, and TLAPS proofs of what holds for every value
of the constants. Paths below are relative to `src/apps/api/src` unless they
start with `apps/`, `packages/` or `docs/`.

To check a run: `tlc -config X.cfg M`, with the module and the configuration that
`PROJECT.json` names for it; to check the proofs: `tlapm M.tla` on the eight
`*Proofs` modules.

## The system's parts

| Part | State | Operations | What makes it correct | Module |
|---|---|---|---|---|
| Outbox relay (`outbox/`, publishers, three workers) | `outbox_event`: confirmation, attempts, next attempt, lease | claim under a lease, publish, confirm or release with a delay | one owner per lease, at-least-once, a confirmation is final, everything is delivered | `OutboxRelay` |
| Tasks (`application/task-completion.service.ts`, `persistence/prisma-task-completion.store.ts`, `postgres-today.service.ts`) | `task`, `interaction`, the opportunity row | complete (follow-up, wait, close), reschedule | the next action is an open task, a finished task stays finished, an answer tells the outcome and a replay repeats it | `OpportunityLifecycle`, `TodayQueue` |
| Funnel (`persistence/postgres-opportunity.service.ts`, `packages/domain/src/opportunity-stage.ts`) | stage, status, version, `stage_history` | transition | the published graph, a history without gaps, S9 only with a healthy placement | `OpportunityLifecycle` |
| SLA monitor (`monitoring/*opportunity-sla*`) | `opportunity_sla_incident`, its task | scan, open, escalate, resolve | one open incident, closed when the owner acts | `OpportunityLifecycle` |
| SLA settings (`persistence/postgres-sla-settings.service.ts`) | process versions | publish | no open opportunity on an old version | `SlaSettings` |
| Placements (`persistence/postgres-placement.service.ts`) and their monitor (`monitoring/placement-monitor*`) | health, failures, alert, technical task; job key, attempts, lease, dead letter | update, archive, check; claim, complete, fail | the second failure alerts, one check per job key, what is due is handled | `PlacementMonitor` |
| The L0 check (`monitoring/l0-embed-checker.ts`, `safe-http-client.ts`) | one check | page, player, redirects | it does not blame a page it did not read | `EmbedCheck` |
| Idempotency gateway (`persistence/idempotency-gateway.ts`) | `idempotency_record` | reserve or replay, complete, release, expire | an operation takes effect once per key | in `PlacementMonitor`, `RadarInspection`, `TodayQueue`, `WebMutation` |
| Contacts (`persistence/postgres-contact.service.ts`) | contacts, channels, links, merge audit | create, link, merge, edit, archive | one primary contact, a merged contact points to a live survivor, no lost update | `ContactRegistry` |
| Radar (`persistence/postgres-radar.service.ts`, `monitoring/radar-*`, `sourcing/`) | candidates, evidence, scores, queue of inspections | source, inspect, recheck, adjust, decide | one evidence per key, decisions stand, every request is served, a host has one candidate | `RadarInspection`, `RadarCandidates`, `RadarScore`, `RadarSourcing` |
| Inspection of a site (`monitoring/radar-page-inspector.ts` and what it calls) | one inspection; caches and a browser shared by all | robots, page, maps, feeds, linked pages, services, browser | a page that was read is judged, a page that was not is not | `SiteInspection`, `TrafficEstimate`, `LegalRegister`, `PageRenderer` |
| Weekly report (`persistence/postgres-report.service.ts`, `reporting/`) | immutable snapshots, keys | generate, schedule, digest | one snapshot per moment, revisions in order, the worst is told | `WeeklyReport`, `WeeklyPayload` |
| Import and files (`persistence/postgres-organization-import.service.ts`, `application/`) | jobs, organizations | preview, commit, cancel, parse, export | an import ends once, a file reads back | `OrganizationImport`, `CsvFiles` |
| Access (`access-administration.service.ts`, `auth/`, `persistence/persistence-actor.service.ts`) | users, roles, permissions, tokens | create, update, log in, authorize | an administrator remains, a request acts by rights held | `AccessAdministration`, `ActorSession` |
| Partner registry (`persistence/postgres-partner.service.ts`) | - | list, export | a row tells what was so, an export is audited | `PartnerRegistry` |
| Web client (`apps/web/src`) | forms, lists, keys, tokens | submit, reload, edit, refresh | an unchanged form is applied once, an edit that was not shown is not overwritten | `WebMutation`, `WebEditor`, `WebSession` |

How they interact: a command is one transaction that writes business rows, an
audit row, an outbox row and its idempotency record together (ADR-0002,
ADR-0003). The opportunity is where most parts meet: completions, transitions,
the SLA monitor and the placement's checks all write its row or its tasks, and
they are one module. The relay takes over after the commit. Checks and
inspections are transactions around a network call, and what is true before the
call need not be true after it.

The API has two implementations of each service: over PostgreSQL, and in memory,
where a command is one synchronous call. The one in memory is an abstract
specification that the team has already written: `OpportunityTwin`,
`PlacementTwin`, `ContactTwin`, `RadarTwin`, `WeeklyTwin`,
`OrganizationImportTwin` and `AccessTwin` translate it, and `ImplementsTwin` says
of the module over PostgreSQL that whatever its transactions do at once, the
effect is that of the synchronous calls in some order.

## How transactions are modelled

A transaction is the steps at which it reads and one step at which it commits.
Its writes are invisible before; the row locks it takes at its first write make
every `WHERE` it has passed hold until the commit, so moving the writes to the
commit loses no behaviour of the others.
- READ COMMITTED: every statement sees what is committed when it starts. What a
  request has read is its state, and the `WHERE` of a write is evaluated at the
  commit.
- SERIALIZABLE: the snapshot is that of the first statement, which in this code
  comes before the wait for an advisory lock. Such a lock therefore orders
  transactions and shows them nothing. `OpportunityLifecycle` and
  `PlacementMonitor` say directly that a row written after the snapshot fails the
  commit; where what matters is a search that finds rows added later
  (`RadarCandidates`, `AccessAdministration`, `SlaSettings`, `WeeklyReport`),
  `SerializableSnapshot` models PostgreSQL's detection of conflicts: with
  t reading what v writes, and u reading what t writes, v first to commit, t is
  doomed. Failures PostgreSQL adds beyond this are among the steps of `Abort`.

A transaction that fails leaves nothing behind (`Abort`, `Fail`, `Release`), and
so does a process that dies before its commit.

## The modules

### `AtLeastOnceDelivery` and `OutboxRelay`

`OutboxRelay` has one variable per column of `outbox_event` the relay uses, one
per local of `runBatch` that survives an `await`, and `reached`, the processes
whose consumer has accepted an event.

| Action | Code |
|---|---|
| `Write` | any business transaction that inserts an outbox row commits |
| `ClaimBatch` | `claimBatch`, one `UPDATE ... FOR UPDATE SKIP LOCKED RETURNING` |
| `PublishAccepted`, `PublishAnswerLost`, `PublishRejected` | `publisher.publish` resolves; throws after the consumer took the event; throws before |
| `MarkPublished`, `MarkFailed`, `LeaseLost` | the two acknowledgements and their `OutboxLeaseLostError` |
| `Crash`, `Restart` | the process ends (killed, or `runBatch` threw) and is started again by compose |
| `Tick` | a unit of time passes for leases, delays and timeouts |

Time is relative (an age, a time to go), so no clock is bounded. A publication
lasts at most `PublishTicks` because every publisher aborts at its timeout; an
acknowledgement is one statement and takes no time. `attempts` saturates at
`AttemptCap`, above the value from which the delay is `MaxRetry` anyway.
`GoOn` picks any event of the claimed batch next: `RETURNING` promises no order.
A batch may outlast its lease (50 events of up to 10 s against 60 s); the model
has that case, since `LeaseTicks` is one publication and the batch has two.

`AtLeastOnceDelivery` is what ADR-0003 promises a consumer, and
`OutboxRelay!AtLeastOnce` says that the relay implements it.

### `OpportunityTwin` and `OpportunityLifecycle`

One opportunity, its tasks, its placement's alert, its SLA incidents, and all
who write them. Requests (`Users`) and monitor processes are explicit: what
they have read, and when, is their state.

| Actions | Code |
|---|---|
| `ReadTask`, `ReadOpportunity`, `FollowUp`, `Close` | `complete` over the Prisma store |
| `ReadTask`, `Reschedule` | `rescheduleTask` |
| `ReadSnapshot`, `Transition` | `transition` |
| `Abort` | every rollback: a conflict (409), a serialization failure, an error |
| `LoseHealth`, `OpenAlert`, `CloseAlert` | `runL0Check`, and the alert's end in `update` and `archive` |
| `Evaluate`, `Recheck`, `OpenIncident`, `EscalateIncident`, `ResolveIncident`, `GiveUp` | `runBatch` and the store of the SLA monitor |
| `ThresholdPasses`, `EscalationFallsDue` | days without activity |

- A completion runs under READ COMMITTED: `getTask` reads the task, then its
  opportunity, with a snapshot each; the updates match `version` (and `OPEN`).
  `fresh` holds the tasks read and not written by others since, `seen` what was
  read of the opportunity. A transition runs under SERIALIZABLE; `freshRow` and
  `fresh` say which rows are still as its snapshot has them.
- The SLA monitor reads candidates, then reads again inside the transaction of
  the operation. `Recheck` is one step although Prisma issues several SELECTs:
  the activity marker it compares cannot return to an older value, and a second
  incident with the same marker is refused by the unique index.
- `version` is also the activity marker of the SLA monitor (the newest of
  creation, interaction and stage change). Every operation that inserts an
  interaction or a stage change increments the version and no other operation
  does. Two activities in the same instants may be stamped in the other order,
  but an incident opens days later, so it never covers one and not the other.
- The thresholds are days (`stale`, `overdue` may become true at any moment), and
  a transaction is seconds (`Passing`: no threshold passes while one is open).
- Stage data comes with the command, and contacts, score or domain are not taken
  back by anything modelled here, so `Ready` keeps only what can stop being
  true: the next task and the placement's health.
- A new row takes the smallest unused id: ids only have to be new.
- A client that sends its version (`transition`) is a request whose read starts
  the step; a stale version is an `Abort`.
- An opportunity may have several placements in the code; the model has one, with
  the alert that is open on it.
- In memory an opportunity is the list of its actions. Two differences of the
  list are left open in the twin: it forgets an opportunity without actions, and
  an opportunity closed by completing a task keeps its stage on the actions that
  remain. There is no SLA monitor in memory, so the refinement is checked in the
  run without one; copies of version and status are left out.

### `PlacementTwin` and `PlacementMonitor`

One placement, the worker processes that check it on schedule, checks by hand,
and the changes of its life cycle. `runL0Check` is three transactions around a
network call, and the worker acknowledges in a fourth; `pc` says between which
of them a job is.

| Actions | Code |
|---|---|
| `ClaimBatch` | `claimBatch` of the store, one `UPDATE ... FOR UPDATE SKIP LOCKED RETURNING` |
| `Reserve`, `Replay`, `Refused` | the first transaction of `runL0Check` over `reserveIdempotency`; a placement that is not found |
| `BeginApply`, `Apply` | the SERIALIZABLE transaction that applies a result and completes the key: its snapshot, its commit |
| `Release` | any failure of it, with `releaseReservation` |
| `MarkCompleted`, `MarkFailed`, `DeadLetter`, `LeaseLost` | the acknowledgements and `PlacementMonitorLeaseLostError` |
| `Crash` | the process ends and compose starts it again |
| `ManualCheck` | `POST l0-checks` |
| `Update`, `Archive` | `update` with `resolvePlacementUpdate`, `archive` |
| `FallsDue`, `RecordExpires` | time; the 24 hours of an idempotency record |

- A moment stands for a value of `next_check_at` and for the job key
  `placement-monitor:<id>:<moment>` made from it. A moment that no column and no
  job refers to may be used again; the rows of its key are then forgotten
  (`Table`), since nobody will ask for that key again.
- A lease may be up at any moment after the claim: a batch is ten checks of up to
  15 seconds under a lease of 60, so no order of the two is guaranteed, and
  everything about the owner must follow from the columns.
- `attempts` saturates at `MaxAttempts`: the code only compares it with that. It
  is no separate guard of an acknowledgement: whoever writes the column becomes
  the owner or clears the lease.
- The page is read just before the key is reserved. A change of the page between
  the two acts like one just after them.
- A manual check is one step, under a key of its own: its races, from its first
  read to its commit, are those of another worker's job.
- Registration is the initial state; `planned` behaves as `paused`. A batch is one
  job per process.
- `upToDate` is history: whether a job fetches the page the row names now.
- The twin knows no jobs: a placement whose job the monitor gave up is still
  planned there.

### `ContactTwin` and `ContactRegistry`

Contacts, their links to organizations, their channel and who writes them:
requests of six kinds (create, link, merge, edit, record an interaction with a
completed task, import an organization's contact), each with the advisory locks
of the code in its order, which `NoDeadlock` is about.

| Actions | Code |
|---|---|
| `StartCreate`, `TakeLinksLock`, `TakeChannelLock`, `CreateRead`, `Create` | `createContact` |
| `StartLink`, `LinkRead`, `LinkCount`, `Link` | `linkContact` |
| `StartMerge`, `TakeMergeLock`, `TakeGraphLock`, `MergeRead`, `MergeLinks`, `Merge`, `MergeFails` | `mergeContact`; it fails on the trigger if the source has interactions |
| `StartEdit`, `TakeRegistryLock`, `UpdateRead`, `Update`, `ArchiveRead`, `ChangeArchived` | `updateContact`, `changeContactArchived` |
| `StartRecord`, `RecordRead`, `Record` | `createInteraction` of `prisma-task-completion.store.ts` |
| `ImportRead`, `Import` | `createImportedContact` |

Names and texts are left out; two contacts can be duplicates by their channel.
The in-memory service finds a contact through its links; the twin finds it by
its profile, as the table does, and the links of an imported organization, which
nobody else can name yet, are hidden from it. A lock and the read that follows
it are one step where nobody can tell them apart.

### `RadarTwin`, `RadarInspection`, `RadarCandidates`, `RadarScore`, `RadarSourcing`

`RadarInspection` follows one candidate through the queue of requested
inspections, scheduled rechecks, and decisions, with every process that takes
from the queue. `rejected` stands for `merged` too (both are final for it);
evidence is old at the start of the next slot; `Abandon` is the death of a
process or a release that failed.

| Actions | Code |
|---|---|
| `Create`, `SourceCreate`, `SourceRequest`, `SourceFails` | `create`, with the request that a user's creation makes at once and sourcing in a second transaction |
| `RequestInspection`, `TakeRequested`, `Leave` | `requestInspection`, the queue of `radar-inline-inspection.ts` and the worker |
| `TakeDue`, `NextSlot`, `DeferEnds` | `radar-recheck-scheduler.ts`, time |
| `Reserve`, `Skip`, `Apply`, `Release`, `Abandon`, `RecordExpires` | `inspect` around the network call, and its key |
| `Decide` | `decide` |

`RadarCandidates` has the transactions of `create` and `decide` on several
candidates: duplicates by host, merges into a canonical candidate, acceptance
that makes an organization (with a new contact only). Two candidates are enough:
a cycle of merges, an unmarked duplicate and a second partner of a host each
take two.
`RadarScore` is the formula of `packages/domain/src/radar.ts` with evidence that
arrives out of order, adjustments and decisions; `detectedAt` is the start of the
inspection. `RadarSourcing` is the cycle of the sourcing worker: look-up,
creation and request are three transactions, keys expire only between the
look-up and the creation's end, and partners are not archived. The links of a page
are a set, of which the first `MaxDomains` of a media kind are taken, and the
candidates of a source come in any order of them.

### The inspection of a site

`SiteInspection` is `radar-page-inspector.ts` request by request, each of which
may fail, with the operators that merge what the pages showed.
URLs are as requested (redirects are left out, but for one to another origin),
lists come in any order, and the unknown frequency is `None`; how HTML shows a
finding is left out, and so is the wording of the dossier.
`TrafficEstimate` has the cache and the throttle of Tranco that inspections of a
process share: one unit of time serves for the cache's life and the pause, and
Tranco's list changes once a unit. `EmbedCheck` is one L0 check: servers and
names may change between any two steps, and a request's whole time limit is the
step `Unanswered`. `LegalRegister` is the register's token, its polls and DaData;
a name stands for its lower case. `PageRenderer` is the shared browser: frames
and resource types are left out, and closing it takes two steps.

### `WeeklyTwin`, `WeeklyReport`, `WeeklyPayload`

`WeeklyReport` has generations by users and by the worker, the worker's sleep and
restarts, and the keys of its slots; a week is `Week` ticks, keys may expire at any
time and are recorded with the snapshot. `WeeklyPayload` is what
`buildWeeklyReportPayload` and the digest tell of a history of opportunities, in days,
with at most one action per opportunity and sets for lists that are cut to the first
of an order. `Discover` is the row of an import, which may have no next action
(`postgres-organization-import.service.ts:270`) and may be closed; `FollowUp` completes
the action, or the task of an SLA incident, with a next one, which makes a closed
opportunity active again; `Escalate` and `Resolve` are the monitor's, whenever it
polls. So all three decisions of the digest are reached, at once too, and a list that
they leave no room for. The notification of an escalation is left out.

### `OrganizationImportTwin`, `OrganizationImport`, `CsvFiles`

`OrganizationImportTwin` is the import in memory; its `ClassifyRows`, which both
use, classifies the rows of a file against the registry; a name stands for the
name and the segment. `OrganizationImport` has the overlapping commits and
cancellations of a job whose preview was made before. `CsvFiles` is the text of
files: an export that is read back, a sheet that a spreadsheet writes with either
delimiter and newline, and an upload cut short. `space` stands for spaces and
tabs, the forms of a header for one another; XLSX is left out.

### `SlaSettings`, `AccessTwin`, `AccessAdministration`, `ActorSession`

`SlaSettings`: publishing moves the open opportunities to the new version, while
others are created, closed, and opened again by the completion of a task; the
form is loaded in two reads. `AccessAdministration`: two transactions on users,
the actor any active user by the time they begin. `ActorSession` is
`AUTH_MODE=local_password`: the token, the guard's read of the user and the
transaction's, with administrators and restarts between them. Of a user's tokens
only the last is kept, one permission stands for all, a user's row and
permissions are one read; the limit on attempts and other modes are left out.

### `TodayQueue` and `PartnerRegistry`

`TodayQueue` is what follows a command that has committed: the look for a kept
answer, the two reads of the queue (`ReadList`, `ReadCounts`, each with what it sees
by then), the update that keeps the answer with the key (`Keep`) and the answer
(`Respond`), each a step of its own, with deaths and other requests between them.
`overlapped` records the completions two requests of a key rendered answers to at
once; what is promised of replays is promised of the others (see the findings).
One user sees every task,
counts are sets, the order of the list is left out, records do not expire while a
request runs, commands are for the first task only (`Acted`), an opportunity has
one open task at a time (so that its waiting is kept with the task), and the
weight of stages S7 and S8 is left out. `PartnerRegistry` is a listing made of
one query per relation, in any order, while the rest changes; filters on names
and domains and the reader's team are left out, and only some opportunities
change (`Changing`).

### `WebMutation`, `WebEditor`, `WebSession`

`WebMutation`: four kinds of form that differ in how they keep their key, with
answers lost, late, or never sent; keys do not expire while a form is open, and
one request is awaited at a time. `WebEditor`: six pages that differ in which
version they send; a row is its version, and a list may be fetched at any time.
`WebSession`: requests that meet an expired token in the external mode; a settled
promise resumes those who wait in one step, and a forced token is issued when its
promise settles; unmounting is left out.

### `Office` and `MCOffice`

`OfficeParts` has the constants, the variables and the instances of the components
that work on the database or talk to the interface; `Office` adds those on pages,
lists and files from outside and puts all of them side by side, with their properties.
They are what the proofs are about; `MCOffice` gives `Office` the values of the run. The
twenty components whose transactions are serializable or short are checked in one run, `office`: the
variable `part` says which of them moves, from its own initial states, while the
variables of the others rest at theirs. What is
reachable is the disjoint union of what each reaches. Their assumptions on
constants are asserted together, `PartsAssumption` and `OfficeAssumption`. Constants that a module needs
in a certain shape (findings of a page, rows of a file) are given in the
`INSTANCE` of the part.

## What is checked

| Run | Result | Question |
|---|---|---|
| `outbox_relay` | passes | Two processes with different subscriptions, two events, crashes, expired leases, refusals, lost answers: is every event delivered, and who owns it meanwhile? |
| `outbox_stealing` | `ConsumerReached` violated | see the findings |
| `opportunity_races` | passes | Two requests at a time on an opportunity with a placement: does what is committed respect the funnel although what was read may be stale, and is it what the service in memory would do? |
| `opportunity_sla` | passes | Two monitors and an owner: is there one incident, and does it end? |
| `opportunity_closed` | `ClosedIsFinal` violated | see the findings |
| `placement_monitor` | passes | Two workers, checks by hand and edits: is every due check made once and its result kept? |
| `placement_new_page` | `NewPageIsChecked` violated | see the findings |
| `contact_registry` | passes | Two requests of any kind on three contacts: does the registry stay consistent, does nobody wait for ever, is no edit lost? |
| `contact_history` | `MergeTakesHistory` violated | see the findings |
| `contact_editor` | `EditsAreKept` violated | see the findings |
| `radar_inspection` | passes | A worker and an API process, users, deaths and lost answers: is every request and every recheck served, and no evidence made twice? |
| `office` | passes | The twenty smaller components, one at a time |

The properties of `office` are conjunctions over its parts:

| Property | Part: what it says |
|---|---|
| `OverlapsAreSafe` | candidates: whoever looks for the canonical candidate of a host finds it. access: an administrator remains. settings: what was never closed is under the latest definition. session: a request acts by a role and a permission its user had together while it ran, within the term of a session; scopes nest; from the second start on the bootstrap user can log in (at the first it may not, see the findings). sourcing: a host gets one candidate and no host is passed over. renderer: one browser, no context is left open, every page is answered. tokens: two refreshes never run at once, and a retry has a newer token |
| `DecidedScoreWasSeen` | score: a decision records the score that the manager saw |
| `InspectionIsSound` | site: a page that was read is judged and no other, robots.txt and limits are kept. traffic: an estimate is fresh, an error is no absence, requests are apart. embed: only what servers answered counts against a placement, and health is seen |
| `FormsAreSafe` | web: an unchanged form that is sent again is applied once. editor: a form does not overwrite an edit it did not show (but see the findings) |
| `ReadsAreComplete` | payload: the worst is told, weeks are whole, the digest has a decision on each kind of trouble. registry: an issue that is shown was one, a row nobody changed is exact, an export is audited. today: an answer tells the outcome, a replay repeats it unless two requests of the key render at once, reschedulings are a chain. csv: files read back, or as far as they came. site: the dossier explains the score. legal: people the site named are kept, the register goes first |
| `ImplementsTwins` | import, access, weekly: as the service in memory |

Each property of a passing run has a mutant of the code (a dropped `WHERE`
conjunct, READ COMMITTED for SERIALIZABLE, a forgotten recheck, a list cut too
early, ...) that violates it; the mutants stand beside the definitions they
replace. For the properties of `office`, the mutant is in one of the parts.

### Bounds, and why they suffice

- `outbox_relay`: two processes, one of them with a filter, and two events in one
  batch: a second process needs one expired lease to interfere, and the batch
  needs a second event to outlast its lease. `MaxRetry = 3` with
  `BaseRetry = 1` saturates at the third attempt, `AttemptCap`.
- `opportunity_races`: two requests (a race is between two), four versions (open,
  move, move, close) and four tasks; stages 7 to 10 hold every kind of
  transition (forward, pause, resume, close, and the end of closing at 8).
  Requests are symmetric.
- `opportunity_sla`: two monitors and one owner; two versions are an incident, the
  activity that makes it obsolete, and the next incident. Liveness needs the
  smaller bound.
- `placement_monitor`: two workers, one of which takes over the lease of the
  other, and two attempts: a retry and the dead letter. Three moments are the
  key of a run, the time of its retry and the next check; a step that mints a
  moment waits while all three are referred to, which takes two jobs with
  different keys. It checks no deadlock: an archived placement comes to rest.
- `contact_registry`: two requests, three contacts (a chain of merges is two
  merges), one organization and one channel (everybody competes for them), one
  contact that can be edited and three of its versions.
- `radar_inspection`: two processes, one of which schedules; three moments, as
  above.
- `office`: two transactions at once in every part; three users, two of them
  founders, three process versions, two weeks of the clock, two candidates, three
  versions of a row. A decision on a stale score takes a view, an inspection and the
  decision (`MaxScoreTime` = 3); a request that outlives its session takes a token
  of one unit and one step of the clock; an edit that is not shown takes two
  fetches, of lists or of single rows (`MaxFetch`). `EditorPages` are the pages that
  are safe; the other two are in `contact_editor` and in the findings. Texts, rows,
  pages, tokens and times are bounded so that each part meets its limits: a list
  longer than its cut (the code cuts at ten, the model at `Top` = 1; what a digest
  leaves out of several exceptions is proved only), a digest of `DigestSize` = 3
  entries, which three decisions fill, a report that looks `Weeks` = 1 week of one
  day back in a history of three, a cache that grows old, a redirect beyond the last
  one allowed, a browser launched again. No symmetry but between the two requests.
  Its parts stop at their bounds, so it checks no deadlock.

A request that would need a version, task or id beyond its bound waits or aborts;
that is the only effect of these bounds.

### Fairness

- `OutboxRelay!Fairness`: time passes; a process that runs makes steps, and one
  that is down is restarted (`restart: unless-stopped`); processes do not die
  for ever; and an event that is published under a lease again and again is some
  time accepted within that lease. The last two are assumptions on the world: a
  consumer that always answers after the lease is up never lets its event be
  confirmed.
- `OpportunityLifecycle!Fairness`: a monitor polls for ever (the loop of
  `opportunity-sla-worker.ts`), and a resolution that is tried again and again
  succeeds once. Nothing is assumed of the users.
- `PlacementMonitor!Fairness`: a worker that can go on does, and its
  acknowledgement, once nothing takes its lease, is made; if jobs are finished
  again and again, one of them is acknowledged within its lease again and again;
  and from some time on nobody dies or edits the placement. Without the third, two
  slow workers may steal the lease from each other for ever.
- `RadarInspection!Fairness`: processes take what they see again and again and
  inspect it, inspections do not fail for ever, records of keys expire, slots follow
  each other, and processes do not die for ever.

## What the code does against its documents

1. `outbox_stealing`: the relay worker claims without a filter and shares one
   `published_at` with the digest and SLA workers that compose runs beside it;
   ADR-0006 says events of a type go to their own worker.
2. `opportunity_closed`: tasks outlive the closing of their opportunity, and
   completing one with a follow-up makes a closed opportunity ACTIVE at stage
   SL; the runbook says nothing leaves SL.
3. `placement_new_page`: a check that fetches the old page while the page is
   changed is recorded as the health of the new one, and moves `next_check_at`
   hours away; the runbook promises an immediate check of the new page.
4. `contact_history`: a merge moves the interactions of its source, and the
   trigger that makes interactions append-only refuses: a contact with any
   interaction can never be merged.
5. `contact_editor`: the editor of a contact keeps its fields and takes the
   version of the row the list shows when it is saved; a list that reloads while
   it is open lets it overwrite what another user wrote. The life-cycle dialog of a
   placement (`PlacementLifecycleDialog.tsx:52`) does the same when it is opened
   while the placements are loaded a second time: TLC finds it with
   `Pages = {"placement"}`.

Also seen while modelling, without a run of its own:

- Placements: after a lost answer the retry replays the stored check and leaves
  `next_check_at` at the retry's time, so that the next poll checks again under a
  second key. A dead letter stays dead through a manual check, although that check
  plans the next one. Attempts are counted at the claim and compared only at an
  acknowledgement of a failure, so a job whose process always dies is claimed
  without end.
- The L0 check: `docs/runbooks/placement-l0.md` says that failed means a missing
  iframe or an error of the embed URL; a page that answers 404 or 5xx counts as
  failed too. The requester's timeout is an `AbortError`, so `NETWORK_TIMEOUT` is
  never recorded; an error of the embed request reports `playerFound: false`
  although the page was read; a redirect of the player elsewhere may count as
  healthy; the look-up of a name is under no timeout. A connection closed within a
  body settles no promise (`safe-http-client.ts:137`).
- Opportunities: stage SX with status ACTIVE, which a completed review task
  makes, has no threshold, so the SLA monitor never watches it
  (`prisma-opportunity-sla-monitor.store.ts:341`). Completing a task with `close`
  takes a launched opportunity from S9 or S10 to SL, which is no transition of the
  runbook. One that is opened again stays on its old process version. An
  escalation requires an owner's e-mail it does not use. The Telegram texts read
  nested fields (`p.opportunity`, `p.sla`) that the flat payload does not have.
- Radar: rendered pages are opened without a look at robots.txt
  (`radar-page-inspector.ts:282`, `docs/runbooks/radar.md:24`). A candidate that
  sourcing has created and whose inspection it failed to request is not asked for
  again (`radar-sourcing.service.ts:120`). Late evidence with an older time scores
  over newer evidence; merged ranges of videos may be inverted. Acceptance looks
  only at the duplicate that was found at creation. The channel, the
  readiness and the brief of a dossier may disagree when a legal entity or a feed is
  added after them; the register falls back to its first row; a legal failure loses what the
  site said; two people with one mailbox become one.
- Renderer: a Chromium that died stays the shared browser, and every later render
  is skipped until a restart; a context that cannot be opened loses the results of
  the pages before it.
- Weekly report: a worker whose run straddles Monday 10:00 sleeps past that
  Monday's slot (`docs/requirements-baseline.md:42`). A catch-up with an earlier
  `dataAsOf` gets a higher revision, one in the future is accepted, and the payload
  uses the statuses of now (ADR-0005).
- Import: two rows, or a preview that has become stale, may give two organizations
  one name, and an update may undo a later rename. A file with lone CRs is one line
  to `detectDelimiter` and several to `parseCsv`; an export cannot be imported, for
  its headers differ. In memory the export stops at 200 rows, and a commit creates a
  conflict the user chose although it may only be skipped, which PostgreSQL refuses
  (`assertResolutions`).
- Access: `SYSTEM_ACTOR_ID` is not the id the seed gives the system user; the limit
  on logins is a fixed window, its comment says a sliding one.
- The first administrator cannot log in after the first start: `bootstrapPostgres`
  creates the user without the `passwordHash` it was given (`local-auth.ts:244`), and
  only a start that finds the user writes it (`local-auth.ts:241`). The comment on the
  class (`local-auth.ts:206`) says that an administrator is created or updated at the
  start, and is idempotent; in memory `ensureLocalAdmin` sets the hash at once.
  `ActorSession!Boot` has what the code does, and `BootstrapEnds` what is left of it.
- Registry: filters match any opportunity of an organization, the row shows the
  one with the highest score; a row may say "planned" though no moment did, and its
  next action may be missing when it was replaced between two queries.
- Replays of a completion: the comment at `postgres-today.service.ts:193` promises that
  the first execution stores its payload and replays return it verbatim. The code looks
  for a stored payload (196-210), renders one (211), stores it over whatever was stored
  meanwhile (213) and returns its own (223). So a request and its retry may find
  nothing, store A1 and then A2, and answer A2 and A1 in either order: the client that
  was answered A1 is answered A2 from then on. TLC finds it, in some dozen steps, when
  `ReplayRepeats` says nothing of `overlapped`: the retry, after midnight, finds the key
  committed and no answer, the first request stores and sends its queue of yesterday,
  the retry stores its queue of today over it.
- Today: a replayed rescheduling is rendered anew. Tasks of a waiting opportunity are
  "waiting" even when critical; a task in memory keeps the group of its creation.
- Web client: ContactRegistry, WeeklyReport and the radar's import make a new key
  for every submit; an edit that is undone makes a new key; a late answer after
  Cancel closes the form of another task (`App.tsx:186`); a poll of the radar may
  overtake an update; PlacementPage adds a check to whichever history is shown; some lists
  are put back as they were captured. Overlapping synchronizations of the session
  let the older answer win (`AuthenticationBoundary.tsx:34`); a bridge that throws
  on a refresh never shows the login screen, although `access-control.md:30` says
  so; a promise settled after logout restores the token.

## What is proved

`OutboxRelayProofs`, for any number of events and processes, any batch size,
lease, timeout and backoff:

- `TypeCorrect`: `Spec => []TypeOK`.
- `ImplementsAtLeastOnce`: `Spec => AtLeastOnce`. The inductive invariant
  (`BatchInv`) ties a process's program counter to its batch and to what the
  consumer has accepted: who is about to confirm has been accepted.
- `ExclusiveLease`: `LeaseIsExclusive`. Its invariant (`LeaseInv`) adds that an
  unexpired batch and its rows agree on owner and age: without the ages, a claim
  by another process could not be excluded. It needs one assumption that the
  operation of the system provides: distinct processes have distinct names.
- `ConfirmedForEver`: `PublishedIsFinal`, from the invariant that a confirmed row
  is locked by nobody.

`OpportunityProofs`, for any number of requests, monitors, tasks, stages and
versions: `TypeCorrect`, `NextTaskStaysOpen`, `AtMostOneIncident`,
`TasksAreFinal`, `HistoryChain`, `FunnelInOrder`, `LaunchIsHealthy` and
`ResolvedForEver`, which are all the safety properties of the passing
opportunity runs, and `ImplementsService`, the refinement, for opportunities that no
SLA monitor watches. None of them is inductive: each speaks of
the moment of a commit, and what makes it true was read earlier. The inductive
invariant `IInv` adds what a reader may still rely on when it writes: a task it
holds as `fresh` is open, a transition whose snapshot has the current row
(`freshRow`) decided on the current stage, next task and health, a completion
that read the current version read the current stage, and no system task is the
next task. For incidents it says that monitors past their recheck watch the same
activity, and that after a new activity none can be about to open another
incident, because no threshold has passed since. The steps of the proof are one
lemma per group of conjuncts, with one step per action that can disturb it;
`ReadersWriteNothing`, `RowWriters` and `IncidentWriters` dispose of the other
actions. The refinement adds one invariant, `WholeSnapshots`: a transition whose
snapshot still has the current row has seen every open task, so a closing leaves
none of them open.

`PlacementProofs`, for any number of workers, moments and attempts:
`TypeCorrect`, `KeyIsCheckedOnce`, `InactiveStaysQuiet`, `CompletedRunIsChecked`,
`SecondFailureOpensAlert` and `ImplementsService`, which are all the safety
properties of `placement_monitor`. Its inductive invariant follows a check
through its transactions: a reservation belongs to a worker still at work on that
key (`ReservationsHeld`), a key has one check exactly while its record is completed
(`DoneIsChecked`), whoever is about to report success has such a key
(`CheckedIsDone`), and the owner of the lease works on the key in the row
(`LeaseHasKey`). The alert needs what a SERIALIZABLE snapshot guarantees
(`FreshReads`) and that the counter in the row is the one of the history
(`FailsIsStreak`). The refinement needs that a placement is active exactly while a
check is planned or its job is dead (`ActiveIsPlanned`). Nothing is assumed about
leases: a worker may lose one at any moment.

`ContactProofs`, for any number of requests, contacts, organizations and channels:
`TypeCorrect`, `MergedHistoryIsFound`, `OnePrimaryContact`, `NothingIsLost`,
`RequestsGoOn` and `ImplementsService`, which are all the properties of
`contact_registry`. The properties speak of commits, the requests decide before, and the
invariant `IInv` says which advisory lock keeps which finding true until then:
the links lock, that an organization has no contact yet (`CreateInv`); the merge
lock, that a contact that is linked or gets an interaction is not merged away
(`LinkInv`, `RecordInv`); the graph lock with the merge locks, that a merge has
everybody to repoint and every link to move (`MergeInv`); and no lock at all but
the version, that an edit replaces what its author saw (`EditInv`). A commit that
merges nobody is `Harmless` to the others, one lemma for all of them; a merge is the
exception and has its own. `RequestsGoOn` (`NoDeadlock`) assumes that the
requests are finitely many. `LocksInv` says which locks a request holds at each of
its points, so that `WaitsSomewhere` can say before whom it may wait: always before
one that is nearer to its commit, but for the channels of a creation, of which a
request wants greater ones than it holds. In a set of requests that all wait, nobody
can therefore be at the last points, hence nobody before those, and so on down to
creations that want channels; of these some one wants the greatest (`SomeoneIsLast`,
from the well-foundedness of the strict subsets of a finite set).

`RadarInspectionProofs`, for any number of processes, schedulers and moments:
`TypeCorrect`, `EvidenceIsWrittenOnce` and `ImplementsService`, which are all the
safety properties of `radar_inspection`. What is needed is that evidence exists only
under a completed record (`RowsAreDone`): a process adds one only while the record
is its own, whoever died or repeated itself before.

`PartsProofs`, `OfficeProofs` and `OverlapProofs`, for any values of the constants of
`Office`. Each component has an inductive invariant of its own and a theorem about the
component by itself; those of the office follow because what moves is one part, and the
others rest.

`PartsProofs` has the components of `OfficeParts` in which requests overlap:
- `RadarScore` (`ScoreInv`): a screen that shows the row's version shows its score,
  whatever evidence has been stored since, because whatever changes the score raises
  the version.
- `WebMutation` (`WebInv`): all requests of one intention have one key, which is at
  hand while the form is open and unchanged, and an intention that was applied is on
  record as done under it.
- `WebEditor` (`EditorInv`): on `HonestPages` a form that is part of the page is filled
  with what the page shows, and a save that awaits its answer sends the version its
  fields were filled from, so it is accepted only if nothing was written since.
- `WebSession` (`TokensInv`): a refresh that runs is the promise in flight, and who
  waits for a new token waits for a forced promise, which brings one that was not
  issued before.
- `ActorSession` (`SessionInv`): the rights a user has now are in the history of its
  requests, what the guard has read stays with the request, and no token outlasts
  the term.
- `SlaSettings` (`SettingsInv`): who may still commit has seen the latest definition,
  and a publication all that it is to move; the others are doomed by the commit that
  came between (`CommitDooms`).
- `RadarCandidates` (`CandidatesInv`): nobody has decided on the candidate of a decision
  that may still commit, and the creation of a first candidate will not be a second
  one (`Knows`). A merge whose target was written meanwhile (`Outdated`) may yet
  commit, so that the end of merges is said of the graph with these already in it
  (`PathsEnd`: every set of candidates has one whose merges lead out of it).
- `AnAdministratorRemains`: the invariant (`FindingsStayTrue`) is that what a
  transaction on users has found is so until it commits or is doomed (`Decided`,
  `UpToDate`). The lemma that carries it, `CommitSpares`, is about
  `SerializableSnapshot`: of two transactions that each search for another
  administrator and take one away, the first to commit dooms the other.
- `AdministrationImplementsTwin`: every commit is a creation or an update of the
  in-memory service, every other step a stutter. It rests on the same invariant:
  the search of a transaction that commits still holds, so the in-memory service
  would let the change through.
- `WeeklyImplementsTwin`: the revisions of a week are 1 to their number (`Numbered`),
  and a generation that may still commit knows whether its snapshot exists and, if
  not, the next number; whoever stores a snapshot of that week meanwhile dooms it.
- `ImportsStaySound` and `ImportImplementsTwin`: the rows of a preview that would change
  an organization are each for a host of its own (`Apart`), so the order in which a
  commit applies them does not matter; what a row says of its organization holds as
  long as organizations are not removed (`Sound`); and a request that no other has
  overtaken is about an import still in preview. A commit applies its rows in one step
  of both services, which is shown row by row, without an induction over the file.

`OfficeProofs` has the components on pages, lists and files:
- `PageRenderer` (`RendererInv`): the shared browser is that of the last launch and no
  other is on, a context is that of the page a render is at, and the results and the
  pages still to do are together the first pages of the list.
- `EmbedCheck` (`EmbedInv`): while the page is fetched nothing was answered, and while
  the player is, the answer was a good page that embeds one.
- `TrafficEstimate` (`TrafficInv`): a rank that is kept was in the list at the time it
  was kept at, and the list of any time is only added to; nobody else asks beside a
  lonely request, so the pause it computed when it asked still holds when it wakes.
- `SiteInspection` (`SiteInv`): past the first two steps the page is among those read,
  and what else was read is among the pages chosen, of which there are few enough.
- `RadarSourcing` (`SourcingInv`, `CycleIsRight`): a cycle that is about to create a
  candidate of a host that has one meets the key the first creation left; and each
  seed is tracked, or still in the queue of the cycle, unless the cycle is full.

`OverlapProofs` has the components that read in parts, cut, or answer again what others
write:
- `RegistryReadsAreComplete`: what was read of an organization is what it still is,
  unless a writer has changed the organization since (`QuietIsRead`); a placement read as
  failed was in trouble, and one read as not failed was calm, at some moment of the
  request (`TroubleIsRead`). That the filtered and cut rows tell this (`QuietIsListed`,
  `TroubleIsListed`) needs that a row shows the opportunity with the highest score.
- `QueueAnswersAreTrue`: a task is never undone, and its version and due day only grow
  (`TasksGo`), so what a transaction has applied is still so when the queue is read and
  counted (`Serves`), and when the recorded answer is sent again (`Keeps`). Of replays
  (`ReplayInv`): unless two requests of a key have rendered at once, one that renders is
  alone, and nothing was kept or sent before; one that has kept its answer has the kept
  one. Two transactions
  of one key cannot both be under way; the trail stays a chain because the version a
  transaction read is that of its row when it commits.
- `ReportsTellTheWorst`: severity, age, opportunity and code order the exceptions strictly
  (`BeforeIsAnOrder`); what has fewer than `n` before it is among the first `n`, so the first
  of a list that was cut to its first are the first of the whole (`FirstOfFirst`). Hence
  the lists of escalations and stalls that are cut, merged and cut again
  lose nothing of the worst (`WorstOfAll`), and a list that is cut is not empty if there
  was anything to cut (`FirstIsSome`), so that each kind of trouble has its decision
  (`TroublesAreDecided`).

and the office as a whole:
- `DecisionsAreInformed` (`DecidedScoreWasSeen`), `FormsAreSent` (`FormsAreSafe`),
  `InspectionsAreSound` (`InspectionIsSound`) and `OverlapsStaySafe` (`OverlapsAreSafe`),
  whole.
- `TwinsAreImplemented` (`ImplementsTwins`, whole). Candidates, access, settings and weekly
  reports share the database's record of conflicts (`out`, `doomed`), so that their
  invariants are shown together (`SharedInv`): a part that rests is not spoken of, and the
  one that moves is what it is alone.
- `ReadsStayComplete`: `ReadsAreComplete`, whichever part moves but three, `CsvFiles`,
  `LegalRegister` and `SiteInspection`.
- `TypesStayRight`: `TypeOK`, whichever part moves but four, `RadarScore`,
  `TrafficEstimate`, `CsvFiles` and `LegalRegister`.

Assumptions of the proofs: the types of the constants (`*Assumption`), names that
differ (workers from `Null` and from the states of a record, `None` from commands, records,
providers, lists of rows, observations, and what a page answers), stages numbered 0 to 10 besides
SX and SL, at least one founder, one version of a user and of a row, and one token of the
shell, a week no longer than the time that is modelled, files and frames that are sequences,
finitely many requests on contacts, hosts in sourcing, pages of a site and opportunities that
are listed or reported, scores that differ, and nothing else; the bounds are parameters.

Only model-checked:
- the liveness properties (`EventuallyPublished`, `IncidentSettles`, `DueIsHandled`,
  `RequestIsServed`, `DueIsInspected`), which are out of the prover's reach;
- of the office's `ReadsAreComplete`, what it says of files (`CsvFiles`), of the register of
  legal entities (`LegalRegister`) and of the dossier of a site (`SiteInspection`);
- of the office's `TypeOK`, the types of a score (`RadarScore`), of an estimate
  (`TrafficEstimate`), of a file (`CsvFiles`) and of what the register found
  (`LegalRegister`).

What the last two say is computed over data by folds and filters of sequences, of
which the provers know nothing without an induction over the data: there TLC
evaluates every input of a bounded set, and the interest is in the inputs.

## Not modelled

- Texts: how HTML shows a finding (`radar-feature-extractor.ts`, its patterns), the
  wording of dossiers, notifications and audits, XLSX.
- Verification of signatures and OIDC tokens, password hashing, the limit on
  logins: computations on one request, with no state that two requests share (but
  the counter of the limit).
- Pagination, search and filters of lists: reads that decide nothing.
- Registration of a placement and of the first opportunity of an organization: the
  initial states of their modules.
- A worker's batch of several jobs, other than the relay's: the jobs of a batch
  share its lease only, and a lease may be up at any moment anyway.
- The presentation of the web client.
- One team at a time, in all modules but `ActorSession`: the scope of the actor is
  a conjunct of every query and no transaction crosses it.
