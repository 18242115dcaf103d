-------------------------------- MODULE Office --------------------------------
(***************************************************************************)
(* The components whose transactions are serializable, or short, beside    *)
(* each other: each takes its steps while the others rest, and whatever    *)
(* they promise is kept by all steps.                                      *)
(***************************************************************************)
EXTENDS OfficeParts

CONSTANTS
  \* RadarSourcing
  SourcingHosts, InlineSeeds, InFile, LinksOf, Excluded, MaxNew, MaxSites, MaxDomains,
  \* CsvFiles
  Header, FieldOf, Required, TableRows, MaxRows, MaxTable, MaxText, Space, Letters,
  \* TrafficEstimate
  RankedHosts, Ranks, Counts, Ttl, Pause, MaxMoment,
  \* SiteInspection, EmbedCheck, LegalRegister, PageRenderer
  FrontPage, Links, Videos, Documents, Rules, Findings, Players, Feeds, VisitsTold, Regions, Directors,
  MaxLinked, MaxRendered,
  Urls, RefusedUrls, Public, Private, Documented, Frames, HttpStatuses, MaxRedirects,
  Number, OfPerson, Keyed, Leads, Rows, Persons, EntityRegions, MaxPolls,
  Lists, RenderedHosts, Blocked, MaxPages, MaxLaunches

VARIABLES
  part,
  phase, disallowed, requested, rendered, legacy, players, listed, pending, read, research,
  observation,
  found, entered, rejected, tracked, markers, asked, cycle,
  provider, moment, ranking, ranked, cache, lastRequestAt, call, estimate,
  fetch, landing, verdict, told,
  prospects, lookup, polls, card, enriched, answered,
  table, file, upload,
  browserPromise, browsers, contexts, calls, renderings, closings

inspections == <<phase, disallowed, requested, rendered, legacy, players, listed, pending, read,
                 research, observation>>
cycles == <<found, entered, rejected, tracked, markers, asked, cycle>>
estimates == <<provider, moment, ranking, ranked, cache, lastRequestAt, call, estimate>>
checks == <<fetch, landing, verdict, told>>
entity == <<prospects, lookup, polls, card, enriched, answered>>
browsing == <<browserPromise, browsers, contexts, calls, renderings, closings>>
sheets == <<table, file, upload>>
reads == <<payload, registry, session, tasks, sheets>>
services == <<cycles, estimates, checks, entity, browsing>>
web == <<forms, editor, tokens>>
screens == <<inspections, web>>
serializable == <<candidates, accounts, settings, weekly>>
office == <<serializable, scores, imports>>
vars == <<part, office, screens, reads, services, conflicts>>

-------------------------------------------------------------------------------
(* Instances *)

Site == INSTANCE SiteInspection WITH Traffic <- VisitsTold, Page <- FrontPage

Sourcing ==
  INSTANCE RadarSourcing WITH
    partners <- tracked, keys <- markers, Workers <- Requests, Hosts <- SourcingHosts,
    Inline <- InlineSeeds

Traffic ==
  INSTANCE TrafficEstimate WITH
    time <- moment, Inspections <- Requests, Hosts <- RankedHosts, Interval <- Pause,
    MaxTime <- MaxMoment

Embed ==
  INSTANCE EmbedCheck WITH
    page <- landing, observation <- verdict, Page <- FrontPage, Refused <- RefusedUrls,
    Statuses <- HttpStatuses

Legal ==
  INSTANCE LegalRegister WITH
    leads <- prospects, request <- lookup, result <- enriched, told <- answered,
    Regions <- EntityRegions

Renderer ==
  INSTANCE PageRenderer WITH
    answers <- renderings, closed <- closings, Renders <- Requests, Hosts <- RenderedHosts

Csv == INSTANCE CsvFiles WITH read <- upload, Rows <- TableRows

ASSUME OfficeAssumption ==
  /\ Site!InspectionAssumption /\ Sourcing!SourcingAssumption /\ Embed!EmbedAssumption
  /\ Legal!RegisterAssumption /\ Csv!CsvAssumption /\ Renderer!RendererAssumption
  /\ Traffic!TrafficAssumption

-------------------------------------------------------------------------------
Init ==
  /\ part \in {"candidates", "score", "import", "access", "settings", "weekly", "site", "web",
               "editor", "payload", "registry", "session", "today", "sourcing", "traffic", "embed",
               "legal", "csv", "renderer", "tokens"}
  /\ Cand!Init /\ (part # "candidates" => partners = {})
  /\ Scores!Init /\ (part # "score" => duplicate = None /\ features.traffic = None)
  /\ Import!Init /\ Access!Init /\ Settings!Init
  /\ Weekly!Init /\ (part # "weekly" => time = 0)
  /\ Site!Init
  /\ Web!Init /\ (part # "web" => dialog = "task")
  /\ Editor!Init /\ (part # "editor" => page = "users")
  /\ Payload!Init
  /\ Registry!Init
  /\ Session!Init /\ (part # "session" => granted = {} /\ \A u \in Users : role[u] = None)
  /\ Queue!Init
  /\ Sourcing!Init
  /\ Traffic!Init /\ (part # "traffic" => provider = None /\ \A h \in RankedHosts : ranking[h] = None)
  /\ Embed!Init
  /\ Legal!Init
  /\ Csv!Init
  /\ Renderer!Init
  /\ Tokens!Init

Next ==
  /\ UNCHANGED part
  /\ \/ part = "candidates" /\ Cand!Next
          /\ UNCHANGED <<scores, imports, accounts, settings, weekly, screens, reads, services>>
     \/ part = "score" /\ Scores!Next
          /\ UNCHANGED <<serializable, imports, screens, reads, services, conflicts>>
     \/ part = "import" /\ Import!Next
          /\ UNCHANGED <<serializable, scores, screens, reads, services, conflicts>>
     \/ part = "access" /\ Access!Next
          /\ UNCHANGED <<candidates, scores, imports, settings, weekly, screens, reads, services>>
     \/ part = "settings" /\ Settings!Next
          /\ UNCHANGED <<candidates, scores, imports, accounts, weekly, screens, reads, services>>
     \/ part = "weekly" /\ Weekly!Next
          /\ UNCHANGED <<candidates, scores, imports, accounts, settings, screens, reads, services>>
     \/ part = "site" /\ Site!Next
          /\ UNCHANGED <<office, web, reads, services, conflicts>>
     \/ part = "web" /\ Web!Next
          /\ UNCHANGED <<office, inspections, editor, tokens, reads, services, conflicts>>
     \/ part = "editor" /\ Editor!Next
          /\ UNCHANGED <<office, inspections, forms, tokens, reads, services, conflicts>>
     \/ part = "tokens" /\ Tokens!Next
          /\ UNCHANGED <<office, inspections, forms, editor, reads, services, conflicts>>
     \/ part = "payload" /\ Payload!Next
          /\ UNCHANGED <<office, screens, registry, session, tasks, sheets, services, conflicts>>
     \/ part = "registry" /\ Registry!Next
          /\ UNCHANGED <<office, screens, payload, session, tasks, sheets, services, conflicts>>
     \/ part = "session" /\ Session!Next
          /\ UNCHANGED <<office, screens, payload, registry, tasks, sheets, services, conflicts>>
     \/ part = "today" /\ Queue!Next
          /\ UNCHANGED <<office, screens, payload, registry, session, sheets, services, conflicts>>
     \/ part = "sourcing" /\ Sourcing!Next
          /\ UNCHANGED <<office, screens, reads, conflicts, estimates, checks, entity, browsing>>
     \/ part = "traffic" /\ Traffic!Next
          /\ UNCHANGED <<office, screens, reads, conflicts, cycles, checks, entity, browsing>>
     \/ part = "embed" /\ Embed!Next
          /\ UNCHANGED <<office, screens, reads, conflicts, cycles, estimates, entity, browsing>>
     \/ part = "legal" /\ Legal!Next
          /\ UNCHANGED <<office, screens, reads, conflicts, cycles, estimates, checks, browsing>>
     \/ part = "renderer" /\ Renderer!Next
          /\ UNCHANGED <<office, screens, reads, conflicts, cycles, estimates, checks, entity>>
     \/ part = "csv" /\ Csv!Next
          /\ UNCHANGED <<office, screens, payload, registry, session, tasks, services, conflicts>>

Spec == Init /\ [][Next]_vars

-------------------------------------------------------------------------------
TypeOK ==
  /\ part = "candidates" => Cand!TypeOK
  /\ part = "score" => Scores!TypeOK
  /\ part = "import" => Import!TypeOK
  /\ part = "access" => Access!TypeOK
  /\ part = "settings" => Settings!TypeOK
  /\ part = "weekly" => Weekly!TypeOK
  /\ part = "site" => Site!TypeOK
  /\ part = "web" => Web!TypeOK
  /\ part = "editor" => Editor!TypeOK
  /\ part = "payload" => Payload!TypeOK
  /\ part = "registry" => Registry!TypeOK
  /\ part = "session" => Session!TypeOK
  /\ part = "today" => Queue!TypeOK
  /\ part = "sourcing" => Sourcing!TypeOK
  /\ part = "traffic" => Traffic!TypeOK
  /\ part = "embed" => Embed!TypeOK
  /\ part = "legal" => Legal!TypeOK
  /\ part = "csv" => Csv!TypeOK
  /\ part = "renderer" => Renderer!TypeOK
  /\ part = "tokens" => Tokens!TypeOK

\* What serializable transactions that overlap must keep: merges of candidates end and
\* whoever adds one of a host that has one marks the duplicate (RadarCandidates), an active
\* administrator remains (AccessAdministration), and no open opportunity is under a process
\* version other than the latest unless it was reopened (SlaSettings).  Requests that
\* administrators overlap with act by rights their user had (ActorSession).  Cycles that
\* overlap make one candidate of a host, and pass over no host they should take
\* (RadarSourcing).  Renders that overlap share one browser, leave no context open, and answer
\* for each of their pages (PageRenderer).  Requests of the web client that overlap refresh a
\* token once, and are sent again with a newer one (WebSession).
OverlapsAreSafe ==
  /\ part = "candidates" => Cand!Canonical
  /\ part = "access" => Access!AdministratorRemains
  /\ part = "settings" => Settings!OpenUnderLatest
  /\ part = "session" => /\ Session!ActsByRightsHeld /\ Session!ActsInTerm
                         /\ Session!ScopesNest /\ Session!BootstrapEnds
  /\ part = "sourcing" => Sourcing!OneCandidatePerHost /\ Sourcing!NothingIsPassedOver
  /\ part = "renderer" => /\ Renderer!OneBrowser /\ Renderer!NoContextIsLeft
                          /\ Renderer!EveryPageIsAnswered
  /\ part = "tokens" => Tokens!OneRefresh /\ Tokens!RetryIsNewer

\* radar.md (RadarScore): a decision records the score that the manager saw.
DecidedScoreWasSeen == part = "score" => Scores!DecidedScoreWasSeen

\* ADR-0008 (SiteInspection): whatever fails after it, a page that was read is judged, and
\* no other, by requests robots.txt allows and no more of them than it may make.
\* Estimates of traffic are of a fresh list of ranks, a failure of the service is none, and
\* requests that do not overlap are apart (TrafficEstimate).  ADR-0007 (EmbedCheck): only
\* answers of servers are a failure of a placement, or its health.
InspectionIsSound ==
  /\ part = "site" => Site!Judged /\ Site!Polite
  /\ part = "traffic" => Traffic!EstimateIsFresh /\ Traffic!RequestsAreApart
  /\ part = "embed" => /\ Embed!FailureIsProven /\ Embed!HealthIsSeen
                       /\ Embed!StatusesWereAnswered

\* An unchanged form that is sent again is applied once (WebMutation), and a form does not
\* overwrite an edit that it did not show (WebEditor; those of contacts and of placements do,
\* see EditsAreKept).
FormsAreSafe ==
  /\ part = "web" => Web!AppliedOnce
  /\ part = "editor" /\ page \notin {"contact", "placement"} => Editor!EditsAreKept

\* Lists that are cut, and rows that are read one kind at a time while others write, tell no
\* less than they should: the worst of the week's trouble, with a decision on each kind of it
\* (WeeklyPayload), the trouble of placements, what did not change, and in the audit every
\* file that was exported (PartnerRegistry).  The queue that answers a command tells its
\* outcome, its replays repeat the answer unless two requests of the key render answers at
\* once, and the audit of reschedulings is a chain (TodayQueue).  Files of rows read back as
\* they were written, or as far as they came (CsvFiles).  The dossier of a site has a signal
\* for what counts in the score (SiteInspection); the register of legal entities goes before
\* DaData, and neither takes a lead that was known (LegalRegister).
ReadsAreComplete ==
  /\ part = "site" => Site!Explained
  /\ part = "legal" => Legal!LeadsAreKept /\ Legal!RegisterGoesFirst
  /\ part = "payload" => /\ Payload!WorstAreTold /\ Payload!WeeksAreWhole
                         /\ Payload!DigestTellsTrouble
  /\ part = "registry" => /\ Registry!IssueIsReal /\ Registry!QuietRowIsExact
                          /\ Registry!ExportIsAudited
  /\ part = "today" => /\ Queue!AnswersTellOutcome /\ Queue!ReplayRepeats
                       /\ Queue!TrailIsAChain
  /\ part = "csv" => Csv!ExportReadsBack /\ Csv!SheetReadsBack /\ Csv!CutKeepsRows

\* Overlapping commits and cancellations of imports over PostgreSQL end as those in memory,
\* one after the other (OrganizationImport), and so do changes of users
\* (AccessAdministration); and generations of a weekly report that overlap
\* make one snapshot of each moment and number the revisions of a week in order
\* (WeeklyReport).
ImplementsTwins ==
  /\ Import!Twin!Init /\ [][part = "import" => Import!Twin!Next]_(Import!Twin!vars)
  /\ Access!Twin!Init /\ [][part = "access" => Access!Twin!Next]_(Access!Twin!vars)
  /\ Weekly!Twin!Init /\ [][part = "weekly" => Weekly!Twin!Next]_reports
===============================================================================
