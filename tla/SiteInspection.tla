--------------------------- MODULE SiteInspection ---------------------------
(***************************************************************************)
(* The inspection of a candidate's page (monitoring/radar-page-inspector.ts)*)
(* over a network that may fail at every request: robots.txt, the page,    *)
(* the sitemaps and feeds it declares, pages of the same site read in      *)
(* parallel, the outside services, and a browser if no player was seen.    *)
(*                                                                         *)
(* An answer is what the code makes of it, a failure included; what limits *)
(* leave out of a longer list is any part of it.  URLs are as requested:   *)
(* where a redirect leads is left out, except that of the page to another  *)
(* origin.                                                                 *)
(*                                                                         *)
(* Research: the findings of the pages are merged; the dates of a feed,    *)
(* the register of legal entities and the players found are added          *)
(* (radar-feature-extractor.ts, legal-entity-enrichment.ts).  The finding  *)
(* of a page is a record: the features it shows (None where it shows       *)
(* none), the people with a role, the public contacts, and whether it      *)
(* names the tax number of its owner.  How HTML shows them, the wording of *)
(* the dossier and the confidence of a signal are left out.                *)
(***************************************************************************)
EXTENDS Integers, Sequences, FiniteSets, SequencesExt

CONSTANTS
  Page, Links, Videos,   \* the page, others of its site, those that look like videos
  Documents,             \* sitemaps and feeds
  Rules,                 \* what a robots.txt may disallow: sets of URLs
  Findings,              \* what pages may show, see IsFinding
  Players,               \* sequences of the players a page may embed, one of each vendor
  Feeds,                 \* days of the dates in a feed
  Traffic, Regions, Directors,  \* what the outside services answer
  MaxLinked, MaxRendered,  \* 11 pages of the site, 3 in the browser
  None

-------------------------------------------------------------------------------
(* Research *)

Maximum(a, b) == IF a >= b THEN a ELSE b

\* The first value that is known.  An unknown frequency is None too.
Known(values) ==
  LET known == SelectSeq(values, LAMBDA v : v # None)
  IN  IF known = <<>> THEN None ELSE Head(known)

Column(findings, field) == [i \in DOMAIN findings |-> findings[i][field]]

Concatenated(sequences) == FoldLeft(LAMBDA all, s : all \o s, <<>>, sequences)

-------------------------------------------------------------------------------
(* How often a site publishes *)

\* The days of the dates in a feed: at least two of them.  "daily" asks for five dates in
\* three days, or for 0.7 of them a day.
FrequencyOfFeed(days) ==
  LET n == Len(days)
      day == ToSet(days)
      span == Maximum(1, CHOOSE s \in {a - b : a, b \in day} : \A a, b \in day : s >= a - b)
  IN  IF n < 2 THEN None
      ELSE IF n >= 5 /\ (Cardinality(day) <= 3 \/ 10 * n >= 7 * (span + 1)) THEN "daily"
      ELSE IF 100 * n >= 12 * (span + 1) \/ span <= 14 THEN "weekly" ELSE "monthly"

-------------------------------------------------------------------------------
(* People *)

Reachable(lead) == {lead.email, lead.phone} # {None}

\* By e-mail or, without one, by name and role.
SameLead(p, q) ==
  IF p.email # None \/ q.email # None THEN p.email = q.email ELSE p.name = q.name /\ p.role = q.role

MergedLead(p, q) ==
  [p EXCEPT !.email = Known(<<@, q.email>>), !.phone = Known(<<@, q.phone>>),
            !.profile = Known(<<@, q.profile>>)]

AddLead(leads, lead) ==
  IF \E i \in DOMAIN leads : SameLead(leads[i], lead)
  THEN [i \in DOMAIN leads |-> IF SameLead(leads[i], lead) THEN MergedLead(leads[i], lead)
                                                           ELSE leads[i]]
  ELSE Append(leads, lead)

\* The smaller the priority of the role the earlier, whoever can be reached before others.
MergeDecisionMakers(leads) ==
  SortSeq(FoldLeft(AddLead, <<>>, leads),
          LAMBDA p, q : \/ p.role < q.role
                        \/ p.role = q.role /\ Reachable(p) /\ ~Reachable(q))

\* What a page shows, as extractRadarPageFeatures returns it: its people are merged.
IsFinding(finding) ==
  /\ DOMAIN finding = {"topic", "geography", "frequency", "leads", "emails", "phone", "page",
                       "videos", "inn"}
  /\ finding.frequency \in {None, "daily", "weekly", "monthly"}
  /\ MergeDecisionMakers(finding.leads) = finding.leads

\* The mailbox with the surname of a person who has none is theirs: a mailbox is a record
\* with its address and whose surname it has.
LinkEmails(leads, mailboxes) ==
  [i \in DOMAIN leads |->
     LET own == SelectSeq(mailboxes, LAMBDA box : box.surname # None /\ box.surname = leads[i].name)
     IN  IF leads[i].email # None \/ own = <<>> THEN leads[i]
                                                ELSE [leads[i] EXCEPT !.email = Head(own).address]]

-------------------------------------------------------------------------------
(* The message to the first contact *)

\* One that can be reached, otherwise the first of them.
NamedContact(leads) ==
  LET reachable == SelectSeq(leads, Reachable)
  IN  IF reachable # <<>> THEN Head(reachable)
      ELSE IF leads # <<>> THEN Head(leads)
      ELSE [name |-> None, role |-> 0, email |-> None, phone |-> None, profile |-> None]

Channel(person, contacts) ==
  IF person.email # None \/ contacts.emails # <<>> THEN "email"
  ELSE IF person.phone # None \/ contacts.phone # None THEN "phone"
  ELSE IF person.profile # None THEN "profile"
  ELSE IF contacts.page # None THEN "contact_page" ELSE "research"

Destination(person, contacts) ==
  Known(<<person.email, person.phone, person.profile>>
        \o [i \in DOMAIN contacts.emails |-> contacts.emails[i].address]
        \o <<contacts.phone, contacts.page>>)

Readiness(leads, contacts) ==
  IF leads # <<>> \/ contacts.emails # <<>> \/ contacts.phone # None THEN "ready_for_outreach"
  ELSE IF contacts.page # None THEN "contact_page_found" ELSE "needs_contact"

WorkBrief(leads, contacts) ==
  [readiness   |-> Readiness(leads, contacts),
   channel     |-> Channel(NamedContact(leads), contacts),
   destination |-> Destination(NamedContact(leads), contacts)]

-------------------------------------------------------------------------------
(* The site *)

MergeContacts(findings) ==
  [emails |-> Concatenated(Column(findings, "emails")),
   phone  |-> Known(Column(findings, "phone")),
   page   |-> Known(Column(findings, "page"))]

MergeFeatures(findings, traffic) ==
  [topic     |-> Known(Column(findings, "topic")),
   geography |-> Known(Column(findings, "geography")),
   frequency |-> Known(Column(findings, "frequency")),
   contacts  |-> \E i \in DOMAIN findings :
                   \/ findings[i].emails # <<>>
                   \/ {findings[i].phone, findings[i].page} # {None},
   traffic   |-> traffic]

\* The signal of a field is the one of the first page that has it.
MergeSignals(findings) ==
  [field \in {"topic", "geography", "frequency"} |-> Known(Column(findings, field))]

\* findings[1] is the page itself.
Merge(findings, traffic, videos) ==
  LET contacts == MergeContacts(findings)
      leads == LinkEmails(MergeDecisionMakers(Concatenated(Column(findings, "leads"))),
                          contacts.emails)
  IN  [features |-> MergeFeatures(findings, traffic),
       signals  |-> MergeSignals(findings),
       contacts |-> contacts,
       leads    |-> leads,
       videos   |-> videos \cup UNION Range(Column(findings, "videos")),
       inn      |-> \E i \in DOMAIN findings : findings[i].inn,
       brief    |-> WorkBrief(leads, contacts)]

\* A frequency that the pages show is kept.
AddFeed(research, days) ==
  LET frequency == Known(<<research.features.frequency, FrequencyOfFeed(days)>>)
  IN  [research EXCEPT !.features.frequency = frequency,
                       !.signals.frequency = frequency]

\* The register answers with a card, which may have a region, and with a head, from the
\* register itself or else from DaData; a failure of either is no answer.  The brief stays
\* as it was built.
AddLegalEntity(research, region, director) ==
  LET others == SelectSeq(research.leads, LAMBDA p : p.name # director.name)
      known == Known(<<research.features.geography, region>>)
  IN  IF ~research.inn THEN research
      ELSE [research EXCEPT !.leads = IF director = None THEN @ ELSE <<director>> \o others,
                            !.signals.geography = Known(<<@, region>>),
                            !.features.geography = known]

-------------------------------------------------------------------------------
(* Inspection *)

Statuses == {"found", "not_found", "blocked", "unknown"}

Codes == {None, "ROBOTS_ACCESS_DENIED", "ROBOTS_DISALLOWED", "PAGE_HTTP_BLOCKED",
          "PAGE_HTTP_ERROR", "PAGE_CONTENT_TYPE_UNSUPPORTED", "VIDEO_PATTERN_NOT_FOUND",
          "NETWORK_TARGET_BLOCKED", "RESPONSE_TOO_LARGE", "NETWORK_TIMEOUT", "NETWORK_ERROR"}

PageObservations ==
  [status : Statuses, confidence : {"high", "medium", "low"}, code : Codes]

InspectionAssumption ==
  /\ IsFiniteSet(Links) /\ Videos \subseteq Links /\ Page \notin Links \cup Documents
  /\ \A finding \in Findings : IsFinding(finding)
  /\ {} \in Rules /\ MaxLinked \in Nat /\ MaxRendered \in Nat \ {0}
  /\ None \notin PageObservations

VARIABLES
  phase,        \* the next step
  disallowed,   \* by the robots.txt that was read
  requested,    \* history: the URLs asked of the HTTP client
  rendered,     \* history: the URLs opened in the browser
  legacy,       \* the pattern in the page: None, "generic" or "named"
  players,      \* detections of the HTML, in the order of arrival
  listed,       \* URLs of the sitemaps and of the feeds, and those chosen to be read
  pending,      \* linked pages that are being read
  read,         \* what each page read shows
  research,
  observation

vars == <<phase, disallowed, requested, rendered, legacy, players, listed, pending, read,
          research, observation>>

TypeOK ==
  /\ phase \in {"robots", "page", "sitemaps", "feeds", "linked", "enrich", "finalize", "done"}
  /\ disallowed \in Rules
  /\ requested \subseteq {Page} \cup Links \cup Documents /\ rendered \subseteq {Page} \cup Links
  /\ legacy \in {None, "generic", "named"}
  /\ pending \subseteq Links /\ DOMAIN read \subseteq {Page} \cup Links
  /\ phase = "done" <=> observation # None
  /\ observation # None => observation \in PageObservations

Init ==
  /\ phase = "robots"
  /\ disallowed = {} /\ requested = {} /\ rendered = {}
  /\ legacy = None /\ players = <<>>
  /\ listed = [sitemaps |-> {}, feeds |-> {}, chosen |-> {}]
  /\ pending = {} /\ read = <<>>
  /\ research = None /\ observation = None

\* As many elements of S as a limit leaves, whichever come first.
Limited(S, limit) ==
  {T \in SUBSET S : Cardinality(T) = IF Cardinality(S) <= limit THEN Cardinality(S) ELSE limit}

Allowed(urls) == urls \ disallowed

\* addDetections: the first detection of a vendor stays.
Detected(sofar, found) ==
  sofar \o SelectSeq(found, LAMBDA p : \A i \in DOMAIN sofar : sofar[i].vendor # p.vendor)

Observed(status, confidence, code) ==
  /\ phase' = "done"
  /\ observation' = [status |-> status, confidence |-> confidence, code |-> code]

\* The catch of the whole inspection, over what the HTTP client throws.
Failed ==
  \E code \in {"NETWORK_TARGET_BLOCKED", "RESPONSE_TOO_LARGE", "NETWORK_TIMEOUT", "NETWORK_ERROR"} :
    IF code = "NETWORK_TARGET_BLOCKED" THEN Observed("blocked", "high", code)
                                       ELSE Observed("unknown", "low", code)

-------------------------------------------------------------------------------
(* The page *)

\* A robots.txt that is missing, or that the site fails to serve, disallows nothing.
ReadRobots ==
  /\ phase = "robots"
  /\ \/ Observed("blocked", "low", "ROBOTS_ACCESS_DENIED") /\ UNCHANGED disallowed
     \/ Failed /\ UNCHANGED disallowed
     \/ /\ disallowed' \in Rules
        /\ IF Page \in disallowed'
           THEN Observed("blocked", "high", "ROBOTS_DISALLOWED")
           ELSE phase' = "page" /\ UNCHANGED observation
  /\ UNCHANGED <<requested, rendered, legacy, players, listed, pending, read, research>>

\* The page answers with HTML, from its own origin or after a redirect from another.
ReadHtml ==
  /\ \E finding \in Findings : read' = [url \in {Page} |-> finding]
  /\ players' \in Players
  /\ legacy' \in {None, "generic", "named"}
  /\ phase' \in {"sitemaps", "enrich"}
  /\ UNCHANGED observation

ReadPage ==
  /\ phase = "page"
  /\ requested' = {Page}
  /\ \/ ReadHtml
     \/ /\ \/ Observed("blocked", "high", "PAGE_HTTP_BLOCKED")
           \/ Observed("unknown", "low", "PAGE_HTTP_ERROR")
           \/ Observed("unknown", "low", "PAGE_CONTENT_TYPE_UNSUPPORTED")
           \/ Failed
        /\ UNCHANGED <<legacy, players, read>>
  /\ UNCHANGED <<disallowed, rendered, listed, pending, research>>

-------------------------------------------------------------------------------
(* The pages of its site *)

\* Declared sitemaps, and one level of those an index lists; what fails adds nothing.
ReadSitemaps ==
  /\ phase = "sitemaps"
  /\ \E declared, children \in SUBSET Documents :
       LET asked == Allowed(declared)
           below == IF asked = {} THEN {} ELSE Allowed(children)
       IN  /\ requested' = requested \cup asked \cup below
           /\ \E urls \in IF asked = {} THEN {{}} ELSE SUBSET Links :
                listed' = [listed EXCEPT !.sitemaps = urls]
  /\ phase' = "feeds"
  /\ UNCHANGED <<disallowed, rendered, legacy, players, pending, read, research, observation>>

\* The feeds the page declares, and the pages to read: of its business links, of the
\* sitemaps and of the feeds.
ReadFeeds ==
  /\ phase = "feeds"
  /\ \E declared \in SUBSET Documents, business \in SUBSET Links :
       LET asked == Allowed(declared)
       IN  \E urls \in IF asked = {} THEN {{}} ELSE SUBSET Links :
             \E candidates \in Limited(business \cup listed.sitemaps \cup urls, MaxLinked) :
               /\ listed' = [listed EXCEPT !.feeds = urls, !.chosen = candidates]
               /\ pending' = Allowed(candidates)
               /\ requested' = requested \cup asked \cup Allowed(candidates)
  /\ phase' = "linked"
  /\ UNCHANGED <<disallowed, rendered, legacy, players, read, research, observation>>

\* Mutant: the failure of a linked page is thrown.
ThrowLinked(url) ==
  /\ pending' = pending \ {url}
  /\ Failed
  /\ UNCHANGED <<players, read>>

WithPage(url, finding) ==
  [other \in DOMAIN read \cup {url} |-> IF other \in DOMAIN read THEN read[other] ELSE finding]

\* The answers arrive in any order; one that fails, is not HTML or came from elsewhere
\* counts for nothing.
DropLinked(url) ==
  /\ pending' = pending \ {url}
  /\ UNCHANGED <<players, read, phase, observation>>

ReadLinked(url) ==
  /\ phase = "linked" /\ url \in pending
  /\ \/ DropLinked(url)
     \/ /\ pending' = pending \ {url}
        /\ \E finding \in Findings : read' = WithPage(url, finding)
        /\ \E found \in Players : players' = Detected(players, found)
        /\ UNCHANGED <<phase, observation>>
  /\ UNCHANGED <<disallowed, requested, rendered, legacy, listed, research>>

AllRead ==
  /\ phase = "linked" /\ pending = {}
  /\ phase' = "enrich"
  /\ UNCHANGED <<disallowed, requested, rendered, legacy, players, listed, pending, read, research,
                 observation>>

-------------------------------------------------------------------------------
(* The outside services *)

\* The page first and the others in some order of the list; sitemaps add leads to videos.
Extractions == <<read[Page]>> \o SetToSeq({read[url] : url \in DOMAIN read \ {Page}})

Enrich ==
  /\ phase = "enrich"
  /\ \E traffic \in Traffic \cup {None}, days \in Feeds \cup {<<>>},
        region \in Regions \cup {None}, director \in Directors \cup {None} :
       LET merged == Merge(Extractions, traffic, listed.sitemaps \cap Videos)
       IN  /\ region # None \/ director # None => merged.inn
           /\ days # <<>> => requested \cap Documents # {}
           /\ research' = AddLegalEntity(AddFeed(merged, days), region, director)
  /\ phase' = "finalize"
  /\ UNCHANGED <<disallowed, requested, rendered, legacy, players, listed, pending, read,
                 observation>>

-------------------------------------------------------------------------------
(* The verdict *)

\* The page, two of its videos, then what the feeds list or else all candidates.
Targets ==
  LET first == {{Page} \cup T : T \in Limited(listed.chosen \cap Videos, 2)}
      rest == IF listed.feeds # {} THEN listed.feeds ELSE listed.chosen
  IN  UNION {{S \cup T : T \in Limited(rest \ S, MaxRendered - Cardinality(S))} :
               S \in UNION {Limited(F, MaxRendered) : F \in first}}

\* A pattern that names its player wins over the catalog, and the catalog over a generic one.
Verdict(detected) ==
  IF legacy = "named" THEN \E confidence \in {"high", "medium"} : Observed("found", confidence, None)
  ELSE IF detected # <<>> \/ legacy = "generic" THEN Observed("found", "medium", None)
  ELSE Observed("not_found", "medium", "VIDEO_PATTERN_NOT_FOUND")

\* The browser opens pages when the HTML shows no player; whatever it fails at is left out.
Finalize ==
  /\ phase = "finalize"
  /\ \/ Verdict(players) /\ UNCHANGED <<players, rendered>>
     \/ /\ legacy = None /\ players = <<>>
        /\ rendered' \in Targets
        /\ players' \in Players
        /\ Verdict(players')
  /\ UNCHANGED <<disallowed, requested, legacy, listed, pending, read, research>>

Next ==
  \/ ReadRobots \/ ReadPage \/ ReadSitemaps \/ ReadFeeds
  \/ (\E url \in Links : ReadLinked(url)) \/ AllRead
  \/ Enrich \/ Finalize

Spec == Init /\ [][Next]_vars

-------------------------------------------------------------------------------
(* Properties *)

PageRead == Page \in DOMAIN read

\* ADR-0008 and the comments of the inspector: whatever happens to the requests that follow,
\* a page that was read is judged; absence is observed of no other; and only the page itself
\* makes a finding certain.
Judged ==
  phase = "done" =>
    /\ PageRead <=> observation.status \in {"found", "not_found"}
    /\ observation.status = "not_found" => players = <<>> /\ legacy = None
    /\ observation.status = "found" /\ observation.confidence = "high" => legacy = "named"

\* runbooks/radar.md: the HTTP client asks for nothing that robots.txt disallows, and for
\* no more pages than the inspection may read.
Polite ==
  /\ requested \cap disallowed = {}
  /\ Cardinality(DOMAIN read) <= 1 + MaxLinked /\ Cardinality(rendered) <= MaxRendered

\* ADR-0008: the dossier has a signal for what counts in the score, with the same value,
\* however many sources the value may come from; and it proposes a channel to write to
\* exactly if it knows where.
Explained ==
  research # None =>
    /\ \A field \in {"topic", "geography", "frequency"} :
         research.signals[field] = research.features[field]
    /\ research.brief.channel = "research" <=> research.brief.destination = None
=============================================================================
