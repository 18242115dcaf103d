------------------------------- MODULE MCOffice -------------------------------
(* Each part of the office from its own initial states, on data that tell its *)
(* cases apart.                                                               *)
EXTENDS Office, Integers, TLC

CONSTANTS
  t1, t2, a, b, x, y, u1, u2, u3, o1, o2, manager, i1, i2, worker, user, f, g, j1, j2,
  front, article, video, sitemap, anna, box, form1, form2, near, far, bella, space, letter

-------------------------------------------------------------------------------
(* RadarScore *)

Features(traffic, videos, frequency) ==
  [traffic |-> traffic, geography |-> None, publishing |-> frequency, topic |-> "news",
   videoMax |-> videos, cms |-> None, contacts |-> FALSE]

Visits == [visits |-> 60000, confidence |-> "low"]

NewFeatures == {Features(None, None, "unknown"), Features(Visits, 150, "daily")}

FoundFeatures == {Features(None, None, "unknown"), Features(Visits, 12, "weekly")}

SeenPages ==
  {[status |-> "found", player |-> TRUE, competitor |-> TRUE],
   [status |-> "blocked", player |-> FALSE, competitor |-> FALSE]}

ManualAdjustments == {-40, 15}

-------------------------------------------------------------------------------
(* OrganizationImport *)

FileRow(h, n) == [host |-> h, name |-> n]

ImportedFiles ==
  {<<FileRow(a, x), FileRow(b, y)>>, <<FileRow(a, y), FileRow(a, x)>>,
   <<FileRow(b, x), FileRow(None, y)>>}

-------------------------------------------------------------------------------
(* WeeklyReport: the data of one week as of two moments, by other formulas, and a week *)
(* that is not over, by data of the future.                                            *)

RequestedReports ==
  {[period |-> c[1], asOf |-> c[2], formula |-> c[3]] :
     c \in {<<-Week, 1, f>>, <<-Week, 2, f>>, <<-Week, 1, g>>, <<0, 3, f>>}}

-------------------------------------------------------------------------------
(* SiteInspection: a page that shows the owner only, one with a head and one with her *)
(* mailbox.                                                                           *)

Finding(topic, geography, frequency, leads, emails, contactPage, inn) ==
  [topic |-> topic, geography |-> geography, frequency |-> frequency, leads |-> leads,
   emails |-> emails, phone |-> None, page |-> contactPage, videos |-> {}, inn |-> inn]

Lead(level) == [name |-> anna, role |-> level, email |-> None, phone |-> None, profile |-> None]

RobotsRules == {{}, {front}, {article, sitemap}}

PageFindings ==
  {Finding(None, None, None, <<>>, <<>>, None, TRUE),
   Finding("news", a, "weekly", <<Lead(1)>>, <<>>, front, FALSE),
   Finding(None, b, None, <<Lead(1)>>, <<[address |-> box, surname |-> anna]>>, None, FALSE)}

PlayersFound == {<<>>, <<[vendor |-> "youtube", competitor |-> TRUE]>>}

DatedFeeds == {<<1, 2, 3, 4, 5>>}

Heads == {Lead(0)}

-------------------------------------------------------------------------------
(* PartnerRegistry: of two opportunities of an organization the first has the higher *)
(* score.                                                                            *)

PartnerOf == <<a, a, b>>
ScoresOf == <<80, 40, 60>>

(* ActorSession: a colleague of the user owns the organization of the user's opportunity. *)

Teams == (u1 :> f) @@ (u2 :> f)
Owner == a :> u2
OpportunityOwner == a :> u1

(* TodayQueue *)

Complete(next, days) == [kind |-> "complete", next |-> next, due |-> days]

Reschedule(days) == [kind |-> "reschedule", due |-> days]

TaskCommands ==
  {Complete("waiting", 3), [kind |-> "complete", next |-> "close"], Reschedule(2), Reschedule(3)}

-------------------------------------------------------------------------------
(* RadarSourcing: a host by two forms of its address, and two hosts that link to each *)
(* other.                                                                             *)

Entry(h, address) == [host |-> h, address |-> address]

SeedUrls == <<Entry(a, "seed"), Entry(None, "seed")>>
SeedFile == <<Entry(a, "other")>>
LinksBetween == (a :> <<b>>) @@ (b :> <<a>>)

(* TrafficEstimate: a host that may be in a band or beyond the last. *)

DailyVisits == {<<>>, <<7>>, <<0, 11, 2>>}

(* EmbedCheck and PageRenderer *)

EmbeddedFrames == {<<>>, <<article>>, <<article, video>>}
RenderedLists == {<<>>, <<article>>, <<front, article, video>>}

-------------------------------------------------------------------------------
(* LegalRegister *)

RegisterRow(number, head, title, region) ==
  [number |-> number, individual |-> title # None, head |-> head, title |-> title,
   region |-> region]

Known(person, mailbox) == [name |-> person, mailbox |-> mailbox]

KnownLeads == {<<Known(anna, box), Known(None, front), Known(bella, None)>>}

RegisterRows ==
  {<<>>, <<RegisterRow("other", bella, None, a), RegisterRow("own", anna, None, b)>>,
   <<RegisterRow("other", bella, None, a)>>, <<RegisterRow("own", None, anna, None)>>,
   <<RegisterRow("own", "unreadable", anna, a)>>}

-------------------------------------------------------------------------------
(* CsvFiles: cells with quotes, delimiters, breaks, a formula, and a row of blanks. *)

Columns == <<<<x>>, <<y>>, <<letter>>>>

FieldsOf == (<<x>> :> "organization_name") @@ (<<y>> :> "domain")

Cells ==
  {<<<<letter, "\"", ";", letter>>, <<";", "\"">>, <<>>>>,
   <<<<space, "=", ",">>, <<"\r", "\n", letter>>, <<letter>>>>,
   <<<<>>, <<space, "\n">>, <<>>>>}

Symmetry == Permutations(Requests)
===============================================================================
