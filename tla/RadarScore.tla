----------------------------- MODULE RadarScore -----------------------------
(***************************************************************************)
(* The score of one radar candidate and what managers do with it           *)
(* (persistence/postgres-radar.service.ts over the formula of              *)
(* domain/radar.ts): an inspection adds evidence and features and scores   *)
(* the candidate anew, a manager adjusts the score or decides on it, and   *)
(* each score is kept as a snapshot with its factors.                      *)
(*                                                                         *)
(* An inspection takes its time before it fetches the page and is applied  *)
(* after; other inspections and managers may come in between.  Applying,   *)
(* adjusting and deciding are serializable transactions on one row: a step *)
(* each.  Requests of inspections are in RadarInspection.                  *)
(***************************************************************************)
EXTENDS Integers, FiniteSets, Functions

CONSTANTS
  Inspectors,    \* processes that inspect
  Managers,
  Commands,      \* features a candidate may be created with
  Findings,      \* features an inspection may find
  Observations,  \* what an inspection may see of the page
  Adjustments,   \* manual adjustments
  MaxTime,       \* bound: operations
  None

AdjustmentsAssumption == Adjustments \subseteq -40 .. 40
TimeAssumption == MaxTime \in Nat

VARIABLES
  now,        \* the time, which passes with every operation
  features,   \* features_json, without the research
  duplicate,  \* "partner", "candidate" or None, as found at the creation
  evidence,   \* radar_evidence: times and observations
  score,      \* the candidate's score columns
  snapshots,  \* radar_score_snapshot
  open,       \* the status is not final
  version,
  decision,   \* the last of radar_decision
  inspection, \* what each inspector is doing: when it started, or None
  seen        \* the version and the total each manager has on the screen

row == <<features, duplicate, evidence, score, snapshots, open, version>>
vars == <<now, row, decision, inspection, seen>>

-------------------------------------------------------------------------------
(* The formula *)

TrafficPoints(t) ==
  CASE t = None -> 0
    [] t # None /\ t.visits >= 1000000 -> 22
    [] t # None /\ t.visits \in 250000 .. 999999 -> 17
    [] t # None /\ t.visits \in 50000 .. 249999 -> 11
    [] t # None /\ t.visits \in 1 .. 49999 -> 6
    [] OTHER -> 0

GeographyPoints(g) == CASE g = None -> 0 [] g = "Russia" -> 8 [] OTHER -> 4

PublicationPoints(f) ==
  CASE f = "daily" -> 8 [] f = "weekly" -> 5 [] f = "monthly" -> 2 [] OTHER -> 0

VideoVolumePoints(max) ==
  CASE max = None -> 0
    [] max # None /\ max >= 100 -> 13
    [] max # None /\ max \in 20 .. 99 -> 9
    [] max # None /\ max \in 1 .. 19 -> 4
    [] OTHER -> 0

If(condition, points) == IF condition THEN points ELSE 0

\* The factors of calculatePartnerScore: features f, the evidence's observation o or
\* None, a duplicate d.
Factors(f, o, d) ==
  [traffic |-> TrafficPoints(f.traffic),
   geography |-> GeographyPoints(f.geography),
   publishing |-> PublicationPoints(f.publishing),
   topic |-> If(f.topic # None, 10),
   videoVolume |-> VideoVolumePoints(f.videoMax),
   player |-> If(o # None /\ o.player, 10),
   competitorPlayer |-> If(o # None /\ o.competitor, 8),
   pageAccess |-> If(o # None /\ o.status \in {"found", "not_found"}, 3),
   cms |-> If(f.cms # None, 3),
   contacts |-> If(f.contacts, 15),
   duplicatePartner |-> If(d = "partner", -40),
   duplicateCandidate |-> If(d = "candidate", -25),
   unverifiedPage |-> If(o # None /\ o.status \in {"blocked", "unknown"}, -10),
   trafficConfidence |-> If(f.traffic # None /\ f.traffic.confidence = "low", -5)]

\* Mutant: a score may leave its range.
Unclamped(x) == x

Clamp(x) == IF x < 0 THEN 0 ELSE IF x > 100 THEN 100 ELSE x

Automatic(factors) == Clamp(FoldFunction(+, 0, factors))

Score(factors, adjustment) ==
  [automatic |-> Automatic(factors),
   adjustment |-> adjustment,
   total |-> Clamp(Automatic(factors) + adjustment)]

\* mergeRadarFeatures: what is known is not replaced by what an inspection finds.
Merge(current, found) ==
  [f \in DOMAIN current |->
     CASE f = "publishing" -> IF current[f] = "unknown" THEN found[f] ELSE current[f]
       [] f = "contacts" -> current[f] \/ found[f]
       [] OTHER -> IF current[f] = None THEN found[f] ELSE current[f]]

-------------------------------------------------------------------------------
(* The candidate *)

\* evidence.at(-1) of the evidence by its time.
Latest == CHOOSE e \in evidence : \A x \in evidence : x.at <= e.at

LatestObservation == IF evidence = {} THEN None ELSE Latest.seen

Totals == 0 .. 100

TypeOK ==
  /\ now \in 1 .. MaxTime + 1
  /\ duplicate \in {None, "partner", "candidate"}
  /\ \A e \in evidence : e.at \in 1 .. now /\ e.seen \in Observations
  /\ score.total \in Totals /\ score.automatic \in Totals
  /\ score.adjustment \in Adjustments \cup {0}
  /\ \A s \in snapshots : s.at \in 0 .. now /\ DOMAIN s.factors = DOMAIN Factors(features, None, None)
  /\ open \in BOOLEAN /\ version \in 1 .. now
  /\ inspection \in [Inspectors -> 1 .. now \cup {None}]
  /\ \A m \in Managers : seen[m].version \in 0 .. version

Init ==
  /\ now = 1
  /\ features \in Commands
  /\ duplicate \in {None, "partner", "candidate"}
  /\ evidence = {}
  /\ score = Score(Factors(features, None, duplicate), 0)
  /\ snapshots = {[at |-> 0, factors |-> Factors(features, None, duplicate)]}
  /\ open = TRUE /\ version = 1
  /\ decision = None
  /\ inspection = [i \in Inspectors |-> None]
  /\ seen = [m \in Managers |-> [version |-> 0, total |-> 0]]

Operation == now <= MaxTime /\ now' = now + 1

\* scoreColumns, scoreSnapshotData: a score as of a time.
StoreScore(factors, adjustment, at) ==
  /\ score' = Score(factors, adjustment)
  /\ snapshots' = snapshots \cup {[at |-> at, factors |-> factors]}

\* inspect up to the fetch; the observation carries the time of its start.
StartInspection(i) ==
  /\ Operation
  /\ inspection[i] = None
  /\ inspection' = [inspection EXCEPT ![i] = now]
  /\ UNCHANGED <<row, decision, seen>>

\* Mutant: an inspection counts as no change of the candidate.
KeepVersion == UNCHANGED version

NewVersion == version' = version + 1

\* The page is fetched and the observation o, with the features found, applied.
ApplyInspection(i, o, found) ==
  /\ inspection[i] # None
  /\ open
  /\ inspection' = [inspection EXCEPT ![i] = None]
  /\ evidence' = evidence \cup {[at |-> inspection[i], seen |-> o]}
  /\ features' = Merge(features, found)
  /\ StoreScore(Factors(Merge(features, found), o, duplicate), score.adjustment, inspection[i])
  /\ NewVersion
  /\ UNCHANGED <<now, duplicate, open, decision, seen>>

\* The fetch or the transaction fails, the process dies, or a decision is final.
LoseInspection(i) ==
  /\ inspection[i] # None
  /\ inspection' = [inspection EXCEPT ![i] = None]
  /\ UNCHANGED <<now, row, decision, seen>>

View(m) ==
  /\ seen' = [seen EXCEPT ![m] = [version |-> version, total |-> score.total]]
  /\ UNCHANGED <<now, row, decision, inspection>>

\* assertVersion
Current(m) == seen[m].version = version

\* The response is the candidate with its new version.
AdjustScore(m, adjustment) ==
  /\ Operation
  /\ open /\ Current(m)
  /\ StoreScore(Factors(features, LatestObservation, duplicate), adjustment, now)
  /\ version' = version + 1
  /\ seen' = [seen EXCEPT ![m] = [version |-> version', total |-> score'.total]]
  /\ UNCHANGED <<features, duplicate, evidence, open, decision, inspection>>

\* A deferral leaves the candidate open.
Decide(m, final) ==
  /\ Operation
  /\ open /\ Current(m)
  /\ open' = ~final
  /\ version' = version + 1
  /\ decision' = [by |-> m, total |-> score.total, shown |-> seen[m].total]
  /\ UNCHANGED <<features, duplicate, evidence, score, snapshots, inspection, seen>>

Next ==
  \/ \E i \in Inspectors :
       \/ StartInspection(i)
       \/ \E o \in Observations, found \in Findings : ApplyInspection(i, o, found)
       \/ LoseInspection(i)
  \/ \E m \in Managers :
       \/ View(m)
       \/ \E a \in Adjustments : AdjustScore(m, a)
       \/ \E final \in BOOLEAN : Decide(m, final)

Spec == Init /\ [][Next]_vars

-------------------------------------------------------------------------------
(* Properties *)

\* docs/runbooks/radar.md: a decision records the score the manager saw when deciding,
\* whatever inspections and adjustments were under way.
DecidedScoreWasSeen == decision # None => decision.total = decision.shown
=============================================================================
