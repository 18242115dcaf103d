------------------------------ MODULE PartsProofs ------------------------------
(***************************************************************************)
(* Proofs about the components of OfficeParts, each by itself: of those    *)
(* whose requests overlap, and of those whose transactions end as the      *)
(* services in memory do, one after the other. Those that read what others *)
(* write are in OverlapProofs.                                             *)
(***************************************************************************)
EXTENDS OfficeParts, Integers, Sequences, FiniteSetTheorems, SequenceTheorems,
        WellFoundedInduction, TLAPS

-------------------------------------------------------------------------------
(* RadarScore: a version of a candidate has one score.                        *)

\* What a manager has on the screen is not newer than the row, and of the row's version it
\* is the row's score.
ScreenShowsScore ==
  \A m \in Managers :
    /\ seen[m].version \in 0 .. version
    /\ seen[m].version = version => seen[m].total = score.total

ScoreInv ==
  /\ version \in Nat \ {0}
  /\ DOMAIN seen = Managers
  /\ ScreenShowsScore
  /\ Scores!DecidedScoreWasSeen

LEMMA ScoreInitially == Scores!Init => ScoreInv
  BY DEF Scores!Init, ScoreInv, ScreenShowsScore, Scores!DecidedScoreWasSeen

LEMMA ScoreInductive == ScoreInv /\ [Scores!Next]_(Scores!vars) => ScoreInv'
<1> SUFFICES ASSUME ScoreInv, [Scores!Next]_(Scores!vars) PROVE ScoreInv'
  OBVIOUS
<1> USE DEF ScoreInv, ScreenShowsScore, Scores!DecidedScoreWasSeen
<1>1. CASE UNCHANGED Scores!vars
  BY <1>1 DEF Scores!vars, Scores!row
<1>2. ASSUME NEW i \in Inspectors, Scores!StartInspection(i) PROVE ScoreInv'
  BY <1>2 DEF Scores!StartInspection, Scores!row
<1>3. ASSUME NEW i \in Inspectors, NEW o \in Observations, NEW facts \in ScoreFindings,
             Scores!ApplyInspection(i, o, facts)
      PROVE  ScoreInv'
  <2>1. version' = version + 1 /\ UNCHANGED <<seen, decision>>
    BY <1>3 DEF Scores!ApplyInspection, Scores!NewVersion
  <2> QED
    BY <2>1
<1>4. ASSUME NEW i \in Inspectors, Scores!LoseInspection(i) PROVE ScoreInv'
  BY <1>4 DEF Scores!LoseInspection, Scores!row
<1>5. ASSUME NEW m \in Managers, Scores!View(m) PROVE ScoreInv'
  BY <1>5 DEF Scores!View, Scores!row
<1>6. ASSUME NEW m \in Managers, NEW a \in Adjustments, Scores!AdjustScore(m, a)
      PROVE  ScoreInv'
  BY <1>6 DEF Scores!AdjustScore
<1>7. ASSUME NEW m \in Managers, NEW final \in BOOLEAN, Scores!Decide(m, final)
      PROVE  ScoreInv'
  BY <1>7 DEF Scores!Decide, Scores!Current
<1> QED
  BY <1>1, <1>2, <1>3, <1>4, <1>5, <1>6, <1>7 DEF Scores!Next

\* Between the moment a manager opens a candidate and the moment the decision is stored, any
\* number of inspections and adjustments may be applied: a decision that is stored records
\* the score that was on the screen (docs/runbooks/radar.md).
THEOREM DecisionsRecordWhatWasSeen == Scores!Spec => []Scores!DecidedScoreWasSeen
  BY ScoreInitially, ScoreInductive, PTL DEF Scores!Spec, ScoreInv

-------------------------------------------------------------------------------
(* WebMutation: an intention of the user has one key.                         *)

\* Requests that may still be applied, or have been.
Sent == travelling \cup {records[k].request : k \in DOMAIN records}

\* A request belongs to an intention that the user has had.
RequestsAreIntended == \A r \in Sent : r.intent \in 1 .. intent

\* All requests of one intention have one key.
OneKeyEach == \A r, s \in Sent : r.intent = s.intent => r.key = s.key

\* While a form is open and unchanged, its key is at hand once a request has it.
KeyIsAtHand ==
  shown => \A r \in Sent : r.intent = intent => content \in DOMAIN sentKeys /\ sentKeys[content] = r.key

RecordsAreOfTheirKey == \A k \in DOMAIN records : records[k].request.key = k

\* An intention that was applied is on record as done, for ever, under its key.
AppliedIsRecorded ==
  \A i \in 1 .. MaxIntent :
    applied[i] # 0 =>
      /\ applied[i] = 1
      /\ \E k \in DOMAIN records : records[k].done /\ records[k].request.intent = i

WebTyped ==
  /\ content \in Contents \cup {None} /\ (shown => content \in Contents)
  /\ sent \in 0 .. MaxRequest
  /\ sentKeys \in [DOMAIN sentKeys -> 1 .. MaxRequest]
  /\ travelling \subseteq Web!Request
  /\ records \in [DOMAIN records -> [request : Web!Request, done : BOOLEAN]]

WebInv ==
  /\ intent \in 0 .. MaxIntent /\ (shown => intent # 0)
  /\ applied \in [1 .. MaxIntent -> Nat]
  /\ RequestsAreIntended
  /\ OneKeyEach
  /\ KeyIsAtHand
  /\ RecordsAreOfTheirKey
  /\ AppliedIsRecorded

\* What the steps other than Submit and Arrives leave of the requests.
LEMMA WebKeeps ==
  ASSUME WebInv, intent' \in intent .. MaxIntent, UNCHANGED <<records, applied>>,
         travelling' \subseteq travelling,
         \/ UNCHANGED <<intent, content, sentKeys>> /\ (shown' => shown)
         \/ ~shown'
         \/ intent' # intent
  PROVE  WebInv'
<1> USE DEF WebInv
<1>1. Sent' \subseteq Sent
  BY DEF Sent
<1>2. \A r \in Sent : r.intent \in 1 .. intent
  BY DEF RequestsAreIntended
<1>3. RequestsAreIntended'
  <2> SUFFICES ASSUME NEW r \in Sent' PROVE r.intent \in 1 .. intent'
    BY DEF RequestsAreIntended
  <2>1. r.intent \in 1 .. intent
    BY <1>1, <1>2
  <2> QED
    BY <2>1
<1>4. OneKeyEach'
  BY <1>1 DEF OneKeyEach
<1>5. KeyIsAtHand'
  <2>1. CASE UNCHANGED <<intent, content, sentKeys>> /\ (shown' => shown)
    BY <1>1, <2>1 DEF KeyIsAtHand
  <2>2. CASE ~shown'
    BY <2>2 DEF KeyIsAtHand
  <2>3. CASE intent' # intent
    <3> SUFFICES ASSUME NEW r \in Sent' PROVE r.intent # intent'
      BY DEF KeyIsAtHand
    <3>1. r.intent \in 1 .. intent
      BY <1>1, <1>2
    <3> QED
      BY <2>3, <3>1
  <2> QED
    BY <2>1, <2>2, <2>3
<1>6. RecordsAreOfTheirKey' /\ AppliedIsRecorded'
  BY DEF RecordsAreOfTheirKey, AppliedIsRecorded
<1>7. intent' \in 0 .. MaxIntent /\ (shown' => intent' # 0)
  OBVIOUS
<1> QED
  BY <1>3, <1>4, <1>5, <1>6, <1>7

LEMMA WebInitially == Web!Init => WebInv
<1> SUFFICES ASSUME Web!Init PROVE WebInv
  OBVIOUS
<1> USE DEF Web!Init
<1>1. Sent = {}
  BY DEF Sent
<1>2. AppliedIsRecorded
  BY DEF AppliedIsRecorded
<1>3. intent \in 0 .. MaxIntent
  BY PartsAssumption DEF PartsAssumption, Web!WebAssumption
<1>4. applied \in [1 .. MaxIntent -> Nat]
  OBVIOUS
<1> QED
  BY <1>1, <1>2, <1>3, <1>4
  DEF WebInv, RequestsAreIntended, OneKeyEach, KeyIsAtHand, RecordsAreOfTheirKey

\* Sending again takes the key at hand.
LEMMA WebSubmit == WebInv /\ Web!Submit => WebInv'
<1> SUFFICES ASSUME WebInv, Web!Submit PROVE WebInv'
  OBVIOUS
<1> USE DEF WebInv
<1> DEFINE new == [number |-> sent + 1, key |-> sentKeys'[content], content |-> content,
                   intent |-> intent]
<1>1. /\ shown /\ sentKeys' = Web!KeysToSend /\ travelling' = travelling \cup {new}
      /\ UNCHANGED <<shown, content, intent, records, applied>>
  BY DEF Web!Submit
<1>2. Sent' = Sent \cup {new}
  BY <1>1 DEF Sent
<1>3. content \in DOMAIN sentKeys'
  BY <1>1 DEF Web!KeysToSend, Web!ScopedKey, Web!MutationKey, Web!Added
<1>4. content \in DOMAIN sentKeys => sentKeys' = sentKeys
  BY <1>1 DEF Web!KeysToSend, Web!ScopedKey, Web!MutationKey
<1>5. \A r \in Sent : r.intent = intent => sentKeys'[content] = r.key
  BY <1>1, <1>4 DEF KeyIsAtHand
<1>6. intent \in 1 .. MaxIntent
  BY <1>1
<1>7. RequestsAreIntended'
  BY <1>1, <1>2, <1>6 DEF RequestsAreIntended
<1>8. OneKeyEach'
  BY <1>2, <1>5 DEF OneKeyEach
<1>9. KeyIsAtHand'
  BY <1>1, <1>2, <1>3, <1>5 DEF KeyIsAtHand
<1>10. RecordsAreOfTheirKey' /\ AppliedIsRecorded'
  BY <1>1 DEF RecordsAreOfTheirKey, AppliedIsRecorded
<1> QED
  BY <1>1, <1>7, <1>8, <1>9, <1>10

LEMMA WebArrives == ASSUME WebInv, NEW r \in travelling, Web!Arrives(r) PROVE WebInv'
<1> USE DEF WebInv
<1>1. /\ travelling' = travelling \ {r}
      /\ UNCHANGED <<shown, content, intent, sentKeys, applied>>
  BY DEF Web!Arrives
<1>2. CASE UNCHANGED records
  BY <1>1, <1>2, WebKeeps
<1>3. CASE r.key \notin DOMAIN records
           /\ records' = Web!Added(records, r.key, [request |-> r, done |-> FALSE])
  <2>1. /\ DOMAIN records' = DOMAIN records \cup {r.key}
        /\ \A k \in DOMAIN records : records'[k] = records[k]
        /\ records'[r.key] = [request |-> r, done |-> FALSE]
    BY <1>3 DEF Web!Added
  <2>2. Sent' \subseteq Sent
    BY <1>1, <2>1 DEF Sent
  <2>3. RequestsAreIntended' /\ OneKeyEach' /\ KeyIsAtHand'
    BY <1>1, <2>2 DEF RequestsAreIntended, OneKeyEach, KeyIsAtHand
  <2>4. RecordsAreOfTheirKey'
    BY <2>1 DEF RecordsAreOfTheirKey
  <2>5. AppliedIsRecorded'
    BY <1>1, <2>1 DEF AppliedIsRecorded
  <2> QED
    BY <1>1, <2>3, <2>4, <2>5
<1> QED
  BY <1>2, <1>3 DEF Web!Arrives

\* Whatever else was applied for this intention would be done under the same key.
LEMMA WebApplies == ASSUME WebTyped, WebInv, NEW k \in DOMAIN records, Web!Applies(k) PROVE WebInv'
<1> USE DEF WebInv
<1> DEFINE i == records[k].request.intent
<1>1. /\ ~records[k].done
      /\ records' = [records EXCEPT ![k].done = TRUE]
      /\ applied' = [applied EXCEPT ![i] = @ + 1]
      /\ UNCHANGED <<shown, content, intent, sentKeys, travelling>>
  BY DEF Web!Applies
<1>2. /\ DOMAIN records' = DOMAIN records
      /\ \A l \in DOMAIN records : records'[l].request = records[l].request
      /\ \A l \in DOMAIN records : records[l].done => records'[l].done
      /\ records'[k].done
  BY <1>1 DEF WebTyped
<1>3. Sent' \subseteq Sent
  <2> SUFFICES ASSUME NEW r \in Sent' PROVE r \in Sent
    OBVIOUS
  <2>1. CASE r \in travelling'
    BY <1>1, <2>1 DEF Sent
  <2>2. CASE \E l \in DOMAIN records' : r = records'[l].request
    BY <1>2, <2>2 DEF Sent
  <2> QED
    BY <2>1, <2>2 DEF Sent
<1>4. RequestsAreIntended' /\ OneKeyEach' /\ KeyIsAtHand'
  BY <1>1, <1>3 DEF RequestsAreIntended, OneKeyEach, KeyIsAtHand
<1>9. RecordsAreOfTheirKey'
  <2> SUFFICES ASSUME NEW l \in DOMAIN records' PROVE records'[l].request.key = l
    BY DEF RecordsAreOfTheirKey
  <2>1. records'[l].request = records[l].request
    BY <1>2
  <2>2. records[l].request.key = l
    BY <1>2 DEF RecordsAreOfTheirKey
  <2> QED
    BY <2>1, <2>2
<1>5. i \in 1 .. MaxIntent
  BY DEF WebTyped, Web!Request
<1>6. applied[i] = 0
  <2> SUFFICES ASSUME applied[i] # 0 PROVE FALSE
    OBVIOUS
  <2>1. PICK l \in DOMAIN records : records[l].done /\ records[l].request.intent = i
    BY <1>5 DEF AppliedIsRecorded
  <2>2. records[l].request.key = records[k].request.key
    BY <2>1 DEF OneKeyEach, Sent
  <2>3. l = k
    BY <2>2 DEF RecordsAreOfTheirKey
  <2> QED
    BY <1>1, <2>1, <2>3
<1>7. applied' \in [1 .. MaxIntent -> Nat]
  BY <1>1, <1>5
<1>8. AppliedIsRecorded'
  <2> SUFFICES ASSUME NEW j \in 1 .. MaxIntent, applied'[j] # 0
               PROVE  /\ applied'[j] = 1
                      /\ \E l \in DOMAIN records' :
                           records'[l].done /\ records'[l].request.intent = j
    BY DEF AppliedIsRecorded
  <2>1. CASE j = i
    BY <1>1, <1>2, <1>5, <1>6, <2>1
  <2>2. CASE j # i
    BY <1>1, <1>2, <1>5, <2>2 DEF AppliedIsRecorded
  <2> QED
    BY <2>1, <2>2
<1> QED
  BY <1>1, <1>4, <1>7, <1>8, <1>9

LEMMA WebRejects == ASSUME WebInv, NEW k \in DOMAIN records, Web!Rejects(k) PROVE WebInv'
<1> USE DEF WebInv
<1>1. /\ ~records[k].done
      /\ records' = [l \in DOMAIN records \ {k} |-> records[l]]
      /\ UNCHANGED <<shown, content, intent, sentKeys, travelling, applied>>
  BY DEF Web!Rejects, Web!Restrict
<1>2. Sent' \subseteq Sent
  BY <1>1 DEF Sent
<1>3. RequestsAreIntended' /\ OneKeyEach' /\ KeyIsAtHand' /\ RecordsAreOfTheirKey'
  BY <1>1, <1>2 DEF RequestsAreIntended, OneKeyEach, KeyIsAtHand, RecordsAreOfTheirKey
<1>4. AppliedIsRecorded'
  BY <1>1 DEF AppliedIsRecorded
<1> QED
  BY <1>1, <1>3, <1>4

LEMMA WebTypes ==
  ASSUME WebTyped, intent \in 0 .. MaxIntent, shown => intent # 0, [Web!Next]_(Web!vars)
  PROVE  WebTyped'
<1>0. MaxIntent \in Nat /\ MaxRequest \in Nat
  BY PartsAssumption DEF PartsAssumption, Web!WebAssumption
<1> USE <1>0 DEF WebTyped
<1>1. CASE UNCHANGED Web!vars
  BY <1>1 DEF Web!vars
<1>2. CASE Web!Open
  BY <1>2 DEF Web!Open, Web!OpeningKeys, Web!FreshKey, Web!network
<1>3. CASE Web!Edit
  BY <1>3 DEF Web!Edit, Web!network
<1>4. CASE Web!Submit
  <2>1. /\ sentKeys' = Web!KeysToSend
        /\ waiting' = [number |-> sent + 1, key |-> sentKeys'[content], content |-> content,
                       intent |-> intent]
        /\ travelling' = travelling \cup {waiting'}
        /\ shown /\ sent < MaxRequest /\ sent' = sent + 1
        /\ UNCHANGED <<shown, content, records>>
    BY <1>4 DEF Web!Submit
  <2>2. sentKeys' \in [DOMAIN sentKeys' -> 1 .. MaxRequest] /\ content \in DOMAIN sentKeys'
    BY <2>1 DEF Web!KeysToSend, Web!ScopedKey, Web!MutationKey, Web!Added, Web!FreshKey
  <2>3. waiting' \in Web!Request
    BY <2>1, <2>2 DEF Web!Request
  <2> QED
    BY <2>1, <2>2, <2>3
<1>5. CASE Web!Cancel
  BY <1>5 DEF Web!Cancel, Web!Close, Web!network
<1>6. CASE Web!Accepted
  BY <1>6 DEF Web!Accepted, Web!Close, Web!Restrict
<1>7. CASE Web!Refused \/ Web!Disconnected
  BY <1>7 DEF Web!Refused, Web!Disconnected, Web!KeepKeys
<1>8. CASE Web!Conflict
  BY <1>8 DEF Web!Conflict, Web!Close
<1>9. ASSUME NEW r \in travelling, Web!Arrives(r) PROVE WebTyped'
  <2>1. [request |-> r, done |-> FALSE] \in [request : Web!Request, done : BOOLEAN]
    OBVIOUS
  <2>2. records' \in [DOMAIN records' -> [request : Web!Request, done : BOOLEAN]]
    BY <1>9, <2>1 DEF Web!Arrives, Web!Added
  <2> QED
    BY <1>9, <2>2 DEF Web!Arrives
<1>10. ASSUME NEW k \in DOMAIN records, Web!Applies(k) PROVE WebTyped'
  BY <1>10 DEF Web!Applies
<1>11. ASSUME NEW k \in DOMAIN records, Web!Rejects(k) PROVE WebTyped'
  BY <1>11 DEF Web!Rejects, Web!Restrict
<1> QED
  BY <1>1, <1>2, <1>3, <1>4, <1>5, <1>6, <1>7, <1>8, <1>9, <1>10, <1>11 DEF Web!Next

LEMMA WebInductive == WebTyped /\ WebInv /\ [Web!Next]_(Web!vars) => WebTyped' /\ WebInv'
<1> SUFFICES ASSUME WebTyped, WebInv, [Web!Next]_(Web!vars) PROVE WebTyped' /\ WebInv'
  OBVIOUS
<1>1. WebTyped'
  BY WebTypes DEF WebInv
<1> SUFFICES WebInv'
  BY <1>1
<1>2. intent \in 0 .. MaxIntent /\ (shown => intent # 0) /\ MaxIntent \in Nat
  BY PartsAssumption DEF WebInv, PartsAssumption, Web!WebAssumption
<1>3. CASE UNCHANGED Web!vars
  BY <1>2, <1>3, WebKeeps DEF Web!vars
<1>4. CASE Web!Open \/ Web!Edit
  BY <1>2, <1>4, WebKeeps DEF Web!Open, Web!Edit, Web!network
<1>5. CASE Web!Submit
  BY <1>5, WebSubmit
<1>6. CASE Web!Cancel \/ Web!Accepted \/ Web!Conflict
  BY <1>2, <1>6, WebKeeps DEF Web!Cancel, Web!Accepted, Web!Conflict, Web!Close, Web!network
<1>7. CASE Web!Refused \/ Web!Disconnected
  BY <1>2, <1>7, WebKeeps DEF Web!Refused, Web!Disconnected, Web!KeepKeys
<1>8. CASE \E r \in travelling : Web!Arrives(r)
  BY <1>8, WebArrives
<1>9. CASE \E k \in DOMAIN records : Web!Applies(k) \/ Web!Rejects(k)
  BY <1>9, WebApplies, WebRejects
<1> QED
  BY <1>3, <1>4, <1>5, <1>6, <1>7, <1>8, <1>9 DEF Web!Next

\* However often a form is sent again, closed and opened again, whatever answers get lost and
\* in whatever order requests arrive: each intention is applied once (lib/idempotency.ts).
THEOREM FormsAreAppliedOnce == Web!Spec => []Web!AppliedOnce
<1>1. WebInv => Web!AppliedOnce
  BY DEF WebInv, AppliedIsRecorded, Web!AppliedOnce
<1>2. Web!Init => WebTyped
  BY PartsAssumption DEF PartsAssumption, Web!WebAssumption, Web!Init, WebTyped
<1> QED
  BY <1>1, <1>2, WebInitially, WebInductive, PTL DEF Web!Spec

\* What TypeOK says of the form beyond WebTyped and WebInv.
WebSets ==
  /\ dialog \in Web!Form /\ shown \in BOOLEAN /\ error \in BOOLEAN
  /\ waiting \in Web!Request \cup {None}
  /\ dialog \in {"task", "stage"} => \A c, d \in DOMAIN sentKeys : c = d

LEMMA WebSetsStay == WebTyped /\ WebInv /\ WebSets /\ [Web!Next]_(Web!vars) => WebSets'
<1> SUFFICES ASSUME WebTyped, WebInv, WebSets, [Web!Next]_(Web!vars) PROVE WebSets'
  OBVIOUS
<1>1. WebTyped'
  BY WebTypes DEF WebInv
<1>2. CASE UNCHANGED Web!vars
  BY <1>2 DEF Web!vars, WebSets
<1>0. ASSUME sentKeys' = <<>> PROVE \A c, d \in DOMAIN sentKeys' : c = d
  <2>1. <<>> \in Seq({}) /\ Len(<<>>) = 0
    OBVIOUS
  <2>2. DOMAIN <<>> = 1 .. 0
    BY <2>1
  <2> QED
    BY <1>0, <2>2
<1>3. CASE Web!Open
  <2>1. dialog \in {"task", "stage"} => sentKeys' = <<>>
    BY <1>3 DEF Web!Open, Web!OpeningKeys
  <2> QED
    BY <1>0, <1>3, <2>1, Zenon DEF Web!Open, Web!network, WebSets
<1>4. CASE Web!Edit
  BY <1>4 DEF Web!Edit, WebSets
<1>5. CASE Web!Submit
  <2>1. /\ sentKeys' = Web!KeysToSend /\ shown /\ content \in Contents /\ sent < MaxRequest
        /\ sent \in 0 .. MaxRequest /\ intent \in 1 .. MaxIntent
        /\ waiting' = [number |-> sent + 1, key |-> sentKeys'[content], content |-> content,
                       intent |-> intent]
        /\ error' = FALSE /\ UNCHANGED <<dialog, shown, content, intent>>
        /\ MaxRequest \in Nat /\ MaxIntent \in Nat
    BY <1>5, PartsAssumption
    DEF Web!Submit, WebTyped, WebInv, PartsAssumption, Web!WebAssumption
  <2>2. content \in DOMAIN sentKeys'
    BY <2>1 DEF Web!KeysToSend, Web!ScopedKey, Web!MutationKey, Web!Added
  <2>3. sentKeys'[content] \in 1 .. MaxRequest
    BY <1>1, <2>2 DEF WebTyped
  <2>4. waiting' \in Web!Request
    BY <2>1, <2>3 DEF Web!Request
  <2>5. dialog \in {"task", "stage"} => sentKeys' = sentKeys \/ DOMAIN sentKeys' = {content}
    BY <2>1 DEF Web!KeysToSend, Web!MutationKey
  <2> QED
    BY <2>1, <2>4, <2>5, Zenon DEF WebSets
<1>6. CASE Web!Cancel
  <2>1. dialog \in {"task", "stage"} => sentKeys' = <<>>
    BY <1>6 DEF Web!Cancel
  <2> QED
    BY <1>0, <1>6, <2>1, Zenon DEF Web!Cancel, Web!Close, Web!network, WebSets
<1>7. CASE Web!Accepted
  <2>1. dialog \in {"task", "stage"} => sentKeys' = <<>>
    BY <1>7 DEF Web!Accepted
  <2> QED
    BY <1>0, <1>7, <2>1, Zenon DEF Web!Accepted, Web!Close, WebSets
<1>8. CASE Web!Refused \/ Web!Disconnected
  BY <1>8, Zenon DEF Web!Refused, Web!Disconnected, Web!KeepKeys, WebSets
<1>9. CASE Web!Conflict
  BY <1>0, <1>9, Zenon DEF Web!Conflict, Web!Close, WebSets
<1>10. ASSUME NEW r \in travelling, Web!Arrives(r) PROVE WebSets'
  BY <1>10 DEF Web!Arrives, WebSets
<1>11. ASSUME NEW k \in DOMAIN records, Web!Applies(k) \/ Web!Rejects(k) PROVE WebSets'
  BY <1>11 DEF Web!Applies, Web!Rejects, WebSets
<1> QED
  BY <1>2, <1>3, <1>4, <1>5, <1>6, <1>7, <1>8, <1>9, <1>10, <1>11 DEF Web!Next

LEMMA WebCardinality == \A S : Web!Cardinality(S) = Cardinality(S)
BY DEF Web!Cardinality, Cardinality

LEMMA WebIsTyped == WebTyped /\ WebInv /\ WebSets => Web!TypeOK
<1> SUFFICES ASSUME WebTyped, WebInv, WebSets PROVE Web!TypeOK
  OBVIOUS
<1>1. DOMAIN records \subseteq 1 .. MaxRequest
  <2> SUFFICES ASSUME NEW k \in DOMAIN records PROVE k \in 1 .. MaxRequest
    OBVIOUS
  <2>1. records[k].request \in Web!Request /\ records[k].request.key = k
    BY DEF WebTyped, WebInv, RecordsAreOfTheirKey
  <2> QED
    BY <2>1 DEF Web!Request
<1>2. dialog \in {"task", "stage"} => Cardinality(DOMAIN sentKeys) <= 1
  <2>1. CASE DOMAIN sentKeys = {}
    <3>1. Cardinality(DOMAIN sentKeys) = 0
      BY <2>1, FS_EmptySet
    <3> QED
      BY <3>1
  <2>2. ASSUME NEW c \in DOMAIN sentKeys, dialog \in {"task", "stage"}
        PROVE  Cardinality(DOMAIN sentKeys) <= 1
    <3>1. DOMAIN sentKeys = {c}
      BY <2>2 DEF WebSets
    <3>2. Cardinality({c}) = 1
      BY FS_Singleton
    <3> QED
      BY <3>1, <3>2
  <2> QED
    BY <2>1, <2>2
<1>3. dialog \in {"task", "stage"} => Web!Cardinality(DOMAIN sentKeys) <= 1
  BY <1>2, WebCardinality
<1>4. /\ dialog \in Web!Form /\ shown \in BOOLEAN /\ error \in BOOLEAN
      /\ waiting \in Web!Request \cup {None}
  BY Zenon DEF WebSets
<1>5. /\ content \in Contents \cup {None} /\ intent \in 0 .. MaxIntent
      /\ travelling \subseteq Web!Request
      /\ applied \in [1 .. MaxIntent -> Nat]
  BY Zenon DEF WebTyped, WebInv
<1> QED
  BY <1>1, <1>3, <1>4, <1>5, Zenon DEF Web!TypeOK

LEMMA WebTypesOK == Web!Spec => []Web!TypeOK
<1>1. Web!Init => WebTyped
  BY PartsAssumption DEF PartsAssumption, Web!WebAssumption, Web!Init, WebTyped
<1>2. Web!Init => WebSets
  <2> SUFFICES ASSUME Web!Init PROVE WebSets
    OBVIOUS
  <2>1. <<>> \in Seq({}) /\ Len(<<>>) = 0
    OBVIOUS
  <2>2. DOMAIN <<>> = 1 .. 0
    BY <2>1
  <2>3. \A c, d \in DOMAIN sentKeys : c = d
    BY <2>2 DEF Web!Init
  <2> QED
    BY <2>3, Zenon DEF Web!Init, WebSets
<1> QED
  BY <1>1, <1>2, WebInitially, WebInductive, WebSetsStay, WebIsTyped, PTL DEF Web!Spec

-------------------------------------------------------------------------------
(* WebEditor: a form sends the version of what it shows.                      *)

VersionRows == [Items -> Editor!Versions]

Drafts == [item : Items, base : Editor!Versions]

Saves ==
  [item : Items, base : Editor!Versions, version : Editor!Versions, rows : VersionRows,
   answer : {"awaited", "saved", "conflict"}]

EditorTyped ==
  /\ page \in EditorPages
  /\ row \in VersionRows
  /\ list = None \/ list \in VersionRows
  /\ selected \in Items
  /\ draft = None \/ (draft \in Drafts /\ list \in VersionRows)
  /\ \A f \in fetches : f \in [number : Nat, rows : {None} \cup VersionRows]
  /\ fetched \in Nat
  /\ save = None \/ (save \in Saves /\ list \in VersionRows)
  /\ \/ single = None
     \/ single \in [item : Items, version : {None} \cup Editor!Versions] /\ list \in VersionRows

\* EditorPages whose forms are filled again with every list, and the dialog that keeps the version it
\* was opened with.  The others keep what they were filled with and send the version of the
\* row that is shown: EditsAreKept does not hold of them.
HonestPages == {"users", "settings", "candidate", "stage"}

\* A form that is part of the page is filled with what the page shows.
FormIsFresh == Editor!Inline /\ draft # None => draft.base = list[draft.item]

\* A command that awaits its answer replaces what its form showed.
SaveIsHonest == save # None /\ save.answer = "awaited" => save.version = save.base

EditorInv == page \in HonestPages => FormIsFresh /\ SaveIsHonest /\ ~unseen

LEMMA EditorTypes == EditorTyped /\ [Editor!Next]_(Editor!vars) => EditorTyped'
<1> SUFFICES ASSUME EditorTyped, [Editor!Next]_(Editor!vars) PROVE EditorTyped'
  OBVIOUS
<1> USE DEF EditorTyped, VersionRows, Drafts, Saves, Editor!server, Editor!client
<1>1. CASE UNCHANGED Editor!vars
  BY <1>1 DEF Editor!vars
<1>2. CASE Editor!Fetch
  BY <1>2 DEF Editor!Fetch
<1>3. ASSUME NEW f \in fetches, Editor!Read(f) PROVE EditorTyped'
  <2>1. [f EXCEPT !.rows = row] \in [number : Nat, rows : {None} \cup VersionRows]
    OBVIOUS
  <2> QED
    BY <1>3, <2>1 DEF Editor!Read
<1>4. ASSUME NEW f \in fetches, Editor!Show(f) PROVE EditorTyped'
  <2>1. f.rows \in VersionRows
    BY <1>4 DEF Editor!Show
  <2> QED
    BY <1>4, <2>1 DEF Editor!Show, Editor!Shows, Editor!Refill
<1>5. ASSUME NEW f \in fetches, Editor!Drop(f) PROVE EditorTyped'
  BY <1>5 DEF Editor!Drop
<1>6. ASSUME NEW item \in Items, Editor!RequestRow(item) PROVE EditorTyped'
  BY <1>6 DEF Editor!RequestRow
<1>7. ASSUME NEW item \in Items, Editor!Select(item) PROVE EditorTyped'
  BY <1>7 DEF Editor!Select
<1>8. ASSUME NEW item \in Items, Editor!OthersEdit(item) PROVE EditorTyped'
  <2>1. row[item] + 1 \in Editor!Versions
    BY <1>8, PartsAssumption
    DEF PartsAssumption, Editor!EditorAssumption, Editor!OthersEdit, Editor!Versions
  <2> QED
    BY <1>8, <2>1 DEF Editor!OthersEdit
<1>9. CASE Editor!AnswerRow
  <2>1. single' \in [item : Items, version : {None} \cup Editor!Versions]
    BY <1>9 DEF Editor!AnswerRow
  <2> QED
    BY <1>9, <2>1 DEF Editor!AnswerRow
<1>10. CASE Editor!ReplaceRow
  <2>1. single.item \in Items /\ single.version \in Editor!Versions /\ list \in VersionRows
    BY <1>10 DEF Editor!ReplaceRow
  <2>2. [list EXCEPT ![single.item] = single.version] \in VersionRows
    BY <2>1
  <2> QED
    BY <1>10, <2>1, <2>2 DEF Editor!ReplaceRow, Editor!Shows, Editor!Refill
<1>11. CASE Editor!Open
  BY <1>11 DEF Editor!Open
<1>12. CASE Editor!Cancel
  BY <1>12 DEF Editor!Cancel
<1>13. CASE Editor!Submit
  <2>1. list \in VersionRows /\ Editor!SentVersion \in Editor!Versions
    BY <1>13 DEF Editor!Submit, Editor!SentVersion
  <2> QED
    BY <1>13, <2>1 DEF Editor!Submit
<1>14. CASE Editor!Accept
  <2>1. save \in Saves /\ list \in VersionRows
    BY <1>14 DEF Editor!Accept
  <2>2. row[save.item] + 1 \in Editor!Versions
    BY <1>14, <2>1, PartsAssumption
    DEF PartsAssumption, Editor!EditorAssumption, Editor!Accept, Editor!Versions
  <2>3. row' \in VersionRows
    BY <1>14, <2>1, <2>2 DEF Editor!Accept
  <2>4. save' \in Saves
    <3>1. save.version + 1 \in Editor!Versions
      BY <1>14, <2>2 DEF Editor!Accept
    <3>2. [save EXCEPT !.answer = "saved"] \in Saves
      BY <2>1
    <3>3. [save EXCEPT !.answer = "saved", !.version = @ + 1] \in Saves
      BY <2>1, <3>1, <3>2
    <3> QED
      BY <1>14, <3>3 DEF Editor!Accept
  <2> QED
    BY <1>14, <2>1, <2>3, <2>4 DEF Editor!Accept
<1>15. CASE Editor!Conflict
  <2>1. save' \in Saves
    BY <1>15 DEF Editor!Conflict
  <2> QED
    BY <1>15, <2>1 DEF Editor!Conflict
<1>16. CASE Editor!Saved
  <2>1. /\ save.item \in Items /\ save.version \in Editor!Versions
        /\ save.rows \in VersionRows /\ list \in VersionRows
    BY <1>16 DEF Editor!Saved
  <2>2. \A all \in VersionRows : [all EXCEPT ![save.item] = save.version] \in VersionRows
    BY <2>1
  <2>3. /\ Editor!Replaced(save.rows) \in VersionRows
        /\ Editor!Replaced(list) \in VersionRows
        /\ Editor!Replaced(save.rows)[save.item] \in Editor!Versions
        /\ Editor!Replaced(list)[save.item] \in Editor!Versions
    BY <2>1, <2>2 DEF Editor!Replaced
  <2>4. list' \in VersionRows /\ selected' \in Items /\ (draft' = None \/ draft' \in Drafts)
    <3>1. CASE Editor!UserSaved
      BY <3>1, <2>1, <2>3 DEF Editor!UserSaved, Editor!Shows, Editor!Refill
    <3>2. CASE Editor!SettingsSaved \/ Editor!CandidateSaved
      BY <3>2, <2>1, <2>3
      DEF Editor!SettingsSaved, Editor!CandidateSaved, Editor!Shows, Editor!Refill
    <3>3. CASE Editor!ContactSaved \/ Editor!PlacementSaved \/ Editor!StageMoved
      BY <3>3, <2>1, <2>3 DEF Editor!ContactSaved, Editor!PlacementSaved, Editor!StageMoved
    <3>4. page \in {"users", "settings", "candidate", "contact", "placement", "stage"}
      BY PartsAssumption DEF PartsAssumption, Editor!EditorAssumption
    <3> QED
      BY <1>16, <3>1, <3>2, <3>3, <3>4 DEF Editor!Saved
  <2> QED
    BY <1>16, <2>4 DEF Editor!Saved
<1>17. CASE Editor!Conflicted
  BY <1>17 DEF Editor!Conflicted
<1>18. CASE Editor!Unanswered
  BY <1>18 DEF Editor!Unanswered
<1> QED
  BY <1>1, <1>2, <1>3, <1>4, <1>5, <1>6, <1>7, <1>8, <1>9, <1>10, <1>11, <1>12, <1>13, <1>14,
     <1>15, <1>16, <1>17, <1>18 DEF Editor!Next

LEMMA EditorInductive == EditorTyped /\ EditorInv /\ [Editor!Next]_(Editor!vars) => EditorInv'
<1> SUFFICES ASSUME EditorTyped, EditorInv, [Editor!Next]_(Editor!vars), page' \in HonestPages
             PROVE  FormIsFresh' /\ SaveIsHonest' /\ ~unseen'
  BY DEF EditorInv
<1>0. page' = page
  <2>1. CASE \/ Editor!Fetch \/ Editor!AnswerRow \/ Editor!ReplaceRow \/ Editor!Open
             \/ Editor!Cancel \/ Editor!Submit \/ Editor!Accept \/ Editor!Conflict
             \/ Editor!Saved \/ Editor!Conflicted \/ Editor!Unanswered
             \/ UNCHANGED Editor!vars
    BY <2>1
    DEF Editor!vars, Editor!server, Editor!Fetch, Editor!AnswerRow, Editor!ReplaceRow, Editor!Open,
        Editor!Cancel, Editor!Submit, Editor!Accept, Editor!Conflict, Editor!Saved,
        Editor!Conflicted, Editor!Unanswered
  <2>2. CASE \E f \in fetches : Editor!Read(f) \/ Editor!Show(f) \/ Editor!Drop(f)
    BY <2>2 DEF Editor!server, Editor!Read, Editor!Show, Editor!Drop
  <2>3. CASE \E item \in Items :
               Editor!RequestRow(item) \/ Editor!Select(item) \/ Editor!OthersEdit(item)
    BY <2>3 DEF Editor!server, Editor!RequestRow, Editor!Select, Editor!OthersEdit
  <2> QED
    BY <2>1, <2>2, <2>3 DEF Editor!Next
<1>1. FormIsFresh /\ SaveIsHonest /\ ~unseen
  BY <1>0 DEF EditorInv
<1>2. CASE UNCHANGED <<draft, list, save, unseen>>
  BY <1>0, <1>1, <1>2 DEF FormIsFresh, SaveIsHonest, Editor!Inline
<1>3. ASSUME NEW all, NEW item, Editor!Shows(all, item), UNCHANGED unseen,
             save' \in {save, None}
      PROVE  FormIsFresh' /\ SaveIsHonest' /\ ~unseen'
  BY <1>0, <1>1, <1>3 DEF FormIsFresh, SaveIsHonest, Editor!Inline, Editor!Shows, Editor!Refill
<1>4. CASE \/ Editor!Fetch \/ Editor!AnswerRow
           \/ \E f \in fetches : Editor!Read(f) \/ Editor!Drop(f)
           \/ \E item \in Items : Editor!RequestRow(item) \/ Editor!OthersEdit(item)
           \/ UNCHANGED Editor!vars
  BY <1>2, <1>4
  DEF Editor!vars, Editor!server, Editor!client, Editor!Fetch, Editor!AnswerRow, Editor!Read,
      Editor!Drop, Editor!RequestRow, Editor!OthersEdit
<1>5. CASE \E f \in fetches : Editor!Show(f)
  BY <1>3, <1>5 DEF Editor!Show, Editor!server
<1>6. CASE Editor!ReplaceRow
  BY <1>3, <1>6 DEF Editor!ReplaceRow, Editor!server
<1>7. CASE \E item \in Items : Editor!Select(item)
  BY <1>0, <1>1, <1>7 DEF Editor!Select, Editor!server, FormIsFresh, SaveIsHonest, Editor!Inline
<1>8. CASE Editor!Open \/ Editor!Cancel
  BY <1>0, <1>1, <1>8
  DEF Editor!Open, Editor!Cancel, Editor!server, FormIsFresh, SaveIsHonest, Editor!Inline
<1>9. CASE Editor!Submit
  <2>1. Editor!SentVersion = draft.base
    BY <1>0, <1>1, <1>9 DEF HonestPages, Editor!Submit, Editor!SentVersion, FormIsFresh, Editor!Inline
  <2> QED
    BY <1>0, <1>1, <1>9, <2>1
    DEF Editor!Submit, Editor!server, Editor!client, FormIsFresh, SaveIsHonest, Editor!Inline
<1>10. CASE Editor!Accept
  <2>1. save \in Saves /\ save.base = save.version /\ unseen' = (unseen \/ save.base # save.version)
    BY <1>1, <1>10 DEF Editor!Accept, SaveIsHonest, EditorTyped
  <2>2. save'.answer = "saved"
    BY <1>10, <2>1 DEF Editor!Accept, Saves
  <2> QED
    BY <1>0, <1>1, <1>10, <2>1, <2>2
    DEF Editor!Accept, Editor!client, FormIsFresh, SaveIsHonest, Editor!Inline
<1>11. CASE Editor!Conflict
  <2>1. save \in Saves
    BY <1>11 DEF Editor!Conflict, EditorTyped
  <2>2. save'.answer = "conflict"
    BY <1>11, <2>1 DEF Editor!Conflict, Saves
  <2> QED
    BY <1>0, <1>1, <1>11, <2>2
    DEF Editor!Conflict, Editor!server, Editor!client, FormIsFresh, SaveIsHonest, Editor!Inline
<1>12. CASE Editor!Saved
  <2>1. save' = None /\ UNCHANGED unseen
    BY <1>12 DEF Editor!Saved, Editor!server
  <2>2. CASE page = "stage"
    BY <1>0, <1>1, <1>12, <2>1, <2>2
    DEF Editor!Saved, Editor!StageMoved, FormIsFresh, SaveIsHonest, Editor!Inline
  <2>3. CASE page \in {"users", "settings", "candidate"}
    <3>1. Editor!UserSaved \/ Editor!SettingsSaved \/ Editor!CandidateSaved
      BY <1>12, <2>3 DEF Editor!Saved
    <3> QED
      BY <1>3, <2>1, <3>1 DEF Editor!UserSaved, Editor!SettingsSaved, Editor!CandidateSaved
  <2> QED
    BY <1>0, <2>2, <2>3 DEF HonestPages
<1>13. CASE Editor!Conflicted
  BY <1>0, <1>1, <1>13
  DEF Editor!Conflicted, Editor!server, FormIsFresh, SaveIsHonest, Editor!Inline
<1>14. CASE Editor!Unanswered
  BY <1>0, <1>1, <1>14
  DEF Editor!Unanswered, Editor!server, Editor!client, FormIsFresh, SaveIsHonest, Editor!Inline
<1> QED
  BY <1>4, <1>5, <1>6, <1>7, <1>8, <1>9, <1>10, <1>11, <1>12, <1>13, <1>14 DEF Editor!Next

\* On the pages of users, SLA settings, radar candidates and stages no form overwrites an edit
\* that it did not show, whatever lists arrive while it is open, and however late.
THEOREM FormsKeepEdits ==
  Editor!Spec => [](page \notin {"contact", "placement"} => Editor!EditsAreKept)
<1>1. Editor!Init => EditorTyped /\ EditorInv
  <2> SUFFICES ASSUME Editor!Init PROVE EditorTyped /\ EditorInv
    OBVIOUS
  <2>1. 1 \in Items
    BY PartsAssumption DEF PartsAssumption, Editor!EditorAssumption
  <2>2. EditorTyped
    <3>1. row \in VersionRows
      BY PartsAssumption
      DEF PartsAssumption, Editor!EditorAssumption, Editor!Init, VersionRows, Editor!Versions
    <3>2. /\ page \in EditorPages /\ list = None /\ draft = None /\ save = None /\ single = None
          /\ fetches = {} /\ fetched \in Nat /\ selected \in Items
      BY <2>1 DEF Editor!Init
    <3> QED
      BY <3>1, <3>2 DEF EditorTyped
  <2> QED
    BY <2>2 DEF Editor!Init, EditorInv, FormIsFresh, SaveIsHonest
<1>2. EditorTyped /\ EditorInv => (page \notin {"contact", "placement"} => Editor!EditsAreKept)
  <2>1. EditorTyped /\ page \notin {"contact", "placement"} => page \in HonestPages
    BY PartsAssumption DEF PartsAssumption, Editor!EditorAssumption, EditorTyped, HonestPages
  <2> QED
    BY <2>1 DEF EditorInv, Editor!EditsAreKept
<1> QED
  BY <1>1, <1>2, EditorTypes, EditorInductive, PTL DEF Editor!Spec

LEMMA EditorConstants ==
  /\ MaxRowVersion \in Nat \ {0} /\ MaxFetch \in Nat
  /\ None \notin VersionRows
BY PartsAssumption DEF PartsAssumption, Editor!EditorAssumption, VersionRows, Editor!Versions

\* What TypeOK says of the page beyond EditorTyped: a form needs a list, and lists that are
\* awaited are finite many.
EditorSets ==
  /\ unseen \in BOOLEAN
  /\ draft # None => list # None
  /\ fetched <= MaxFetch
  /\ IsFiniteSet(fetches) /\ Cardinality(fetches) <= fetched

\* Nothing is awaited but what was fetched, whichever list comes.
LEMMA AwaitedAreFew ==
  ASSUME EditorTyped, EditorSets, fetches' \subseteq fetches \/
           \E f \in fetches : \E g : fetches' = (fetches \ {f}) \cup {g}
  PROVE  IsFiniteSet(fetches') /\ Cardinality(fetches') <= fetched
<1>1. IsFiniteSet(fetches) /\ Cardinality(fetches) \in Nat /\ Cardinality(fetches) <= fetched
      /\ fetched \in Nat
  BY FS_CardinalityType DEF EditorTyped, EditorSets
<1>2. CASE fetches' \subseteq fetches
  <2>1. IsFiniteSet(fetches') /\ Cardinality(fetches') <= Cardinality(fetches)
    BY <1>1, <1>2, FS_Subset
  <2>2. Cardinality(fetches') \in Nat
    BY <2>1, FS_CardinalityType
  <2> QED
    BY <1>1, <2>1, <2>2
<1>3. ASSUME NEW f \in fetches, NEW g, fetches' = (fetches \ {f}) \cup {g}
      PROVE  IsFiniteSet(fetches') /\ Cardinality(fetches') <= fetched
  <2>1. IsFiniteSet(fetches \ {f}) /\ Cardinality(fetches \ {f}) = Cardinality(fetches) - 1
    BY <1>1, FS_RemoveElement
  <2>2. /\ IsFiniteSet(fetches')
        /\ Cardinality(fetches') \in {Cardinality(fetches \ {f}), Cardinality(fetches \ {f}) + 1}
    BY <1>3, <2>1, FS_AddElement
  <2> QED
    BY <1>1, <2>1, <2>2
<1> QED
  BY <1>2, <1>3

LEMMA OneMoreIsAwaited ==
  ASSUME EditorTyped, EditorSets, NEW g, fetches' = fetches \cup {g},
         fetched < MaxFetch, fetched' = fetched + 1
  PROVE  IsFiniteSet(fetches') /\ Cardinality(fetches') <= fetched' /\ fetched' <= MaxFetch
<1>1. IsFiniteSet(fetches) /\ Cardinality(fetches) \in Nat /\ Cardinality(fetches) <= fetched
      /\ fetched \in Nat
  BY FS_CardinalityType DEF EditorTyped, EditorSets
<1>2. /\ IsFiniteSet(fetches')
      /\ Cardinality(fetches') \in {Cardinality(fetches), Cardinality(fetches) + 1}
  BY <1>1, FS_AddElement
<1> QED
  BY <1>1, <1>2, EditorConstants

LEMMA EditorSetsStay == EditorTyped /\ EditorSets /\ [Editor!Next]_(Editor!vars) => EditorSets'
<1> SUFFICES ASSUME EditorTyped, EditorSets, [Editor!Next]_(Editor!vars) PROVE EditorSets'
  OBVIOUS
<1> USE DEF Editor!server, Editor!client
<1>1. list' \in VersionRows => list' # None
  BY EditorConstants
<1>2. /\ fetched \in Nat /\ MaxFetch \in Nat /\ unseen \in BOOLEAN /\ fetched <= MaxFetch
      /\ (draft # None => list # None)
  BY EditorConstants DEF EditorTyped, EditorSets
<1>3. ASSUME UNCHANGED <<fetches, fetched>>, unseen' \in BOOLEAN, draft' # None => list' # None
      PROVE  EditorSets'
  BY <1>3 DEF EditorSets
<1>4. CASE UNCHANGED Editor!vars
  BY <1>2, <1>3, <1>4 DEF Editor!vars
<1>5. CASE Editor!Fetch
  <2>1. /\ fetched < MaxFetch /\ fetched' = fetched + 1
        /\ fetches' = fetches \cup {[number |-> fetched + 1, rows |-> None]}
        /\ UNCHANGED <<unseen, draft, list>>
    BY <1>5 DEF Editor!Fetch
  <2> QED
    BY <1>2, <2>1, OneMoreIsAwaited DEF EditorSets
<1>6. ASSUME NEW f \in fetches, Editor!Read(f) \/ Editor!Drop(f) PROVE EditorSets'
  <2>1. UNCHANGED <<unseen, draft, list, fetched>>
    BY <1>6 DEF Editor!Read, Editor!Drop
  <2>2. \/ fetches' \subseteq fetches
        \/ \E g : fetches' = (fetches \ {f}) \cup {g}
    BY <1>6 DEF Editor!Read, Editor!Drop
  <2> QED
    BY <1>2, <2>1, <2>2, AwaitedAreFew DEF EditorSets
<1>7. ASSUME NEW f \in fetches, Editor!Show(f) PROVE EditorSets'
  <2>1. /\ list' = f.rows /\ f.rows # None /\ fetches' \subseteq fetches
        /\ UNCHANGED <<unseen, fetched>>
    BY <1>7 DEF Editor!Show, Editor!Shows
  <2> QED
    BY <1>2, <2>1, AwaitedAreFew DEF EditorSets
<1>8. ASSUME NEW item \in Items, Editor!RequestRow(item) PROVE EditorSets'
  <2>1. /\ fetched < MaxFetch /\ fetched' = fetched + 1
        /\ UNCHANGED <<unseen, draft, list, fetches>>
    BY <1>8 DEF Editor!RequestRow
  <2>2. IsFiniteSet(fetches') /\ Cardinality(fetches') <= fetched'
    <3>1. IsFiniteSet(fetches) /\ Cardinality(fetches) \in Nat /\ Cardinality(fetches) <= fetched
      BY FS_CardinalityType DEF EditorSets
    <3> QED
      BY <1>2, <2>1, <3>1
  <2> QED
    BY <1>2, <2>1, <2>2 DEF EditorSets
<1>9. ASSUME NEW item \in Items, Editor!Select(item) \/ Editor!OthersEdit(item) PROVE EditorSets'
  BY <1>2, <1>3, <1>9 DEF Editor!Select, Editor!OthersEdit
<1>10. CASE Editor!AnswerRow \/ Editor!Open \/ Editor!Cancel \/ Editor!Submit \/ Editor!Conflict
            \/ Editor!Unanswered
  BY <1>2, <1>3, <1>10
  DEF Editor!AnswerRow, Editor!Open, Editor!Cancel, Editor!Submit, Editor!Conflict,
      Editor!Unanswered
<1>11. CASE Editor!ReplaceRow
  <2>1. /\ list' = [list EXCEPT ![single.item] = single.version]
        /\ UNCHANGED <<unseen, fetches, fetched>>
        /\ single # None /\ single.version # None
    BY <1>11 DEF Editor!ReplaceRow, Editor!Shows
  <2>2. list' \in VersionRows
    BY <2>1 DEF EditorTyped, VersionRows
  <2> QED
    BY <1>1, <1>2, <1>3, <2>1, <2>2
<1>12. CASE Editor!Accept
  <2>1. UNCHANGED <<draft, list, fetches, fetched>> /\ unseen' = (unseen \/ save.base # save.version)
    BY <1>12 DEF Editor!Accept
  <2>2. unseen' \in BOOLEAN
    BY <2>1, Zenon
  <2> QED
    BY <1>2, <1>3, <2>1, <2>2
<1>13. CASE Editor!Saved
  <2>1. UNCHANGED <<unseen, fetches, fetched>> /\ save # None
    BY <1>13 DEF Editor!Saved
  <2>2. list' \in {Editor!Replaced(save.rows), Editor!Replaced(list)}
    <3>1. page \in {"users", "settings", "candidate", "contact", "placement", "stage"}
      BY PartsAssumption DEF PartsAssumption, Editor!EditorAssumption, EditorTyped
    <3> QED
      BY <1>13, <3>1
      DEF Editor!Saved, Editor!UserSaved, Editor!SettingsSaved, Editor!CandidateSaved,
          Editor!ContactSaved, Editor!PlacementSaved, Editor!StageMoved, Editor!Shows
  <2>3. list' \in VersionRows
    <3>1. save.version \in Editor!Versions /\ save.rows \in VersionRows /\ list \in VersionRows
      BY <2>1 DEF EditorTyped, Saves
    <3> QED
      BY <2>2, <3>1 DEF Editor!Replaced, VersionRows
  <2> QED
    BY <1>1, <1>2, <1>3, <2>1, <2>3
<1>14. CASE Editor!Conflicted
  <2>1. UNCHANGED <<unseen, list>> /\ draft' \in {None, draft}
    BY <1>14 DEF Editor!Conflicted
  <2>2. CASE UNCHANGED <<fetches, fetched>>
    BY <1>2, <1>3, <2>1, <2>2
  <2>3. CASE /\ fetched < MaxFetch /\ fetched' = fetched + 1
             /\ fetches' = fetches \cup {[number |-> fetched + 1, rows |-> None]}
    BY <1>2, <2>1, <2>3, OneMoreIsAwaited DEF EditorSets
  <2> QED
    BY <1>14, <2>2, <2>3 DEF Editor!Conflicted
<1> QED
  BY <1>4, <1>5, <1>6, <1>7, <1>8, <1>9, <1>10, <1>11, <1>12, <1>13, <1>14 DEF Editor!Next

LEMMA EditorCardinality == \A S : Editor!Cardinality(S) = Cardinality(S)
BY DEF Editor!Cardinality, Cardinality

LEMMA EditorTypesOK == Editor!Spec => []Editor!TypeOK
<1>1. Editor!Init => EditorTyped /\ EditorSets
  <2> SUFFICES ASSUME Editor!Init PROVE EditorTyped /\ EditorSets
    OBVIOUS
  <2>1. row \in VersionRows /\ 1 \in Items
    BY EditorConstants, PartsAssumption
    DEF PartsAssumption, Editor!EditorAssumption, Editor!Init, VersionRows, Editor!Versions
  <2>2. IsFiniteSet(fetches) /\ Cardinality(fetches) = 0
    BY FS_EmptySet DEF Editor!Init
  <2>3. EditorSets
    <3>1. unseen \in BOOLEAN /\ draft = None /\ fetched = 0
      BY DEF Editor!Init
    <3>2. fetched <= MaxFetch /\ Cardinality(fetches) <= fetched
      BY <2>2, <3>1, EditorConstants
    <3> QED
      BY <2>2, <3>1, <3>2, Zenon DEF EditorSets
  <2>4. /\ page \in EditorPages /\ list = None /\ draft = None /\ save = None /\ single = None
        /\ fetches = {} /\ fetched \in Nat /\ selected \in Items
    BY <2>1 DEF Editor!Init
  <2> QED
    BY <2>1, <2>3, <2>4 DEF EditorTyped
<1>2. EditorTyped /\ EditorSets => Editor!TypeOK
  <2> SUFFICES ASSUME EditorTyped, EditorSets PROVE Editor!TypeOK
    OBVIOUS
  <2>1. fetched \in 0 .. MaxFetch /\ Editor!Cardinality(fetches) <= fetched
    BY EditorConstants, EditorCardinality DEF EditorTyped, EditorSets
  <2> QED
    BY <2>1 DEF EditorTyped, EditorSets, Drafts, VersionRows, Editor!TypeOK
<1> QED
  BY <1>1, <1>2, EditorTypes, EditorSetsStay, PTL DEF Editor!Spec

-------------------------------------------------------------------------------
(* WebSession: one refresh at a time, and a retry with what it brought.       *)

Sendings ==
  [at : {"getting", "sent", "refreshing", "resent", "answered", "refused", "failed"},
   promise : Nat \cup {None}, first : Nat \cup {None}, second : Nat \cup {None}]

Promises == [forced : BOOLEAN, since : Nat, settled : BOOLEAN]

\* A first token is one that was issued, a second one is newer; and who waits for a new token
\* waits for a promise that was forced.
SendingInv(c, top, all) ==
  /\ c.first # None => c.first <= top
  /\ c.second # None =>
       /\ c.at \in {"resent", "answered", "refused"}
       /\ c.first # None => c.second > c.first
  /\ c.at = "refreshing" => c.promise \in DOMAIN all /\ all[c.promise].forced

\* A refresh that runs is the promise in flight.
RefreshIsInFlight ==
  \A n \in DOMAIN promises : promises[n].forced /\ ~promises[n].settled => n = inFlight

TokensInv ==
  /\ issued \in Nat /\ (bearer # None => bearer \in Nat)
  /\ promises \in Seq(Promises)
  /\ inFlight # None => inFlight \in DOMAIN promises
  /\ \A r \in Requests : pageCall[r] = None \/ pageCall[r] \in Sendings
  /\ DOMAIN pageCall = Requests
  /\ pageCall = [r \in Requests |-> pageCall[r]]
  /\ \A r \in Requests : pageCall[r] # None => SendingInv(pageCall[r], issued, promises)
  /\ RefreshIsInFlight

LEMMA NoneIsNoNumber == None \notin Nat
  BY PartsAssumption DEF PartsAssumption, Tokens!SessionAssumption

LEMMA TokensInitially == Tokens!Init => TokensInv
  BY DEF Tokens!Init, TokensInv, RefreshIsInFlight

\* More tokens, and more promises, hurt no request that is on its way.
LEMMA SendingsStay ==
  ASSUME NEW c \in Sendings, NEW top \in Nat, NEW top2 \in Nat, top <= top2, NEW all, NEW all2,
         \A n \in DOMAIN all : n \in DOMAIN all2 /\ all2[n].forced = all[n].forced,
         SendingInv(c, top, all)
  PROVE  SendingInv(c, top2, all2)
BY DEF Sendings, SendingInv

\* A request joins the promise in flight, or begins one: a forced one only when none such runs.
LEMMA TokensResolve ==
  ASSUME TokensInv, NEW r \in Requests, NEW forced \in BOOLEAN, NEW next \in Sendings,
         Tokens!Resolve(r, forced, next), UNCHANGED <<issued, bearer>>,
         next.second = None, next.at = "refreshing" => forced,
         next.first # None => next.first <= issued
  PROVE  TokensInv'
<1> DEFINE joins == inFlight # None /\ (forced => promises[inFlight].forced)
           n == IF joins THEN inFlight ELSE Len(promises) + 1
           new == [forced |-> forced, since |-> issued, settled |-> FALSE]
           c == [next EXCEPT !.promise = n]
<1>1. /\ promises' = IF joins THEN promises ELSE Append(promises, new)
      /\ inFlight' = n
      /\ pageCall' = [pageCall EXCEPT ![r] = c]
  BY DEF Tokens!Resolve
<1>2. new \in Promises /\ promises \in Seq(Promises)
  BY DEF TokensInv, Promises
<1>3. /\ promises' \in Seq(Promises) /\ n \in DOMAIN promises' /\ n \in Nat
      /\ \A m \in DOMAIN promises : m \in DOMAIN promises' /\ promises'[m] = promises[m]
  <2>1. CASE joins
    BY <1>1, <1>2, <2>1 DEF TokensInv
  <2>2. CASE ~joins
    BY <1>1, <1>2, <2>2 DEF TokensInv
  <2> QED
    BY <2>1, <2>2
<1>4. forced => promises'[n].forced
  BY <1>1, <1>2 DEF TokensInv
<1>5. RefreshIsInFlight'
  <2> SUFFICES ASSUME NEW m \in DOMAIN promises', promises'[m].forced, ~promises'[m].settled
               PROVE  m = n
    BY <1>1 DEF RefreshIsInFlight
  <2>1. CASE joins
    BY <1>1, <2>1 DEF TokensInv, RefreshIsInFlight
  <2>2. CASE ~joins /\ m \in DOMAIN promises
    <3>1. m = inFlight /\ promises[m].forced /\ ~promises[m].settled
      BY <1>3, <2>2 DEF TokensInv, RefreshIsInFlight
    <3>2. inFlight # None
      BY <1>2, <2>2, <3>1, NoneIsNoNumber
    <3> QED
      BY <2>2, <3>1, <3>2
  <2>3. CASE ~joins /\ m \notin DOMAIN promises
    BY <1>1, <1>2, <2>3
  <2> QED
    BY <2>1, <2>2, <2>3
<1>6. c \in Sendings
  BY <1>3 DEF Sendings
<1>7. SendingInv(c, issued', promises')
  BY <1>3, <1>4, <1>6 DEF SendingInv, Sendings
<1>8. \A q \in Requests \ {r} : pageCall'[q] = pageCall[q]
  BY <1>1 DEF TokensInv
<1>9. pageCall'[r] = c
  BY <1>1 DEF TokensInv
<1>10. \A q \in Requests : pageCall'[q] # None => pageCall'[q] \in Sendings /\ SendingInv(pageCall'[q], issued', promises')
  <2> SUFFICES ASSUME NEW q \in Requests, pageCall'[q] # None
               PROVE  pageCall'[q] \in Sendings /\ SendingInv(pageCall'[q], issued', promises')
    OBVIOUS
  <2>1. CASE q = r
    BY <1>6, <1>7, <1>9, <2>1 DEF SendingInv
  <2>2. CASE q # r
    BY <1>3, <1>8, <2>2, SendingsStay DEF TokensInv, SendingInv
  <2> QED
    BY <2>1, <2>2
<1> QED
  BY <1>1, <1>3, <1>5, <1>10 DEF TokensInv

LEMMA SettlingKeeps ==
  ASSUME promises \in Seq(Promises), NEW n \in DOMAIN promises, Tokens!Settled(n)
  PROVE  /\ promises' \in Seq(Promises) /\ DOMAIN promises' = DOMAIN promises
         /\ \A m \in DOMAIN promises :
              /\ promises'[m].forced = promises[m].forced
              /\ m # n => promises'[m] = promises[m]
              /\ m = n => promises'[m].settled
<1> DEFINE p == [promises[n] EXCEPT !.settled = TRUE]
<1>1. promises' = [promises EXCEPT ![n] = p]
  BY DEF Tokens!Settled
<1>2. promises[n] \in Promises
  OBVIOUS
<1>3. p \in Promises /\ p.forced = promises[n].forced /\ p.settled
  BY <1>2 DEF Promises
<1> HIDE DEF p
<1> QED
  BY <1>1, <1>3

\* A promise is settled: its requests get at, and second if it is a retry.
LEMMA TokensSettled ==
  ASSUME TokensInv, NEW n \in DOMAIN promises, Tokens!Settled(n),
         issued' \in Nat, issued <= issued', bearer' # None => bearer' \in Nat,
         pageCall' = [r \in Requests |-> pageCall'[r]],
         \A r \in Requests :
           \/ pageCall'[r] = pageCall[r]
           \/ pageCall'[r] \in Sendings /\ SendingInv(pageCall'[r], issued', promises')
  PROVE  TokensInv'
<1>1. /\ promises' = [promises EXCEPT ![n].settled = TRUE]
      /\ inFlight' = IF inFlight = n THEN None ELSE inFlight
  BY DEF Tokens!Settled
<1>2. promises \in Seq(Promises)
  BY DEF TokensInv
<1>3. promises' \in Seq(Promises) /\ DOMAIN promises' = DOMAIN promises
  BY <1>2, SettlingKeeps
<1>4. \A m \in DOMAIN promises :
        /\ promises'[m].forced = promises[m].forced
        /\ m # n => promises'[m] = promises[m]
        /\ m = n => promises'[m].settled
  BY <1>2, SettlingKeeps
<1>5. RefreshIsInFlight'
  BY <1>1, <1>3, <1>4 DEF TokensInv, RefreshIsInFlight
<1>6. \A r \in Requests : pageCall'[r] # None =>
        pageCall'[r] \in Sendings /\ SendingInv(pageCall'[r], issued', promises')
  <2> SUFFICES ASSUME NEW r \in Requests, pageCall'[r] # None, pageCall'[r] = pageCall[r]
               PROVE  pageCall'[r] \in Sendings /\ SendingInv(pageCall'[r], issued', promises')
    OBVIOUS
  <2>1. pageCall[r] \in Sendings /\ SendingInv(pageCall[r], issued, promises) /\ issued \in Nat
    BY DEF TokensInv
  <2>2. \A m \in DOMAIN promises : m \in DOMAIN promises' /\ promises'[m].forced = promises[m].forced
    BY <1>3, <1>4
  <2> QED
    BY <2>1, <2>2, SendingsStay
<1> QED
  BY <1>1, <1>3, <1>5, <1>6 DEF TokensInv

\* A refresh brings a token that nobody had when the first was refused.
LEMMA TokensFulfil ==
  ASSUME TokensInv, NEW n \in DOMAIN promises, NEW t \in 1 .. MaxToken \cup {None},
         Tokens!Fulfil(n, t)
  PROVE  TokensInv'
<1>1. MaxToken \in Nat
  BY PartsAssumption DEF PartsAssumption, Tokens!SessionAssumption
<1>2. /\ t \in Tokens!Tokens(promises[n].forced, promises[n].since)
      /\ Tokens!Give(t) /\ Tokens!Settled(n) /\ bearer' = t
  BY DEF Tokens!Fulfil
<1>3. issued' \in Nat /\ issued <= issued' /\ (t # None => t \in Nat /\ t <= issued')
  BY <1>1, <1>2 DEF Tokens!Give, Tokens!Tokens, TokensInv
<1>4. promises[n].forced /\ t # None => t > issued
  BY <1>2 DEF Tokens!Tokens
<1>5. \A m \in DOMAIN promises : m \in DOMAIN promises' /\ promises'[m].forced = promises[m].forced
  <2>1. promises \in Seq(Promises)
    BY DEF TokensInv
  <2> QED
    BY <1>2, <2>1 DEF Tokens!Settled, Promises
<1>6. \A r \in Requests :
        \/ pageCall'[r] = pageCall[r]
        \/ pageCall'[r] \in Sendings /\ SendingInv(pageCall'[r], issued', promises')
  <2> SUFFICES ASSUME NEW r \in Requests, r \in Tokens!Waiting(n)
               PROVE  pageCall'[r] \in Sendings /\ SendingInv(pageCall'[r], issued', promises')
    BY DEF Tokens!Fulfil
  <2> DEFINE c == pageCall[r]
  <2>1. /\ c \in Sendings /\ SendingInv(c, issued, promises) /\ issued \in Nat
        /\ c.at \in {"getting", "refreshing"} /\ c.promise = n /\ c.second = None
    BY DEF TokensInv, Tokens!Waiting, SendingInv
  <2>2. \/ c.at = "getting" /\ pageCall'[r] = [c EXCEPT !.at = "sent", !.first = t]
        \/ /\ c.at = "refreshing" /\ t # None
           /\ pageCall'[r] = [c EXCEPT !.at = "resent", !.second = t]
        \/ pageCall'[r] = [c EXCEPT !.at = "refused"]
    BY <2>1 DEF Tokens!Fulfil
  <2>3. CASE c.at = "getting" /\ pageCall'[r] = [c EXCEPT !.at = "sent", !.first = t]
    BY <1>3, <2>1, <2>3 DEF Sendings, SendingInv
  <2>4. CASE /\ c.at = "refreshing" /\ t # None
             /\ pageCall'[r] = [c EXCEPT !.at = "resent", !.second = t]
    <3>1. t \in Nat /\ t > issued
      BY <1>3, <1>4, <2>1, <2>4 DEF SendingInv
    <3>2. pageCall'[r] \in Sendings
      BY <2>1, <2>4, <3>1 DEF Sendings
    <3>3. /\ pageCall'[r].first = c.first /\ pageCall'[r].second = t /\ pageCall'[r].at = "resent"
          /\ (c.first # None => c.first \in Nat)
      BY <2>1, <2>4 DEF Sendings
    <3> QED
      BY <1>3, <2>1, <3>1, <3>2, <3>3 DEF SendingInv
  <2>5. CASE pageCall'[r] = [c EXCEPT !.at = "refused"]
    BY <1>3, <2>1, <2>5 DEF Sendings, SendingInv
  <2> QED
    BY <2>2, <2>3, <2>4, <2>5
<1>7. pageCall' = [r \in Requests |-> pageCall'[r]]
  BY DEF Tokens!Fulfil
<1>8. bearer' # None => bearer' \in Nat
  BY <1>2, <1>3
<1> QED
  BY <1>2, <1>3, <1>6, <1>7, <1>8, TokensSettled

\* Requests stay as they are, or one of them is answered.
LEMMA TokensKeep ==
  ASSUME TokensInv, issued' \in Nat, issued <= issued', bearer' # None => bearer' \in Nat,
         UNCHANGED <<promises, inFlight>>, pageCall' = [r \in Requests |-> pageCall'[r]],
         \A r \in Requests :
           \/ pageCall'[r] = pageCall[r]
           \/ pageCall'[r] \in Sendings /\ SendingInv(pageCall'[r], issued', promises)
  PROVE  TokensInv'
<1>1. \A r \in Requests : pageCall'[r] # None =>
        pageCall'[r] \in Sendings /\ SendingInv(pageCall'[r], issued', promises')
  <2> SUFFICES ASSUME NEW r \in Requests, pageCall'[r] # None, pageCall'[r] = pageCall[r]
               PROVE  pageCall'[r] \in Sendings /\ SendingInv(pageCall'[r], issued', promises')
    OBVIOUS
  <2>1. pageCall[r] \in Sendings /\ SendingInv(pageCall[r], issued, promises) /\ issued \in Nat
    BY DEF TokensInv
  <2> QED
    BY <2>1, SendingsStay
<1>2. RefreshIsInFlight'
  BY DEF TokensInv, RefreshIsInFlight
<1> QED
  BY <1>1, <1>2 DEF TokensInv

LEMMA TokensAnswered ==
  ASSUME TokensInv, NEW r \in Requests, Tokens!Answered(r)
  PROVE  TokensInv'
<1> DEFINE c == pageCall[r]
           given == IF c.at = "sent" THEN c.first ELSE c.second
<1>1. /\ c \in Sendings /\ SendingInv(c, issued, promises) /\ issued \in Nat
      /\ c.at \in {"sent", "resent"} /\ issued' = issued
      /\ pageCall = [q \in Requests |-> pageCall[q]]
      /\ bearer # None => bearer \in Nat
  BY DEF TokensInv, Tokens!Answered
<1>2. CASE /\ pageCall' = [pageCall EXCEPT ![r].at = "answered"]
           /\ UNCHANGED <<bearer, promises, inFlight>>
  <2>1. [c EXCEPT !.at = "answered"] \in Sendings
    BY <1>1 DEF Sendings
  <2>2. SendingInv([c EXCEPT !.at = "answered"], issued, promises)
    BY <1>1 DEF Sendings, SendingInv
  <2> QED
    BY <1>1, <1>2, <2>1, <2>2, TokensKeep
<1>3. CASE c.at = "sent" /\ Tokens!Resolve(r, TRUE, [c EXCEPT !.at = "refreshing"])
           /\ UNCHANGED bearer
  <2>1. /\ [c EXCEPT !.at = "refreshing"] \in Sendings
        /\ [c EXCEPT !.at = "refreshing"].second = None
        /\ [c EXCEPT !.at = "refreshing"].first = c.first
        /\ c.first # None => c.first <= issued
    BY <1>1, <1>3 DEF Sendings, SendingInv
  <2> QED
    BY <1>1, <1>3, <2>1, TokensResolve
<1>4. CASE /\ pageCall' = [pageCall EXCEPT ![r].at = "refused"] /\ bearer' = None
           /\ c.at = "resent" /\ UNCHANGED <<promises, inFlight>>
  <2>1. [c EXCEPT !.at = "refused"] \in Sendings
    BY <1>1 DEF Sendings
  <2>2. SendingInv([c EXCEPT !.at = "refused"], issued, promises)
    BY <1>1, <1>4 DEF Sendings, SendingInv
  <2> QED
    BY <1>1, <1>4, <2>1, <2>2, TokensKeep
<1> QED
  BY <1>2, <1>3, <1>4 DEF Tokens!Answered, Tokens!AuthenticationRequired

LEMMA TokensInductive == TokensInv /\ [Tokens!Next]_(Tokens!vars) => TokensInv'
<1> SUFFICES ASSUME TokensInv, [Tokens!Next]_(Tokens!vars) PROVE TokensInv'
  OBVIOUS
<1>1. /\ issued \in Nat /\ pageCall = [q \in Requests |-> pageCall[q]]
      /\ (bearer # None => bearer \in Nat) /\ MaxToken \in Nat
  BY PartsAssumption DEF TokensInv, PartsAssumption, Tokens!SessionAssumption
<1>2. ASSUME NEW r \in Requests, Tokens!Request(r) PROVE TokensInv'
  <2> DEFINE next == [at |-> "getting", promise |-> None, first |-> None, second |-> None]
  <2>1. /\ next \in Sendings /\ next.second = None /\ next.first = None
        /\ next.at # "refreshing"
    BY DEF Sendings
  <2>2. Tokens!Resolve(r, FALSE, next) /\ UNCHANGED <<issued, bearer>>
    BY <1>2 DEF Tokens!Request
  <2> HIDE DEF next
  <2> QED
    BY <2>1, <2>2, TokensResolve
<1>3. ASSUME NEW r \in Requests, Tokens!Answered(r) PROVE TokensInv'
  BY <1>3, TokensAnswered
<1>4. ASSUME NEW n \in DOMAIN promises, Tokens!Reject(n) PROVE TokensInv'
  <2>1. \A r \in Requests :
          \/ pageCall'[r] = pageCall[r]
          \/ pageCall'[r] \in Sendings /\ SendingInv(pageCall'[r], issued', promises')
    <3> SUFFICES ASSUME NEW r \in Requests, r \in Tokens!Waiting(n)
                 PROVE  /\ pageCall'[r] \in Sendings
                        /\ SendingInv(pageCall'[r], issued', promises')
      BY <1>4 DEF Tokens!Reject
    <3>1. /\ pageCall[r] \in Sendings /\ SendingInv(pageCall[r], issued, promises)
          /\ pageCall[r].at \in {"getting", "refreshing"}
          /\ pageCall'[r] = [pageCall[r] EXCEPT !.at = "failed"]
          /\ issued' = issued
      BY <1>4 DEF TokensInv, Tokens!Waiting, Tokens!Reject
    <3> QED
      BY <3>1 DEF Sendings, SendingInv
  <2> QED
    BY <1>1, <1>4, <2>1, TokensSettled DEF Tokens!Reject
<1>5. ASSUME NEW n \in DOMAIN promises, NEW t \in 1 .. MaxToken \cup {None}, Tokens!Fulfil(n, t)
      PROVE  TokensInv'
  BY <1>5, TokensFulfil
<1>6. CASE Tokens!Synchronize
  BY <1>1, <1>6, TokensKeep DEF Tokens!Synchronize
<1>7. CASE Tokens!Logout
  BY <1>1, <1>7, TokensKeep DEF Tokens!Logout, Tokens!AuthenticationRequired
<1>8. ASSUME NEW since \in syncs, NEW t \in 1 .. MaxToken \cup {None},
             Tokens!Synchronized(since, t)
      PROVE  TokensInv'
  BY <1>1, <1>8, TokensKeep DEF Tokens!Synchronized, Tokens!Give
<1>9. ASSUME NEW t \in 1 .. MaxToken, Tokens!Expire(t) PROVE TokensInv'
  BY <1>1, <1>9, TokensKeep DEF Tokens!Expire
<1>10. ASSUME NEW is \in BOOLEAN, Tokens!SignIn(is) PROVE TokensInv'
  BY <1>1, <1>10, TokensKeep DEF Tokens!SignIn
<1>11. CASE UNCHANGED Tokens!vars
  BY <1>1, <1>11, TokensKeep DEF Tokens!vars
<1> QED
  BY <1>2, <1>3, <1>4, <1>5, <1>6, <1>7, <1>8, <1>9, <1>10, <1>11 DEF Tokens!Next

LEMMA TokensCardinality == \A S : Tokens!Cardinality(S) = Cardinality(S)
  BY DEF Tokens!Cardinality, Cardinality

\* Requests that are refused together refresh the token once (docs/requirements-baseline.md),
\* whatever older answers of the shell come in meanwhile; and a request is sent again with
\* a token issued after the first was refused, and then no more.
THEOREM OneRefreshAtATime == Tokens!Spec => [](Tokens!OneRefresh /\ Tokens!RetryIsNewer)
<1>1. TokensInv => Tokens!OneRefresh
  <2> SUFFICES ASSUME TokensInv PROVE Tokens!OneRefresh
    OBVIOUS
  <2> DEFINE running == {n \in DOMAIN promises : promises[n].forced /\ ~promises[n].settled}
  <2>1. running \subseteq {inFlight}
    BY DEF TokensInv, RefreshIsInFlight
  <2> HIDE DEF running
  <2>2. Cardinality(running) <= 1
    <3>1. IsFiniteSet({inFlight}) /\ Cardinality({inFlight}) = 1
      BY FS_Singleton
    <3>2. Cardinality(running) <= Cardinality({inFlight})
      BY <2>1, <3>1, FS_Subset
    <3> QED
      BY <3>1, <3>2
  <2> QED
    BY <2>2, TokensCardinality DEF running, Tokens!OneRefresh
<1>2. TokensInv => Tokens!RetryIsNewer
  BY DEF TokensInv, SendingInv, Tokens!RetryIsNewer
<1> QED
  BY <1>1, <1>2, TokensInitially, TokensInductive, PTL DEF Tokens!Spec

\* What TypeOK says of the session beyond TokensInv: a request waits for a promise that is not
\* settled, and so does whoever comes next.
Waits(c, all) ==
  c.at \in {"getting", "refreshing"} => c.promise \in DOMAIN all /\ ~all[c.promise].settled

TokenSets ==
  /\ issued \in 1 .. MaxToken
  /\ accepted \subseteq 1 .. issued
  /\ bearer \in 1 .. issued \cup {None}
  /\ inFlight # None => ~promises[inFlight].settled
  /\ screen \in {"checking", "ready", "required"}
  /\ \A r \in Requests : pageCall[r] # None => Waits(pageCall[r], promises)

LEMMA GivingKeeps ==
  ASSUME TokensInv, TokenSets, NEW t \in 1 .. MaxToken \cup {None}, NEW forced, NEW since,
         t \in Tokens!Tokens(forced, since), Tokens!Give(t)
  PROVE  /\ issued' \in 1 .. MaxToken /\ accepted' \subseteq 1 .. issued'
         /\ t \in 1 .. issued' \cup {None}
<1>0. MaxToken \in Nat
  BY PartsAssumption DEF PartsAssumption, Tokens!SessionAssumption
<1>1. issued \in 1 .. MaxToken /\ MaxToken \in Nat /\ accepted \subseteq 1 .. issued
  BY <1>0 DEF TokenSets
<1>2. CASE t = None
  <2>1. t # issued + 1
    BY <1>1, <1>2, NoneIsNoNumber
  <2>2. issued' = issued /\ accepted' = accepted
    BY <2>1 DEF Tokens!Give
  <2> QED
    BY <1>1, <1>2, <2>2
<1>3. CASE t \in 1 .. issued + 1 /\ t # None
  <2>1. t \in 1 .. MaxToken
    BY <1>3
  <2>2. CASE t = issued + 1
    <3>1. issued' = t /\ accepted' = accepted \cup {t}
      BY <2>2 DEF Tokens!Give
    <3> QED
      BY <1>1, <2>1, <2>2, <3>1
  <2>3. CASE t # issued + 1
    <3>1. issued' = issued /\ accepted' = accepted
      BY <2>3 DEF Tokens!Give
    <3> QED
      BY <1>1, <1>3, <2>3, <3>1
  <2> QED
    BY <2>2, <2>3
<1> QED
  BY <1>2, <1>3 DEF Tokens!Tokens

\* A request that resolves its token waits for a promise, and the others wait as before.
LEMMA ResolvingWaits ==
  ASSUME TokensInv, TokenSets, NEW r \in Requests, NEW forced \in BOOLEAN, NEW next \in Sendings,
         Tokens!Resolve(r, forced, next), UNCHANGED <<issued, accepted, bearer>>,
         screen' \in {"checking", "ready", "required"}
  PROVE  TokenSets'
<1> DEFINE joins == inFlight # None /\ (forced => promises[inFlight].forced)
           n == IF joins THEN inFlight ELSE Len(promises) + 1
           new == [forced |-> forced, since |-> issued, settled |-> FALSE]
           c == [next EXCEPT !.promise = n]
<1>1. /\ promises' = IF joins THEN promises ELSE Append(promises, new)
      /\ inFlight' = n
      /\ pageCall' = [pageCall EXCEPT ![r] = c]
  BY DEF Tokens!Resolve
<1>2. /\ promises \in Seq(Promises) /\ new \in Promises
      /\ inFlight # None => inFlight \in DOMAIN promises /\ ~promises[inFlight].settled
  BY DEF TokensInv, TokenSets, Promises
<1>3. /\ n \in DOMAIN promises' /\ ~promises'[n].settled
      /\ \A m \in DOMAIN promises : m \in DOMAIN promises' /\ promises'[m] = promises[m]
  <2>1. CASE joins
    BY <1>1, <1>2, <2>1
  <2>2. CASE ~joins
    BY <1>1, <1>2, <2>2
  <2> QED
    BY <2>1, <2>2
<1>4. c.promise = n
  BY DEF Sendings
<1>5. \A q \in Requests : pageCall'[q] = IF q = r THEN c ELSE pageCall[q]
  BY <1>1 DEF TokensInv
<1> HIDE DEF n, c
<1>6. \A q \in Requests : pageCall'[q] # None => Waits(pageCall'[q], promises')
  BY <1>3, <1>4, <1>5 DEF TokenSets, Waits
<1> QED
  BY <1>1, <1>3, <1>6 DEF TokenSets

\* Who waited for a promise that is settled waits no more.
LEMMA SettlingWaits ==
  ASSUME TokensInv, TokenSets, NEW n \in DOMAIN promises, Tokens!Settled(n),
         issued' \in 1 .. MaxToken, accepted' \subseteq 1 .. issued',
         bearer' \in 1 .. issued' \cup {None}, screen' \in {"checking", "ready", "required"},
         \A r \in Requests : pageCall'[r] # None =>
           \/ pageCall'[r] = pageCall[r] /\ r \notin Tokens!Waiting(n)
           \/ pageCall'[r].at \notin {"getting", "refreshing"}
  PROVE  TokenSets'
<1>1. promises \in Seq(Promises)
  BY DEF TokensInv
<1>2. /\ DOMAIN promises' = DOMAIN promises
      /\ \A m \in DOMAIN promises : m # n => promises'[m] = promises[m]
  BY <1>1, SettlingKeeps
<1>3. inFlight' # None => ~promises'[inFlight'].settled
  BY <1>2 DEF Tokens!Settled, TokenSets, TokensInv
<1>4. \A r \in Requests : pageCall'[r] # None => Waits(pageCall'[r], promises')
  BY <1>2 DEF TokenSets, Waits, Tokens!Waiting
<1> QED
  BY <1>3, <1>4 DEF TokenSets

\* Requests stay as they are, or one of them has its answer.
LEMMA AnsweringWaits ==
  ASSUME TokenSets, issued' \in 1 .. MaxToken, accepted' \subseteq 1 .. issued',
         bearer' \in 1 .. issued' \cup {None}, screen' \in {"checking", "ready", "required"},
         UNCHANGED <<promises, inFlight>>,
         \A r \in Requests : pageCall'[r] # None =>
           pageCall'[r] = pageCall[r] \/ pageCall'[r].at \notin {"getting", "refreshing"}
  PROVE  TokenSets'
BY DEF TokenSets, Waits

LEMMA FulfilmentWaits ==
  ASSUME TokensInv, TokenSets, NEW n \in DOMAIN promises, NEW t \in 1 .. MaxToken \cup {None},
         Tokens!Fulfil(n, t)
  PROVE  TokenSets'
<1>1. /\ t \in Tokens!Tokens(promises[n].forced, promises[n].since)
      /\ Tokens!Give(t) /\ Tokens!Settled(n) /\ bearer' = t
  BY DEF Tokens!Fulfil
<1>2. screen' \in {"checking", "ready", "required"}
  BY Zenon DEF Tokens!Fulfil, TokenSets
<1>3. /\ issued' \in 1 .. MaxToken /\ accepted' \subseteq 1 .. issued'
      /\ bearer' \in 1 .. issued' \cup {None}
  BY <1>1, GivingKeeps
<1>4. \A r \in Requests : pageCall'[r] # None =>
        \/ pageCall'[r] = pageCall[r] /\ r \notin Tokens!Waiting(n)
        \/ pageCall'[r].at \notin {"getting", "refreshing"}
  <2> SUFFICES ASSUME NEW r \in Requests, r \in Tokens!Waiting(n)
               PROVE  pageCall'[r].at \notin {"getting", "refreshing"}
    BY DEF Tokens!Fulfil
  <2> DEFINE c == pageCall[r]
  <2>1. c \in Sendings /\ c.at \in {"getting", "refreshing"}
    BY DEF TokensInv, Tokens!Waiting
  <2>2. \/ c.at = "getting" /\ pageCall'[r] = [c EXCEPT !.at = "sent", !.first = t]
        \/ /\ c.at = "refreshing" /\ t # None
           /\ pageCall'[r] = [c EXCEPT !.at = "resent", !.second = t]
        \/ pageCall'[r] = [c EXCEPT !.at = "refused"]
    BY <2>1 DEF Tokens!Fulfil
  <2>3. ASSUME pageCall'[r] = [c EXCEPT !.at = "sent", !.first = t]
        PROVE  pageCall'[r].at = "sent"
    BY <2>1, <2>3 DEF Sendings
  <2>4. ASSUME pageCall'[r] = [c EXCEPT !.at = "resent", !.second = t]
        PROVE  pageCall'[r].at = "resent"
    BY <2>1, <2>4 DEF Sendings
  <2>5. ASSUME pageCall'[r] = [c EXCEPT !.at = "refused"] PROVE pageCall'[r].at = "refused"
    BY <2>1, <2>5 DEF Sendings
  <2> QED
    BY <2>2, <2>3, <2>4, <2>5
<1> QED
  BY <1>1, <1>2, <1>3, <1>4, SettlingWaits

LEMMA TokenSetsStay == TokensInv /\ TokenSets /\ [Tokens!Next]_(Tokens!vars) => TokenSets'
<1> SUFFICES ASSUME TokensInv, TokenSets, [Tokens!Next]_(Tokens!vars) PROVE TokenSets'
  OBVIOUS
<1>1. /\ issued \in 1 .. MaxToken /\ accepted \subseteq 1 .. issued
      /\ bearer \in 1 .. issued \cup {None} /\ screen \in {"checking", "ready", "required"}
  BY DEF TokenSets
<1>2. ASSUME NEW r \in Requests, Tokens!Request(r) PROVE TokenSets'
  <2> DEFINE next == [at |-> "getting", promise |-> None, first |-> None, second |-> None]
  <2>1. next \in Sendings
    BY DEF Sendings
  <2>2. Tokens!Resolve(r, FALSE, next) /\ UNCHANGED <<issued, accepted, bearer, screen>>
    BY <1>2 DEF Tokens!Request
  <2> HIDE DEF next
  <2> QED
    BY <1>1, <2>1, <2>2, ResolvingWaits
<1>3. ASSUME NEW r \in Requests, Tokens!Answered(r) PROVE TokenSets'
  <2> DEFINE c == pageCall[r]
  <2>1. /\ c \in Sendings /\ c # None /\ UNCHANGED <<issued, accepted>>
        /\ DOMAIN pageCall = Requests
    BY <1>3 DEF TokensInv, Tokens!Answered
  <2>2. ASSUME NEW a \in {"answered", "refused"}, pageCall' = [pageCall EXCEPT ![r].at = a],
               UNCHANGED <<promises, inFlight>>, bearer' \in {bearer, None},
               screen' \in {screen, "required"}
        PROVE  TokenSets'
    <3>1. \A q \in Requests : pageCall'[q] = pageCall[q] \/ pageCall'[q].at = a
      BY <2>1, <2>2 DEF Sendings
    <3> QED
      BY <1>1, <2>1, <2>2, <3>1, AnsweringWaits
  <2>3. CASE Tokens!Resolve(r, TRUE, [c EXCEPT !.at = "refreshing"]) /\ UNCHANGED <<bearer, screen>>
    <3>1. [c EXCEPT !.at = "refreshing"] \in Sendings
      BY <2>1 DEF Sendings
    <3> QED
      BY <1>1, <2>1, <2>3, <3>1, ResolvingWaits
  <2> QED
    BY <1>3, <2>2, <2>3 DEF Tokens!Answered, Tokens!AuthenticationRequired
<1>4. ASSUME NEW n \in DOMAIN promises, Tokens!Reject(n) PROVE TokenSets'
  <2>1. \A r \in Requests : pageCall'[r] # None =>
          \/ pageCall'[r] = pageCall[r] /\ r \notin Tokens!Waiting(n)
          \/ pageCall'[r].at \notin {"getting", "refreshing"}
    <3> SUFFICES ASSUME NEW r \in Requests, r \in Tokens!Waiting(n)
                 PROVE  pageCall'[r].at \notin {"getting", "refreshing"}
      BY <1>4 DEF Tokens!Reject
    <3>1. /\ pageCall[r] \in Sendings
          /\ pageCall'[r] = [pageCall[r] EXCEPT !.at = "failed"]
      BY <1>4 DEF TokensInv, Tokens!Waiting, Tokens!Reject
    <3> QED
      BY <3>1 DEF Sendings
  <2> QED
    BY <1>1, <1>4, <2>1, SettlingWaits DEF Tokens!Reject
<1>5. ASSUME NEW n \in DOMAIN promises, NEW t \in 1 .. MaxToken \cup {None}, Tokens!Fulfil(n, t)
      PROVE  TokenSets'
  BY <1>5, FulfilmentWaits
<1>6. CASE Tokens!Synchronize
  BY <1>1, <1>6, AnsweringWaits DEF Tokens!Synchronize
<1>7. CASE Tokens!Logout
  BY <1>1, <1>7, AnsweringWaits DEF Tokens!Logout, Tokens!AuthenticationRequired
<1>8. ASSUME NEW since \in syncs, NEW t \in 1 .. MaxToken \cup {None},
             Tokens!Synchronized(since, t)
      PROVE  TokenSets'
  <2>1. /\ t \in Tokens!Tokens(FALSE, since) /\ Tokens!Give(t) /\ bearer' = t
        /\ screen' \in {"ready", "required"}
        /\ UNCHANGED <<promises, inFlight, pageCall>>
    BY <1>8 DEF Tokens!Synchronized
  <2>2. /\ issued' \in 1 .. MaxToken /\ accepted' \subseteq 1 .. issued'
        /\ bearer' \in 1 .. issued' \cup {None}
    BY <2>1, GivingKeeps
  <2> QED
    BY <2>1, <2>2, AnsweringWaits
<1>9. ASSUME NEW t \in 1 .. MaxToken, Tokens!Expire(t) PROVE TokenSets'
  BY <1>1, <1>9, AnsweringWaits DEF Tokens!Expire
<1>10. ASSUME NEW is \in BOOLEAN, Tokens!SignIn(is) PROVE TokenSets'
  BY <1>1, <1>10, AnsweringWaits DEF Tokens!SignIn
<1>11. CASE UNCHANGED Tokens!vars
  BY <1>1, <1>11, AnsweringWaits DEF Tokens!vars
<1> QED
  BY <1>2, <1>3, <1>4, <1>5, <1>6, <1>7, <1>8, <1>9, <1>10, <1>11 DEF Tokens!Next

LEMMA TokenTypesOK == Tokens!Spec => []Tokens!TypeOK
<1>1. Tokens!Init => TokenSets
  BY PartsAssumption DEF PartsAssumption, Tokens!SessionAssumption, Tokens!Init, TokenSets
<1>2. TokensInv /\ TokenSets => Tokens!TypeOK
  <2> SUFFICES ASSUME TokensInv, TokenSets PROVE Tokens!TypeOK
    OBVIOUS
  <2>1. issued \in 0 .. MaxToken
    BY PartsAssumption DEF PartsAssumption, Tokens!SessionAssumption, TokenSets
  <2> QED
    BY <2>1 DEF TokensInv, TokenSets, Waits, Sendings, Tokens!TypeOK
<1> QED
  BY <1>1, <1>2, TokensInitially, TokensInductive, TokenSetsStay, PTL DEF Tokens!Spec

-------------------------------------------------------------------------------
(* ActorSession: who acts had the rights, and the session, it acts by.        *)

SessionRights == [role : Session!Roles \cup {None}, granted : BOOLEAN]

SessionRequests ==
  [at : {"received", "verified", "admitted", "acting"}, user : Users, since : Nat,
   rights : {None} \cup SessionRights, mode : {None, "all", "team", "own"}]

SessionTyped ==
  /\ clock \in Nat /\ boots \in Nat
  /\ role \in [Users -> Session!Roles \cup {None}]
  /\ token \in [Users -> Nat \cup {None}]
  /\ served \in [UserRequests -> SessionRequests \cup {None}]
  /\ held \in [UserRequests -> SUBSET SessionRights]

\* The rights that the user of a request has now are among those it had.
NowIsHeld ==
  \A r \in UserRequests : served[r] # None => Session!Rights(served[r].user) \in held[r]

\* No session lasts longer than the term, and a request has a session.
TermsEnd ==
  /\ \A u \in Users : token[u] # None => token[u] <= clock + Term
  /\ \A r \in UserRequests : served[r] # None =>
       /\ token[served[r].user] \in Nat /\ token[served[r].user] <= clock + Term
       /\ served[r].since <= clock
       /\ served[r].at # "received" => served[r].since < token[served[r].user]

\* What the guard has read stays with the request.
GuardedByHeld ==
  \A r \in UserRequests :
    served[r] # None /\ served[r].at \in {"admitted", "acting"} =>
      served[r].rights \in held[r] /\ Session!May(served[r].rights)

BootRegisters ==
  /\ boots >= 1 => role[Local] # None
  /\ boots >= 2 => Local \in password

SessionInv == SessionTyped /\ NowIsHeld /\ TermsEnd /\ GuardedByHeld /\ BootRegisters

SessionKeeps == Session!ActsByRightsHeld /\ Session!ActsInTerm /\ Session!ScopesNest /\ Session!BootstrapEnds

LEMMA SessionInductive == SessionInv /\ [Session!Next]_(Session!vars) => SessionInv'
<1> SUFFICES ASSUME SessionInv, [Session!Next]_(Session!vars) PROVE SessionInv'
  OBVIOUS
<1> USE DEF SessionInv
<1>a. /\ None \notin Session!Roles /\ Local \in Users /\ Term \in Nat \ {0}
  BY PartsAssumption DEF PartsAssumption, Session!SessionAssumption
<1>b. \A u \in Users : Session!Rights(u) \in SessionRights
  BY DEF Session!Rights, SessionRights, SessionTyped
<1>1. CASE UNCHANGED Session!vars
  BY <1>1 DEF Session!vars, Session!userRow, SessionTyped, NowIsHeld, TermsEnd, GuardedByHeld,
       BootRegisters, Session!Rights
<1>2. CASE Session!Boot
  <2>1. \A r \in UserRequests : served'[r] = None
    BY <1>2 DEF Session!Boot
  <2>2. SessionTyped'
    <3>1. role' \in [Users -> Session!Roles \cup {None}]
      BY <1>2 DEF Session!Boot, SessionTyped, Session!Roles
    <3>2. served' \in [UserRequests -> SessionRequests \cup {None}]
      BY <1>2 DEF Session!Boot
    <3>3. held' \in [UserRequests -> SUBSET SessionRights]
      BY <1>2 DEF Session!Boot
    <3>4. boots' \in Nat /\ UNCHANGED <<clock, token>>
      BY <1>2 DEF Session!Boot, SessionTyped
    <3> QED
      BY <3>1, <3>2, <3>3, <3>4 DEF SessionTyped
  <2>3. NowIsHeld' /\ GuardedByHeld'
    BY <2>1 DEF NowIsHeld, GuardedByHeld
  <2>4. TermsEnd'
    BY <1>2, <2>1 DEF TermsEnd, Session!Boot
  <2>5. BootRegisters'
    <3>1. role'[Local] # None
      BY <1>2, <1>a DEF Session!Boot, Session!Registered, SessionTyped, Session!Roles
    <3>2. boots' >= 2 => Local \in password'
      <4>1. boots' >= 2 => boots >= 1
        BY <1>2 DEF Session!Boot, SessionTyped
      <4> QED
        BY <1>2, <1>a, <4>1 DEF Session!Boot, Session!Registered, BootRegisters
    <3> QED
      BY <3>1, <3>2 DEF BootRegisters
  <2> QED
    BY <2>2, <2>3, <2>4, <2>5
<1>3. ASSUME NEW u \in Users, Session!Login(u) PROVE SessionInv'
  <2>1. clock + Term \in Nat
    BY <1>a DEF SessionTyped
  <2>2. SessionTyped'
    BY <1>3, <2>1 DEF Session!Login, Session!userRow, SessionTyped
  <2>3. NowIsHeld' /\ GuardedByHeld' /\ BootRegisters'
    BY <1>3 DEF Session!Login, Session!userRow, NowIsHeld, GuardedByHeld, BootRegisters,
         Session!Rights
  <2>4. TermsEnd'
    <3>1. \A v \in Users : token'[v] = IF v = u THEN clock + Term ELSE token[v]
      BY <1>3 DEF Session!Login, SessionTyped
    <3>2. \A v \in Users : token'[v] # None => token'[v] <= clock + Term
      BY <3>1, <2>1 DEF TermsEnd
    <3>3. ASSUME NEW r \in UserRequests, served[r] # None
          PROVE  /\ token'[served[r].user] \in Nat /\ token'[served[r].user] <= clock + Term
                 /\ served[r].since <= clock
                 /\ served[r].at # "received" => served[r].since < token'[served[r].user]
      <4>1. served[r] \in SessionRequests
        BY <3>3 DEF SessionTyped
      <4>2. served[r].user \in Users /\ served[r].since \in Nat
        BY <4>1 DEF SessionRequests
      <4>3. /\ token[served[r].user] \in Nat /\ served[r].since <= clock
            /\ served[r].at # "received" => served[r].since < token[served[r].user]
            /\ token[served[r].user] <= clock + Term
        BY <3>3, <4>2 DEF TermsEnd
      <4>4. CASE served[r].user = u
        BY <4>2, <4>3, <4>4, <3>1, <2>1
      <4>5. CASE served[r].user # u
        BY <4>2, <4>3, <4>5, <3>1
      <4> QED
        BY <4>4, <4>5
    <3>4. UNCHANGED <<clock, served>>
      BY <1>3 DEF Session!Login
    <3> QED
      BY <3>2, <3>3, <3>4 DEF TermsEnd
  <2> QED
    BY <2>2, <2>3, <2>4
<1>4. CASE Session!Tick
  <2>1. SessionTyped'
    BY <1>4 DEF Session!Tick, Session!userRow, SessionTyped
  <2>2. NowIsHeld' /\ GuardedByHeld' /\ BootRegisters'
    BY <1>4 DEF Session!Tick, Session!userRow, NowIsHeld, GuardedByHeld, BootRegisters,
         Session!Rights
  <2>3. TermsEnd'
    <3>1. clock' = clock + 1 /\ UNCHANGED <<token, served>>
      BY <1>4 DEF Session!Tick
    <3>2. \A u \in Users : token[u] # None => token[u] <= clock + 1 + Term
      BY <1>a DEF TermsEnd, SessionTyped
    <3>3. ASSUME NEW r \in UserRequests, served[r] # None
          PROVE  /\ served[r].since <= clock + 1
                 /\ token[served[r].user] <= clock + 1 + Term
      <4>1. served[r] \in SessionRequests
        BY <3>3 DEF SessionTyped
      <4> QED
        BY <1>a, <3>3, <4>1 DEF TermsEnd, SessionTyped, SessionRequests
    <3> QED
      BY <3>1, <3>2, <3>3 DEF TermsEnd
  <2> QED
    BY <2>1, <2>2, <2>3
<1>5. ASSUME NEW u \in Users, NEW newRole \in Session!Roles, NEW isActive \in BOOLEAN,
             NEW isGranted \in BOOLEAN,
             Session!Administer(u, newRole, isActive, isGranted)
      PROVE  SessionInv'
  <2> DEFINE rights == Session!Rights(u)'
  <2>1. UNCHANGED <<clock, boots, password, token, served>>
    BY <1>5 DEF Session!Administer
  <2>2. role' = [role EXCEPT ![u] = newRole]
    BY <1>5 DEF Session!Administer
  <2>3. held' = [r \in UserRequests |->
                  IF served[r] # None /\ served[r].user = u THEN held[r] \cup {rights} ELSE held[r]]
    BY <1>5 DEF Session!Administer
  <2>4. role' \in [Users -> Session!Roles \cup {None}]
    BY <2>2 DEF SessionTyped
  <2>5. \A v \in Users : Session!Rights(v)' \in SessionRights
    BY <2>4 DEF Session!Rights, SessionRights
  <2>6. \A v \in Users : v # u => Session!Rights(v)' = Session!Rights(v)
    <3> SUFFICES ASSUME NEW v \in Users, v # u PROVE Session!Rights(v)' = Session!Rights(v)
      OBVIOUS
    <3>1. role'[v] = role[v]
      BY <2>2 DEF SessionTyped
    <3>2. (v \in granted') <=> (v \in granted)
      BY <1>5 DEF Session!Administer
    <3>3. (v \in granted') = (v \in granted)
      BY <3>2
    <3> QED
      BY <3>1, <3>3 DEF Session!Rights
  <2>7. SessionTyped'
    <3>1. rights \in SessionRights
      BY <2>5
    <3> HIDE DEF rights
    <3>2. held' \in [UserRequests -> SUBSET SessionRights]
      BY <2>3, <3>1 DEF SessionTyped
    <3> QED
      BY <2>1, <2>4, <3>2 DEF SessionTyped
  <2>8. NowIsHeld'
    <3> SUFFICES ASSUME NEW r \in UserRequests, served[r] # None
                 PROVE  Session!Rights(served[r].user)' \in held'[r]
      BY <2>1 DEF NowIsHeld
    <3>1. served[r].user \in Users
      BY DEF SessionTyped, SessionRequests
    <3>2. CASE served[r].user = u
      <4>1. held'[r] = held[r] \cup {rights}
        BY <2>3, <3>2
      <4>2. Session!Rights(served[r].user)' = rights
        BY <3>2, <2>1
      <4> QED
        BY <4>1, <4>2
    <3>3. CASE served[r].user # u
      <4>1. held'[r] = held[r]
        BY <2>3, <3>3
      <4>2. [role |-> role'[served[r].user], granted |-> served[r].user \in granted']
              = Session!Rights(served[r].user)
        BY <2>6, <3>1, <3>3 DEF Session!Rights
      <4>3. Session!Rights(served[r].user)' = Session!Rights(served[r].user)
        BY <4>2, <2>1 DEF Session!Rights
      <4> QED
        BY <4>1, <4>3 DEF NowIsHeld
    <3> QED
      BY <3>2, <3>3
  <2>9. GuardedByHeld'
    <3>1. \A r \in UserRequests : held[r] \subseteq held'[r]
      BY <2>3
    <3> QED
      BY <2>1, <3>1 DEF GuardedByHeld, Session!May
  <2>10. TermsEnd'
    BY <2>1 DEF TermsEnd
  <2>11. BootRegisters'
    BY <2>1, <2>2, <1>a DEF BootRegisters, SessionTyped
  <2> QED
    BY <2>7, <2>8, <2>9, <2>10, <2>11
<1>6. ASSUME NEW r \in UserRequests, Session!Verify(r) PROVE SessionInv'
  <2>1. /\ served[r] # None /\ served' = [served EXCEPT ![r] = [served[r] EXCEPT !.at = "verified"]]
        /\ UNCHANGED <<clock, boots, role, granted, password, token, held>>
        /\ clock < token[served[r].user]
    BY <1>6 DEF Session!Verify, Session!Steps, Session!userRow
  <2>2. served[r] \in SessionRequests
    BY <2>1 DEF SessionTyped
  <2>3. [served[r] EXCEPT !.at = "verified"] \in SessionRequests
    BY <2>2 DEF SessionRequests
  <2>4. /\ [served[r] EXCEPT !.at = "verified"].user = served[r].user
        /\ [served[r] EXCEPT !.at = "verified"].since = served[r].since
        /\ [served[r] EXCEPT !.at = "verified"].at = "verified"
    BY <2>2 DEF SessionRequests
  <2>5. served[r].since < token[served[r].user]
    <3>1. served[r].since \in Nat /\ token[served[r].user] \in Nat /\ clock \in Nat
          /\ served[r].since <= clock
      BY <2>1, <2>2 DEF TermsEnd, SessionRequests, SessionTyped
    <3> QED
      BY <3>1, <2>1
  <2>6. SessionTyped'
    BY <2>1, <2>3 DEF SessionTyped
  <2>7. NowIsHeld' /\ GuardedByHeld' /\ BootRegisters'
    BY <2>1, <2>4 DEF NowIsHeld, GuardedByHeld, BootRegisters, Session!Rights, Session!May,
         SessionTyped
  <2>8. TermsEnd'
    BY <2>1, <2>4, <2>5 DEF TermsEnd, SessionTyped
  <2> QED
    BY <2>6, <2>7, <2>8
<1>7. ASSUME NEW r \in UserRequests, Session!Guard(r) PROVE SessionInv'
  <2> DEFINE rights == Session!Rights(served[r].user)
             next == [served[r] EXCEPT !.at = "admitted", !.rights = rights,
                                       !.mode = Session!ScopeFor(rights.role)]
  <2>1. /\ served[r] # None /\ served[r].at = "verified"
        /\ UNCHANGED <<clock, boots, role, granted, password, token, held>>
        /\ Session!May(rights)
    BY <1>7 DEF Session!Guard, Session!Steps, Session!userRow, Session!Resolve
  <2>2. served' = [served EXCEPT ![r] = next]
    BY <1>7 DEF Session!Guard, Session!Steps, Session!Resolve
  <2>3. served[r] \in SessionRequests
    BY <2>1 DEF SessionTyped
  <2>4. rights \in SessionRights
    BY <2>3, <1>b DEF SessionRequests
  <2>5. rights \in held[r]
    BY <2>1 DEF NowIsHeld
  <2>6. Session!ScopeFor(rights.role) \in {None, "all", "team", "own"}
    BY DEF Session!ScopeFor
  <2> HIDE DEF rights
  <2>7. next \in SessionRequests
    BY <2>3, <2>4, <2>6 DEF SessionRequests
  <2>8. next.user = served[r].user /\ next.since = served[r].since /\ next.rights = rights
        /\ next.at = "admitted"
    BY <2>3 DEF SessionRequests
  <2> HIDE DEF next
  <2>9. SessionTyped'
    BY <2>1, <2>2, <2>7 DEF SessionTyped
  <2>10. NowIsHeld' /\ BootRegisters'
    BY <2>1, <2>2, <2>8 DEF NowIsHeld, BootRegisters, Session!Rights, SessionTyped
  <2>11. GuardedByHeld'
    BY <2>1, <2>2, <2>5, <2>8 DEF GuardedByHeld, Session!May, SessionTyped
  <2>12. TermsEnd'
    BY <2>1, <2>2, <2>8 DEF TermsEnd, SessionTyped
  <2> QED
    BY <2>9, <2>10, <2>11, <2>12
<1>8. ASSUME NEW r \in UserRequests, Session!Act(r) PROVE SessionInv'
  <2> DEFINE next == [served[r] EXCEPT !.at = "acting"]
  <2>1. /\ served[r] # None /\ served[r].at = "admitted" /\ served' = [served EXCEPT ![r] = next]
        /\ UNCHANGED <<clock, boots, role, granted, password, token, held>>
    BY <1>8 DEF Session!Act, Session!Steps, Session!userRow
  <2>2. served[r] \in SessionRequests
    BY <2>1 DEF SessionTyped
  <2>3. next \in SessionRequests
    BY <2>2 DEF SessionRequests
  <2>4. next.user = served[r].user /\ next.since = served[r].since /\ next.at = "acting"
        /\ next.rights = served[r].rights
    BY <2>2 DEF SessionRequests
  <2> HIDE DEF next
  <2>5. SessionTyped'
    BY <2>1, <2>3 DEF SessionTyped
  <2>6. NowIsHeld' /\ BootRegisters'
    BY <2>1, <2>4 DEF NowIsHeld, BootRegisters, Session!Rights, SessionTyped
  <2>7. GuardedByHeld'
    BY <2>1, <2>4 DEF GuardedByHeld, Session!May, SessionTyped
  <2>8. TermsEnd'
    BY <2>1, <2>4 DEF TermsEnd, SessionTyped
  <2> QED
    BY <2>5, <2>6, <2>7, <2>8
<1>9. ASSUME NEW r \in UserRequests, Session!Answer(r) PROVE SessionInv'
  <2>1. /\ served' = [served EXCEPT ![r] = None] /\ held' = [held EXCEPT ![r] = {}]
        /\ UNCHANGED <<clock, boots, role, granted, password, token>>
    BY <1>9 DEF Session!Answer, Session!userRow
  <2>2. SessionTyped'
    BY <2>1 DEF SessionTyped
  <2> QED
    BY <2>1, <2>2 DEF SessionTyped, NowIsHeld, TermsEnd, GuardedByHeld, BootRegisters,
         Session!Rights, Session!May
<1>10. ASSUME NEW r \in UserRequests, NEW u \in Users, Session!Receive(r, u) PROVE SessionInv'
  <2> DEFINE next == [at |-> "received", user |-> u, since |-> clock, rights |-> None, mode |-> None]
  <2>1. /\ served' = [served EXCEPT ![r] = next] /\ token[u] # None
        /\ held' = [held EXCEPT ![r] = {Session!Rights(u)}]
        /\ UNCHANGED <<clock, boots, role, granted, password, token>>
    BY <1>10 DEF Session!Receive, Session!userRow
  <2>2. next \in SessionRequests /\ token[u] \in Nat
    BY <2>1 DEF SessionRequests, SessionTyped
  <2>3. next.user = u /\ next.at = "received" /\ next.since = clock
    OBVIOUS
  <2> HIDE DEF next
  <2>4. SessionTyped'
    BY <2>1, <2>2, <1>b DEF SessionTyped
  <2>5. NowIsHeld' /\ BootRegisters'
    BY <2>1, <2>3 DEF NowIsHeld, BootRegisters, Session!Rights, SessionTyped
  <2>6. GuardedByHeld'
    BY <2>1, <2>3 DEF GuardedByHeld, Session!May, SessionTyped
  <2>7. TermsEnd'
    BY <2>1, <2>2, <2>3 DEF TermsEnd, SessionTyped
  <2> QED
    BY <2>4, <2>5, <2>6, <2>7
<1> QED
  BY <1>1, <1>2, <1>3, <1>4, <1>5, <1>6, <1>7, <1>8, <1>9, <1>10 DEF Session!Next

LEMMA SessionInitially == Session!Init => SessionInv
<1> SUFFICES ASSUME Session!Init PROVE SessionInv
  OBVIOUS
<1>1. SessionTyped
  BY DEF Session!Init, SessionTyped, Session!Roles
<1> QED
  BY <1>1 DEF Session!Init, SessionInv, NowIsHeld, TermsEnd, GuardedByHeld, BootRegisters

\* Although the rights of users change while their requests run, a request acts by rights its
\* user had together while it ran, within the term of a session; whoever may work on an
\* opportunity sees what belongs to it; and the administrator of the configuration can log in
\* from the second start on.
THEOREM RequestsActByRights == Session!Spec => []SessionKeeps
<1>1. SessionInv => SessionKeeps
  <2> SUFFICES ASSUME SessionInv PROVE SessionKeeps
    OBVIOUS
  <2>1. Session!ActsByRightsHeld
    BY DEF SessionInv, GuardedByHeld, Session!ActsByRightsHeld, Session!Acting, Session!May
  <2>2. Session!ActsInTerm
    BY DEF SessionInv, TermsEnd, Session!ActsInTerm, Session!Acting
  <2>3. Session!ScopesNest
    BY DEF Session!ScopesNest, Session!SeesDeal, Session!SeesOrganization, Session!SeesOf,
         Session!SeesContact
  <2>4. Session!BootstrapEnds
    BY DEF SessionInv, BootRegisters, Session!BootstrapEnds
  <2> QED
    BY <2>1, <2>2, <2>3, <2>4 DEF SessionKeeps
<1> QED
  BY <1>1, SessionInitially, SessionInductive, PTL DEF Session!Spec

\* What TypeOK says of users beyond SessionInv: who is active, has the permission or has a
\* password is registered.
SessionSets ==
  /\ clock <= MaxSessionTime /\ boots <= MaxBoots
  /\ working \cup granted \cup password \subseteq Session!Registered

LEMMA SessionSetsStay == SessionInv /\ SessionSets /\ [Session!Next]_(Session!vars) => SessionSets'
<1> SUFFICES ASSUME SessionInv, SessionSets, [Session!Next]_(Session!vars) PROVE SessionSets'
  OBVIOUS
<1>1. /\ None \notin Session!Roles /\ Local \in Users
      /\ MaxSessionTime \in Nat /\ MaxBoots \in Nat /\ clock \in Nat /\ boots \in Nat
      /\ role \in [Users -> Session!Roles \cup {None}]
  BY PartsAssumption
  DEF PartsAssumption, Session!SessionAssumption, SessionInv, SessionTyped
<1>2. CASE Session!Boot
  <2>1. /\ boots' = boots + 1 /\ boots < MaxBoots /\ UNCHANGED <<clock, granted>>
        /\ password' \in {password, password \cup {Local}}
        /\ working' \in {working, working \cup {Local}}
    BY <1>2 DEF Session!Boot
  <2>2. \A u \in Users : role[u] # None \/ u = Local => role'[u] # None
    BY <1>1, <1>2 DEF Session!Boot, Session!Registered, Session!Roles
  <2>3. Session!Registered \cup {Local} \subseteq Session!Registered'
    BY <1>1, <2>2 DEF Session!Registered
  <2>4. (working \cup granted \cup password)' \subseteq Session!Registered'
    BY <2>1, <2>3 DEF SessionSets
  <2> QED
    BY <1>1, <2>1, <2>4 DEF SessionSets
<1>3. CASE Session!Tick
  <2>1. /\ clock' = clock + 1 /\ clock < MaxSessionTime
        /\ UNCHANGED <<boots, role, working, granted, password>>
    BY <1>3 DEF Session!Tick, Session!userRow
  <2> QED
    BY <1>1, <2>1 DEF SessionSets, Session!Registered
<1>4. ASSUME NEW u \in Users, NEW newRole \in Session!Roles, NEW isActive \in BOOLEAN,
             NEW isGranted \in BOOLEAN,
             Session!Administer(u, newRole, isActive, isGranted)
      PROVE  SessionSets'
  <2>1. /\ UNCHANGED <<clock, boots, password>> /\ u \in Session!Registered
        /\ role' = [role EXCEPT ![u] = newRole]
        /\ working' \subseteq working \cup {u} /\ granted' \subseteq granted \cup {u}
    BY <1>4 DEF Session!Administer
  <2>2. Session!Registered \subseteq Session!Registered'
    BY <1>1, <2>1 DEF Session!Registered
  <2>3. (working \cup granted \cup password)' \subseteq Session!Registered'
    BY <2>1, <2>2 DEF SessionSets
  <2> QED
    BY <2>1, <2>3 DEF SessionSets
<1>5. CASE UNCHANGED <<clock, boots, role, working, granted, password>>
  BY <1>5 DEF SessionSets, Session!Registered
<1>6. CASE \/ UNCHANGED Session!vars
           \/ \E u \in Users : Session!Login(u)
           \/ \E r \in UserRequests :
                \/ Session!Verify(r) \/ Session!Guard(r) \/ Session!Act(r) \/ Session!Answer(r)
                \/ \E u \in Users : Session!Receive(r, u)
  BY <1>5, <1>6
  DEF Session!vars, Session!userRow, Session!Login, Session!Verify, Session!Guard, Session!Act,
      Session!Answer, Session!Receive, Session!Steps
<1> QED
  BY <1>2, <1>3, <1>4, <1>6 DEF Session!Next

LEMMA SessionTypesOK == Session!Spec => []Session!TypeOK
<1>1. Session!Init => SessionSets
  BY PartsAssumption
  DEF PartsAssumption, Session!SessionAssumption, Session!Init, SessionSets
<1>2. SessionInv /\ SessionSets => Session!TypeOK
  <2> SUFFICES ASSUME SessionInv, SessionSets PROVE Session!TypeOK
    OBVIOUS
  <2>1. /\ MaxSessionTime \in Nat /\ MaxBoots \in Nat /\ Term \in Nat
        /\ clock \in Nat /\ boots \in Nat /\ token \in [Users -> Nat \cup {None}]
        /\ \A u \in Users : token[u] # None => token[u] <= clock + Term
        /\ clock <= MaxSessionTime
    BY PartsAssumption
    DEF PartsAssumption, Session!SessionAssumption, SessionInv, SessionTyped, TermsEnd, SessionSets
  <2>2. token \in [Users -> 0 .. MaxSessionTime + Term \cup {None}]
    BY <2>1
  <2>3. \A r \in UserRequests : served[r] = None \/
          /\ served[r].at \in {"received", "verified", "admitted", "acting"}
          /\ served[r].user \in Users
    BY DEF SessionInv, SessionTyped, SessionRequests
  <2>4. clock \in 0 .. MaxSessionTime /\ boots \in 0 .. MaxBoots
    BY <2>1 DEF SessionSets
  <2> QED
    BY <2>2, <2>3, <2>4 DEF SessionInv, SessionTyped, SessionSets, Session!TypeOK
<1> QED
  BY <1>1, <1>2, SessionInitially, SessionInductive, SessionSetsStay, PTL DEF Session!Spec

-------------------------------------------------------------------------------
(* SlaSettings: whatever commits dooms who saw another process version.       *)

LEMMA SettingsConstants == None \notin Settings!Publications
BY PartsAssumption DEF PartsAssumption, Settings!VersionAssumption

PublicationsTyped ==
  /\ published \in Nat /\ processVersion \in [Opportunities -> Nat]
  /\ publication \in [Requests -> Settings!Publications \cup {None}]
  /\ \A r \in Requests : publication[r] # None /\ publication[r].kind = "create" =>
       publication[r].created \in Opportunities

\* Those that are open, and were never closed.
NeverClosed == {o \in Opportunities \ (closed \cup reopened) : processVersion[o] # 0}

\* Who may still commit has seen the latest definition, and a publication has seen all that it
\* is to move.
SeesLatest(p, latest, opened) ==
  /\ p.kind = "publish" => p.version = latest + 1 /\ opened \subseteq p.moved
  /\ p.kind = "create" => p.version = latest

SettingsInv ==
  /\ PublicationsTyped
  /\ \A o \in NeverClosed : processVersion[o] = published
  /\ \A r \in Requests : publication[r] # None /\ r \notin doomed =>
       SeesLatest(publication[r], published, NeverClosed)

\* A publication writes what every transaction under way has read, and has read what each
\* writes; a creation so for publications.
LEMMA CommitDooms ==
  ASSUME PublicationsTyped, NEW r \in Requests, NEW s \in Requests, s # r,
         publication[r] # None, publication[s] # None, Settings!Snapshot!Commit(r),
         publication[r].kind = "publish" \/ publication[s].kind = "publish"
  PROVE  s \in doomed'
<1> DEFINE f == Settings!Footprint(publication[r])
           g == Settings!Footprint(publication[s])
           others == {u \in Requests \ {r} : Settings!Snapshot!Active(u)}
<1>1. /\ publication[r] \in Settings!Publications /\ publication[s] \in Settings!Publications
  BY DEF PublicationsTyped
<1>2. /\ Settings!Definitions \in f.reads /\ Settings!Definitions \in g.reads
      /\ Settings!Open \in f.writes /\ Settings!Open \in g.writes
      /\ publication[r].kind = "publish" => Settings!Definitions \in f.writes /\ Settings!Open \in f.reads
      /\ publication[s].kind = "publish" => Settings!Definitions \in g.writes /\ Settings!Open \in g.reads
  BY DEF Settings!Footprint
<1>3. s \in others
  BY <1>2 DEF Settings!Snapshot!Active, Settings!Snapshot!Idle
<1>4. f.writes \cap g.reads # {} /\ f.reads \cap g.writes # {}
  BY <1>2
<1> HIDE DEF f, g
<1>5. /\ Settings!Snapshot!ReadsWritten(g, f)
      /\ Settings!Snapshot!ReadsWritten(f, g)
  BY <1>4 DEF Settings!Snapshot!ReadsWritten
<1> HIDE DEF others
<1>6. doomed' = (doomed \cap others)
        \cup {u \in others : Settings!Footprint(publication[u]).rows \cap f.rows # {}}
        \cup {u \in others : u \in out \cup {v \in others : Settings!Snapshot!ReadsWritten(Settings!Footprint(publication[v]), f)}
                  /\ Settings!Snapshot!ReadsWritten(f, Settings!Footprint(publication[u]))}
  BY DEF Settings!Snapshot!Commit, Settings!Snapshot!Committed, others, f, Settings!Snapshot!Active, Settings!Snapshot!Idle
<1> QED
  BY <1>3, <1>5, <1>6 DEF g

\* Dooming is for good.
LEMMA StaysDoomed ==
  ASSUME NEW r \in Requests, NEW s \in Requests, s # r, publication[s] # None, s \in doomed,
         Settings!Snapshot!Commit(r)
  PROVE  s \in doomed'
<1>1. Settings!Snapshot!Active(s)
  <2>1. Settings!Definitions \in Settings!Footprint(publication[s]).reads
    BY DEF Settings!Footprint
  <2> QED
    BY <2>1 DEF Settings!Snapshot!Active, Settings!Snapshot!Idle
<1> QED
  BY <1>1 DEF Settings!Snapshot!Commit, Settings!Snapshot!Committed

\* Steps that add no open opportunity, and leave the latest definition alone.
LEMMA NothingOpens ==
  ASSUME SettingsInv, PublicationsTyped', UNCHANGED <<published, processVersion>>,
         NeverClosed' \subseteq NeverClosed,
         \A r \in Requests : publication'[r] # None /\ r \notin doomed' =>
           publication'[r] = publication[r] /\ r \notin doomed
  PROVE  SettingsInv'
<1>1. \A o \in NeverClosed' : processVersion'[o] = published'
  BY DEF SettingsInv
<1>2. ASSUME NEW r \in Requests, publication'[r] # None, r \notin doomed'
      PROVE  SeesLatest(publication'[r], published', NeverClosed')
  <2>1. SeesLatest(publication[r], published, NeverClosed)
    BY <1>2 DEF SettingsInv
  <2> QED
    BY <1>2, <2>1 DEF SeesLatest
<1> QED
  BY <1>1, <1>2 DEF SettingsInv

LEMMA SettingsCommit ==
  ASSUME SettingsInv, NEW r \in Requests, Settings!Commit(r) PROVE SettingsInv'
<1> DEFINE p == publication[r]
<1>1. /\ p # None /\ Settings!Snapshot!Commit(r)
      /\ IF p.kind = "publish"
         THEN /\ published' = p.version
              /\ processVersion' = [o \in Opportunities |->
                                      IF o \in p.moved THEN p.version ELSE processVersion[o]]
         ELSE /\ processVersion' = [processVersion EXCEPT ![p.created] = p.version]
              /\ UNCHANGED published
      /\ publication' = [publication EXCEPT ![r] = None]
      /\ UNCHANGED <<closed, reopened>>
  BY DEF Settings!Commit
<1>2. /\ PublicationsTyped /\ p \in Settings!Publications
  BY <1>1 DEF SettingsInv, PublicationsTyped
<1>3. p.version \in Nat
  BY <1>2 DEF Settings!Publications
<1>4. SeesLatest(p, published, NeverClosed)
  <2>1. r \notin doomed
    BY <1>1 DEF Settings!Snapshot!Commit, Settings!Snapshot!MayCommit
  <2> QED
    BY <1>1, <2>1 DEF SettingsInv
<1>5. /\ publication' \in [Requests -> Settings!Publications \cup {None}]
      /\ \A s \in Requests : s # r => publication'[s] = publication[s]
      /\ publication'[r] = None
  BY <1>1, <1>2 DEF PublicationsTyped
<1>6. \A s \in Requests : publication'[s] # None /\ publication'[s].kind = "create" =>
        publication'[s].created \in Opportunities
  BY <1>2, <1>5 DEF PublicationsTyped
<1>7. ASSUME NEW s \in Requests, publication'[s] # None, s \notin doomed'
      PROVE  s # r /\ publication'[s] = publication[s] /\ s \notin doomed
  BY <1>1, <1>5, <1>7, StaysDoomed
<1>8. CASE p.kind = "publish"
  <2>1. /\ published' = p.version
        /\ processVersion' = [o \in Opportunities |->
                                IF o \in p.moved THEN p.version ELSE processVersion[o]]
    BY <1>1, <1>8
  <2>2. published' \in Nat /\ processVersion' \in [Opportunities -> Nat]
    BY <1>2, <1>3, <2>1 DEF PublicationsTyped
  <2>3. NeverClosed \subseteq p.moved
    BY <1>4, <1>8 DEF SeesLatest
  <2>4. ASSUME NEW o \in NeverClosed' PROVE processVersion'[o] = published'
    <3>1. o \in Opportunities /\ o \notin closed \cup reopened /\ processVersion'[o] # 0
      BY <1>1 DEF NeverClosed
    <3>2. o \notin p.moved => processVersion'[o] = processVersion[o]
      BY <2>1, <3>1
    <3>3. o \notin p.moved => o \in NeverClosed
      BY <3>1, <3>2 DEF NeverClosed
    <3>4. o \in p.moved
      BY <2>3, <3>3
    <3> QED
      BY <2>1, <3>1, <3>4
  <2>5. \A s \in Requests : ~(publication'[s] # None /\ s \notin doomed')
    BY <1>1, <1>2, <1>7, <1>8, CommitDooms
  <2> QED
    BY <1>5, <1>6, <2>2, <2>4, <2>5 DEF SettingsInv, PublicationsTyped
<1>9. CASE p.kind = "create"
  <2>1. /\ processVersion' = [processVersion EXCEPT ![p.created] = p.version]
        /\ UNCHANGED published
    BY <1>1, <1>9
  <2>2. processVersion' \in [Opportunities -> Nat]
    BY <1>2, <1>3, <2>1 DEF PublicationsTyped
  <2>3. p.version = published /\ p.created \in Opportunities
    BY <1>1, <1>2, <1>4, <1>9 DEF SeesLatest, PublicationsTyped
  <2>4. ASSUME NEW o \in NeverClosed' PROVE processVersion'[o] = published'
    <3>1. o \in Opportunities /\ o \notin closed \cup reopened /\ processVersion'[o] # 0
      BY <1>1 DEF NeverClosed
    <3>2. CASE o = p.created
      BY <1>2, <2>1, <2>3, <3>1, <3>2 DEF PublicationsTyped
    <3>3. CASE o # p.created
      <4>1. processVersion'[o] = processVersion[o]
        BY <1>2, <2>1, <3>1, <3>3 DEF PublicationsTyped
      <4> QED
        BY <2>1, <3>1, <4>1 DEF NeverClosed, SettingsInv
    <3> QED
      BY <3>2, <3>3
  <2>5. ASSUME NEW s \in Requests, publication'[s] # None, s \notin doomed'
        PROVE  SeesLatest(publication'[s], published', NeverClosed')
    <3>1. s # r /\ publication'[s] = publication[s] /\ s \notin doomed
      BY <1>7, <2>5
    <3>2. publication[s].kind # "publish"
      BY <1>1, <1>2, <2>5, <3>1, CommitDooms
    <3>3. SeesLatest(publication[s], published, NeverClosed)
      BY <2>5, <3>1 DEF SettingsInv
    <3> QED
      BY <2>1, <3>1, <3>2, <3>3 DEF SeesLatest
  <2> QED
    BY <1>5, <1>6, <2>1, <2>2, <2>4, <2>5, <1>2 DEF SettingsInv, PublicationsTyped
<1> QED
  BY <1>2, <1>8, <1>9 DEF Settings!Publications

LEMMA SettingsBegin ==
  ASSUME SettingsInv, NEW r \in Requests, NEW p \in Settings!Publications, p # None,
         p.kind = "create" => p.created \in Opportunities,
         Settings!Begin(r, p), SeesLatest(p, published, NeverClosed)
  PROVE  SettingsInv'
<1>1. /\ publication' = [publication EXCEPT ![r] = p]
      /\ UNCHANGED <<published, processVersion, closed, reopened, out, doomed>>
  BY DEF Settings!Begin, Settings!rows
<1>2. PublicationsTyped'
  BY <1>1 DEF SettingsInv, PublicationsTyped
<1>3. NeverClosed' = NeverClosed
  BY <1>1 DEF NeverClosed
<1>4. ASSUME NEW s \in Requests, publication'[s] # None, s \notin doomed'
      PROVE  SeesLatest(publication'[s], published', NeverClosed')
  <2>1. CASE s = r
    BY <1>1, <1>3, <2>1 DEF SettingsInv, PublicationsTyped
  <2>2. CASE s # r
    BY <1>1, <1>3, <1>4, <2>2 DEF SettingsInv, PublicationsTyped
  <2> QED
    BY <2>1, <2>2
<1> QED
  BY <1>1, <1>2, <1>3, <1>4 DEF SettingsInv

LEMMA SettingsBeginPublish ==
  ASSUME SettingsInv, NEW r \in Requests, NEW a \in Publishers, Settings!BeginPublish(r, a)
  PROVE  SettingsInv'
<1> DEFINE p == [kind |-> "publish", version |-> published + 1,
                 moved |-> Settings!OpenUnder(published), created |-> None]
<1>1. Settings!Begin(r, p)
  BY DEF Settings!BeginPublish
<1>2. Settings!OpenUnder(published) \subseteq Opportunities
  BY DEF Settings!OpenUnder
<1>3. p \in Settings!Publications /\ p.kind = "publish" /\ p # None
  BY <1>2, SettingsConstants DEF SettingsInv, PublicationsTyped, Settings!Publications
<1>4. NeverClosed \subseteq Settings!OpenUnder(published)
  BY DEF SettingsInv, NeverClosed, Settings!OpenUnder
<1>5. SeesLatest(p, published, NeverClosed)
  BY <1>4 DEF SeesLatest
<1> QED
  BY <1>1, <1>3, <1>5, SettingsBegin

LEMMA SettingsBeginCreate ==
  ASSUME SettingsInv, NEW r \in Requests, NEW o \in Opportunities, Settings!BeginCreate(r, o)
  PROVE  SettingsInv'
<1> DEFINE p == [kind |-> "create", version |-> published, moved |-> {}, created |-> o]
<1>1. Settings!Begin(r, p)
  BY DEF Settings!BeginCreate
<1>2. p \in Settings!Publications /\ p.created \in Opportunities /\ p # None
  BY SettingsConstants DEF SettingsInv, PublicationsTyped, Settings!Publications
<1>3. SeesLatest(p, published, NeverClosed)
  BY DEF SeesLatest
<1> QED
  BY <1>1, <1>2, <1>3, SettingsBegin

LEMMA SettingsAbort ==
  ASSUME SettingsInv, NEW r \in Requests, Settings!Abort(r) PROVE SettingsInv'
<1>1. /\ publication' = [publication EXCEPT ![r] = None] /\ doomed' = doomed \ {r}
      /\ UNCHANGED <<published, processVersion, closed, reopened>>
  BY DEF Settings!Abort, Settings!Snapshot!Rollback, Settings!rows
<1>2. PublicationsTyped'
  BY <1>1 DEF SettingsInv, PublicationsTyped
<1>3. NeverClosed' = NeverClosed
  BY <1>1 DEF NeverClosed
<1> QED
  BY <1>1, <1>2, <1>3, NothingOpens DEF SettingsInv, PublicationsTyped

\* A change of status dooms some, and no more.
LEMMA SettingsStatus ==
  ASSUME SettingsInv, NEW o \in Opportunities, Settings!Close(o) \/ Settings!Reopen(o)
  PROVE  SettingsInv'
<1>1. /\ UNCHANGED <<published, processVersion, publication>>
      /\ closed \cup reopened \subseteq closed' \cup reopened'
      /\ Settings!StatusWritten(o)
  BY DEF Settings!Close, Settings!Reopen
<1>2. PublicationsTyped'
  BY <1>1 DEF SettingsInv, PublicationsTyped
<1>3. NeverClosed' \subseteq NeverClosed
  BY <1>1 DEF NeverClosed
<1>4. ASSUME NEW s \in Requests, publication[s] # None, s \in doomed PROVE s \in doomed'
  <2>1. Settings!Snapshot!Active(s)
    <3>1. Settings!Definitions \in Settings!Footprint(publication[s]).reads
      BY DEF Settings!Footprint
    <3> QED
      BY <1>4, <3>1 DEF Settings!Snapshot!Active, Settings!Snapshot!Idle
  <2> QED
    BY <1>1, <1>4, <2>1 DEF Settings!StatusWritten, Settings!Snapshot!CommitAtOnce,
         Settings!Snapshot!Committed
<1> QED
  BY <1>1, <1>2, <1>3, <1>4, NothingOpens

LEMMA SettingsInductive == SettingsInv /\ [Settings!Next]_(Settings!vars) => SettingsInv'
<1> SUFFICES ASSUME SettingsInv, [Settings!Next]_(Settings!vars) PROVE SettingsInv'
  OBVIOUS
<1>1. CASE UNCHANGED Settings!vars
  BY <1>1 DEF Settings!vars, Settings!rows, SettingsInv, PublicationsTyped, NeverClosed
<1>2. ASSUME NEW a \in Publishers, Settings!GetDefinition(a) \/ Settings!GetAffected(a)
      PROVE  SettingsInv'
  <2>1. UNCHANGED <<published, processVersion, closed, reopened, publication, doomed>>
    BY <1>2 DEF Settings!GetDefinition, Settings!GetAffected, Settings!rows
  <2> QED
    BY <2>1 DEF SettingsInv, PublicationsTyped, NeverClosed
<1>3. CASE Settings!Next
  BY <1>2, <1>3, SettingsCommit, SettingsBeginPublish, SettingsBeginCreate, SettingsAbort,
     SettingsStatus DEF Settings!Next
<1> QED
  BY <1>1, <1>3

LEMMA SettingsInitially == Settings!Init => SettingsInv
<1> SUFFICES ASSUME Settings!Init PROVE SettingsInv
  OBVIOUS
<1>1. PublicationsTyped
  BY DEF Settings!Init, PublicationsTyped
<1> QED
  BY <1>1 DEF Settings!Init, SettingsInv, NeverClosed

LEMMA LatestIsThere == SettingsInv => Settings!OpenUnderLatest
BY DEF SettingsInv, NeverClosed, Settings!OpenUnderLatest, Settings!Exists

\* However publications meet creations, closings and reopenings, an opportunity that is open
\* and was never closed is under the latest process version.
THEOREM OpenAreUnderLatest == Settings!Spec => []Settings!OpenUnderLatest
BY LatestIsThere, SettingsInitially, SettingsInductive, PTL DEF Settings!Spec

\* What TypeOK says beyond SettingsInv, and that publications are of versions there may be.
SettingSets ==
  /\ published \in Settings!Versions
  /\ \A o \in Opportunities : processVersion[o] <= published
  /\ reopened \cup closed \subseteq {o \in Opportunities : processVersion[o] # 0}
  /\ DOMAIN form = Publishers
  /\ \A a \in Publishers : DOMAIN form[a] = {"version", "affected"} /\ form[a].version \in 0 .. published
  /\ \A r \in Requests : publication[r] # None => publication[r].version \in Settings!Versions
  /\ out \cup doomed \subseteq {r \in Requests : publication[r] # None}

LEMMA SettingSetsStay == SettingsInv /\ SettingSets /\ [Settings!Next]_(Settings!vars) => SettingSets'
<1> SUFFICES ASSUME SettingsInv, SettingSets, [Settings!Next]_(Settings!vars) PROVE SettingSets'
  OBVIOUS
<1>1. /\ MaxProcessVersion \in Nat \ {0} /\ published \in 1 .. MaxProcessVersion
      /\ processVersion \in [Opportunities -> Nat]
      /\ publication \in [Requests -> Settings!Publications \cup {None}]
  BY PartsAssumption DEF PartsAssumption, Settings!VersionAssumption, SettingSets, Settings!Versions,
     SettingsInv, PublicationsTyped
<1>2. CASE UNCHANGED Settings!vars
  BY <1>2 DEF Settings!vars, Settings!rows, SettingSets, Settings!Versions
<1>3. ASSUME NEW a \in Publishers, Settings!GetDefinition(a) \/ Settings!GetAffected(a)
      PROVE  SettingSets'
  <2>1. UNCHANGED <<published, processVersion, closed, reopened, publication, out, doomed>>
    BY <1>3 DEF Settings!GetDefinition, Settings!GetAffected, Settings!rows
  <2>2. DOMAIN form' = Publishers /\ \A b \in Publishers : b # a => form'[b] = form[b]
    BY <1>3 DEF Settings!GetDefinition, Settings!GetAffected, SettingSets
  <2>3. DOMAIN form'[a] = {"version", "affected"} /\ form'[a].version \in {published, form[a].version}
    BY <1>3 DEF Settings!GetDefinition, Settings!GetAffected, SettingSets
  <2>4. \A b \in Publishers : /\ DOMAIN form'[b] = {"version", "affected"}
                              /\ form'[b].version \in 0 .. published'
    BY <1>1, <2>1, <2>2, <2>3 DEF SettingSets
  <2> QED
    BY <2>1, <2>2, <2>4 DEF SettingSets, Settings!Versions
<1>4. ASSUME NEW r \in Requests, NEW p, Settings!Begin(r, p), p.version \in Settings!Versions, p # None
      PROVE  SettingSets'
  <2>1. /\ publication' = [publication EXCEPT ![r] = p]
        /\ UNCHANGED <<published, processVersion, closed, reopened, form, out, doomed>>
    BY <1>4 DEF Settings!Begin, Settings!rows
  <2>2. \A s \in Requests : publication'[s] = IF s = r THEN p ELSE publication[s]
    BY <1>1, <2>1
  <2>3. \A s \in Requests : publication'[s] # None => publication'[s].version \in Settings!Versions'
    BY <1>4, <2>2 DEF SettingSets, Settings!Versions
  <2>4. (out \cup doomed)' \subseteq {s \in Requests : publication'[s] # None}
    BY <1>4, <2>1, <2>2 DEF SettingSets
  <2> QED
    BY <2>1, <2>3, <2>4 DEF SettingSets, Settings!Versions
<1>5. ASSUME NEW r \in Requests, NEW a \in Publishers, Settings!BeginPublish(r, a) PROVE SettingSets'
  <2> DEFINE p == [kind |-> "publish", version |-> published + 1,
                   moved |-> Settings!OpenUnder(published), created |-> None]
  <2>1. Settings!Begin(r, p) /\ published < MaxProcessVersion
    BY <1>5 DEF Settings!BeginPublish
  <2>2. Settings!OpenUnder(published) \subseteq Opportunities
    BY DEF Settings!OpenUnder
  <2>3. p # None /\ p.version \in Settings!Versions
    BY <1>1, <2>1, <2>2, SettingsConstants DEF Settings!Publications, Settings!Versions
  <2> QED
    BY <1>4, <2>1, <2>3
<1>6. ASSUME NEW r \in Requests, NEW o \in Opportunities, Settings!BeginCreate(r, o) PROVE SettingSets'
  <2> DEFINE p == [kind |-> "create", version |-> published, moved |-> {}, created |-> o]
  <2>1. Settings!Begin(r, p)
    BY <1>6 DEF Settings!BeginCreate
  <2>2. p # None /\ p.version \in Settings!Versions
    BY <1>1, SettingsConstants DEF Settings!Publications, Settings!Versions
  <2> QED
    BY <1>4, <2>1, <2>2
<1>7. \A r \in Requests : Settings!Snapshot!Active(r) => publication[r] # None
  BY DEF Settings!Snapshot!Active, Settings!Snapshot!Idle
<1>8. ASSUME NEW r \in Requests, Settings!Commit(r) PROVE SettingSets'
  <2> DEFINE p == publication[r]
  <2>1. /\ p # None /\ Settings!Snapshot!Commit(r) /\ r \notin doomed
        /\ publication' = [publication EXCEPT ![r] = None]
        /\ UNCHANGED <<closed, reopened, form>>
    BY <1>8 DEF Settings!Commit, Settings!Snapshot!Commit, Settings!Snapshot!MayCommit
  <2>2. p \in Settings!Publications /\ p.version \in 1 .. MaxProcessVersion
        /\ SeesLatest(p, published, NeverClosed)
        /\ (p.kind = "create" => p.created \in Opportunities)
    BY <1>1, <2>1 DEF SettingsInv, PublicationsTyped, SettingSets, Settings!Versions
  <2>3. \A s \in Requests : publication'[s] = IF s = r THEN None ELSE publication[s]
    BY <1>1, <2>1
  <2>4. (out \cup doomed)' \subseteq {s \in Requests : publication'[s] # None}
    BY <1>7, <2>1, <2>3 DEF Settings!Snapshot!Commit, Settings!Snapshot!Committed
  <2>5. \A s \in Requests : publication'[s] # None => publication'[s].version \in Settings!Versions'
    BY <2>3 DEF SettingSets, Settings!Versions
  <2>6. /\ published' \in published .. MaxProcessVersion
        /\ \A o \in Opportunities : /\ processVersion'[o] \in {processVersion[o], p.version}
                                    /\ processVersion'[o] <= published'
    <3>1. CASE p.kind = "publish"
      <4>1. /\ published' = p.version /\ p.version = published + 1
            /\ \A o \in Opportunities : processVersion'[o] \in {processVersion[o], p.version}
        BY <1>8, <2>2, <3>1 DEF Settings!Commit, SeesLatest
      <4> QED
        BY <1>1, <2>2, <4>1 DEF SettingSets
    <3>2. CASE p.kind = "create"
      <4>1. /\ published' = published /\ p.version = published
            /\ processVersion' = [processVersion EXCEPT ![p.created] = p.version]
        BY <1>8, <2>2, <3>2 DEF Settings!Commit, SeesLatest
      <4>2. \A o \in Opportunities : processVersion'[o] \in {processVersion[o], p.version}
        BY <1>1, <4>1
      <4> QED
        BY <1>1, <2>2, <4>1, <4>2 DEF SettingSets
    <3> QED
      BY <2>2, <3>1, <3>2 DEF Settings!Publications
  <2>7. \A o \in Opportunities : processVersion[o] # 0 => processVersion'[o] # 0
    BY <2>2, <2>6
  <2>8. \A a \in Publishers : form'[a].version \in 0 .. published'
    BY <1>1, <2>1, <2>6 DEF SettingSets
  <2> QED
    BY <1>1, <2>1, <2>4, <2>5, <2>6, <2>7, <2>8 DEF SettingSets, Settings!Versions
<1>9. ASSUME NEW r \in Requests, Settings!Abort(r) PROVE SettingSets'
  <2>1. /\ publication' = [publication EXCEPT ![r] = None]
        /\ out' = out \ {r} /\ doomed' = doomed \ {r}
        /\ UNCHANGED <<published, processVersion, closed, reopened, form>>
    BY <1>9 DEF Settings!Abort, Settings!Snapshot!Rollback, Settings!rows
  <2>2. \A s \in Requests : publication'[s] = IF s = r THEN None ELSE publication[s]
    BY <1>1, <2>1
  <2>3. \A s \in Requests : publication'[s] # None => publication'[s].version \in Settings!Versions'
    BY <2>2 DEF SettingSets, Settings!Versions
  <2>4. (out \cup doomed)' \subseteq {s \in Requests : publication'[s] # None}
    BY <2>1, <2>2 DEF SettingSets
  <2> QED
    BY <2>1, <2>3, <2>4 DEF SettingSets, Settings!Versions
<1>10. ASSUME NEW o \in Opportunities, Settings!Close(o) \/ Settings!Reopen(o) PROVE SettingSets'
  <2>1. /\ UNCHANGED <<published, processVersion, form, publication>>
        /\ (reopened \cup closed)' \subseteq reopened \cup closed \cup {o}
        /\ o \in closed \/ processVersion[o] # 0
        /\ Settings!StatusWritten(o)
    BY <1>10 DEF Settings!Close, Settings!Reopen, Settings!Exists
  <2>2. (out \cup doomed)' \subseteq {s \in Requests : publication'[s] # None}
    BY <1>7, <2>1 DEF Settings!StatusWritten, Settings!Snapshot!CommitAtOnce,
       Settings!Snapshot!Committed
  <2> QED
    BY <2>1, <2>2 DEF SettingSets, Settings!Versions
<1> QED
  BY <1>2, <1>3, <1>5, <1>6, <1>8, <1>9, <1>10 DEF Settings!Next

LEMMA SettingsAreTyped == SettingsInv /\ SettingSets => Settings!TypeOK
<1> SUFFICES ASSUME SettingsInv, SettingSets PROVE Settings!TypeOK
  OBVIOUS
<1>1. published \in Nat /\ processVersion \in [Opportunities -> 0 .. published]
  BY DEF SettingsInv, PublicationsTyped, SettingSets
<1> QED
  BY <1>1 DEF SettingsInv, PublicationsTyped, SettingSets, Settings!TypeOK

LEMMA SettingSetsInitially == Settings!Init => SettingSets
BY PartsAssumption DEF PartsAssumption, Settings!VersionAssumption, Settings!Init, SettingSets,
   Settings!Versions

-------------------------------------------------------------------------------
(* RadarCandidates: merges come to an end, and duplicates are marked, although decisions *)
(* are made of snapshots.                                                                *)

ActFits(a) ==
  /\ a.kind = "create" => a.candidate = None /\ a.target = None /\ a.status = "open"
  /\ a.kind = "decide" =>
       /\ a.candidate \in Candidates /\ a.candidate # a.target
       /\ a.target # None <=> a.status = "merged"

CandidatesTyped ==
  /\ host \in [Candidates -> CheckedHosts \cup {None}]
  /\ status \in [Candidates -> Cand!Statuses]
  /\ mergedInto \in [Candidates -> Candidates \cup {None}]
  /\ act \in [Requests -> Cand!Acts \cup {None}]
  /\ \A r \in Requests : act[r] # None => ActFits(act[r])
  /\ out \cup doomed \subseteq {r \in Requests : act[r] # None}

MergedAreMarked == \A c \in Candidates : mergedInto[c] # None => status[c] = "merged"

NumbersAreDense ==
  \A c, d \in Candidates : c < d /\ host[d] # None => host[c] # None

\* What a transaction that may still commit knows of the rows it decides on: nobody has decided
\* on its candidate, and if nobody has written what it read, its target is not merged; and who
\* creates the first candidate of a host will not be the second.
Knows(a, isOut, hosts, states, merged) ==
  /\ a.kind = "decide" =>
       /\ hosts[a.candidate] # None /\ states[a.candidate] = "open"
       /\ a.target # None /\ ~isOut => merged[a.target] = None
  /\ a.kind = "create" /\ ~a.dupCand =>
       \A c \in Candidates : hosts[c] = a.host => states[c] \in {"rejected", "merged"}

\* Merges whose target may have been merged, or changed, since they read it.
Outdated == {r \in Requests : act[r] # None /\ r \in out /\ r \notin doomed /\ act[r].target # None}

\* With the outdated ones committed, the merges would still come to an end.
PathsEnd ==
  \A C \in (SUBSET Candidates) \ {{}} : \E c \in C :
    /\ mergedInto[c] \notin C
    /\ \A r \in Outdated : act[r].candidate = c => act[r].target \notin C

CandidatesInv ==
  /\ CandidatesTyped /\ MergedAreMarked /\ NumbersAreDense
  /\ \A r \in Requests : act[r] # None /\ r \notin doomed =>
       Knows(act[r], r \in out, host, status, mergedInto)
  /\ PathsEnd /\ Cand!DuplicatesAreMarked

LEMMA CandidatesConstants ==
  /\ Candidates \subseteq Nat /\ None \notin Candidates /\ None \notin CheckedHosts
  /\ None \notin Cand!Acts
BY PartsAssumption DEF PartsAssumption, Cand!CandidatesAssumption, Cand!NamesAssumption

LEMMA Footprints ==
  ASSUME NEW a \in Cand!Acts, ActFits(a)
  PROVE  LET f == Cand!Footprint(a) IN
         /\ Cand!Search(a.host) \in f.writes
         /\ \A x \in Candidates : Cand!Row(x) \in f.rows <=> x = a.candidate
         /\ \A x \in Candidates : Cand!Row(x) \in f.writes <=> x = a.candidate
         /\ \A x \in Candidates : Cand!Row(x) \in f.reads <=> x \in {a.candidate, a.target}
         /\ a.target # None =>
              \A i \in f.reads : i = Cand!Row(a.candidate) \/ i = Cand!Row(a.target)
         /\ a.kind = "create" =>
              f.reads = {Cand!Search(a.host), Cand!Partner(a.host)} /\ f.rows = {}
                /\ f.writes = {Cand!Search(a.host)}
<1> DEFINE f == Cand!Footprint(a)
<1>1. f = [reads |-> Cand!Reads(a), writes |-> {Cand!Search(a.host)} \cup Cand!WrittenRows(a),
           rows |-> Cand!WrittenRows(a)]
  BY DEF Cand!Footprint
<1>2. \A x, h : Cand!Row(x) # Cand!Search(h) /\ Cand!Row(x) # Cand!Partner(h)
  BY DEF Cand!Row, Cand!Search, Cand!Partner
<1>3. \A x, y : Cand!Row(x) = Cand!Row(y) => x = y
  BY DEF Cand!Row
<1>4. CASE a.kind = "create"
  <2>1. /\ Cand!Reads(a) = {Cand!Search(a.host), Cand!Partner(a.host)}
        /\ Cand!WrittenRows(a) = {} /\ a.candidate = None /\ a.target = None
    BY <1>4 DEF ActFits, Cand!Reads, Cand!WrittenRows
  <2> QED
    BY <1>1, <1>2, <1>4, <2>1, CandidatesConstants
<1>5. CASE a.kind = "decide"
  <2>1. a.candidate \in Candidates
    BY <1>5 DEF ActFits
  <2>2. \A i : i \in Cand!WrittenRows(a) <=>
          i = Cand!Row(a.candidate) \/ (i = Cand!Partner(a.host) /\ a.status = "accepted")
    BY <2>1, CandidatesConstants DEF Cand!WrittenRows
  <2>3. \A i : i \in Cand!Reads(a) <=>
          i = Cand!Row(a.candidate) \/ (i = Cand!Row(a.target) /\ a.target # None)
    BY <1>5 DEF Cand!Reads
  <2> QED
    BY <1>1, <1>2, <1>3, <1>5, <2>1, <2>2, <2>3, CandidatesConstants
<1> QED
  BY <1>4, <1>5 DEF Cand!Acts

\* What a commit of f means for a transaction u that is still under way.
LEMMA CommitMeans ==
  ASSUME CandidatesTyped, NEW f, NEW others \in SUBSET Requests,
         others \subseteq {r \in Requests : act[r] # None}, Cand!Snapshot!Committed(f, others)
  PROVE  /\ out' \cup doomed' \subseteq others
         /\ \A u \in others : u \in out => u \in out'
         /\ \A u \in others : u \in doomed => u \in doomed'
         /\ \A u \in others : \A i : i \in f.rows /\ i \in Cand!Footprint(act[u]).rows => u \in doomed'
         /\ \A u \in others : \A i : i \in f.writes /\ i \in Cand!Footprint(act[u]).reads => u \in out'
         /\ \A u \in others : \A i :
              u \in out' /\ i \in f.reads /\ i \in Cand!Footprint(act[u]).writes => u \in doomed'
         /\ \A u \in others : u \in out' /\ u \notin out =>
              \E i \in f.writes : i \in Cand!Footprint(act[u]).reads
<1> DEFINE foot(u) == Cand!Footprint(act[u])
           late == {u \in others : Cand!Snapshot!ReadsWritten(foot(u), f)}
<1>1. /\ out' = (out \cap others) \cup late
      /\ doomed' = (doomed \cap others)
           \cup {u \in others : foot(u).rows \cap f.rows # {}}
           \cup {u \in others : u \in out \cup late /\ Cand!Snapshot!ReadsWritten(f, foot(u))}
  BY DEF Cand!Snapshot!Committed
<1> HIDE DEF foot
<1>2. \A u \in others : u \in late <=> \E i : i \in foot(u).reads /\ i \in f.writes
  BY DEF Cand!Snapshot!ReadsWritten
<1> HIDE DEF late
<1>3. \A u \in others :
        Cand!Snapshot!ReadsWritten(f, foot(u)) <=> \E i : i \in f.reads /\ i \in foot(u).writes
  BY DEF Cand!Snapshot!ReadsWritten
<1>4. \A u \in others : u \in out' <=> u \in out \/ \E i : i \in foot(u).reads /\ i \in f.writes
  BY <1>1, <1>2 DEF late
<1>5. late \subseteq others
  BY DEF late
<1>6. out' \cup doomed' \subseteq others
  BY <1>1, <1>5
<1>7. \A u \in others : u \in doomed' <=>
        \/ u \in doomed \/ \E i : i \in foot(u).rows /\ i \in f.rows
        \/ u \in out' /\ \E i : i \in f.reads /\ i \in foot(u).writes
  BY <1>1, <1>3, <1>5
<1> QED
  BY <1>4, <1>6, <1>7 DEF foot

\* Whoever was outdated by writing x had x for its target.
LEMMA OutdatedBy ==
  ASSUME CandidatesTyped, NEW f, NEW others \in SUBSET Requests,
         others \subseteq {r \in Requests : act[r] # None}, Cand!Snapshot!Committed(f, others),
         \A r \in Requests : act'[r] # None => r \in others /\ act'[r] = act[r],
         NEW x, \A c \in Candidates : Cand!Row(c) \in f.writes => c = x
  PROVE  \A r \in Outdated' : act'[r] = act[r] /\ (r \in Outdated \/ x \in {act[r].candidate, act[r].target})
<1> SUFFICES ASSUME NEW r \in Outdated'
             PROVE  act'[r] = act[r] /\ (r \in Outdated \/ x \in {act[r].candidate, act[r].target})
  OBVIOUS
<1>1. /\ r \in Requests /\ r \in others /\ act'[r] = act[r] /\ act[r] # None
      /\ r \in out' /\ r \notin doomed' /\ act[r].target # None
  BY DEF Outdated
<1>2. r \notin doomed
  BY <1>1, CommitMeans
<1>3. CASE r \in out
  BY <1>1, <1>2, <1>3 DEF Outdated
<1>4. CASE r \notin out
  <2>1. PICK i \in f.writes : i \in Cand!Footprint(act[r]).reads
    BY <1>1, <1>4, CommitMeans
  <2>2. act[r] \in Cand!Acts /\ ActFits(act[r])
    BY <1>1 DEF CandidatesTyped
  <2>3. i = Cand!Row(act[r].candidate) \/ i = Cand!Row(act[r].target)
    BY <1>1, <2>1, <2>2, Footprints
  <2>4. act[r].candidate \in Candidates /\ act[r].target \in Candidates
    BY <1>1, <2>2 DEF ActFits, Cand!Acts
  <2> QED
    BY <1>1, <2>1, <2>3, <2>4
<1> QED
  BY <1>3, <1>4

\* A decision on x, a merge into y if y is not None, commits; or x is touched.
LEMMA DecisionKeeps ==
  ASSUME CandidatesInv, NEW f, NEW others \in SUBSET Requests,
         others \subseteq {r \in Requests : act[r] # None}, Cand!Snapshot!Committed(f, others),
         act' \in [Requests -> Cand!Acts \cup {None}],
         \A r \in Requests : act'[r] # None => r \in others /\ act'[r] = act[r],
         \A r \in others : act'[r] # None,
         NEW x \in Candidates, NEW y \in Candidates \cup {None}, x # y,
         NEW s \in Cand!Statuses, y # None => s = "merged",
         Cand!Row(x) \in f.reads, Cand!Row(x) \in f.rows,
         Cand!Row(x) \in f.writes, y # None => Cand!Row(y) \in f.reads,
         \A c \in Candidates : Cand!Row(c) \in f.writes => c = x,
         status[x] = "open", host[x] # None,
         status' = [status EXCEPT ![x] = s], mergedInto' = [mergedInto EXCEPT ![x] = y],
         UNCHANGED <<host, dupCand>>,
         \/ y = None
         \/ mergedInto[y] = None
         \/ /\ \E t \in Outdated : act[t].candidate = x /\ act[t].target = y
            /\ \A u \in others : ~Cand!Snapshot!ReadsWritten(Cand!Footprint(act[u]), f)
  PROVE  CandidatesInv'
<1>1. CandidatesTyped /\ MergedAreMarked /\ PathsEnd
  BY DEF CandidatesInv
<1>2. mergedInto[x] = None
  BY <1>1 DEF MergedAreMarked, CandidatesTyped
<1>3. \A u \in others : /\ u \in Requests /\ act[u] # None /\ act'[u] = act[u]
                        /\ act[u] \in Cand!Acts /\ ActFits(act[u])
  BY <1>1 DEF CandidatesTyped
<1>4. CandidatesTyped'
  <2>1. status' \in [Candidates -> Cand!Statuses]
    BY <1>1 DEF CandidatesTyped
  <2>2. mergedInto' \in [Candidates -> Candidates \cup {None}]
    BY <1>1 DEF CandidatesTyped
  <2>3. out' \cup doomed' \subseteq {r \in Requests : act'[r] # None}
    BY <1>1, CommitMeans
  <2>4. \A r \in Requests : act'[r] # None => ActFits(act'[r])
    BY <1>3
  <2> QED
    BY <1>1, <2>1, <2>2, <2>3, <2>4 DEF CandidatesTyped
<1>5. MergedAreMarked'
  BY <1>1 DEF MergedAreMarked, CandidatesTyped
<1>6. NumbersAreDense'
  BY DEF CandidatesInv, NumbersAreDense
<1>7. Cand!DuplicatesAreMarked'
  BY <1>1 DEF CandidatesInv, CandidatesTyped, Cand!DuplicatesAreMarked, Cand!Exists
<1>8. ASSUME NEW u \in others, u \notin doomed' PROVE act[u].candidate # x
  <2>1. Cand!Row(x) \notin Cand!Footprint(act[u]).rows
    BY <1>1, <1>8, CommitMeans
  <2> QED
    BY <1>3, <2>1, Footprints
<1>9. ASSUME NEW r \in Requests, act'[r] # None, r \notin doomed'
      PROVE  Knows(act'[r], r \in out', host', status', mergedInto')
  <2>1. r \in others /\ act'[r] = act[r] /\ act[r] # None
    BY <1>3, <1>9
  <2>2. r \notin doomed /\ (r \in out => r \in out') /\ act[r].candidate # x
    BY <1>1, <1>8, <1>9, <2>1, CommitMeans
  <2>3. Knows(act[r], r \in out, host, status, mergedInto)
    BY <2>1, <2>2 DEF CandidatesInv
  <2>4. ASSUME act[r].target = x, x \in Candidates PROVE r \in out'
    <3>1. Cand!Row(x) \in Cand!Footprint(act[r]).reads
      BY <1>3, <2>1, <2>4, Footprints
    <3> QED
      BY <1>1, <2>1, <3>1, CommitMeans
  <2>5. act[r] \in Cand!Acts /\ ActFits(act[r])
    BY <1>3, <2>1
  <2>6. CASE act[r].kind = "decide"
    <3>1. act[r].candidate \in Candidates /\ act[r].target \in Candidates \cup {None}
      BY <2>5, <2>6 DEF ActFits, Cand!Acts
    <3>2. host'[act[r].candidate] # None /\ status'[act[r].candidate] = "open"
      BY <1>1, <2>2, <2>3, <2>6, <3>1 DEF Knows, CandidatesTyped
    <3>3. act[r].target # None /\ r \notin out' => mergedInto'[act[r].target] = None
      BY <1>1, <2>2, <2>3, <2>4, <2>6, <3>1 DEF Knows, CandidatesTyped
    <3> QED
      BY <2>1, <2>6, <3>2, <3>3 DEF Knows
  <2>7. CASE act[r].kind = "create"
    BY <1>1, <2>1, <2>3, <2>7 DEF Knows, CandidatesTyped
  <2> QED
    BY <2>5, <2>6, <2>7 DEF Cand!Acts
<1>10. \A r \in Outdated' : act'[r] = act[r] /\ (r \in Outdated \/ act[r].target = x)
  <2> SUFFICES ASSUME NEW r \in Outdated' PROVE act'[r] = act[r] /\ (r \in Outdated \/ act[r].target = x)
    OBVIOUS
  <2>1. r \in others /\ r \notin doomed'
    BY DEF Outdated
  <2> QED
    BY <1>1, <1>8, <2>1, OutdatedBy
<1>11. \A r \in Outdated' : act[r].candidate # x
  BY <1>8 DEF Outdated
<1>12. PathsEnd'
  <2> SUFFICES ASSUME NEW C \in (SUBSET Candidates) \ {{}}
               PROVE  \E c \in C : /\ mergedInto'[c] \notin C
                                   /\ \A r \in Outdated' : act'[r].candidate = c => act'[r].target \notin C
    BY DEF PathsEnd
  <2>0. /\ None \notin C
        /\ \A c \in C : mergedInto'[c] = IF c = x THEN y ELSE mergedInto[c]
    BY <1>1, CandidatesConstants DEF CandidatesTyped
  <2>1. PICK b \in C : /\ mergedInto[b] \notin C
                       /\ \A r \in Outdated : act[r].candidate = b => act[r].target \notin C
    BY <1>1 DEF PathsEnd
  <2>2. CASE y = None \/ mergedInto[y] = None
    <3>1. CASE y \in C
      <4>1. ASSUME NEW r \in Outdated', act'[r].candidate = y PROVE FALSE
        <5>1. r \in others /\ r \in out' /\ r \notin doomed' /\ act'[r] = act[r]
          BY <1>3 DEF Outdated
        <5>2. Cand!Row(y) \in Cand!Footprint(act[r]).writes
          BY <1>3, <3>1, <4>1, <5>1, Footprints
        <5> QED
          BY <1>1, <2>0, <3>1, <5>1, <5>2, CommitMeans
      <4>2. mergedInto'[y] = None
        BY <2>0, <2>2, <3>1
      <4> QED
        BY <2>0, <3>1, <4>1, <4>2
    <3>2. CASE y \notin C /\ x \in C
      BY <1>10, <1>11, <2>0, <3>2
    <3>3. CASE y \notin C /\ x \notin C
      <4>1. mergedInto'[b] \notin C
        BY <2>0, <2>1, <3>3
      <4>2. \A r \in Outdated' : act'[r].candidate = b => act'[r].target \notin C
        BY <1>10, <2>1, <3>3
      <4> QED
        BY <4>1, <4>2
    <3> QED
      BY <3>1, <3>2, <3>3
  <2>3. CASE /\ \E t \in Outdated : act[t].candidate = x /\ act[t].target = y
             /\ \A u \in others : ~Cand!Snapshot!ReadsWritten(Cand!Footprint(act[u]), f)
    <3>1. \A u \in others : u \in out' => u \in out
      <4> SUFFICES ASSUME NEW u \in others, u \in out', u \notin out PROVE FALSE
        OBVIOUS
      <4>1. PICK i \in f.writes : i \in Cand!Footprint(act[u]).reads
        BY <1>1, CommitMeans
      <4> QED
        BY <2>3, <4>1 DEF Cand!Snapshot!ReadsWritten
    <3>2. Outdated' \subseteq Outdated
      <4> SUFFICES ASSUME NEW r \in Outdated' PROVE r \in Outdated
        OBVIOUS
      <4>1. /\ r \in Requests /\ r \in others /\ r \in out' /\ r \notin doomed' /\ act'[r] = act[r]
            /\ act[r] # None /\ act[r].target # None
        BY <1>3 DEF Outdated
      <4>2. r \notin doomed
        BY <1>1, <4>1, CommitMeans
      <4> QED
        BY <3>1, <4>1, <4>2 DEF Outdated
    <3>3. b = x => y \notin C
      BY <2>1, <2>3
    <3>4. mergedInto'[b] \notin C
      BY <2>0, <2>1, <3>3
    <3>5. \A r \in Outdated' : act'[r].candidate = b => act'[r].target \notin C
      BY <1>10, <2>1, <3>2
    <3> QED
      BY <3>4, <3>5
  <2> QED
    BY <2>2, <2>3
<1> QED
  BY <1>4, <1>5, <1>6, <1>7, <1>9, <1>12 DEF CandidatesInv

\* A creation commits, or hosts become partners: no row of a candidate is written.
LEMMA OutsideKeeps ==
  ASSUME CandidatesInv, NEW f, NEW others \in SUBSET Requests,
         others \subseteq {r \in Requests : act[r] # None}, Cand!Snapshot!Committed(f, others),
         act' \in [Requests -> Cand!Acts \cup {None}],
         \A r \in Requests : act'[r] # None => r \in others /\ act'[r] = act[r],
         \A r \in others : act'[r] # None,
         \A c \in Candidates : Cand!Row(c) \notin f.writes,
         host' \in [Candidates -> CheckedHosts \cup {None}],
         \A c \in Candidates : host[c] # None => host'[c] = host[c],
         NumbersAreDense', Cand!DuplicatesAreMarked', UNCHANGED <<status, mergedInto>>,
         \A r \in others : act[r].kind = "create" /\ r \notin doomed' =>
           \A c \in Candidates : host'[c] = act[r].host => host[c] = act[r].host
  PROVE  CandidatesInv'
<1>1. CandidatesTyped /\ MergedAreMarked /\ PathsEnd
  BY DEF CandidatesInv
<1>2. \A u \in others : /\ u \in Requests /\ act[u] # None /\ act'[u] = act[u]
                        /\ act[u] \in Cand!Acts /\ ActFits(act[u])
  BY <1>1 DEF CandidatesTyped
<1>3. CandidatesTyped'
  <2>1. out' \cup doomed' \subseteq {r \in Requests : act'[r] # None}
    BY <1>1, CommitMeans
  <2>2. \A r \in Requests : act'[r] # None => ActFits(act'[r])
    BY <1>2
  <2> QED
    BY <1>1, <2>1, <2>2 DEF CandidatesTyped
<1>4. MergedAreMarked'
  BY <1>1 DEF MergedAreMarked
<1>5. ASSUME NEW r \in Requests, act'[r] # None, r \notin doomed'
      PROVE  Knows(act'[r], r \in out', host', status', mergedInto')
  <2>1. r \in others /\ act'[r] = act[r] /\ act[r] # None
    BY <1>2, <1>5
  <2>2. r \notin doomed /\ (r \in out => r \in out')
    BY <1>1, <1>5, <2>1, CommitMeans
  <2>3. Knows(act[r], r \in out, host, status, mergedInto)
    BY <2>1, <2>2 DEF CandidatesInv
  <2>4. act[r] \in Cand!Acts /\ ActFits(act[r])
    BY <1>2, <2>1
  <2>5. CASE act[r].kind = "decide"
    <3>1. act[r].candidate \in Candidates
      BY <2>4, <2>5 DEF ActFits
    <3> QED
      BY <2>1, <2>2, <2>3, <2>5, <3>1 DEF Knows
  <2>6. CASE act[r].kind = "create"
    BY <1>5, <2>1, <2>3, <2>6 DEF Knows
  <2> QED
    BY <2>4, <2>5, <2>6 DEF Cand!Acts
<1>6. Outdated' \subseteq Outdated /\ \A r \in Outdated' : act'[r] = act[r]
  <2> SUFFICES ASSUME NEW r \in Outdated' PROVE r \in Outdated /\ act'[r] = act[r]
    OBVIOUS
  <2>1. /\ r \in Requests /\ r \in others /\ act'[r] = act[r] /\ act[r] # None /\ r \in out'
        /\ r \notin doomed' /\ act[r].target # None
    BY <1>2 DEF Outdated
  <2>2. act[r].candidate \in Candidates /\ act[r].target \in Candidates
    BY <1>2, <2>1 DEF ActFits, Cand!Acts
  <2>3. r \in out
    <3> SUFFICES ASSUME r \notin out PROVE FALSE
      OBVIOUS
    <3>1. PICK i \in f.writes : i \in Cand!Footprint(act[r]).reads
      BY <1>1, <2>1, CommitMeans
    <3>2. i = Cand!Row(act[r].candidate) \/ i = Cand!Row(act[r].target)
      BY <1>2, <2>1, <3>1, Footprints
    <3> QED
      BY <2>2, <3>1, <3>2
  <2>4. r \notin doomed
    BY <1>1, <2>1, CommitMeans
  <2> QED
    BY <2>1, <2>3, <2>4 DEF Outdated
<1>7. PathsEnd'
  <2> SUFFICES ASSUME NEW C \in (SUBSET Candidates) \ {{}}
               PROVE  \E c \in C : /\ mergedInto'[c] \notin C
                                   /\ \A r \in Outdated' :
                                        act'[r].candidate = c => act'[r].target \notin C
    BY DEF PathsEnd
  <2>1. PICK c \in C : /\ mergedInto[c] \notin C
                       /\ \A r \in Outdated : act[r].candidate = c => act[r].target \notin C
    BY <1>1 DEF PathsEnd
  <2>2. mergedInto'[c] \notin C
    BY <1>1, <2>1
  <2>3. ASSUME NEW r \in Outdated', act'[r].candidate = c
        PROVE  act'[r].target \notin C
    BY <1>6, <2>1, <2>3
  <2> QED
    BY <2>2, <2>3
<1> QED
  BY <1>3, <1>4, <1>5, <1>7 DEF CandidatesInv

LEMMA UnderWay ==
  ASSUME CandidatesTyped
  PROVE  \A r \in Requests : Cand!Snapshot!Active(r) <=> act[r] # None
<1> SUFFICES ASSUME NEW r \in Requests PROVE Cand!Snapshot!Active(r) <=> act[r] # None
  OBVIOUS
<1>1. act[r] # None => Cand!Search(act[r].host) \in Cand!Footprint(act[r]).writes
  BY DEF Cand!Footprint
<1> QED
  BY <1>1 DEF Cand!Snapshot!Active, Cand!Snapshot!Idle

LEMMA CandidatesCommit ==
  ASSUME CandidatesInv, NEW r \in Requests, Cand!Commit(r) PROVE CandidatesInv'
<1> DEFINE a == act[r]
           f == Cand!Footprint(a)
           others == {u \in Requests \ {r} : act[u] # None}
<1>1. CandidatesTyped
  BY DEF CandidatesInv
<1>2. /\ a # None /\ Cand!Snapshot!Commit(r) /\ act' = [act EXCEPT ![r] = None]
      /\ IF a.kind = "create" THEN \E c \in Candidates : Cand!Insert(a, c) ELSE Cand!Update(a)
  BY DEF Cand!Commit
<1>3. a \in Cand!Acts /\ ActFits(a)
  BY <1>1, <1>2 DEF CandidatesTyped
<1>4. r \notin doomed /\ Cand!Snapshot!Committed(f, others) /\ ~Cand!Snapshot!Pivot(r)
  <2>1. others = {u \in Requests \ {r} : Cand!Snapshot!Active(u)}
    BY <1>1, UnderWay
  <2> HIDE DEF others
  <2>2. /\ Cand!Snapshot!MayCommit(r)
        /\ Cand!Snapshot!Committed([q \in Requests |-> IF act[q] = None
                                      THEN [reads |-> {}, writes |-> {}, rows |-> {}]
                                      ELSE Cand!Footprint(act[q])][r], others)
    BY <1>2, <2>1 DEF Cand!Snapshot!Commit
  <2> QED
    BY <1>2, <2>2 DEF Cand!Snapshot!MayCommit
<1>5. /\ act' \in [Requests -> Cand!Acts \cup {None}]
      /\ \A u \in Requests : act'[u] # None => u \in others /\ act'[u] = act[u]
      /\ \A u \in others : act'[u] # None
  BY <1>1, <1>2 DEF CandidatesTyped
<1>6. others \in SUBSET Requests /\ others \subseteq {u \in Requests : act[u] # None}
  OBVIOUS
<1>7. Knows(a, r \in out, host, status, mergedInto)
  BY <1>2, <1>4 DEF CandidatesInv
<1>8. CASE a.kind = "create"
  <2>1. PICK c \in Candidates : Cand!Insert(a, c)
    BY <1>2, <1>8
  <2>2. /\ host[c] = None /\ \A d \in Candidates : d < c => host[d] # None
        /\ host' = [host EXCEPT ![c] = a.host]
        /\ dupCand' = IF a.dupCand THEN dupCand \cup {c} ELSE dupCand
        /\ UNCHANGED <<status, mergedInto>>
    BY <2>1 DEF Cand!Insert, Cand!IsNext, Cand!Exists
  <2>3. \A d \in Candidates : host'[d] = IF d = c THEN a.host ELSE host[d]
    BY <1>1, <2>2 DEF CandidatesTyped
  <2>4. host' \in [Candidates -> CheckedHosts \cup {None}]
    BY <1>1, <1>3, <2>2 DEF CandidatesTyped, Cand!Acts
  <2>5. \A d \in Candidates : d > c => host[d] = None
    BY <2>2, CandidatesConstants DEF CandidatesInv, NumbersAreDense
  <2>6. NumbersAreDense'
    <3> SUFFICES ASSUME NEW d \in Candidates, NEW e \in Candidates, d < e, host'[e] # None
                 PROVE  host'[d] # None
      BY DEF NumbersAreDense
    <3>1. CASE e = c
      BY <2>2, <2>3, <3>1, CandidatesConstants
    <3>2. CASE e # c
      <4>1. host[e] # None /\ host[d] # None
        BY <2>3, <3>2 DEF CandidatesInv, NumbersAreDense
      <4> QED
        BY <2>2, <2>3, <4>1
    <3> QED
      BY <3>1, <3>2
  <2>7. Cand!DuplicatesAreMarked'
    <3> SUFFICES ASSUME NEW d \in Candidates, NEW e \in Candidates, d < e, host'[e] # None,
                        host'[d] = host'[e], status'[d] \notin {"rejected", "merged"}
                 PROVE  e \in dupCand'
      BY DEF Cand!DuplicatesAreMarked, Cand!Exists
    <3>1. CASE e = c
      <4>1. d # c
        BY <3>1, CandidatesConstants
      <4>2. host[d] = a.host /\ status[d] \notin {"rejected", "merged"}
        BY <2>2, <2>3, <3>1, <4>1
      <4>3. a.dupCand
        BY <1>7, <1>8, <4>2 DEF Knows
      <4> QED
        BY <2>2, <3>1, <4>3
    <3>2. CASE e # c
      <4>1. host[e] # None
        BY <2>3, <3>2
      <4>2. d # c
        BY <2>5, <3>2, <4>1, CandidatesConstants
      <4>3. e \in dupCand
        BY <2>2, <2>3, <3>2, <4>1, <4>2 DEF CandidatesInv, Cand!DuplicatesAreMarked, Cand!Exists
      <4> QED
        BY <2>2, <4>3
    <3> QED
      BY <3>1, <3>2
  <2>8. \A d \in Candidates : Cand!Row(d) \notin f.writes
    BY <1>3, <1>8, Footprints, CandidatesConstants DEF ActFits
  <2>9. ASSUME NEW u \in others, act[u].kind = "create", u \notin doomed'
        PROVE  \A d \in Candidates : host'[d] = act[u].host => host[d] = act[u].host
    <3>1. act[u] \in Cand!Acts /\ ActFits(act[u])
      BY <1>1 DEF CandidatesTyped
    <3>2. a.host # act[u].host
      <4> SUFFICES ASSUME a.host = act[u].host PROVE FALSE
        OBVIOUS
      <4>1. /\ Cand!Search(a.host) \in f.writes /\ Cand!Search(a.host) \in f.reads
            /\ Cand!Search(a.host) \in Cand!Footprint(act[u]).writes
            /\ Cand!Search(a.host) \in Cand!Footprint(act[u]).reads
        BY <1>3, <1>8, <2>9, <3>1, Footprints
      <4>2. u \in out'
        BY <1>1, <1>4, <1>6, <4>1, CommitMeans
      <4> QED
        BY <1>1, <1>4, <1>6, <2>9, <4>1, <4>2, CommitMeans
    <3> QED
      BY <2>3, <3>2
  <2>10. \A d \in Candidates : host[d] # None => host'[d] = host[d]
    BY <2>2, <2>3
  <2> HIDE DEF a, f, others
  <2> QED
    BY <1>4, <1>5, <1>6, <2>2, <2>4, <2>6, <2>7, <2>8, <2>9, <2>10, OutsideKeeps
<1>9. CASE a.kind = "decide"
  <2> DEFINE x == a.candidate
             y == a.target
             s == a.status
  <2>1. /\ status' = [status EXCEPT ![x] = s] /\ mergedInto' = [mergedInto EXCEPT ![x] = y]
        /\ UNCHANGED <<host, dupCand>>
    BY <1>2, <1>9 DEF Cand!Update
  <2>2. /\ x \in Candidates /\ y \in Candidates \cup {None} /\ x # y /\ s \in Cand!Statuses
        /\ y # None => s = "merged"
    BY <1>3, <1>9 DEF ActFits, Cand!Acts
  <2>3. /\ Cand!Row(x) \in f.reads /\ Cand!Row(x) \in f.rows /\ Cand!Row(x) \in f.writes
        /\ y # None => Cand!Row(y) \in f.reads
        /\ \A c \in Candidates : Cand!Row(c) \in f.writes => c = x
    BY <1>3, <2>2, Footprints
  <2>4. status[x] = "open" /\ host[x] # None
    BY <1>7, <1>9 DEF Knows
  <2>5. \/ y = None
        \/ mergedInto[y] = None
        \/ /\ \E t \in Outdated : act[t].candidate = x /\ act[t].target = y
           /\ \A u \in others : ~Cand!Snapshot!ReadsWritten(Cand!Footprint(act[u]), f)
    <3> SUFFICES ASSUME y # None, mergedInto[y] # None
                 PROVE  /\ r \in Outdated
                        /\ \A u \in others : ~Cand!Snapshot!ReadsWritten(Cand!Footprint(act[u]), f)
      OBVIOUS
    <3>1. r \in out
      BY <1>7, <1>9 DEF Knows
    <3>2. r \in Outdated
      BY <1>2, <1>4, <3>1 DEF Outdated
    <3>3. ASSUME NEW u \in others PROVE ~Cand!Snapshot!ReadsWritten(Cand!Footprint(act[u]), f)
      <4>1. u \in Requests \ {r} /\ Cand!Snapshot!Active(u) /\ act[u] # None
        BY <1>1, <3>3, UnderWay
      <4> QED
        BY <1>2, <1>4, <3>1, <4>1 DEF Cand!Snapshot!Pivot
    <3> QED
      BY <3>2, <3>3
  <2> HIDE DEF a, f, others, x, y, s
  <2> QED
    BY <1>4, <1>5, <1>6, <2>1, <2>2, <2>3, <2>4, <2>5, DecisionKeeps
<1> QED
  BY <1>3, <1>8, <1>9 DEF Cand!Acts

LEMMA CandidatesTouch ==
  ASSUME CandidatesInv, NEW c \in Candidates, NEW new, Cand!Touch(c, new)
  PROVE  CandidatesInv'
<1> DEFINE a == Cand!Decision(c, "open", None)
           f == Cand!Footprint(a)
           others == {u \in Requests : act[u] # None}
<1>1. CandidatesTyped /\ MergedAreMarked
  BY DEF CandidatesInv
<1>2. /\ host[c] # None /\ status[c] = "open"
      /\ UNCHANGED <<host, status, mergedInto, dupCand, act>>
      /\ Cand!Snapshot!CommitAtOnce(f)
  BY DEF Cand!Touch, Cand!Mutable, Cand!Exists
<1>3. a \in Cand!Acts /\ ActFits(a) /\ a.candidate = c /\ a.target = None
  BY <1>1, CandidatesConstants DEF CandidatesTyped, Cand!Decision, Cand!Acts, ActFits, Cand!Statuses
<1>4. Cand!Snapshot!Committed(f, others)
  <2>1. others = {u \in Requests : Cand!Snapshot!Active(u)}
    BY <1>1, UnderWay
  <2> QED
    BY <1>2, <2>1 DEF Cand!Snapshot!CommitAtOnce
<1>5. /\ Cand!Row(c) \in f.reads /\ Cand!Row(c) \in f.rows /\ Cand!Row(c) \in f.writes
      /\ \A d \in Candidates : Cand!Row(d) \in f.writes => d = c
  BY <1>3, Footprints
<1>6. /\ status' = [status EXCEPT ![c] = "open"] /\ mergedInto' = [mergedInto EXCEPT ![c] = None]
      /\ "open" \in Cand!Statuses /\ c # None
  BY <1>1, <1>2, CandidatesConstants DEF CandidatesTyped, MergedAreMarked, Cand!Statuses
<1>7. /\ act' \in [Requests -> Cand!Acts \cup {None}]
      /\ \A u \in Requests : act'[u] # None => u \in others /\ act'[u] = act[u]
      /\ \A u \in others : act'[u] # None
      /\ others \in SUBSET Requests /\ others \subseteq {u \in Requests : act[u] # None}
  BY <1>1, <1>2 DEF CandidatesTyped
<1> HIDE DEF f, others
<1>8. PICK y \in Candidates \cup {None} : y = None
  OBVIOUS
<1>9. PICK s \in Cand!Statuses : s = "open"
  BY <1>6
<1>10. /\ status' = [status EXCEPT ![c] = s] /\ mergedInto' = [mergedInto EXCEPT ![c] = y]
       /\ c # y /\ (y # None => s = "merged") /\ (y # None => Cand!Row(y) \in f.reads)
       /\ UNCHANGED <<host, dupCand>> /\ status[c] = "open" /\ host[c] # None
  BY <1>2, <1>6, <1>8, <1>9
<1> QED
  BY <1>4, <1>5, <1>7, <1>8, <1>10, DecisionKeeps

LEMMA CandidatesImported ==
  ASSUME CandidatesInv, NEW h \in CheckedHosts, Cand!Imported(h) PROVE CandidatesInv'
<1> DEFINE f == [reads |-> {}, writes |-> {Cand!Partner(h)}, rows |-> {}]
           others == {u \in Requests : act[u] # None}
<1>1. CandidatesTyped
  BY DEF CandidatesInv
<1>2. /\ UNCHANGED <<host, status, mergedInto, dupCand, act>>
      /\ Cand!Snapshot!CommitAtOnce(f)
  BY DEF Cand!Imported
<1>3. Cand!Snapshot!Committed(f, others)
  <2>1. others = {u \in Requests : Cand!Snapshot!Active(u)}
    BY <1>1, UnderWay
  <2> QED
    BY <1>2, <2>1 DEF Cand!Snapshot!CommitAtOnce
<1>4. \A d \in Candidates : Cand!Row(d) \notin f.writes
  BY DEF Cand!Row, Cand!Partner
<1>5. /\ act' \in [Requests -> Cand!Acts \cup {None}]
      /\ \A u \in Requests : act'[u] # None => u \in others /\ act'[u] = act[u]
      /\ \A u \in others : act'[u] # None
      /\ others \in SUBSET Requests /\ others \subseteq {u \in Requests : act[u] # None}
      /\ host' \in [Candidates -> CheckedHosts \cup {None}]
  BY <1>1, <1>2 DEF CandidatesTyped
<1>6. NumbersAreDense' /\ Cand!DuplicatesAreMarked'
  BY <1>2 DEF CandidatesInv, NumbersAreDense, Cand!DuplicatesAreMarked, Cand!Exists
<1> HIDE DEF f, others
<1> QED
  BY <1>2, <1>3, <1>4, <1>5, <1>6, OutsideKeeps

LEMMA CandidatesBegin ==
  ASSUME CandidatesInv, NEW r \in Requests, NEW a \in Cand!Acts, ActFits(a), Cand!Begin(r, a),
         Knows(a, r \in out, host, status, mergedInto)
  PROVE  CandidatesInv'
<1>1. /\ act[r] = None /\ act' = [act EXCEPT ![r] = a]
      /\ UNCHANGED <<host, status, mergedInto, dupCand, out, doomed>>
  BY DEF Cand!Begin, Cand!rows
<1>2. CandidatesTyped /\ r \notin out /\ r \notin doomed
  BY <1>1 DEF CandidatesInv, CandidatesTyped
<1>3. \A u \in Requests : act'[u] = IF u = r THEN a ELSE act[u]
  BY <1>1, <1>2 DEF CandidatesTyped
<1>4. CandidatesTyped'
  <2>1. \A u \in Requests : act'[u] # None => ActFits(act'[u])
    BY <1>2, <1>3 DEF CandidatesTyped
  <2>2. a # None
    BY CandidatesConstants
  <2> QED
    BY <1>1, <1>2, <1>3, <2>1, <2>2 DEF CandidatesTyped
<1>5. ASSUME NEW u \in Requests, act'[u] # None, u \notin doomed'
      PROVE  Knows(act'[u], u \in out', host', status', mergedInto')
  <2>1. Knows(act'[u], u \in out, host, status, mergedInto)
    BY <1>1, <1>3, <1>5 DEF CandidatesInv
  <2> QED
    BY <1>1, <2>1 DEF Knows
<1>6. PathsEnd'
  <2>1. Outdated' \subseteq Outdated /\ \A u \in Outdated' : act'[u] = act[u]
    BY <1>1, <1>2, <1>3 DEF Outdated
  <2> QED
    BY <1>1, <2>1 DEF CandidatesInv, PathsEnd
<1>7. MergedAreMarked' /\ NumbersAreDense' /\ Cand!DuplicatesAreMarked'
  BY <1>1 DEF CandidatesInv, MergedAreMarked, NumbersAreDense, Cand!DuplicatesAreMarked, Cand!Exists
<1> QED
  BY <1>4, <1>5, <1>6, <1>7 DEF CandidatesInv

LEMMA CandidatesBeginCreate ==
  ASSUME CandidatesInv, NEW r \in Requests, NEW h \in CheckedHosts, Cand!BeginCreate(r, h)
  PROVE  CandidatesInv'
<1> DEFINE a == Cand!Create(h)
<1>1. Cand!Begin(r, a)
  BY DEF Cand!BeginCreate
<1>2. a \in Cand!Acts /\ ActFits(a)
  BY DEF Cand!Create, Cand!Acts, ActFits, Cand!Statuses
<1>3. Knows(a, r \in out, host, status, mergedInto)
  BY DEF Cand!Create, Knows
<1> QED
  BY <1>1, <1>2, <1>3, CandidatesBegin

\* Deferrals, rejections, acceptances and merges.
LEMMA CandidatesBeginDecision ==
  ASSUME CandidatesInv, NEW r \in Requests, NEW c \in Candidates, NEW s \in Cand!Statuses,
         NEW d \in Candidates \cup {None}, Cand!Mutable(c), c # d, d # None <=> s = "merged",
         d # None => status[d] # "merged", Cand!Begin(r, Cand!Decision(c, s, d))
  PROVE  CandidatesInv'
<1> DEFINE a == Cand!Decision(c, s, d)
<1>1. CandidatesTyped /\ MergedAreMarked
  BY DEF CandidatesInv
<1>2. a \in Cand!Acts /\ ActFits(a)
  BY <1>1 DEF CandidatesTyped, Cand!Decision, Cand!Acts, ActFits
<1>3. Knows(a, r \in out, host, status, mergedInto)
  BY <1>1 DEF Cand!Decision, Knows, Cand!Mutable, Cand!Exists, MergedAreMarked
<1> QED
  BY <1>2, <1>3, CandidatesBegin

LEMMA CandidatesAbort ==
  ASSUME CandidatesInv, NEW r \in Requests, Cand!Abort(r) PROVE CandidatesInv'
<1>1. /\ act' = [act EXCEPT ![r] = None] /\ out' = out \ {r} /\ doomed' = doomed \ {r}
      /\ UNCHANGED <<host, status, mergedInto, dupCand>>
  BY DEF Cand!Abort, Cand!Snapshot!Rollback, Cand!rows
<1>2. CandidatesTyped
  BY DEF CandidatesInv
<1>3. \A u \in Requests : act'[u] = IF u = r THEN None ELSE act[u]
  BY <1>1, <1>2 DEF CandidatesTyped
<1>4. CandidatesTyped'
  BY <1>1, <1>2, <1>3 DEF CandidatesTyped
<1>5. ASSUME NEW u \in Requests, act'[u] # None, u \notin doomed'
      PROVE  Knows(act'[u], u \in out', host', status', mergedInto')
  <2>1. u # r /\ act'[u] = act[u] /\ u \notin doomed /\ (u \in out' <=> u \in out)
    BY <1>1, <1>3, <1>5
  <2>2. Knows(act[u], u \in out, host, status, mergedInto)
    BY <1>5, <2>1 DEF CandidatesInv
  <2> QED
    BY <1>1, <2>1, <2>2 DEF Knows
<1>6. PathsEnd'
  <2>1. Outdated' \subseteq Outdated /\ \A u \in Outdated' : act'[u] = act[u]
    BY <1>1, <1>3 DEF Outdated
  <2> QED
    BY <1>1, <2>1 DEF CandidatesInv, PathsEnd
<1>7. MergedAreMarked' /\ NumbersAreDense' /\ Cand!DuplicatesAreMarked'
  BY <1>1 DEF CandidatesInv, MergedAreMarked, NumbersAreDense, Cand!DuplicatesAreMarked, Cand!Exists
<1> QED
  BY <1>4, <1>5, <1>6, <1>7 DEF CandidatesInv

LEMMA CandidatesInductive == CandidatesInv /\ [Cand!Next]_(Cand!vars) => CandidatesInv'
<1> SUFFICES ASSUME CandidatesInv, [Cand!Next]_(Cand!vars) PROVE CandidatesInv'
  OBVIOUS
<1>1. CASE UNCHANGED Cand!vars
  <2>1. UNCHANGED <<host, status, mergedInto, dupCand, act, out, doomed>>
    BY <1>1 DEF Cand!vars, Cand!rows
  <2>2. CandidatesTyped' /\ MergedAreMarked' /\ NumbersAreDense' /\ Cand!DuplicatesAreMarked'
    BY <2>1 DEF CandidatesInv, CandidatesTyped, MergedAreMarked, NumbersAreDense,
         Cand!DuplicatesAreMarked, Cand!Exists
  <2>3. PathsEnd'
    BY <2>1 DEF CandidatesInv, PathsEnd, Outdated
  <2>4. \A r \in Requests : act'[r] # None /\ r \notin doomed' =>
          Knows(act'[r], r \in out', host', status', mergedInto')
    BY <2>1 DEF CandidatesInv, Knows
  <2> QED
    BY <2>2, <2>3, <2>4 DEF CandidatesInv
<1>2. ASSUME NEW r \in Requests, NEW c \in Candidates,
             Cand!BeginDefer(r, c) \/ Cand!BeginReject(r, c) \/ Cand!BeginAccept(r, c)
      PROVE  CandidatesInv'
  <2>1. PICK s \in {"open", "rejected", "accepted"} :
          Cand!Mutable(c) /\ Cand!Begin(r, Cand!Decision(c, s, None))
    BY <1>2 DEF Cand!BeginDefer, Cand!BeginReject, Cand!BeginAccept
  <2>2. PICK d \in Candidates \cup {None} : d = None
    OBVIOUS
  <2>3. s \in Cand!Statuses /\ c # d /\ (d # None <=> s = "merged")
    BY <2>2, CandidatesConstants DEF Cand!Statuses
  <2>4. Cand!Begin(r, Cand!Decision(c, s, d)) /\ (d # None => status[d] # "merged")
    BY <2>1, <2>2
  <2> QED
    BY <2>1, <2>3, <2>4, CandidatesBeginDecision
<1>3. ASSUME NEW r \in Requests, NEW c \in Candidates, NEW d \in Candidates,
             Cand!BeginMerge(r, c, d)
      PROVE  CandidatesInv'
  <2>1. /\ Cand!Mutable(c) /\ c # d /\ status[d] # "merged"
        /\ Cand!Begin(r, Cand!Decision(c, "merged", d))
    BY <1>3 DEF Cand!BeginMerge
  <2>2. d # None
    BY CandidatesConstants
  <2>3. PICK s \in Cand!Statuses : s = "merged"
    BY DEF Cand!Statuses
  <2>4. Cand!Begin(r, Cand!Decision(c, s, d)) /\ d \in Candidates \cup {None}
    BY <2>1, <2>3
  <2> QED
    BY <2>1, <2>2, <2>3, <2>4, CandidatesBeginDecision
<1>4. CASE Cand!Next
  <2>1. ASSUME NEW r \in Requests, \E h \in CheckedHosts : Cand!BeginCreate(r, h)
        PROVE  CandidatesInv'
    BY <2>1, CandidatesBeginCreate
  <2>2. ASSUME NEW r \in Requests, Cand!Commit(r) \/ Cand!Abort(r) PROVE CandidatesInv'
    BY <2>2, CandidatesCommit, CandidatesAbort
  <2>3. ASSUME NEW c \in Candidates, \E new \in {{}, {c}} : Cand!Touch(c, new)
        PROVE  CandidatesInv'
    BY <2>3, CandidatesTouch
  <2>4. ASSUME NEW h \in CheckedHosts, Cand!Imported(h) PROVE CandidatesInv'
    BY <2>4, CandidatesImported
  <2> QED
    BY <1>2, <1>3, <1>4, <2>1, <2>2, <2>3, <2>4 DEF Cand!Next
<1> QED
  BY <1>1, <1>4

LEMMA CandidatesInitially == Cand!Init => CandidatesInv
<1> SUFFICES ASSUME Cand!Init PROVE CandidatesInv
  OBVIOUS
<1>1. CandidatesTyped
  BY DEF Cand!Init, CandidatesTyped, Cand!Statuses
<1>2. PathsEnd
  BY CandidatesConstants DEF Cand!Init, PathsEnd, Outdated
<1>3. MergedAreMarked /\ NumbersAreDense /\ Cand!DuplicatesAreMarked
  BY DEF Cand!Init, MergedAreMarked, NumbersAreDense, Cand!DuplicatesAreMarked, Cand!Exists
<1> QED
  BY <1>1, <1>2, <1>3 DEF Cand!Init, CandidatesInv

LEMMA PathsAreFound == CandidatesInv => Cand!Canonical
BY DEF CandidatesInv, PathsEnd, Cand!Canonical, Cand!MergesEnd

\* However merges, decisions, creations and imports overlap, whoever follows a merged candidate
\* comes to the canonical one, and a candidate of a host that has one is marked.
THEOREM CanonicalIsFound == Cand!Spec => []Cand!Canonical
BY PathsAreFound, CandidatesInitially, CandidatesInductive, PTL DEF Cand!Spec

\* What TypeOK says beyond CandidatesInv, and that transactions are about hosts.
CandidateSets ==
  /\ inspected \subseteq Candidates /\ dupCand \subseteq Candidates
  /\ dupOrg \subseteq Candidates /\ partners \subseteq CheckedHosts
  /\ \A c \in Candidates : status[c] = "merged" => mergedInto[c] # None
  /\ \A r \in Requests : act[r] # None => act[r].host \in CheckedHosts

LEMMA CandidateSetsStay == CandidatesInv /\ CandidateSets /\ [Cand!Next]_(Cand!vars) => CandidateSets'
<1> SUFFICES ASSUME CandidatesInv, CandidateSets, [Cand!Next]_(Cand!vars) PROVE CandidateSets'
  OBVIOUS
<1>1. CASE UNCHANGED Cand!vars
  BY <1>1 DEF Cand!vars, Cand!rows, CandidateSets
<1>2. ASSUME NEW r \in Requests, NEW a, Cand!Begin(r, a), a.host \in CheckedHosts
      PROVE  CandidateSets'
  <2>1. \A u \in Requests : act'[u] # None => act'[u].host \in CheckedHosts
    BY <1>2 DEF Cand!Begin, CandidatesInv, CandidatesTyped, CandidateSets
  <2> QED
    BY <1>2, <2>1 DEF Cand!Begin, Cand!rows, CandidateSets
<1>3. ASSUME NEW c \in Candidates, Cand!Mutable(c), NEW s, NEW d
      PROVE  Cand!Decision(c, s, d).host \in CheckedHosts
  BY <1>3 DEF Cand!Mutable, Cand!Exists, Cand!Decision, CandidatesInv, CandidatesTyped
<1>4. ASSUME NEW r \in Requests, NEW h \in CheckedHosts, Cand!BeginCreate(r, h) PROVE CandidateSets'
  BY <1>2, <1>4 DEF Cand!BeginCreate, Cand!Create
<1>5. ASSUME NEW r \in Requests, NEW c \in Candidates, Cand!BeginDefer(r, c) PROVE CandidateSets'
  BY <1>2, <1>3, <1>5 DEF Cand!BeginDefer
<1>6. ASSUME NEW r \in Requests, NEW c \in Candidates, Cand!BeginReject(r, c) PROVE CandidateSets'
  BY <1>2, <1>3, <1>6 DEF Cand!BeginReject
<1>7. ASSUME NEW r \in Requests, NEW c \in Candidates, Cand!BeginAccept(r, c) PROVE CandidateSets'
  BY <1>2, <1>3, <1>7 DEF Cand!BeginAccept
<1>8. ASSUME NEW r \in Requests, NEW c \in Candidates, NEW d \in Candidates, Cand!BeginMerge(r, c, d)
      PROVE  CandidateSets'
  BY <1>2, <1>3, <1>8 DEF Cand!BeginMerge
<1>9. ASSUME NEW r \in Requests, Cand!Commit(r) PROVE CandidateSets'
  <2>1. act[r] # None /\ act[r] \in Cand!Acts /\ ActFits(act[r]) /\ act[r].host \in CheckedHosts
    BY <1>9 DEF Cand!Commit, CandidatesInv, CandidatesTyped, CandidateSets
  <2>2. act' = [act EXCEPT ![r] = None]
    BY <1>9 DEF Cand!Commit
  <2>3. \A u \in Requests : act'[u] # None => act'[u].host \in CheckedHosts
    BY <2>2 DEF CandidatesInv, CandidatesTyped, CandidateSets
  <2>4. CASE act[r].kind = "create"
    <3>1. PICK c \in Candidates : Cand!Insert(act[r], c)
      BY <1>9, <2>4 DEF Cand!Commit
    <3> QED
      BY <2>3, <3>1 DEF Cand!Insert, CandidateSets
  <2>5. CASE act[r].kind = "decide"
    <3>1. Cand!Update(act[r])
      BY <1>9, <2>5 DEF Cand!Commit
    <3>2. \A c \in Candidates : status'[c] = "merged" => mergedInto'[c] # None
      BY <2>1, <2>5, <3>1 DEF Cand!Update, ActFits, CandidatesInv, CandidatesTyped, CandidateSets
    <3> QED
      BY <2>1, <2>3, <3>1, <3>2 DEF Cand!Update, CandidateSets
  <2> QED
    BY <2>1, <2>4, <2>5 DEF Cand!Acts
<1>10. ASSUME NEW r \in Requests, Cand!Abort(r) PROVE CandidateSets'
  BY <1>10 DEF Cand!Abort, Cand!rows, CandidatesInv, CandidatesTyped, CandidateSets
<1>11. ASSUME NEW c \in Candidates, NEW new \in {{}, {c}}, Cand!Touch(c, new) PROVE CandidateSets'
  BY <1>11 DEF Cand!Touch, CandidateSets
<1>12. ASSUME NEW h \in CheckedHosts, Cand!Imported(h) PROVE CandidateSets'
  BY <1>12 DEF Cand!Imported, CandidateSets
<1> QED
  BY <1>1, <1>4, <1>5, <1>6, <1>7, <1>8, <1>9, <1>10, <1>11, <1>12 DEF Cand!Next

LEMMA CandidatesAreTyped == CandidatesInv /\ CandidateSets => Cand!TypeOK
BY DEF CandidatesInv, CandidatesTyped, MergedAreMarked, CandidateSets, Cand!TypeOK

LEMMA CandidateSetsInitially == Cand!Init => CandidateSets
BY DEF Cand!Init, CandidateSets

-------------------------------------------------------------------------------
(* Finite orders *)

\* A strict order has a least element in every finite set that has any: of the sets of what
\* comes before each, one contains no other.
LEMMA HasMinimal ==
  ASSUME NEW S, IsFiniteSet(S), S # {}, NEW R,
         \A e \in S : <<e, e>> \notin R,
         \A e, f, g \in S : <<e, f>> \in R /\ <<f, g>> \in R => <<e, g>> \in R
  PROVE  \E e \in S : \A f \in S : <<f, e>> \notin R
<1> DEFINE Earlier(e) == {f \in S : <<f, e>> \in R}
           T == {Earlier(e) : e \in S}
           O == StrictSubsetOrdering(S)
<1>1. IsWellFoundedOn(O, SUBSET S)
  BY FS_StrictSubsetOrderingWellFounded, FS_FiniteSubsetsOfFinite
<1>2. T \subseteq SUBSET S /\ T # {}
  <2>1. \A e \in S : Earlier(e) \in SUBSET S
    OBVIOUS
  <2>2. PICK e \in S : TRUE
    OBVIOUS
  <2> HIDE DEF Earlier
  <2> QED
    BY <2>1, <2>2
<1>3. PICK A \in T : \A B \in T : <<B, A>> \notin O
  <2> HIDE DEF O, T
  <2> QED
    BY <1>1, <1>2, WFMin
<1>4. PICK e \in S : A = Earlier(e)
  BY <1>3
<1>5. ASSUME NEW f \in S, <<f, e>> \in R PROVE FALSE
  <2>1. Earlier(f) \subseteq Earlier(e) /\ f \in Earlier(e) /\ f \notin Earlier(f)
    BY <1>5
  <2>2. <<Earlier(f), A>> \in O
    BY <1>4, <2>1 DEF StrictSubsetOrdering
  <2> QED
    BY <1>3, <2>2
<1> QED
  BY <1>5

-------------------------------------------------------------------------------
(* AccessAdministration: a transaction that is not doomed would still decide   *)
(* as it did, for nobody has written its user since, and of two that take an   *)
(* administrator away the first to commit dooms the other, which has searched  *)
(* for it.                                                                     *)

IsAdministrator(u) == u \in Access!Administrators

\* What a transaction has found is so.
StillSo(c) ==
  /\ c.searches = c.leaves
  /\ c.leaves <=> IsAdministrator(c.user) /\ ~(c.admin /\ c.active)
  /\ c.user \notin known => c.active
  /\ c.leaves => Access!Administrators \ {c.user} # {}

CommandsTyped == command \in [Requests -> Access!Commands \cup {None}]

Decided == \A r \in Requests \ doomed : command[r] # None => StillSo(command[r])

AccessInv == CommandsTyped /\ Decided /\ Access!AdministratorRemains

-------------------------------------------------------------------------------
(* Snapshots *)

Underway(r) == command[r] # None

\* A footprint has its user's row, so that it is not idle.
LEMMA UnderwayIsActive ==
  ASSUME NEW r \in Requests, Underway(r)
  PROVE  Access!Snapshot!Active(r)
<1>1. Access!Row(command[r].user) \in Access!Footprint(command[r]).reads
  BY DEF Access!Footprint
<1>2. Access!Footprint(command[r]) # Access!Snapshot!Idle
  BY <1>1 DEF Access!Snapshot!Idle
<1> QED BY <1>2 DEF Access!Snapshot!Active, Underway

\* Whom a commit spares did not write its user's row, and does not take an administrator
\* away when the one that commits does.
LEMMA CommitSpares ==
  ASSUME NEW r \in Requests, Underway(r), Access!Snapshot!Commit(r),
         NEW q \in Requests \ doomed', q # r, Underway(q),
         command[r] \in Access!Commands, command[q] \in Access!Commands
  PROVE  /\ q \notin doomed
         /\ command[q].user # command[r].user
         /\ command[q].searches /\ command[r].searches =>
              ~(command[q].leaves /\ command[r].leaves)
<1> DEFINE others == {u \in Requests \ {r} : Access!Snapshot!Active(u)}
           f == Access!Footprint(command[r])
           g == Access!Footprint(command[q])
           footprint == [u \in Requests |->
                           IF command[u] = None THEN [reads |-> {}, writes |-> {}, rows |-> {}]
                                                ELSE Access!Footprint(command[u])]
           late == {u \in others : Access!Snapshot!ReadsWritten(footprint[u], f)}
<1>1. q \in others
  BY UnderwayIsActive
<1>2. footprint[r] = f /\ footprint[q] = g
  BY DEF Underway
<1>3. doomed' = (doomed \cap others)
                  \cup {u \in others : footprint[u].rows \cap f.rows # {}}
                  \cup {u \in others : /\ u \in out \cup late
                                       /\ Access!Snapshot!ReadsWritten(f, footprint[u])}
  BY <1>2 DEF Access!Snapshot!Commit, Access!Snapshot!Committed
<1>4. q \notin doomed
  BY <1>1, <1>3
<1>5. command[q].user # command[r].user
  <2>1. g.rows \cap f.rows = {}
    BY <1>1, <1>2, <1>3
  <2> QED BY <2>1 DEF Access!Footprint, Access!Row
<1>6. command[q].searches /\ command[r].searches =>
        ~(command[q].leaves /\ command[r].leaves)
  <2> SUFFICES ASSUME command[q].searches, command[r].searches,
                      command[q].leaves, command[r].leaves
               PROVE  FALSE
    OBVIOUS
  <2>1. Access!Others \in f.reads /\ Access!Others \in f.writes /\ Access!Others \in g.reads /\ Access!Others \in g.writes
    BY DEF Access!Footprint
  <2>2. Access!Snapshot!ReadsWritten(f, g) /\ Access!Snapshot!ReadsWritten(g, f)
    BY <2>1 DEF Access!Snapshot!ReadsWritten
  <2>3. q \in late
    BY <1>1, <1>2, <2>2
  <2> HIDE DEF late, others, f, g, footprint
  <2> QED BY <1>1, <1>2, <1>3, <2>2, <2>3
<1> QED BY <1>4, <1>5, <1>6
-------------------------------------------------------------------------------
(* An administrator remains *)

\* A commit does not touch other users.
LEMMA OthersStay ==
  ASSUME NEW r \in Requests, Access!Commit(r), NEW u, u # command[r].user
  PROVE  /\ u \in known' <=> u \in known
         /\ u \in Access!Administrators' <=> u \in Access!Administrators
BY DEF Access!Commit, Access!Set, Access!Administrators

\* Unless it takes one away, a commit only adds administrators.
LEMMA CommitKeepsAdministrators ==
  ASSUME NEW r \in Requests, Access!Commit(r), StillSo(command[r])
  PROVE  /\ ~command[r].leaves => Access!Administrators \subseteq Access!Administrators'
         /\ Access!Administrators \ {command[r].user} \subseteq Access!Administrators'
<1>1. Access!Administrators \ {command[r].user} \subseteq Access!Administrators'
  BY OthersStay
<1>2. ASSUME ~command[r].leaves, command[r].user \in Access!Administrators
      PROVE  command[r].user \in Access!Administrators'
  BY <1>2 DEF StillSo, IsAdministrator, Access!Commit, Access!Set, Access!Administrators
<1> QED BY <1>1, <1>2

LEMMA CommitKeepsAccess ==
  ASSUME AccessInv, NEW r \in Requests, Access!Commit(r)
  PROVE  AccessInv'
<1> DEFINE c == command[r]
<1>1. /\ c # None /\ c \in Access!Commands
      /\ r \notin doomed
      /\ Access!Snapshot!Commit(r)
      /\ command' = [command EXCEPT ![r] = None]
  BY DEF AccessInv, CommandsTyped, Access!Commit, Access!Snapshot!Commit, Access!Snapshot!MayCommit
<1>2. StillSo(c)
  BY <1>1 DEF AccessInv, Decided
<1>3. CommandsTyped'
  BY <1>1 DEF AccessInv, CommandsTyped
<1>4. Access!AdministratorRemains'
  BY <1>2, CommitKeepsAdministrators DEF AccessInv, Access!AdministratorRemains, StillSo
<1>5. ASSUME NEW q \in Requests \ doomed', command'[q] # None
      PROVE  StillSo(command[q])'
  <2>1. q # r /\ command'[q] = command[q] /\ command[q] # None /\ command[q] \in Access!Commands
    BY <1>1, <1>5 DEF AccessInv, CommandsTyped
  <2>2. q \notin doomed /\ command[q].user # c.user
    BY <1>1, <1>5, <2>1, CommitSpares DEF Underway
  <2>3. StillSo(command[q])
    BY <2>1, <2>2 DEF AccessInv, Decided
  <2>4. ~(command[q].leaves /\ c.leaves)
    BY <1>1, <1>2, <1>5, <2>1, <2>3, CommitSpares DEF Underway, StillSo
  <2>5. /\ command[q].user \in known' <=> command[q].user \in known
        /\ command[q].user \in Access!Administrators' <=> command[q].user \in Access!Administrators
    BY <2>2, OthersStay
  <2>6. command[q].leaves => Access!Administrators \subseteq Access!Administrators'
    BY <1>2, <2>4, CommitKeepsAdministrators
  <2> HIDE DEF c
  <2> QED BY <2>1, <2>3, <2>5, <2>6 DEF StillSo, IsAdministrator
<1> QED BY <1>3, <1>4, <1>5 DEF AccessInv, Decided

\* What a request has found when it begins is so.
LEMMA BeginKeepsAccess ==
  ASSUME AccessInv, NEW r \in Requests, NEW c \in Access!Commands, Access!Begin(r, c), StillSo(c)
  PROVE  AccessInv'
<1>1. UNCHANGED <<known, admin, active, doomed>>
      /\ command' = [command EXCEPT ![r] = c]
  BY DEF Access!Begin, Access!account
<1>2. CommandsTyped' /\ Access!AdministratorRemains'
  BY <1>1 DEF AccessInv, CommandsTyped, Access!AdministratorRemains, Access!Administrators
<1>3. ASSUME NEW q \in Requests \ doomed', command'[q] # None
      PROVE  StillSo(command[q])'
  <2>1. command'[q] = IF q = r THEN c ELSE command[q]
    BY <1>1 DEF AccessInv, CommandsTyped
  <2>2. StillSo(command'[q])
    BY <1>1, <1>3, <2>1 DEF AccessInv, Decided
  <2> QED BY <1>1, <2>2 DEF StillSo, IsAdministrator, Access!Administrators
<1> QED BY <1>2, <1>3 DEF AccessInv, Decided

\* Steps that leave the users alone and begin nothing; a request that ends is no longer doomed.
LEMMA RestKeepsAccess ==
  ASSUME AccessInv, UNCHANGED <<known, admin, active>>,
         \/ UNCHANGED <<command, doomed>>
         \/ \E r \in Requests : /\ command' = [command EXCEPT ![r] = None]
                                /\ doomed' = doomed \ {r}
  PROVE  AccessInv'
<1>1. CommandsTyped' /\ Access!AdministratorRemains'
  BY DEF AccessInv, CommandsTyped, Access!AdministratorRemains, Access!Administrators
<1>2. ASSUME NEW q \in Requests \ doomed', command'[q] # None
      PROVE  StillSo(command[q])'
  <2>1. q \notin doomed /\ command'[q] = command[q]
    BY <1>2 DEF AccessInv, CommandsTyped
  <2>2. StillSo(command[q])
    BY <1>2, <2>1 DEF AccessInv, Decided
  <2> QED BY <2>1, <2>2 DEF StillSo, IsAdministrator, Access!Administrators
<1> QED BY <1>1, <1>2 DEF AccessInv, Decided

LEMMA AccessInductive == AccessInv /\ [Access!Next]_(Access!vars) => AccessInv'
<1> SUFFICES ASSUME AccessInv, [Access!Next]_(Access!vars) PROVE AccessInv'
  OBVIOUS
<1>1. CASE UNCHANGED Access!vars
  BY <1>1, RestKeepsAccess DEF Access!vars, Access!account
<1>2. ASSUME NEW r \in Requests, NEW actor \in Accounts, Access!Admit(r, actor) PROVE AccessInv'
  BY <1>2, RestKeepsAccess DEF Access!Admit, Access!account
<1>3. ASSUME NEW r \in Requests, NEW u \in Accounts, NEW isAdmin \in BOOLEAN,
             Access!BeginCreate(r, u, isAdmin)
      PROVE  AccessInv'
  <2> DEFINE c == [user |-> u, admin |-> isAdmin, active |-> TRUE,
                   searches |-> FALSE, joins |-> isAdmin, leaves |-> FALSE]
  <2>1. c \in Access!Commands
    BY DEF Access!Commands
  <2>2. StillSo(c)
    BY <1>3 DEF Access!BeginCreate, StillSo, IsAdministrator, Access!Administrators
  <2>3. Access!Begin(r, c)
    BY <1>3 DEF Access!BeginCreate
  <2> HIDE DEF c
  <2> QED BY <2>1, <2>2, <2>3, BeginKeepsAccess
<1>4. ASSUME NEW r \in Requests, NEW u \in Accounts,
             NEW toAdmin \in BOOLEAN, NEW toActive \in BOOLEAN,
             Access!BeginUpdate(r, u, toAdmin, toActive)
      PROVE  AccessInv'
  <2> DEFINE demotes == Access!Demotes(u, toAdmin, toActive)
             joins == u \notin Access!Administrators /\ toAdmin /\ toActive
             c == [user |-> u, admin |-> toAdmin, active |-> toActive,
                   searches |-> demotes, joins |-> joins, leaves |-> demotes]
  <2>1. c \in Access!Commands
    BY DEF Access!Commands, Access!Demotes
  <2>2. StillSo(c)
    BY <1>4 DEF Access!BeginUpdate, StillSo, IsAdministrator, Access!Demotes,
        Access!AnotherAdministrator
  <2>3. Access!Begin(r, c)
    BY <1>4 DEF Access!BeginUpdate
  <2> HIDE DEF c
  <2> QED BY <2>1, <2>2, <2>3, BeginKeepsAccess
<1>5. ASSUME NEW r \in Requests, Access!Commit(r) PROVE AccessInv'
  BY <1>5, CommitKeepsAccess
<1>6. ASSUME NEW r \in Requests, Access!Abort(r) PROVE AccessInv'
  BY <1>6, RestKeepsAccess DEF Access!Abort, Access!Snapshot!Rollback, Access!account
<1>7. ASSUME NEW r \in Requests, Access!Refuse(r) PROVE AccessInv'
  BY <1>7, RestKeepsAccess DEF Access!Refuse, Access!account
<1> QED BY <1>1, <1>2, <1>3, <1>4, <1>5, <1>6, <1>7 DEF Access!Next

LEMMA AccessInitially == Access!Init => AccessInv
<1> SUFFICES ASSUME Access!Init PROVE AccessInv
  OBVIOUS
<1>1. command \in [Requests -> Access!Commands \cup {None}] /\ \A r \in Requests : command[r] = None
  BY DEF Access!Init
<1>2. Access!Administrators = Founders
  BY DEF Access!Init, Access!Administrators
<1> QED BY <1>1, <1>2, PartsAssumption
  DEF AccessInv, CommandsTyped, Decided, Access!AdministratorRemains, PartsAssumption,
      Access!FoundersAssumption

\* What every transaction that is not doomed has found stays so until it commits.
THEOREM FindingsStayTrue == Access!Spec => []AccessInv
<1> HIDE DEF AccessInv
<1> QED BY AccessInitially, AccessInductive, PTL DEF Access!Spec

\* However administrators change each other's roles and statuses at once, somebody can
\* administer access (the search for another administrator in update).
THEOREM AnAdministratorRemains ==
  Access!Spec => []Access!AdministratorRemains
<1>1. AccessInv => Access!AdministratorRemains
  BY DEF AccessInv
<1> HIDE DEF AccessInv, Access!AdministratorRemains
<1> QED BY <1>1, FindingsStayTrue, PTL

-------------------------------------------------------------------------------
(* Changes of users in memory *)

\* A commit creates or changes its user as the in-memory service does.
LEMMA ChangeIsTwins ==
  ASSUME AccessInv, NEW r \in Requests, Access!Commit(r)
  PROVE  Access!Twin!Next
<1> DEFINE c == command[r]
<1>1. /\ c # None /\ c \in Access!Commands
      /\ StillSo(c)
  BY DEF AccessInv, CommandsTyped, Decided, Access!Commit, Access!Snapshot!Commit,
      Access!Snapshot!MayCommit
<1>2. c.user \in Accounts /\ c.admin \in BOOLEAN /\ c.active \in BOOLEAN
  BY <1>1 DEF Access!Commands
<1>3. Access!Twin!Stored(c.user, c.admin, c.active)
  BY DEF Access!Commit, Access!Twin!Stored, Access!Twin!Set, Access!Set
<1>4. CASE c.user \notin known
  <2>1. c.active = TRUE
    BY <1>1, <1>2, <1>4 DEF StillSo
  <2>2. Access!Twin!Create(c.user, c.admin)
    BY <1>3, <1>4, <2>1 DEF Access!Twin!Create
  <2> QED BY <1>2, <2>2 DEF Access!Twin!Next
<1>5. CASE c.user \in known
  <2>1. Access!Twin!Safe(c.user, c.admin, c.active)
    BY <1>1 DEF StillSo, IsAdministrator, Access!Twin!Safe, Access!Twin!Administrators,
        Access!Administrators
  <2>2. Access!Twin!Update(c.user, c.admin, c.active)
    BY <1>3, <1>5, <2>1 DEF Access!Twin!Update
  <2> QED BY <1>2, <2>2 DEF Access!Twin!Next
<1> QED BY <1>4, <1>5

\* Nothing else of the transactions shows.
LEMMA AccessStepIsTwins == AccessInv /\ [Access!Next]_(Access!vars) => [Access!Twin!Next]_(Access!Twin!vars)
<1> SUFFICES ASSUME AccessInv, [Access!Next]_(Access!vars),
    ~UNCHANGED Access!Twin!vars PROVE Access!Twin!Next
  OBVIOUS
<1>1. \E r \in Requests : Access!Commit(r)
  BY DEF Access!Next, Access!vars, Access!account, Access!Twin!vars, Access!Admit,
      Access!BeginCreate, Access!BeginUpdate, Access!Begin,
         Access!Abort, Access!Refuse
<1> QED BY <1>1, ChangeIsTwins

\* Creating and changing users in serializable transactions implements doing so one after
\* the other in memory.
THEOREM AdministrationImplementsTwin ==
  Access!Spec => Access!ImplementsTwin
<1>1. Access!Init => Access!Twin!Init
  BY DEF Access!Init, Access!Twin!Init
<1> HIDE DEF AccessInv
<1> QED BY <1>1, AccessStepIsTwins, FindingsStayTrue, PTL DEF Access!Spec, Access!ImplementsTwin,
    Access!Twin!Spec

\* What TypeOK says beyond AccessInv, and that who may still commit has a version to give.
AccountSets ==
  /\ known \subseteq Accounts /\ admin \subseteq known /\ active \subseteq known
  /\ userVersion \in [Accounts -> 0 .. MaxUserVersion]
  /\ \A u \in Accounts \ known : userVersion[u] = 0
  /\ admitted \in [Requests -> Accounts \cup {None}]
  /\ \A r \in Requests \ doomed : command[r] # None => userVersion[command[r].user] < MaxUserVersion
  /\ out \cup doomed \subseteq {r \in Requests : command[r] # None}

LEMMA AccountSetsBegin ==
  ASSUME AccessInv, AccountSets, NEW r \in Requests, NEW c \in Access!Commands, Access!Begin(r, c),
         userVersion[c.user] < MaxUserVersion
  PROVE  AccountSets'
<1>1. /\ UNCHANGED <<known, admin, active, userVersion, out, doomed>>
      /\ admitted' = [admitted EXCEPT ![r] = None]
      /\ command' = [command EXCEPT ![r] = c]
  BY DEF Access!Begin, Access!account
<1>2. \A q \in Requests : command'[q] = IF q = r THEN c ELSE command[q]
  BY <1>1 DEF AccessInv, CommandsTyped
<1>3. c # None
  BY PartsAssumption DEF PartsAssumption, Access!FoundersAssumption
<1>4. admitted' \in [Requests -> Accounts \cup {None}]
  BY <1>1 DEF AccountSets
<1> QED
  BY <1>1, <1>2, <1>3, <1>4 DEF AccountSets

LEMMA AccountSetsCommit ==
  ASSUME AccessInv, AccountSets, NEW r \in Requests, Access!Commit(r)
  PROVE  AccountSets'
<1> DEFINE c == command[r]
<1>1. /\ c # None /\ c \in Access!Commands /\ c.user \in Accounts
      /\ r \notin doomed
      /\ Access!Snapshot!Commit(r)
      /\ command' = [command EXCEPT ![r] = None]
      /\ UNCHANGED admitted
  BY DEF AccessInv, CommandsTyped, Access!Commit, Access!Snapshot!Commit, Access!Snapshot!MayCommit,
     Access!Commands
<1>2. /\ known' = known \cup {c.user}
      /\ admin' = Access!Set(admin, c.user, c.admin)
      /\ active' = Access!Set(active, c.user, c.active)
      /\ userVersion' = [userVersion EXCEPT ![c.user] = @ + 1]
  BY DEF Access!Commit
<1>3. userVersion[c.user] < MaxUserVersion /\ MaxUserVersion \in Nat
  BY <1>1, PartsAssumption DEF AccountSets, PartsAssumption, Access!VersionAssumption
<1>4. /\ userVersion' \in [Accounts -> 0 .. MaxUserVersion]
      /\ \A u \in Accounts : u # c.user => userVersion'[u] = userVersion[u]
  BY <1>1, <1>2, <1>3 DEF AccountSets
<1>5. known' \subseteq Accounts /\ admin' \subseteq known' /\ active' \subseteq known'
  BY <1>1, <1>2 DEF AccountSets, Access!Set
<1>6. \A q \in Requests : command'[q] = IF q = r THEN None ELSE command[q]
  BY <1>1 DEF AccessInv, CommandsTyped
<1>7. ASSUME NEW q \in Requests \ doomed', command'[q] # None
      PROVE  userVersion'[command'[q].user] < MaxUserVersion
  <2>1. q # r /\ command'[q] = command[q] /\ command[q] # None /\ command[q] \in Access!Commands
    BY <1>6, <1>7 DEF AccessInv, CommandsTyped
  <2>2. q \notin doomed /\ command[q].user # c.user
    BY <1>1, <1>7, <2>1, CommitSpares DEF Underway
  <2>3. command[q].user \in Accounts
    BY <2>1 DEF Access!Commands
  <2> QED
    BY <1>4, <2>1, <2>2, <2>3 DEF AccountSets
<1>8. (out \cup doomed)' \subseteq {q \in Requests : command'[q] # None}
  <2>1. \A q \in Requests : Access!Snapshot!Active(q) => command[q] # None
    BY DEF Access!Snapshot!Active, Access!Snapshot!Idle
  <2> QED
    BY <1>1, <1>6, <2>1 DEF Access!Snapshot!Commit, Access!Snapshot!Committed
<1>9. \A u \in Accounts \ known' : userVersion'[u] = 0
  BY <1>2, <1>4 DEF AccountSets
<1> QED
  BY <1>1, <1>4, <1>5, <1>7, <1>8, <1>9 DEF AccountSets

LEMMA AccountSetsStay == AccessInv /\ AccountSets /\ [Access!Next]_(Access!vars) => AccountSets'
<1> SUFFICES ASSUME AccessInv, AccountSets, [Access!Next]_(Access!vars) PROVE AccountSets'
  OBVIOUS
<1>1. CASE UNCHANGED Access!vars
  BY <1>1 DEF Access!vars, Access!account, AccountSets
<1>2. ASSUME NEW r \in Requests, NEW actor \in Accounts, Access!Admit(r, actor) PROVE AccountSets'
  BY <1>2 DEF Access!Admit, Access!account, AccountSets
<1>3. ASSUME NEW r \in Requests, NEW u \in Accounts, NEW isAdmin \in BOOLEAN,
             Access!BeginCreate(r, u, isAdmin)
      PROVE  AccountSets'
  <2> DEFINE c == [user |-> u, admin |-> isAdmin, active |-> TRUE,
                   searches |-> FALSE, joins |-> isAdmin, leaves |-> FALSE]
  <2>1. c \in Access!Commands /\ c.user = u
    BY DEF Access!Commands
  <2>2. Access!Begin(r, c) /\ u \notin known
    BY <1>3 DEF Access!BeginCreate
  <2>3. userVersion[u] < MaxUserVersion
    BY <2>2, PartsAssumption DEF AccountSets, PartsAssumption, Access!VersionAssumption
  <2> HIDE DEF c
  <2> QED
    BY <2>1, <2>2, <2>3, AccountSetsBegin
<1>4. ASSUME NEW r \in Requests, NEW u \in Accounts,
             NEW toAdmin \in BOOLEAN, NEW toActive \in BOOLEAN,
             Access!BeginUpdate(r, u, toAdmin, toActive)
      PROVE  AccountSets'
  <2> DEFINE demotes == Access!Demotes(u, toAdmin, toActive)
             joins == u \notin Access!Administrators /\ toAdmin /\ toActive
             c == [user |-> u, admin |-> toAdmin, active |-> toActive,
                   searches |-> demotes, joins |-> joins, leaves |-> demotes]
  <2>1. c \in Access!Commands /\ c.user = u
    BY DEF Access!Commands, Access!Demotes
  <2>2. Access!Begin(r, c) /\ userVersion[u] < MaxUserVersion
    BY <1>4 DEF Access!BeginUpdate
  <2> HIDE DEF c
  <2> QED
    BY <2>1, <2>2, AccountSetsBegin
<1>5. ASSUME NEW r \in Requests, Access!Commit(r) PROVE AccountSets'
  BY <1>5, AccountSetsCommit
<1>6. ASSUME NEW r \in Requests, Access!Abort(r) PROVE AccountSets'
  <2>1. /\ UNCHANGED <<known, admin, active, userVersion, admitted>>
        /\ out' = out \ {r} /\ doomed' = doomed \ {r}
        /\ command' = [command EXCEPT ![r] = None]
    BY <1>6 DEF Access!Abort, Access!Snapshot!Rollback, Access!account
  <2>2. \A q \in Requests : command'[q] = IF q = r THEN None ELSE command[q]
    BY <2>1 DEF AccessInv, CommandsTyped
  <2> QED
    BY <2>1, <2>2 DEF AccountSets
<1>7. ASSUME NEW r \in Requests, Access!Refuse(r) PROVE AccountSets'
  BY <1>7 DEF Access!Refuse, Access!account, AccountSets
<1> QED
  BY <1>1, <1>2, <1>3, <1>4, <1>5, <1>6, <1>7 DEF Access!Next

LEMMA AccountsAreTyped == AccessInv /\ AccountSets => Access!TypeOK
BY DEF AccessInv, CommandsTyped, AccountSets, Access!TypeOK

LEMMA AccountSetsInitially == Access!Init => AccountSets
BY PartsAssumption DEF PartsAssumption, Access!FoundersAssumption, Access!VersionAssumption,
   Access!Init, AccountSets

-------------------------------------------------------------------------------
(* WeeklyReport: whatever is stored dooms who would store another snapshot of *)
(* the week by the same number.                                               *)

\* The reports of a week are numbered 1, 2, ...
Numbered ==
  /\ IsFiniteSet(reports)
  /\ \A p : Weekly!RevisionsOf(p) = 1 .. Cardinality(Weekly!Twin!OfPeriod(p))

\* What a generation has found of its command, and the number it has drawn.
UpToDate(g) ==
  /\ g.exact => Weekly!Published(g.command)
  /\ ~g.exact => /\ ~Weekly!Published(g.command)
                 /\ g.revision = Cardinality(Weekly!Twin!OfPeriod(g.command.period)) + 1

WeeklyInv ==
  /\ time \in 0 .. MaxTime
  /\ generation = [p \in Processes |-> generation[p]]
  /\ Numbered
  /\ \A p \in Processes : generation[p] # None =>
       generation[p].command \in Weekly!Commands /\ generation[p].exact \in BOOLEAN
  /\ \A p \in Processes : generation[p] # None /\ p \notin doomed => UpToDate(generation[p])

LEMMA WeeklyConstants ==
  /\ Week \in Nat /\ MaxTime \in Nat /\ Week <= MaxTime /\ Worker \in Processes
BY PartsAssumption DEF PartsAssumption, Weekly!WeekAssumption, Weekly!WorkerAssumption,
   Weekly!ClockAssumption

LEMMA WeeklyInitially == Weekly!Init => WeeklyInv
<1> SUFFICES ASSUME Weekly!Init PROVE WeeklyInv
  OBVIOUS
<1>1. time \in 0 .. MaxTime
  BY WeeklyConstants DEF Weekly!Init
<1>2. IsFiniteSet(reports) /\ Cardinality({}) = 0
  BY FS_EmptySet DEF Weekly!Init
<1>3. \A p : Weekly!Twin!OfPeriod(p) = {} /\ Weekly!RevisionsOf(p) = {}
  BY DEF Weekly!Init, Weekly!Twin!OfPeriod, Weekly!RevisionsOf
<1>4. \A p : Weekly!RevisionsOf(p) = 1 .. Cardinality(Weekly!Twin!OfPeriod(p))
  <2> TAKE p
  <2>1. Cardinality(Weekly!Twin!OfPeriod(p)) = 0
    BY <1>2, <1>3
  <2>2. Weekly!RevisionsOf(p) = {}
    BY <1>3
  <2> QED
    BY <2>1, <2>2
<1> QED
  BY <1>1, <1>2, <1>4 DEF WeeklyInv, Numbered, Weekly!Init

\* The next number of a week whose reports are numbered.
LEMMA NextIsOneMore ==
  ASSUME Numbered, NEW p
  PROVE  Weekly!NextRevision(p) = Cardinality(Weekly!Twin!OfPeriod(p)) + 1
<1> DEFINE n == Cardinality(Weekly!Twin!OfPeriod(p))
           S == {0} \cup Weekly!RevisionsOf(p)
<1>1. n \in Nat
  <2>1. Weekly!Twin!OfPeriod(p) \subseteq reports
    BY DEF Weekly!Twin!OfPeriod
  <2> QED
    BY <2>1, FS_Subset, FS_CardinalityType DEF Numbered
<1>2. S = 0 .. n
  BY <1>1 DEF Numbered
<1> HIDE DEF n, S
<1>3. n \in S /\ \A y \in S : n >= y
  BY <1>1, <1>2
<1>4. \A x \in S : (\A y \in S : x >= y) => x = n
  BY <1>1, <1>2
<1>5. Weekly!Max(S) = n
  BY <1>3, <1>4 DEF Weekly!Max
<1> QED
  BY <1>5 DEF Weekly!NextRevision, S, n

\* A transaction under way is one the database knows.
LEMMA GenerationIsActive ==
  ASSUME NEW p \in Processes, generation[p] # None
  PROVE  Weekly!Transaction!Active(p)
<1>1. Weekly!Reports(generation[p].command.period) \in Weekly!Footprint(generation[p]).reads
  BY DEF Weekly!Footprint
<1> QED
  BY <1>1 DEF Weekly!Transaction!Active, Weekly!Transaction!Idle

\* Dooming is for good, and whoever stores dooms who would store by the same number.
LEMMA StoringDooms ==
  ASSUME NEW r \in Processes, NEW s \in Processes, s # r, generation[r] # None, generation[s] # None,
         Weekly!Transaction!Commit(r)
  PROVE  /\ s \in doomed => s \in doomed'
         /\ ~generation[r].exact /\ ~generation[s].exact
              /\ generation[r].command.period = generation[s].command.period
              /\ generation[r].revision = generation[s].revision
            => s \in doomed'
<1> DEFINE others == {u \in Processes \ {r} : Weekly!Transaction!Active(u)}
           f == Weekly!Footprint(generation[r])
           g == Weekly!Footprint(generation[s])
<1>1. s \in others
  BY GenerationIsActive
<1>2. ASSUME ~generation[r].exact, ~generation[s].exact,
             generation[r].command.period = generation[s].command.period,
             generation[r].revision = generation[s].revision
      PROVE  g.rows \cap f.rows # {}
  <2>1. Weekly!Revision(generation[r].command.period, generation[r].revision) \in f.rows
    BY <1>2 DEF Weekly!Footprint
  <2>2. Weekly!Revision(generation[r].command.period, generation[r].revision) \in g.rows
    BY <1>2 DEF Weekly!Footprint
  <2> QED
    BY <2>1, <2>2
<1> HIDE DEF others
<1>3. /\ doomed \cap others \subseteq doomed'
      /\ \A u \in others : generation[u] # None
            /\ Weekly!Footprint(generation[u]).rows \cap f.rows # {} => u \in doomed'
  BY DEF Weekly!Transaction!Commit, Weekly!Transaction!Committed, others
<1> HIDE DEF f
<1> QED
  BY <1>1, <1>2, <1>3 DEF g

\* What one transaction stores leaves the numbers of the weeks, and what the others have
\* found and drawn, as long as they are not doomed.
LEMMA CommitKeepsWeekly ==
  ASSUME WeeklyInv, NEW r \in Processes, generation[r] # None, Weekly!Transaction!Commit(r),
         Weekly!Store(generation[r]), generation' = [generation EXCEPT ![r] = None], time' = time
  PROVE  WeeklyInv'
<1> PICK g : g = generation[r]
  OBVIOUS
<1> DEFINE s == [period |-> g.command.period, asOf |-> g.command.asOf,
                 formula |-> g.command.formula, revision |-> g.revision]
<1>1. r \notin doomed /\ UpToDate(g) /\ g.exact \in BOOLEAN
  BY DEF WeeklyInv, Weekly!Transaction!Commit, Weekly!Transaction!MayCommit
<1>2. /\ time' \in 0 .. MaxTime
      /\ generation' = [p \in Processes |-> generation'[p]]
      /\ \A p \in Processes : generation'[p] # None =>
           p # r /\ generation[p] # None /\ generation'[p] = generation[p]
  BY DEF WeeklyInv
<1>3. \A p \in Processes : p # r /\ generation[p] # None /\ p \notin doomed' => p \notin doomed
  BY StoringDooms
<1>4. CASE g.exact
  <2>1. reports' = reports
    BY <1>4 DEF Weekly!Store
  <2>2. Numbered'
    BY <2>1 DEF WeeklyInv, Numbered, Weekly!RevisionsOf, Weekly!Twin!OfPeriod
  <2>3. ASSUME NEW p \in Processes, generation'[p] # None, p \notin doomed'
        PROVE  UpToDate(generation[p])'
    <3> PICK h : h = generation[p]
      OBVIOUS
    <3>1. UpToDate(h) /\ generation'[p] = h
      BY <1>2, <1>3, <2>3 DEF WeeklyInv
    <3>2. UpToDate(h)'
      BY <2>1, <3>1 DEF UpToDate, Weekly!Published, Weekly!Twin!OfPeriod
    <3> QED
      BY <3>1, <3>2 DEF UpToDate, Weekly!Published, Weekly!Twin!OfPeriod
  <2> QED
    BY <1>2, <2>2, <2>3 DEF WeeklyInv
<1>5. CASE ~g.exact
  <2>1. reports' = reports \cup {s}
    BY <1>5 DEF Weekly!Store
  <2>2. /\ ~Weekly!Published(g.command)
        /\ g.revision = Cardinality(Weekly!Twin!OfPeriod(g.command.period)) + 1
    BY <1>1, <1>5 DEF UpToDate
  <2>3. s \notin reports /\ s.period = g.command.period /\ s.revision = g.revision
    BY <2>2 DEF Weekly!Published, Weekly!IsExact
  <2>4. \A p : p # g.command.period => /\ Weekly!Twin!OfPeriod(p)' = Weekly!Twin!OfPeriod(p)
                                       /\ Weekly!RevisionsOf(p)' = Weekly!RevisionsOf(p)
    BY <2>1, <2>3 DEF Weekly!Twin!OfPeriod, Weekly!RevisionsOf
  <2>5. Numbered'
    <3> DEFINE q == g.command.period
               n == Cardinality(Weekly!Twin!OfPeriod(q))
    <3>1. IsFiniteSet(reports')
      BY <2>1, FS_AddElement DEF WeeklyInv, Numbered
    <3>2. Weekly!Twin!OfPeriod(q)' = Weekly!Twin!OfPeriod(q) \cup {s}
      BY <2>1, <2>3 DEF Weekly!Twin!OfPeriod
    <3>3. Weekly!RevisionsOf(q)' = Weekly!RevisionsOf(q) \cup {s.revision}
      BY <2>1, <2>3 DEF Weekly!RevisionsOf
    <3>4. s \notin Weekly!Twin!OfPeriod(q) /\ IsFiniteSet(Weekly!Twin!OfPeriod(q)) /\ n \in Nat
      <4>1. Weekly!Twin!OfPeriod(q) \subseteq reports
        BY DEF Weekly!Twin!OfPeriod
      <4> QED
        BY <2>3, <4>1, FS_Subset, FS_CardinalityType DEF WeeklyInv, Numbered
    <3>5. Cardinality(Weekly!Twin!OfPeriod(q)') = n + 1
      BY <3>2, <3>4, FS_AddElement
    <3>6. Weekly!RevisionsOf(q)' = 1 .. n + 1
      <4>1. Weekly!RevisionsOf(q) = 1 .. n
        BY DEF WeeklyInv, Numbered
      <4>2. s.revision = n + 1
        BY <2>2, <2>3
      <4> QED
        BY <3>3, <3>4, <4>1, <4>2
    <3>7. \A p : p # q => Weekly!RevisionsOf(p)' = 1 .. Cardinality(Weekly!Twin!OfPeriod(p)')
      <4> TAKE p
      <4> SUFFICES ASSUME p # q PROVE Weekly!RevisionsOf(p)' = 1 .. Cardinality(Weekly!Twin!OfPeriod(p)')
        OBVIOUS
      <4>1. Weekly!RevisionsOf(p) = 1 .. Cardinality(Weekly!Twin!OfPeriod(p))
        BY DEF WeeklyInv, Numbered
      <4> QED
        BY <2>4, <4>1
    <3> QED
      BY <3>1, <3>5, <3>6, <3>7 DEF Numbered
  <2>6. ASSUME NEW p \in Processes, generation'[p] # None, p \notin doomed'
        PROVE  UpToDate(generation[p])'
    <3> PICK h : h = generation[p]
      OBVIOUS
    <3>1. /\ UpToDate(h) /\ generation'[p] = h /\ p # r /\ h # None /\ h.exact \in BOOLEAN
      BY <1>2, <1>3, <2>6 DEF WeeklyInv
    <3>2. h.exact => Weekly!Published(h.command)'
      BY <2>1, <3>1 DEF UpToDate, Weekly!Published
    <3>3. ASSUME ~h.exact
          PROVE  h.command.period # g.command.period
      BY <1>5, <2>2, <2>6, <3>1, <3>3, StoringDooms DEF UpToDate
    <3>4. ASSUME ~h.exact
          PROVE  /\ ~Weekly!Published(h.command)'
                 /\ h.revision = Cardinality(Weekly!Twin!OfPeriod(h.command.period))' + 1
      <4>1. Weekly!Twin!OfPeriod(h.command.period)' = Weekly!Twin!OfPeriod(h.command.period)
        BY <2>4, <3>3, <3>4
      <4>2. /\ ~Weekly!Published(h.command)
            /\ h.revision = Cardinality(Weekly!Twin!OfPeriod(h.command.period)) + 1
        BY <3>1, <3>4 DEF UpToDate
      <4>3. ~Weekly!Published(h.command)'
        BY <2>1, <2>3, <3>3, <3>4, <4>2 DEF Weekly!Published, Weekly!IsExact
      <4> QED
        BY <4>1, <4>2, <4>3
    <3>5. UpToDate(h)'
      BY <3>1, <3>2, <3>4 DEF UpToDate
    <3> QED
      BY <3>1, <3>5 DEF UpToDate
  <2> QED
    BY <1>2, <2>5, <2>6 DEF WeeklyInv
<1> QED
  BY <1>1, <1>4, <1>5

LEMMA BeginKeepsWeekly ==
  ASSUME WeeklyInv, NEW p \in Processes, NEW c \in Weekly!Commands, NEW scheduled,
         Weekly!Begin(p, c, scheduled), UNCHANGED <<time, reports, doomed>>
  PROVE  WeeklyInv'
<1> DEFINE g == [command |-> c, exact |-> Weekly!Published(c),
                 revision |-> Weekly!NextRevision(c.period), scheduled |-> scheduled]
<1>1. generation' = [generation EXCEPT ![p] = g]
  BY DEF Weekly!Begin
<1>2. g.command = c /\ g.exact = Weekly!Published(c) /\ g.exact \in BOOLEAN
      /\ g.revision = Weekly!NextRevision(c.period)
  BY DEF Weekly!Published
<1>3. UpToDate(g)
  BY <1>2, NextIsOneMore DEF UpToDate, WeeklyInv
<1> HIDE DEF g
<1>4. /\ generation' = [q \in Processes |-> generation'[q]]
      /\ \A q \in Processes : generation'[q] = IF q = p THEN g ELSE generation[q]
  BY <1>1 DEF WeeklyInv
<1>5. Numbered' /\ time' \in 0 .. MaxTime
  BY DEF WeeklyInv, Numbered, Weekly!RevisionsOf, Weekly!Twin!OfPeriod
<1>6. ASSUME NEW q \in Processes, generation'[q] # None, q \notin doomed'
      PROVE  UpToDate(generation[q])'
  <2> PICK h : h = generation'[q]
    OBVIOUS
  <2>1. UpToDate(h)
    BY <1>3, <1>4, <1>6 DEF WeeklyInv
  <2>2. UpToDate(h)'
    BY <2>1 DEF UpToDate, Weekly!Published, Weekly!Twin!OfPeriod
  <2> QED
    BY <2>2 DEF UpToDate
<1> QED
  BY <1>2, <1>4, <1>5, <1>6 DEF WeeklyInv

\* A step that stores nothing and begins no generation.
LEMMA RestKeepsWeekly ==
  ASSUME WeeklyInv, reports' = reports, time' \in 0 .. MaxTime,
         \/ UNCHANGED <<generation, doomed>>
         \/ \E p \in Processes : /\ Weekly!Transaction!Rollback(p)
                                  /\ generation' = [generation EXCEPT ![p] = None]
  PROVE  WeeklyInv'
<1>1. Numbered'
  BY DEF WeeklyInv, Numbered, Weekly!RevisionsOf, Weekly!Twin!OfPeriod
<1>2. /\ generation' = [q \in Processes |-> generation'[q]]
      /\ \A q \in Processes : generation'[q] # None =>
           /\ generation'[q] = generation[q]
           /\ q \notin doomed' => q \notin doomed
  BY DEF WeeklyInv, Weekly!Transaction!Rollback
<1>3. ASSUME NEW q \in Processes, generation'[q] # None, q \notin doomed'
      PROVE  UpToDate(generation[q])'
  <2> PICK h : h = generation'[q]
    OBVIOUS
  <2>1. UpToDate(h)
    BY <1>2, <1>3 DEF WeeklyInv
  <2>2. UpToDate(h)'
    BY <2>1 DEF UpToDate, Weekly!Published, Weekly!Twin!OfPeriod
  <2> QED
    BY <2>2 DEF UpToDate
<1> QED
  BY <1>1, <1>2, <1>3 DEF WeeklyInv

LEMMA WeeklyInductive == WeeklyInv /\ [Weekly!Next]_(Weekly!vars) => WeeklyInv'
<1> SUFFICES ASSUME WeeklyInv, [Weekly!Next]_(Weekly!vars) PROVE WeeklyInv'
  OBVIOUS
<1>1. time \in 0 .. MaxTime
  BY DEF WeeklyInv
<1>2. ASSUME NEW p \in Processes, NEW c \in Requested, Weekly!Generate(p, c)
      PROVE  WeeklyInv'
  <2>1. c \in Weekly!Commands
    BY DEF Weekly!Commands
  <2> QED
    BY <1>2, <2>1, BeginKeepsWeekly DEF Weekly!Generate, Weekly!tables
<1>3. ASSUME NEW p \in Processes, Weekly!CommitGenerate(p)
      PROVE  WeeklyInv'
  BY <1>3, CommitKeepsWeekly DEF Weekly!CommitGenerate
<1>4. ASSUME NEW p \in Processes, Weekly!Fail(p)
      PROVE  WeeklyInv'
  BY <1>1, <1>4, RestKeepsWeekly DEF Weekly!Fail, Weekly!tables
<1>5. CASE Weekly!RunLatestDue
  <2>1. Weekly!RunFor(Weekly!LatestDue(time)) \in Weekly!Commands
    BY <1>1 DEF Weekly!Commands
  <2> QED
    BY <1>5, <2>1, WeeklyConstants, BeginKeepsWeekly DEF Weekly!RunLatestDue, Weekly!tables
<1>6. CASE Weekly!CommitRun
  BY <1>6, WeeklyConstants, CommitKeepsWeekly DEF Weekly!CommitRun
<1>7. CASE Weekly!Replay
  BY <1>1, <1>7, RestKeepsWeekly DEF Weekly!Replay, Weekly!tables
<1>8. CASE Weekly!Wake
  BY <1>1, <1>8, RestKeepsWeekly DEF Weekly!Wake, Weekly!tables
<1>9. CASE Weekly!Restart
  BY <1>1, <1>9, WeeklyConstants, RestKeepsWeekly DEF Weekly!Restart, Weekly!tables
<1>10. ASSUME NEW slot \in keys, Weekly!KeyExpires(slot)
       PROVE  WeeklyInv'
  BY <1>1, <1>10, RestKeepsWeekly DEF Weekly!KeyExpires
<1>11. CASE Weekly!Tick
  <2>1. time' \in 0 .. MaxTime
    BY <1>1, <1>11, WeeklyConstants DEF Weekly!Tick
  <2> QED
    BY <1>11, <2>1, RestKeepsWeekly DEF Weekly!Tick, Weekly!tables
<1>12. CASE UNCHANGED Weekly!vars
  BY <1>1, <1>12, RestKeepsWeekly DEF Weekly!vars, Weekly!tables
<1> QED
  BY <1>2, <1>3, <1>4, <1>5, <1>6, <1>7, <1>8, <1>9, <1>10, <1>11, <1>12 DEF Weekly!Next

\* A commit that stores a snapshot is the in-memory service's generation of its command.
LEMMA StoringIsTwins ==
  ASSUME WeeklyInv, NEW r \in Processes, generation[r] # None, Weekly!Transaction!Commit(r),
         Weekly!Store(generation[r])
  PROVE  [Weekly!Twin!Next]_reports
<1> DEFINE g == generation[r]
<1>1. UpToDate(g) /\ g.exact \in BOOLEAN /\ g.command \in Weekly!Commands
  BY DEF WeeklyInv, Weekly!Transaction!Commit, Weekly!Transaction!MayCommit
<1>2. CASE g.exact
  BY <1>2 DEF Weekly!Store
<1>3. CASE ~g.exact
  <2>1. ~\E s \in reports : Weekly!Twin!IsExact(s, g.command)
    BY <1>1, <1>3 DEF UpToDate, Weekly!Published, Weekly!IsExact, Weekly!Twin!IsExact
  <2>2. reports' = reports \cup
          {[period |-> g.command.period, asOf |-> g.command.asOf, formula |-> g.command.formula,
            revision |-> Cardinality(Weekly!Twin!OfPeriod(g.command.period)) + 1]}
    BY <1>1, <1>3 DEF UpToDate, Weekly!Store
  <2>3. Weekly!Twin!GenerateWeekly(g.command)
    BY <2>1, <2>2 DEF Weekly!Twin!GenerateWeekly, Weekly!Twin!Cardinality, Cardinality
  <2> QED
    BY <1>1, <2>3 DEF Weekly!Twin!Next
<1> QED
  BY <1>1, <1>2, <1>3

\* Runs and requests that overlap number the reports of a week in order, and make one of
\* each command, as the service in memory does.
LEMMA WeeklyStepIsTwins ==
  WeeklyInv /\ [Weekly!Next]_(Weekly!vars) => [Weekly!Twin!Next]_reports
<1> SUFFICES ASSUME WeeklyInv, Weekly!Next, reports' # reports
             PROVE  Weekly!Twin!Next
  BY DEF Weekly!vars, Weekly!tables
<1>1. \E p \in Processes : Weekly!CommitGenerate(p) \/ (p = Worker /\ Weekly!CommitRun)
  BY WeeklyConstants DEF Weekly!Next, Weekly!Generate, Weekly!Fail, Weekly!RunLatestDue, Weekly!Replay,
     Weekly!Wake, Weekly!Restart, Weekly!KeyExpires, Weekly!Tick, Weekly!tables
<1> QED
  BY <1>1, StoringIsTwins DEF Weekly!CommitGenerate, Weekly!CommitRun

\* The command that a report is of.
CommandOf(s) == [period |-> s.period, asOf |-> s.asOf, formula |-> s.formula]

\* What TypeOK says beyond WeeklyInv; the worker's generation is the run of its slot.
WeeklySets ==
  /\ \A s \in reports : CommandOf(s) \in Weekly!Commands
  /\ \A slot \in keys : Weekly!RunFor(slot) \in Weekly!Commands
  /\ dueAt # None => dueAt \in 0 .. time + Week
  /\ generation[Worker] # None =>
       generation[Worker].command = Weekly!RunFor(generation[Worker].command.asOf)
  /\ out \cup doomed \subseteq {p \in Processes : generation[p] # None}

LEMMA CommandsAreRecords ==
  \A c \in Weekly!Commands : c = [period |-> c.period, asOf |-> c.asOf, formula |-> c.formula]
BY PartsAssumption DEF PartsAssumption, Weekly!RequestedAssumption, Weekly!Commands, Weekly!RunFor

LEMMA NextDueIsNear ==
  ASSUME NEW t \in 0 .. MaxTime
  PROVE  Weekly!NextDue(t) \in 0 .. t + Week
<1>1. Week \in Nat \ {0} /\ Due \in 0 .. Week - 1 /\ t \in Nat
  BY WeeklyConstants, PartsAssumption DEF PartsAssumption, Weekly!WeekAssumption
<1>2. t % Week \in 0 .. Week - 1
  BY <1>1
<1>3. t % Week <= t
  BY <1>1
<1> DEFINE rest == t % Week
<1> HIDE DEF rest
<1>4. CASE t < t - rest + Due
  BY <1>1, <1>2, <1>3, <1>4 DEF rest, Weekly!NextDue, Weekly!MondayDue, Weekly!Monday
<1>5. CASE ~(t < t - rest + Due)
  BY <1>1, <1>2, <1>3, <1>5 DEF rest, Weekly!NextDue, Weekly!MondayDue, Weekly!Monday
<1> QED
  BY <1>4, <1>5

\* A transaction that ends takes its process out of the conflicts.
LEMMA WeeklyEnds ==
  ASSUME WeeklyInv, WeeklySets, NEW r \in Processes, generation' = [generation EXCEPT ![r] = None],
         Weekly!Transaction!Commit(r) \/ Weekly!Transaction!Rollback(r)
  PROVE  (out \cup doomed)' \subseteq {p \in Processes : generation'[p] # None}
<1>1. \A p \in Processes : generation'[p] = IF p = r THEN None ELSE generation[p]
  BY DEF WeeklyInv
<1>2. \A p \in Processes : Weekly!Transaction!Active(p) => generation[p] # None
  BY DEF Weekly!Transaction!Active, Weekly!Transaction!Idle
<1>3. CASE Weekly!Transaction!Commit(r)
  BY <1>1, <1>2, <1>3 DEF Weekly!Transaction!Commit, Weekly!Transaction!Committed
<1>4. CASE Weekly!Transaction!Rollback(r)
  BY <1>1, <1>4 DEF Weekly!Transaction!Rollback, WeeklySets
<1> QED
  BY <1>3, <1>4

LEMMA WeeklyStores ==
  ASSUME WeeklyInv, WeeklySets, NEW r \in Processes, generation[r] # None, Weekly!Store(generation[r])
  PROVE  \A s \in reports' : CommandOf(s) \in Weekly!Commands
<1> PICK c : c = generation[r].command
  OBVIOUS
<1> DEFINE new == [period |-> c.period, asOf |-> c.asOf, formula |-> c.formula,
                   revision |-> generation[r].revision]
<1>1. c \in Weekly!Commands
  BY DEF WeeklyInv
<1>2. reports' \subseteq reports \cup {new}
  BY DEF Weekly!Store
<1>3. CommandOf(new) = c
  BY <1>1, CommandsAreRecords DEF CommandOf
<1> HIDE DEF new
<1> QED
  BY <1>1, <1>2, <1>3 DEF WeeklySets

\* The beginning of a generation.
LEMMA WeeklySetsBegin ==
  ASSUME WeeklyInv, WeeklySets, NEW p \in Processes, NEW c, NEW scheduled,
         p = Worker => c = Weekly!RunFor(c.asOf),
         Weekly!Begin(p, c, scheduled), UNCHANGED <<time, reports, keys, dueAt, out, doomed>>
  PROVE  WeeklySets'
<1> DEFINE g == [command |-> c, exact |-> Weekly!Published(c),
                 revision |-> Weekly!NextRevision(c.period), scheduled |-> scheduled]
<1>1. generation[p] = None /\ generation' = [generation EXCEPT ![p] = g] /\ g.command = c
  BY DEF Weekly!Begin
<1> HIDE DEF g
<1>2. \A q \in Processes : generation'[q] = IF q = p THEN g ELSE generation[q]
  BY <1>1 DEF WeeklyInv
<1>3. out' \cup doomed' \subseteq {q \in Processes : generation'[q] # None}
  BY <1>1, <1>2 DEF WeeklySets
<1>4. generation'[Worker] # None =>
        generation'[Worker].command = Weekly!RunFor(generation'[Worker].command.asOf)
  BY <1>1, <1>2, WeeklyConstants DEF WeeklySets
<1> QED
  BY <1>3, <1>4 DEF WeeklySets

LEMMA WeeklySetsStay == WeeklyInv /\ WeeklySets /\ [Weekly!Next]_(Weekly!vars) => WeeklySets'
<1> SUFFICES ASSUME WeeklyInv, WeeklySets, [Weekly!Next]_(Weekly!vars) PROVE WeeklySets'
  OBVIOUS
<1>1. time \in 0 .. MaxTime /\ Week \in Nat /\ MaxTime \in Nat /\ Worker \in Processes
  BY WeeklyConstants DEF WeeklyInv
<1>2. ASSUME NEW p \in Processes, NEW c \in Requested, Weekly!Generate(p, c) PROVE WeeklySets'
  BY <1>2, WeeklySetsBegin DEF Weekly!Generate, Weekly!tables
<1>3. ASSUME NEW p \in Processes, Weekly!CommitGenerate(p) PROVE WeeklySets'
  <2>1. /\ p # Worker /\ generation[p] # None /\ generation' = [generation EXCEPT ![p] = None]
        /\ Weekly!Transaction!Commit(p) /\ Weekly!Store(generation[p])
        /\ UNCHANGED <<time, keys, dueAt>>
    BY <1>3 DEF Weekly!CommitGenerate
  <2>2. generation'[Worker] = generation[Worker]
    BY <1>1, <2>1 DEF WeeklyInv
  <2> QED
    BY <2>1, <2>2, WeeklyEnds, WeeklyStores DEF WeeklySets
<1>4. ASSUME NEW p \in Processes, Weekly!Fail(p) PROVE WeeklySets'
  <2>1. /\ p # Worker /\ generation' = [generation EXCEPT ![p] = None]
        /\ Weekly!Transaction!Rollback(p)
        /\ UNCHANGED <<time, reports, keys, dueAt>>
    BY <1>4 DEF Weekly!Fail, Weekly!tables
  <2>2. generation'[Worker] = generation[Worker]
    BY <1>1, <2>1 DEF WeeklyInv
  <2> QED
    BY <2>1, <2>2, WeeklyEnds DEF WeeklySets
<1>5. CASE Weekly!RunLatestDue
  <2> DEFINE c == Weekly!RunFor(Weekly!LatestDue(time))
  <2>1. c = Weekly!RunFor(c.asOf)
    BY DEF Weekly!RunFor
  <2>2. Weekly!Begin(Worker, c, TRUE) /\ UNCHANGED <<time, reports, keys, dueAt, out, doomed>>
    BY <1>5 DEF Weekly!RunLatestDue, Weekly!tables
  <2> HIDE DEF c
  <2> QED
    BY <1>1, <2>1, <2>2, WeeklySetsBegin
<1>6. CASE Weekly!CommitRun
  <2>1. /\ generation[Worker] # None /\ generation' = [generation EXCEPT ![Worker] = None]
        /\ Weekly!Transaction!Commit(Worker) /\ Weekly!Store(generation[Worker])
        /\ keys' = keys \cup {generation[Worker].command.asOf}
        /\ dueAt' = Weekly!NextDue(time) /\ UNCHANGED time
    BY <1>6 DEF Weekly!CommitRun, Weekly!Sleep
  <2>2. generation'[Worker] = None
    BY <1>1, <2>1 DEF WeeklyInv
  <2>3. Weekly!RunFor(generation[Worker].command.asOf) \in Weekly!Commands
    BY <1>1, <2>1 DEF WeeklyInv, WeeklySets
  <2>4. dueAt' \in 0 .. time' + Week
    BY <1>1, <2>1, NextDueIsNear
  <2>5. \A slot \in keys' : Weekly!RunFor(slot) \in Weekly!Commands
    BY <2>1, <2>3 DEF WeeklySets
  <2> QED
    BY <1>1, <2>1, <2>2, <2>4, <2>5, WeeklyEnds, WeeklyStores DEF WeeklySets
<1>7. CASE Weekly!Replay
  <2>1. dueAt' = Weekly!NextDue(time) /\ UNCHANGED <<time, reports, keys, generation, out, doomed>>
    BY <1>7 DEF Weekly!Replay, Weekly!Sleep, Weekly!tables
  <2>2. dueAt' \in 0 .. time' + Week
    BY <1>1, <2>1, NextDueIsNear
  <2> QED
    BY <2>1, <2>2 DEF WeeklySets
<1>8. CASE Weekly!Wake
  BY <1>8 DEF Weekly!Wake, Weekly!tables, WeeklySets
<1>9. CASE Weekly!Restart
  <2>1. CASE generation[Worker] = None
    BY <1>9, <2>1 DEF Weekly!Restart, Weekly!tables, WeeklySets
  <2>2. CASE generation[Worker] # None
    <3>1. /\ generation' = [generation EXCEPT ![Worker] = None] /\ dueAt' = None
          /\ Weekly!Transaction!Rollback(Worker)
          /\ UNCHANGED <<time, reports, keys>>
      BY <1>9, <2>2 DEF Weekly!Restart, Weekly!tables
    <3>2. generation'[Worker] = None
      BY <1>1, <3>1 DEF WeeklyInv
    <3> QED
      BY <1>1, <3>1, <3>2, WeeklyEnds DEF WeeklySets
  <2> QED
    BY <2>1, <2>2
<1>10. ASSUME NEW slot \in keys, Weekly!KeyExpires(slot) PROVE WeeklySets'
  BY <1>10 DEF Weekly!KeyExpires, WeeklySets
<1>11. CASE Weekly!Tick
  BY <1>1, <1>11 DEF Weekly!Tick, Weekly!tables, WeeklySets
<1>12. CASE UNCHANGED Weekly!vars
  BY <1>12 DEF Weekly!vars, Weekly!tables, WeeklySets
<1> QED
  BY <1>2, <1>3, <1>4, <1>5, <1>6, <1>7, <1>8, <1>9, <1>10, <1>11, <1>12 DEF Weekly!Next

LEMMA WeeklyIsTyped == WeeklyInv /\ WeeklySets => Weekly!TypeOK
<1> SUFFICES ASSUME WeeklyInv, WeeklySets PROVE Weekly!TypeOK
  OBVIOUS
<1>1. time \in 0 .. MaxTime /\ MaxTime \in Nat /\ Week \in Nat
  BY WeeklyConstants DEF WeeklyInv
<1>2. ASSUME NEW s \in reports PROVE s.revision \in 1 .. Cardinality(reports)
  <2> DEFINE S == Weekly!Twin!OfPeriod(s.period)
  <2>1. S \subseteq reports /\ s.revision \in Weekly!RevisionsOf(s.period)
    BY DEF Weekly!Twin!OfPeriod, Weekly!RevisionsOf
  <2>2. Cardinality(S) \in Nat /\ Cardinality(reports) \in Nat /\ Cardinality(S) <= Cardinality(reports)
    BY <2>1, FS_Subset, FS_CardinalityType DEF WeeklyInv, Numbered
  <2>3. s.revision \in 1 .. Cardinality(S)
    BY <2>1 DEF WeeklyInv, Numbered
  <2> QED
    BY <2>2, <2>3
<1>3. dueAt # None => dueAt \in time - MaxTime .. time + Week
  BY <1>1 DEF WeeklySets
<1> QED
  BY <1>1, <1>2, <1>3 DEF WeeklySets, CommandOf, Weekly!TypeOK, Weekly!Cardinality, Cardinality

LEMMA WeeklySetsInitially == Weekly!Init => WeeklySets
BY WeeklyConstants DEF Weekly!Init, WeeklySets

-------------------------------------------------------------------------------
(* OrganizationImport: a commit that may still end has the rows of its job    *)
(* before it, no two of them for one host, and updates organizations that     *)
(* stay.                                                                      *)

ImportedRow ==
  [host : ImportHosts \cup {None}, name : Names \cup {None},
   decision : {"conflict", "skip", "update", "create"}, match : ImportHosts \cup {None},
   confirmable : BOOLEAN]

\* The rows that a commit may turn into organizations, and those that change one.
MayCreate(i) == i.decision = "create" \/ (i.decision = "conflict" /\ i.confirmable)
Changes(i) == i.decision = "update"

\* What the preview says of a row, as long as organizations stay.
Sound(i) ==
  /\ MayCreate(i) \/ Changes(i) => i.host \in ImportHosts /\ i.name \in Names
  /\ Changes(i) => i.match = i.host /\ name[i.host] # None

\* No two rows of a file are for one host.
Apart(s) ==
  \A i, k \in 1 .. Len(s) :
    /\ i # k
    /\ MayCreate(s[i]) \/ Changes(s[i])
    /\ MayCreate(s[k]) \/ Changes(s[k])
    => s[i].host # s[k].host

ImportTyped ==
  /\ name \in [ImportHosts -> Names \cup {None}]
  /\ jobStatus = [j \in Jobs |-> jobStatus[j]]
  /\ rows \in [Jobs -> Seq(ImportedRow)]
  /\ protocol = [j \in Jobs |-> protocol[j]]
  /\ request = [r \in Requests |-> request[r]]

Previewed ==
  \A j \in Jobs : Apart(rows[j]) /\ \A i \in 1 .. Len(rows[j]) : Sound(rows[j][i])

\* Decisions of a user about the rows of a preview.
Decisions(s) ==
  {Import!Twin!Resolved(s, chosen) :
     chosen \in {c \in SUBSET (1 .. Len(s)) : \A i \in c : s[i].confirmable}}

OfPreview(q) ==
  /\ q.kind \in {"commit", "cancel"}
  /\ q.job \in Jobs /\ jobStatus[q.job] # "absent"
  /\ q.kind = "commit" => q.decisions \in Decisions(rows[q.job])

ImportInv ==
  /\ ImportTyped /\ Previewed
  /\ \A r \in Requests : request[r] # None => OfPreview(request[r])
  /\ \A r \in Requests \ stale : request[r] # None => jobStatus[request[r].job] = "preview"

LEMMA ImportConstants ==
  /\ None \notin ImportHosts /\ None \notin Names
  /\ Files \subseteq Seq([host : ImportHosts \cup {None}, name : Names \cup {None}])
BY PartsAssumption DEF PartsAssumption, Import!NoneAssumption, Import!FilesAssumption

LEMMA ImportInitially == Import!Init => ImportInv
<1> SUFFICES ASSUME Import!Init PROVE ImportInv
  OBVIOUS
<1>1. ImportTyped
  BY DEF ImportTyped, Import!Init
<1>2. Previewed
  BY DEF Previewed, Apart, Import!Init
<1> QED
  BY <1>1, <1>2 DEF ImportInv, Import!Init

\* What the classification says of a row of a file.
LEMMA ClassifiedRow ==
  ASSUME name \in [ImportHosts -> Names \cup {None}],
         NEW sheet \in Seq([host : ImportHosts \cup {None}, name : Names \cup {None}]),
         NEW i \in 1 .. Len(sheet),
         NEW c, c = Import!Twin!Classify(sheet, i, Import!Organizations)
  PROVE  /\ c \in ImportedRow /\ Sound(c) /\ c.host = sheet[i].host
         /\ MayCreate(c) \/ Changes(c) => \A k \in 1 .. i - 1 : sheet[k].host # c.host
<1> PICK x : x = sheet[i]
  OBVIOUS
<1> PICK orgs : orgs = Import!Organizations
  OBVIOUS
<1> DEFINE ofHost == {o \in orgs : o.host = x.host}
           Row(d, m, q) == [host |-> x.host, name |-> x.name,
                            decision |-> d, match |-> m, confirmable |-> q]
           repeated == \E k \in 1 .. i - 1 : sheet[k].host = x.host
           invalid == None \in {x.host, x.name}
           same == \E o \in ofHost : o.name = x.name
           taken == \E o \in orgs : o.name = x.name
<1>1. x.host \in ImportHosts \cup {None} /\ x.name \in Names \cup {None}
  <2>1. sheet[i] \in [host : ImportHosts \cup {None}, name : Names \cup {None}]
    BY ElementOfSeq
  <2> QED
    BY <2>1
<1>2. c = IF repeated \/ invalid THEN Row("conflict", None, FALSE)
          ELSE IF same THEN Row("skip", None, FALSE)
          ELSE IF ofHost # {} THEN Row("update", (CHOOSE o \in ofHost : TRUE).id, FALSE)
          ELSE IF taken THEN Row("conflict", None, TRUE)
          ELSE Row("create", None, FALSE)
  BY DEF Import!Twin!Classify
<1>3. /\ \A o \in ofHost : o.id = x.host
      /\ ofHost # {} => x.host \in ImportHosts /\ name[x.host] # None
  BY DEF Import!Organizations
<1>4. ofHost # {} => (CHOOSE o \in ofHost : TRUE).id = x.host
  BY <1>3
<1> HIDE DEF ofHost, repeated, invalid, same, taken, Row
<1>5. \/ c = Row("conflict", None, FALSE)
      \/ c = Row("skip", None, FALSE)
      \/ ~repeated /\ ~invalid /\ ofHost # {}
           /\ c = Row("update", (CHOOSE o \in ofHost : TRUE).id, FALSE)
      \/ ~repeated /\ ~invalid /\ c = Row("conflict", None, TRUE)
      \/ ~repeated /\ ~invalid /\ c = Row("create", None, FALSE)
  BY <1>2
<1>6. ~invalid => x.host \in ImportHosts /\ x.name \in Names
  BY <1>1 DEF invalid
<1>7. ~repeated /\ ~invalid => \A k \in 1 .. i - 1 : sheet[k].host # x.host
  BY DEF repeated
<1>8. ASSUME NEW d \in {"conflict", "skip", "update", "create"}, NEW m \in ImportHosts \cup {None},
             NEW q \in BOOLEAN, c = Row(d, m, q)
      PROVE  /\ c \in ImportedRow /\ c.host = x.host /\ c.name = x.name
             /\ c.decision = d /\ c.match = m /\ c.confirmable = q
  BY <1>1, <1>8 DEF Row, ImportedRow
<1>9. CASE c = Row("conflict", None, FALSE) \/ c = Row("skip", None, FALSE)
  <2>1. \E d \in {"conflict", "skip"} : c = Row(d, None, FALSE)
    BY <1>9
  <2>2. PICK d \in {"conflict", "skip"} : c = Row(d, None, FALSE)
    BY <2>1
  <2>3. c \in ImportedRow /\ c.host = x.host /\ c.decision = d /\ c.confirmable = FALSE
    BY <1>8, <2>2
  <2> QED
    BY <2>3 DEF MayCreate, Changes, Sound
<1>10. CASE ~repeated /\ ~invalid /\ ofHost # {}
              /\ c = Row("update", (CHOOSE o \in ofHost : TRUE).id, FALSE)
  <2>1. c = Row("update", x.host, FALSE)
    BY <1>4, <1>10
  <2>2. c \in ImportedRow /\ c.host = x.host /\ c.name = x.name /\ c.decision = "update" /\ c.match = x.host
    BY <1>1, <1>8, <2>1
  <2> QED
    BY <1>3, <1>6, <1>7, <1>10, <2>2 DEF MayCreate, Changes, Sound
<1>11. CASE ~repeated /\ ~invalid
              /\ (c = Row("conflict", None, TRUE) \/ c = Row("create", None, FALSE))
  <2>1. \E d \in {"conflict", "create"}, q \in BOOLEAN : c = Row(d, None, q)
    BY <1>11
  <2>2. PICK d \in {"conflict", "create"}, q \in BOOLEAN : c = Row(d, None, q)
    BY <2>1
  <2>3. c \in ImportedRow /\ c.host = x.host /\ c.name = x.name /\ c.decision # "update"
    BY <1>8, <2>2
  <2> QED
    BY <1>6, <1>7, <1>11, <2>3 DEF MayCreate, Changes, Sound
<1> QED
  BY <1>5, <1>9, <1>10, <1>11

\* The rows of a preview, and that no two of them are for one host.
LEMMA ClassifiedRows ==
  ASSUME name \in [ImportHosts -> Names \cup {None}], NEW sheet \in Files,
         NEW s, s = Import!Twin!ClassifyRows(sheet, Import!Organizations)
  PROVE  s \in Seq(ImportedRow) /\ Apart(s) /\ \A i \in 1 .. Len(s) : Sound(s[i])
<1> DEFINE F(i) == Import!Twin!Classify(sheet, i, Import!Organizations)
<1>1. sheet \in Seq([host : ImportHosts \cup {None}, name : Names \cup {None}])
  BY ImportConstants
<1>2. s = [i \in 1 .. Len(sheet) |-> F(i)]
  BY DEF Import!Twin!ClassifyRows
<1>3. \A i \in 1 .. Len(sheet) :
        /\ F(i) \in ImportedRow /\ Sound(F(i)) /\ F(i).host = sheet[i].host
        /\ MayCreate(F(i)) \/ Changes(F(i)) => \A k \in 1 .. i - 1 : sheet[k].host # F(i).host
  BY <1>1, ClassifiedRow
<1> HIDE DEF F
<1>4. Len(sheet) \in Nat
  BY <1>1
<1>5. s \in Seq(ImportedRow) /\ Len(s) = Len(sheet) /\ \A i \in 1 .. Len(sheet) : s[i] = F(i)
  BY <1>2, <1>3, <1>4
<1>6. Apart(s)
  <2> SUFFICES ASSUME NEW i \in 1 .. Len(sheet), NEW k \in 1 .. Len(sheet), i # k,
                      MayCreate(F(i)) \/ Changes(F(i)), MayCreate(F(k)) \/ Changes(F(k))
               PROVE  F(i).host # F(k).host
    BY <1>5 DEF Apart
  <2>1. CASE i < k
    BY <1>3, <1>4, <2>1
  <2>2. CASE k < i
    BY <1>3, <1>4, <2>2
  <2> QED
    BY <1>4, <2>1, <2>2
<1> QED
  BY <1>3, <1>5, <1>6

LEMMA PreviewKeepsImport ==
  ASSUME ImportInv, NEW j \in Jobs, NEW sheet \in Files, Import!Preview(j, sheet)
  PROVE  ImportInv'
<1> PICK s : s = Import!Twin!ClassifyRows(sheet, Import!Organizations)
  OBVIOUS
<1>1. /\ jobStatus[j] = "absent"
      /\ jobStatus' = [jobStatus EXCEPT ![j] = "preview"]
      /\ rows' = [rows EXCEPT ![j] = s]
      /\ UNCHANGED <<name, protocol, request, stale>>
  BY DEF Import!Preview
<1>2. s \in Seq(ImportedRow) /\ Apart(s) /\ \A i \in 1 .. Len(s) : Sound(s[i])
  BY ClassifiedRows DEF ImportInv, ImportTyped
<1>3. ImportTyped'
  BY <1>1, <1>2 DEF ImportInv, ImportTyped
<1>4. \A k \in Jobs : /\ rows'[k] = IF k = j THEN s ELSE rows[k]
                      /\ jobStatus'[k] = IF k = j THEN "preview" ELSE jobStatus[k]
  BY <1>1 DEF ImportInv, ImportTyped
<1>6. Previewed'
  <2> SUFFICES ASSUME NEW k \in Jobs
               PROVE  (Apart(rows[k]) /\ \A i \in 1 .. Len(rows[k]) : Sound(rows[k][i]))'
    BY DEF Previewed
  <2> PICK t : t = rows'[k]
    OBVIOUS
  <2>1. Apart(t) /\ \A i \in 1 .. Len(t) : Sound(t[i])
    BY <1>2, <1>4 DEF ImportInv, Previewed
  <2>2. \A i \in 1 .. Len(t) : Sound(t[i])'
    BY <1>1, <2>1 DEF Sound
  <2> QED
    BY <2>1, <2>2 DEF Apart, Sound
<1>7. ASSUME NEW r \in Requests, request[r] # None
      PROVE  /\ OfPreview(request[r])'
             /\ request[r].job # j
  BY <1>1, <1>4, <1>7 DEF ImportInv, OfPreview
<1>8. \A r \in Requests \ stale' : request'[r] # None => jobStatus'[request'[r].job] = "preview"
  BY <1>1, <1>4, <1>7 DEF ImportInv, OfPreview
<1> QED
  BY <1>1, <1>3, <1>6, <1>7, <1>8 DEF ImportInv

\* Names and rows stay; what a request is about, too.
LEMMA BeginKeepsImport ==
  ASSUME ImportInv, NEW r \in Requests, NEW q, OfPreview(q), jobStatus[q.job] = "preview",
         request' = [request EXCEPT ![r] = q],
         UNCHANGED <<name, jobStatus, rows, protocol, stale>>
  PROVE  ImportInv'
<1>1. ImportTyped'
  BY DEF ImportInv, ImportTyped
<1>2. Previewed'
  BY DEF ImportInv, Previewed, Apart, Sound
<1>3. \A t \in Requests : request'[t] = IF t = r THEN q ELSE request[t]
  BY DEF ImportInv, ImportTyped
<1>4. ASSUME NEW t \in Requests, request'[t] # None
      PROVE  OfPreview(request[t])'
  <2> PICK h : h = request'[t]
    OBVIOUS
  <2>1. OfPreview(h)
    BY <1>3, <1>4 DEF ImportInv
  <2>2. OfPreview(h)'
    BY <2>1 DEF OfPreview
  <2> QED
    BY <2>2 DEF OfPreview
<1>5. \A t \in Requests \ stale' : request'[t] # None => jobStatus'[request'[t].job] = "preview"
  BY <1>3 DEF ImportInv
<1> QED
  BY <1>1, <1>2, <1>4, <1>5 DEF ImportInv

\* A request ends, and what it writes fails those under way for its job.
LEMMA EndKeepsImport ==
  ASSUME ImportInv, NEW r \in Requests, NEW d \in {"preview", "committed", "cancelled"},
         Import!Active(r),
         request' = [request EXCEPT ![r] = None], rows' = rows,
         protocol' = [j \in Jobs |-> protocol'[j]],
         name' \in [ImportHosts -> Names \cup {None}],
         \A h \in ImportHosts : name[h] # None => name'[h] # None,
         \/ jobStatus' = jobStatus /\ stale' = stale \ {r}
         \/ /\ jobStatus' = [jobStatus EXCEPT ![request[r].job] = d]
            /\ \A t \in Requests \ {r} : Import!Active(t) /\ request[t].job = request[r].job => t \in stale'
            /\ \A t \in Requests \ {r} : t \in stale => t \in stale'
  PROVE  ImportInv'
<1>1. request[r].job \in Jobs
  BY DEF ImportInv, OfPreview, Import!Active
<1>2. ImportTyped'
  BY DEF ImportInv, ImportTyped
<1>3. \A x \in ImportedRow : Sound(x) => Sound(x)'
  BY DEF Sound, ImportedRow
<1>4. Previewed'
  <2> SUFFICES ASSUME NEW k \in Jobs
               PROVE  Apart(rows[k]) /\ \A i \in 1 .. Len(rows[k]) : Sound(rows[k][i])'
    BY DEF Previewed, Apart
  <2>1. rows[k] \in Seq(ImportedRow) /\ Apart(rows[k]) /\ \A i \in 1 .. Len(rows[k]) : Sound(rows[k][i])
    BY DEF ImportInv, Previewed, ImportTyped
  <2>2. \A i \in 1 .. Len(rows[k]) : rows[k][i] \in ImportedRow
    BY <2>1, ElementOfSeq
  <2> QED
    BY <1>3, <2>1, <2>2
<1>5. \A t \in Requests : request'[t] # None => t # r /\ request'[t] = request[t]
  BY DEF ImportInv, ImportTyped
<1>6. \A k \in Jobs : jobStatus[k] # "absent" => jobStatus'[k] # "absent"
  BY <1>1 DEF ImportInv, ImportTyped
<1>7. ASSUME NEW t \in Requests, request'[t] # None
      PROVE  OfPreview(request[t])'
  <2> PICK h : h = request[t]
    OBVIOUS
  <2>1. OfPreview(h) /\ request'[t] = h
    BY <1>5, <1>7 DEF ImportInv
  <2>2. OfPreview(h)'
    BY <1>6, <2>1 DEF OfPreview
  <2> QED
    BY <2>1, <2>2 DEF OfPreview
<1>8. ASSUME NEW t \in Requests \ stale', request'[t] # None
      PROVE  jobStatus'[request'[t].job] = "preview"
  <2>1. t # r /\ request'[t] = request[t] /\ request[t] # None
    BY <1>5, <1>8
  <2>2. t \notin stale
    BY <1>8, <2>1
  <2>3. jobStatus[request[t].job] = "preview" /\ request[t].job \in Jobs
    BY <2>1, <2>2 DEF ImportInv, OfPreview
  <2> QED
    BY <1>1, <1>8, <2>1, <2>3 DEF Import!Active, ImportInv, ImportTyped
<1> QED
  BY <1>2, <1>4, <1>7, <1>8 DEF ImportInv

\* The rows of a commit: what it creates and what it updates are for different hosts, and have
\* names.
LEMMA RowsOfCommit ==
  ASSUME ImportInv, NEW j \in Jobs, NEW s, s = rows[j], NEW decisions \in Decisions(s)
  PROVE  /\ Len(decisions) = Len(s) /\ Len(s) \in Nat
         /\ \A i \in Import!Twin!RowsOf(decisions, "create") : i \in 1 .. Len(s) /\ MayCreate(s[i])
         /\ \A i \in Import!Twin!RowsOf(decisions, "update") : i \in 1 .. Len(s) /\ Changes(s[i])
         /\ Apart(s)
         /\ \A i \in 1 .. Len(s) : s[i] \in ImportedRow /\ Sound(s[i])
<1>1. s \in Seq(ImportedRow) /\ Apart(s) /\ \A i \in 1 .. Len(s) : Sound(s[i])
  BY DEF ImportInv, ImportTyped, Previewed
<1>2. PICK chosen \in SUBSET (1 .. Len(s)) :
        /\ \A i \in chosen : s[i].confirmable
        /\ decisions = Import!Twin!Resolved(s, chosen)
  BY DEF Decisions
<1>3. Len(s) \in Nat /\ \A i \in 1 .. Len(s) : s[i] \in ImportedRow
  BY <1>1, ElementOfSeq
<1>4. decisions = [i \in 1 .. Len(s) |->
                     IF s[i].decision # "conflict" THEN s[i].decision
                     ELSE IF i \in chosen THEN "create" ELSE "skip"]
  BY <1>2 DEF Import!Twin!Resolved
<1>5. Len(decisions) = Len(s)
  BY <1>3, <1>4
<1>6. \A i \in 1 .. Len(s) :
        /\ decisions[i] = "create" => MayCreate(s[i])
        /\ decisions[i] = "update" => Changes(s[i])
  BY <1>2, <1>4 DEF MayCreate, Changes
<1> QED
  BY <1>1, <1>3, <1>5, <1>6 DEF Import!Twin!RowsOf

LEMMA CommitKeepsImport ==
  ASSUME ImportInv, NEW r \in Requests, Import!Commit(r)
  PROVE  ImportInv'
<1> DEFINE j == request[r].job
           s == rows[j]
           decisions == request[r].decisions
           RowOf(h) == {i \in Import!Twin!RowsOf(decisions, "create") : s[i].host = h}
                          \cup {i \in Import!Twin!RowsOf(decisions, "update") : s[i].match = h}
<1>1. j \in Jobs /\ decisions \in Decisions(s) /\ Import!Active(r)
  BY DEF ImportInv, OfPreview, Import!Active, Import!Commit
<1>2. /\ name' = [h \in ImportHosts |-> IF RowOf(h) = {} THEN name[h]
                                        ELSE s[CHOOSE i \in RowOf(h) : TRUE].name]
      /\ jobStatus' = [jobStatus EXCEPT ![j] = "committed"]
      /\ protocol' = [protocol EXCEPT ![j] = decisions]
      /\ request' = [request EXCEPT ![r] = None]
      /\ stale' = (stale \cup Import!Late(Import!Updates(r), j)) \ {r}
      /\ rows' = rows
  BY DEF Import!Commit
<1> HIDE DEF j, s, decisions
<1>3. \A i \in 1 .. Len(s) : (MayCreate(s[i]) \/ Changes(s[i])) => s[i].name \in Names
  BY <1>1, RowsOfCommit DEF Sound, s
<1>4. \A h \in ImportHosts : \A i \in RowOf(h) : s[i].name \in Names
  BY <1>1, <1>3, RowsOfCommit DEF s
<1>5. \A h \in ImportHosts : RowOf(h) # {} => s[CHOOSE i \in RowOf(h) : TRUE].name \in Names
  BY <1>4
<1> HIDE DEF RowOf
<1>6. /\ name' \in [ImportHosts -> Names \cup {None}]
      /\ \A h \in ImportHosts : name[h] # None => name'[h] # None
  BY <1>2, <1>5, ImportConstants DEF ImportInv, ImportTyped
<1>7. protocol' = [k \in Jobs |-> protocol'[k]]
  BY <1>2 DEF ImportInv, ImportTyped
<1>8. /\ \A t \in Requests \ {r} : Import!Active(t) /\ request[t].job = request[r].job => t \in stale'
      /\ \A t \in Requests \ {r} : t \in stale => t \in stale'
  BY <1>2 DEF Import!Late, j
<1> QED
  BY <1>1, <1>2, <1>6, <1>7, <1>8, EndKeepsImport DEF j

LEMMA ImportInductive == ImportInv /\ [Import!Next]_(Import!vars) => ImportInv'
<1> SUFFICES ASSUME ImportInv, [Import!Next]_(Import!vars) PROVE ImportInv'
  OBVIOUS
<1>1. ASSUME NEW j \in Jobs, NEW sheet \in Files, Import!Preview(j, sheet) PROVE ImportInv'
  BY <1>1, PreviewKeepsImport
<1>2. ASSUME NEW r \in Requests, NEW j \in Jobs, NEW chosen \in SUBSET (1 .. Len(rows[j])),
             Import!BeginCommit(r, j, chosen)
      PROVE  ImportInv'
  <2> PICK q : q = [kind |-> "commit", job |-> j,
                    decisions |-> Import!Twin!Resolved(rows[j], chosen)]
    OBVIOUS
  <2>1. q.kind = "commit" /\ q.job = j /\ q.decisions = Import!Twin!Resolved(rows[j], chosen)
    OBVIOUS
  <2>2. q.decisions \in Decisions(rows[j]) /\ jobStatus[j] = "preview"
    BY <1>2, <2>1 DEF Decisions, Import!BeginCommit, Import!IsPreview
  <2>3. OfPreview(q)
    BY <2>1, <2>2 DEF OfPreview
  <2> QED
    BY <1>2, <2>1, <2>2, <2>3, BeginKeepsImport DEF Import!BeginCommit, Import!tables
<1>3. ASSUME NEW r \in Requests, NEW j \in Jobs, Import!BeginCancel(r, j) PROVE ImportInv'
  <2> PICK q : q = [kind |-> "cancel", job |-> j]
    OBVIOUS
  <2>1. q.kind = "cancel" /\ q.job = j /\ jobStatus[j] = "preview"
    BY <1>3 DEF Import!BeginCancel, Import!CanCancel, Import!IsPreview
  <2>2. OfPreview(q)
    BY <2>1 DEF OfPreview
  <2> QED
    BY <1>3, <2>1, <2>2, BeginKeepsImport DEF Import!BeginCancel, Import!tables
<1>4. ASSUME NEW r \in Requests, Import!Commit(r) PROVE ImportInv'
  BY <1>4, CommitKeepsImport
<1>5. ASSUME NEW r \in Requests, Import!Cancel(r) PROVE ImportInv'
  <2>1. /\ \A t \in Requests \ {r} : Import!Active(t) /\ request[t].job = request[r].job => t \in stale'
        /\ \A t \in Requests \ {r} : t \in stale => t \in stale'
    BY <1>5 DEF Import!Cancel, Import!Late
  <2>2. name' \in [ImportHosts -> Names \cup {None}] /\ protocol' = [k \in Jobs |-> protocol'[k]]
        /\ \A h \in ImportHosts : name[h] # None => name'[h] # None
    BY <1>5 DEF Import!Cancel, ImportInv, ImportTyped
  <2> QED
    BY <1>5, <2>1, <2>2, EndKeepsImport DEF Import!Cancel
<1>6. ASSUME NEW r \in Requests, Import!Fail(r) PROVE ImportInv'
  <2>1. name' \in [ImportHosts -> Names \cup {None}] /\ protocol' = [k \in Jobs |-> protocol'[k]]
        /\ \A h \in ImportHosts : name[h] # None => name'[h] # None
    BY <1>6 DEF Import!Fail, Import!tables, ImportInv, ImportTyped
  <2> QED
    BY <1>6, <2>1, EndKeepsImport DEF Import!Fail, Import!tables
<1>7. ASSUME NEW h \in ImportHosts, NEW n \in Names, Import!OrganizationAdded(h, n) PROVE ImportInv'
  <2>1. name' \in [ImportHosts -> Names \cup {None}] /\ \A k \in ImportHosts : name[k] # None => name'[k] # None
    BY <1>7 DEF Import!OrganizationAdded, ImportInv, ImportTyped
  <2>2. UNCHANGED <<jobStatus, rows, protocol, request, stale>>
    BY <1>7 DEF Import!OrganizationAdded
  <2>3. \A x \in ImportedRow : Sound(x) => Sound(x)'
    BY <2>1 DEF Sound, ImportedRow
  <2>4. Previewed'
    <3> SUFFICES ASSUME NEW k \in Jobs
                 PROVE  Apart(rows[k]) /\ \A i \in 1 .. Len(rows[k]) : Sound(rows[k][i])'
      BY <2>2 DEF Previewed, Apart
    <3>1. rows[k] \in Seq(ImportedRow) /\ Apart(rows[k]) /\ \A i \in 1 .. Len(rows[k]) : Sound(rows[k][i])
      BY DEF ImportInv, Previewed, ImportTyped
    <3>2. \A i \in 1 .. Len(rows[k]) : rows[k][i] \in ImportedRow
      BY <3>1, ElementOfSeq
    <3>3. \A i \in 1 .. Len(rows[k]) : Sound(rows[k][i])'
      BY <2>2, <2>3, <3>1, <3>2
    <3> QED
      BY <3>1, <3>3
  <2> QED
    BY <2>1, <2>2, <2>4 DEF ImportInv, ImportTyped, OfPreview
<1>8. CASE UNCHANGED Import!vars
  BY <1>8 DEF Import!vars, Import!tables, ImportInv, ImportTyped, Previewed, Apart, Sound, OfPreview
<1> QED
  BY <1>1, <1>2, <1>3, <1>4, <1>5, <1>6, <1>7, <1>8 DEF Import!Next

\* What TypeOK says beyond ImportInv, and that a job has no protocol before its preview.
ImportSets ==
  /\ \A j \in Jobs : jobStatus[j] \in {"absent", "preview", "committed", "cancelled"}
  /\ \A j \in Jobs : Len(protocol[j]) \in {0, Len(rows[j])}
  /\ \A j \in Jobs : jobStatus[j] = "absent" => Len(protocol[j]) = 0
  /\ stale \subseteq {r \in Requests : request[r] # None}

\* A step that ends a request of job j, or of none.
LEMMA ImportEnds ==
  ASSUME ImportInv, ImportSets, NEW r \in Requests,
         request' = [request EXCEPT ![r] = None], r \notin stale',
         stale' \subseteq stale \cup {t \in Requests : Import!Active(t)}
  PROVE  stale' \subseteq {t \in Requests : request'[t] # None}
<1>1. \A t \in Requests : request'[t] = IF t = r THEN None ELSE request[t]
  BY DEF ImportInv, ImportTyped
<1> QED
  BY <1>1 DEF ImportSets, Import!Active

LEMMA ImportBegins ==
  ASSUME ImportInv, ImportSets, NEW r \in Requests, NEW q, request[r] = None,
         request' = [request EXCEPT ![r] = q], UNCHANGED stale
  PROVE  stale' \subseteq {t \in Requests : request'[t] # None}
<1>1. \A t \in Requests : request'[t] = IF t = r THEN q ELSE request[t]
  BY DEF ImportInv, ImportTyped
<1> QED
  BY <1>1 DEF ImportSets

LEMMA ImportSetsStay == ImportInv /\ ImportSets /\ [Import!Next]_(Import!vars) => ImportSets'
<1> SUFFICES ASSUME ImportInv, ImportSets, [Import!Next]_(Import!vars) PROVE ImportSets'
  OBVIOUS
<1>1. ASSUME NEW j \in Jobs, NEW sheet \in Files, Import!Preview(j, sheet) PROVE ImportSets'
  <2>1. /\ jobStatus[j] = "absent" /\ jobStatus' = [jobStatus EXCEPT ![j] = "preview"]
        /\ \A k \in Jobs : k # j => rows'[k] = rows[k]
        /\ UNCHANGED <<protocol, request, stale>>
    BY <1>1 DEF Import!Preview, ImportInv, ImportTyped
  <2>2. \A k \in Jobs : jobStatus'[k] = IF k = j THEN "preview" ELSE jobStatus[k]
    BY <2>1 DEF ImportInv, ImportTyped
  <2>3. Len(protocol'[j]) = 0
    BY <2>1 DEF ImportSets
  <2> QED
    BY <2>1, <2>2, <2>3 DEF ImportSets
<1>2. ASSUME NEW r \in Requests, NEW j \in Jobs, NEW chosen \in SUBSET (1 .. Len(rows[j])),
             Import!BeginCommit(r, j, chosen)
      PROVE  ImportSets'
  <2> DEFINE q == [kind |-> "commit", job |-> j,
                   decisions |-> Import!Twin!Resolved(rows[j], chosen)]
  <2>1. /\ UNCHANGED <<jobStatus, rows, protocol, stale>>
        /\ request[r] = None /\ request' = [request EXCEPT ![r] = q]
    BY <1>2 DEF Import!BeginCommit, Import!Active, Import!tables
  <2> HIDE DEF q
  <2> QED
    BY <2>1, ImportBegins DEF ImportSets
<1>3. ASSUME NEW r \in Requests, NEW j \in Jobs, Import!BeginCancel(r, j) PROVE ImportSets'
  <2> DEFINE q == [kind |-> "cancel", job |-> j]
  <2>1. /\ UNCHANGED <<jobStatus, rows, protocol, stale>>
        /\ request[r] = None /\ request' = [request EXCEPT ![r] = q]
    BY <1>3 DEF Import!BeginCancel, Import!Active, Import!tables
  <2> HIDE DEF q
  <2> QED
    BY <2>1, ImportBegins DEF ImportSets
<1>4. ASSUME NEW r \in Requests, Import!Commit(r) PROVE ImportSets'
  <2> DEFINE j == request[r].job
  <2>1. /\ request[r] # None /\ request[r].kind = "commit"
        /\ jobStatus' = [jobStatus EXCEPT ![j] = "committed"]
        /\ protocol' = [protocol EXCEPT ![j] = request[r].decisions]
        /\ request' = [request EXCEPT ![r] = None]
        /\ r \notin stale' /\ stale' \subseteq stale \cup {t \in Requests : Import!Active(t)}
        /\ UNCHANGED rows
    BY <1>4 DEF Import!Commit, Import!Active, Import!Late
  <2>2. j \in Jobs /\ request[r].decisions \in Decisions(rows[j])
    BY <2>1 DEF ImportInv, OfPreview
  <2>3. Len(request[r].decisions) = Len(rows[j])
    BY <2>2, RowsOfCommit
  <2>4. \A k \in Jobs : /\ jobStatus'[k] = IF k = j THEN "committed" ELSE jobStatus[k]
                        /\ protocol'[k] = IF k = j THEN request[r].decisions ELSE protocol[k]
    BY <2>1, <2>2 DEF ImportInv, ImportTyped
  <2>5. stale' \subseteq {t \in Requests : request'[t] # None}
    BY <2>1, ImportEnds
  <2> HIDE DEF j
  <2>6. ASSUME NEW k \in Jobs
        PROVE  /\ jobStatus'[k] \in {"absent", "preview", "committed", "cancelled"}
               /\ Len(protocol'[k]) \in {0, Len(rows'[k])}
               /\ jobStatus'[k] = "absent" => Len(protocol'[k]) = 0
    BY <2>1, <2>3, <2>4 DEF ImportSets, j
  <2> QED
    BY <2>5, <2>6 DEF ImportSets
<1>5. ASSUME NEW r \in Requests, Import!Cancel(r) PROVE ImportSets'
  <2> DEFINE j == request[r].job
  <2>1. /\ request[r] # None
        /\ jobStatus' = [jobStatus EXCEPT ![j] = "cancelled"]
        /\ request' = [request EXCEPT ![r] = None]
        /\ r \notin stale' /\ stale' \subseteq stale \cup {t \in Requests : Import!Active(t)}
        /\ UNCHANGED <<rows, protocol>>
    BY <1>5 DEF Import!Cancel, Import!Active, Import!Late
  <2>2. j \in Jobs /\ jobStatus[j] # "absent"
    BY <2>1 DEF ImportInv, OfPreview
  <2>3. \A k \in Jobs : jobStatus'[k] = IF k = j THEN "cancelled" ELSE jobStatus[k]
    BY <2>1, <2>2 DEF ImportInv, ImportTyped
  <2>4. stale' \subseteq {t \in Requests : request'[t] # None}
    BY <2>1, ImportEnds
  <2> HIDE DEF j
  <2>5. ASSUME NEW k \in Jobs
        PROVE  /\ jobStatus'[k] \in {"absent", "preview", "committed", "cancelled"}
               /\ Len(protocol'[k]) \in {0, Len(rows'[k])}
               /\ jobStatus'[k] = "absent" => Len(protocol'[k]) = 0
    BY <2>1, <2>2, <2>3 DEF ImportSets
  <2> QED
    BY <2>4, <2>5 DEF ImportSets
<1>6. ASSUME NEW r \in Requests, Import!Fail(r) PROVE ImportSets'
  BY <1>6, ImportEnds DEF Import!Fail, Import!tables, ImportSets
<1>7. ASSUME NEW h \in ImportHosts, NEW n \in Names, Import!OrganizationAdded(h, n) PROVE ImportSets'
  BY <1>7 DEF Import!OrganizationAdded, ImportSets
<1>8. CASE UNCHANGED Import!vars
  BY <1>8 DEF Import!vars, Import!tables, ImportSets
<1> QED
  BY <1>1, <1>2, <1>3, <1>4, <1>5, <1>6, <1>7, <1>8 DEF Import!Next

LEMMA ImportIsTyped == ImportInv /\ ImportSets => Import!TypeOK
<1> SUFFICES ASSUME ImportInv, ImportSets PROVE Import!TypeOK
  OBVIOUS
<1>1. name \in [ImportHosts -> Names \cup {None}] /\ jobStatus = [j \in Jobs |-> jobStatus[j]]
  BY DEF ImportInv, ImportTyped
<1>2. jobStatus \in [Jobs -> {"absent", "preview", "committed", "cancelled"}]
  BY <1>1 DEF ImportSets
<1> QED
  BY <1>1, <1>2 DEF ImportSets, Import!TypeOK

LEMMA ImportSetsInitially == Import!Init => ImportSets
BY DEF Import!Init, ImportSets

LEMMA ImportTypes == Import!Spec => []Import!TypeOK
BY ImportInitially, ImportInductive, ImportSetsInitially, ImportSetsStay, ImportIsTyped, PTL
DEF Import!Spec

\* What a commit leaves of a host: an organization that has one keeps it, by the name of the
\* row that updates it if there is one; a host without one has the row that creates it, if
\* there is one.
LEMMA NamesOfCommit ==
  ASSUME ImportInv, NEW r \in Requests, Import!Commit(r), NEW h \in ImportHosts
  PROVE  LET s == rows[request[r].job]
             C == Import!Twin!RowsOf(request[r].decisions, "create")
             U == Import!Twin!RowsOf(request[r].decisions, "update")
             Updating == {i \in U : s[i].match = h}
         IN  /\ name[h] # None =>
                  /\ name'[h] = IF Updating = {} THEN name[h]
                                ELSE s[CHOOSE i \in Updating : TRUE].name
                  /\ name'[h] # None
             /\ name[h] = None =>
                  /\ \A i \in C : s[i].host = h => name'[h] = s[i].name /\ name'[h] # None
                  /\ (\A i \in C : s[i].host # h) => name'[h] = None
<1> DEFINE s == rows[request[r].job]
           C == Import!Twin!RowsOf(request[r].decisions, "create")
           U == Import!Twin!RowsOf(request[r].decisions, "update")
           Any(S) == CHOOSE i \in S : TRUE
           Creating == {i \in C : s[i].host = h}
           Updating == {i \in U : s[i].match = h}
           D == request[r].decisions
           RowOf == {i \in Import!Twin!RowsOf(D, "create") : rows[request[r].job][i].host = h}
                      \cup {i \in Import!Twin!RowsOf(D, "update") : rows[request[r].job][i].match = h}
           RowsOf(g) == {i \in Import!Twin!RowsOf(D, "create") : rows[request[r].job][i].host = g}
                          \cup {i \in Import!Twin!RowsOf(D, "update") : rows[request[r].job][i].match = g}
<1>1. /\ name'[h] = IF RowOf = {} THEN name[h] ELSE s[Any(RowOf)].name
      /\ \A i \in C : name[s[i].host] = None
  <2>1. name' = [g \in ImportHosts |-> IF RowsOf(g) = {} THEN name[g]
                                       ELSE rows[request[r].job][Any(RowsOf(g))].name]
    BY DEF Import!Commit
  <2>2. \A i \in C : name[s[i].host] = None
    BY DEF Import!Commit, Import!HostIsFree
  <2>3. RowsOf(h) = RowOf
    OBVIOUS
  <2> HIDE DEF RowsOf, RowOf, Any
  <2> QED
    BY <2>1, <2>2, <2>3
<1>2. RowOf = Creating \cup Updating
  OBVIOUS
<1>3. /\ D \in Decisions(s) /\ request[r].job \in Jobs
  BY DEF ImportInv, OfPreview, Import!Commit, Import!Active
<1>4. /\ \A i \in C : i \in 1 .. Len(s) /\ MayCreate(s[i])
      /\ \A i \in U : i \in 1 .. Len(s) /\ Changes(s[i])
      /\ Apart(s)
      /\ \A i \in 1 .. Len(s) : s[i] \in ImportedRow /\ Sound(s[i])
  BY <1>3, RowsOfCommit
<1> HIDE DEF RowOf, Any, s, C, U
<1>5. name'[h] = IF Creating \cup Updating = {} THEN name[h]
                 ELSE s[Any(Creating \cup Updating)].name
  BY <1>1, <1>2
<1>6. \A i \in Creating \cup Updating : s[i].name # None
  BY <1>4, ImportConstants DEF Sound
<1>7. \A S : S # {} => Any(S) \in S
  BY DEF Any
<1>8. name[h] # None =>
        /\ name'[h] = IF Updating = {} THEN name[h] ELSE s[Any(Updating)].name
        /\ name'[h] # None
  <2> SUFFICES ASSUME name[h] # None
               PROVE  /\ name'[h] = IF Updating = {} THEN name[h] ELSE s[Any(Updating)].name
                      /\ name'[h] # None
    OBVIOUS
  <2>1. Creating = {}
    BY <1>1
  <2>2. Creating \cup Updating = Updating
    BY <2>1
  <2>3. name'[h] = IF Updating = {} THEN name[h] ELSE s[Any(Updating)].name
    BY <1>5, <2>2
  <2>4. Updating # {} => s[Any(Updating)].name # None
    BY <1>6, <1>7
  <2> QED
    BY <2>3, <2>4
<1>9. name[h] = None =>
        /\ \A i \in C : s[i].host = h => name'[h] = s[i].name /\ name'[h] # None
        /\ (\A i \in C : s[i].host # h) => name'[h] = None
  <2> SUFFICES ASSUME name[h] = None
               PROVE  /\ \A i \in C : s[i].host = h => name'[h] = s[i].name /\ name'[h] # None
                      /\ (\A i \in C : s[i].host # h) => name'[h] = None
    OBVIOUS
  <2>1. Updating = {}
    BY <1>4 DEF Sound
  <2>2. name'[h] = IF Creating = {} THEN name[h] ELSE s[Any(Creating)].name
    <3>1. Creating \cup Updating = Creating
      BY <2>1
    <3> QED
      BY <1>5, <3>1
  <2>3. ASSUME NEW i \in C, s[i].host = h
        PROVE  name'[h] = s[i].name /\ name'[h] # None
    <3>1. i \in Creating /\ Any(Creating) \in Creating
      BY <1>7, <2>3
    <3>2. Any(Creating) = i
      BY <1>4, <3>1 DEF Apart
    <3> QED
      BY <1>6, <2>2, <3>1, <3>2
  <2>4. ASSUME \A i \in C : s[i].host # h
        PROVE  name'[h] = None
    <3>1. Creating = {}
      BY <2>4
    <3> QED
      BY <2>2, <3>1
  <2> QED
    BY <2>3, <2>4
<1> QED
  BY <1>8, <1>9 DEF Any, s, C, U

\* A commit over PostgreSQL is a commit in memory, of the conflicts that the user has chosen.
LEMMA CommitIsTwins ==
  ASSUME ImportInv, NEW r \in Requests, Import!Commit(r)
  PROVE  \E chosen \in SUBSET (1 .. Len(rows[request[r].job])) :
           Import!Twin!Commit(request[r].job, chosen)
<1> DEFINE j == request[r].job
           s == rows[j]
           D == request[r].decisions
           Any(S) == CHOOSE i \in S : TRUE
           Org(h, n) == [id |-> h, host |-> h, name |-> n]
           Updates(d, o) == {i \in Import!Twin!RowsOf(d, "update") : s[i].match = o.id}
           Updated(d, o) == IF Updates(d, o) = {} THEN o
                            ELSE [o EXCEPT !.name = s[Any(Updates(d, o))].name]
           Ends(d) ==
             LET created == Import!Twin!RowsOf(d, "create")
             IN  /\ jobStatus[j] = "preview"
                 /\ jobStatus' = [jobStatus EXCEPT ![j] = "committed"]
                 /\ protocol' = [protocol EXCEPT ![j] = d]
                 /\ \E id \in [created -> ImportHosts] :
                      /\ \A i \in created : \A k \in created \ {i} : id[i] # id[k]
                      /\ \A i \in created, o \in Import!Organizations : id[i] # o.id
                      /\ Import!Organizations' =
                           {Updated(d, o) : o \in Import!Organizations}
                           \cup {[id |-> id[i], host |-> s[i].host, name |-> s[i].name] : i \in created}
                 /\ UNCHANGED rows
<1>1. D \in Decisions(s) /\ j \in Jobs /\ jobStatus[j] = "preview"
  BY DEF ImportInv, OfPreview, Import!Commit, Import!Active
<1>2. PICK chosen \in SUBSET (1 .. Len(s)) : D = Import!Twin!Resolved(s, chosen)
  BY <1>1 DEF Decisions
<1>3. Ends(Import!Twin!Resolved(s, chosen)) => Import!Twin!Commit(j, chosen)
  BY DEF Import!Twin!Commit
<1>4. Ends(D)
  <2> DEFINE C == Import!Twin!RowsOf(D, "create")
             U == Import!Twin!RowsOf(D, "update")
             ids == [i \in C |-> s[i].host]
             Of(h) == {i \in U : s[i].match = h}
  <2>1. /\ \A i \in C : i \in 1 .. Len(s) /\ MayCreate(s[i])
        /\ \A i \in U : i \in 1 .. Len(s) /\ Changes(s[i])
        /\ Apart(s)
        /\ \A i \in 1 .. Len(s) : s[i] \in ImportedRow /\ Sound(s[i])
    BY <1>1, RowsOfCommit
  <2>2. \A i \in C : s[i].host \in ImportHosts /\ name[s[i].host] = None
    <3>1. \A i \in C : s[i].host \in ImportHosts
      BY <2>1 DEF Sound
    <3>2. \A i \in C : name[s[i].host] = None
      BY DEF Import!Commit, Import!HostIsFree
    <3> QED
      BY <3>1, <3>2
  <2>3. \A h \in ImportHosts :
          /\ name[h] # None =>
               /\ name'[h] = IF Of(h) = {} THEN name[h] ELSE s[Any(Of(h))].name
               /\ name'[h] # None
          /\ name[h] = None =>
               /\ \A i \in C : s[i].host = h => name'[h] = s[i].name /\ name'[h] # None
               /\ (\A i \in C : s[i].host # h) => name'[h] = None
    BY NamesOfCommit
  <2>4. Import!Organizations = {Org(h, name[h]) : h \in {x \in ImportHosts : name[x] # None}}
    BY DEF Import!Organizations
  <2>5. Import!Organizations' = {Org(h, name'[h]) : h \in {x \in ImportHosts : name'[x] # None}}
    BY DEF Import!Organizations
  <2>6. ids \in [C -> ImportHosts]
    BY <2>2
  <2>7. \A i \in C : \A k \in C \ {i} : ids[i] # ids[k]
    BY <2>1 DEF Apart
  <2>8. \A i \in C, o \in Import!Organizations : ids[i] # o.id
    BY <2>2, <2>4
  <2>9. \A h \in ImportHosts : name[h] # None => Updated(D, Org(h, name[h])) = Org(h, name'[h])
    <3> SUFFICES ASSUME NEW h \in ImportHosts, name[h] # None
                 PROVE  Updated(D, Org(h, name[h])) = Org(h, name'[h])
      OBVIOUS
    <3>1. Updates(D, Org(h, name[h])) = Of(h)
      OBVIOUS
    <3>2. name'[h] = IF Of(h) = {} THEN name[h] ELSE s[Any(Of(h))].name
      BY <2>3
    <3> HIDE DEF Any, Of, Updates
    <3>3. Updated(D, Org(h, name[h])) = IF Of(h) = {} THEN Org(h, name[h])
                                        ELSE [Org(h, name[h]) EXCEPT !.name = s[Any(Of(h))].name]
      BY <3>1
    <3>4. \A n : [Org(h, name[h]) EXCEPT !.name = n] = Org(h, n)
      OBVIOUS
    <3> QED
      BY <3>2, <3>3, <3>4
  <2> HIDE DEF Updated, Of, Any, C, U
  <2>10. Import!Organizations' =
           {Updated(D, o) : o \in Import!Organizations}
           \cup {[id |-> ids[i], host |-> s[i].host, name |-> s[i].name] : i \in C}
    <3>1. ASSUME NEW h \in ImportHosts, name'[h] # None
          PROVE  \/ \E o \in Import!Organizations : Org(h, name'[h]) = Updated(D, o)
                 \/ \E i \in C : Org(h, name'[h]) = [id |-> ids[i], host |-> s[i].host, name |-> s[i].name]
      <4>1. CASE name[h] # None
        <5>1. Org(h, name[h]) \in Import!Organizations
          BY <2>4, <4>1
        <5> QED
          BY <2>9, <4>1, <5>1
      <4>2. CASE name[h] = None
        <5>1. PICK i \in C : s[i].host = h
          BY <2>3, <3>1, <4>2
        <5>2. name'[h] = s[i].name
          BY <2>3, <4>2, <5>1
        <5> QED
          BY <5>1, <5>2
      <4> QED
        BY <4>1, <4>2
    <3>2. ASSUME NEW o \in Import!Organizations
          PROVE  Updated(D, o) \in Import!Organizations'
      <4>1. PICK h \in ImportHosts : name[h] # None /\ o = Org(h, name[h])
        BY <2>4
      <4>2. Updated(D, o) = Org(h, name'[h]) /\ name'[h] # None
        BY <2>3, <2>9, <4>1
      <4> QED
        BY <2>5, <4>2
    <3>3. ASSUME NEW i \in C
          PROVE  [id |-> ids[i], host |-> s[i].host, name |-> s[i].name] \in Import!Organizations'
      <4>1. /\ s[i].host \in ImportHosts /\ ids[i] = s[i].host
            /\ name'[s[i].host] = s[i].name /\ name'[s[i].host] # None
        BY <2>2, <2>3
      <4>2. [id |-> ids[i], host |-> s[i].host, name |-> s[i].name] = Org(s[i].host, name'[s[i].host])
        BY <4>1
      <4> QED
        BY <2>5, <4>1, <4>2
    <3> HIDE DEF Org
    <3>4. \A x \in Import!Organizations' :
            \E h \in ImportHosts : name'[h] # None /\ x = Org(h, name'[h])
      BY <2>5
    <3> QED
      BY <3>1, <3>2, <3>3, <3>4
  <2>11. /\ jobStatus' = [jobStatus EXCEPT ![j] = "committed"]
         /\ protocol' = [protocol EXCEPT ![j] = D]
         /\ rows' = rows
    BY DEF Import!Commit
  <2> HIDE DEF ids, D, s, j
  <2> QED
    BY <1>1, <2>6, <2>7, <2>8, <2>10, <2>11 DEF C
<1> HIDE DEF Ends, D, s, j
<1>5. Ends(Import!Twin!Resolved(s, chosen))
  BY <1>2, <1>4
<1>6. Import!Twin!Commit(j, chosen)
  BY <1>3, <1>5
<1> QED
  BY <1>2, <1>6 DEF s, j

\* Commits, cancellations and previews that overlap are those of the service in memory, one
\* after the other.
LEMMA ImportStepIsTwins ==
  ImportInv /\ [Import!Next]_(Import!vars) => [Import!Twin!Next]_(Import!Twin!vars)
<1> SUFFICES ASSUME ImportInv, [Import!Next]_(Import!vars) PROVE [Import!Twin!Next]_(Import!Twin!vars)
  OBVIOUS
<1>1. name' = name => Import!Organizations' = Import!Organizations
  BY DEF Import!Organizations
<1>2. ASSUME NEW j \in Jobs, NEW sheet \in Files, Import!Preview(j, sheet) PROVE Import!Twin!Next
  <2>1. Import!Twin!Preview(j, sheet)
    BY <1>1, <1>2 DEF Import!Preview, Import!Twin!Preview
  <2> QED
    BY <2>1 DEF Import!Twin!Next
<1>3. ASSUME NEW r \in Requests, Import!Commit(r) PROVE Import!Twin!Next
  <2>1. request[r].job \in Jobs
    BY <1>3 DEF ImportInv, OfPreview, Import!Commit, Import!Active
  <2> QED
    BY <1>3, <2>1, CommitIsTwins DEF Import!Twin!Next
<1>4. ASSUME NEW r \in Requests, Import!Cancel(r) PROVE Import!Twin!Next
  <2>1. request[r].job \in Jobs /\ jobStatus[request[r].job] = "preview"
    BY <1>4 DEF ImportInv, OfPreview, Import!Cancel, Import!Active
  <2>2. Import!Twin!Cancel(request[r].job)
    BY <1>1, <1>4, <2>1 DEF Import!Cancel, Import!Twin!Cancel
  <2> QED
    BY <2>1, <2>2 DEF Import!Twin!Next
<1>5. ASSUME NEW h \in ImportHosts, NEW n \in Names, Import!OrganizationAdded(h, n)
      PROVE  Import!Twin!Next
  <2> DEFINE Org(k, m) == [id |-> k, host |-> k, name |-> m]
  <2>1. /\ name[h] = None /\ name \in [ImportHosts -> Names \cup {None}] /\ n # None
        /\ name' = [name EXCEPT ![h] = n]
        /\ UNCHANGED <<jobStatus, rows, protocol>>
    BY <1>5, ImportConstants DEF Import!OrganizationAdded, ImportInv, ImportTyped
  <2>2. /\ Import!Organizations = {Org(k, name[k]) : k \in {x \in ImportHosts : name[x] # None}}
        /\ Import!Organizations' = {Org(k, name'[k]) : k \in {x \in ImportHosts : name'[x] # None}}
    BY DEF Import!Organizations
  <2>3. \A o \in Import!Organizations : o.id # h
    BY <2>1, <2>2
  <2>4. \A k \in ImportHosts : name'[k] = IF k = h THEN n ELSE name[k]
    BY <2>1
  <2> HIDE DEF Org
  <2>5. Import!Organizations' = Import!Organizations \cup {Org(h, n)}
    BY <2>1, <2>2, <2>4
  <2>6. Import!Twin!OrganizationAdded(h, h, n)
    BY <2>1, <2>3, <2>5 DEF Import!Twin!OrganizationAdded, Org
  <2> QED
    BY <2>6 DEF Import!Twin!Next
<1>6. ASSUME \/ UNCHANGED Import!vars
             \/ \E r \in Requests :
                  \/ \E j \in Jobs : \E chosen \in SUBSET (1 .. Len(rows[j])) : Import!BeginCommit(r, j, chosen)
                  \/ \E j \in Jobs : Import!BeginCancel(r, j)
                  \/ Import!Fail(r)
      PROVE  UNCHANGED Import!Twin!vars
  <2>1. UNCHANGED <<name, jobStatus, rows, protocol>>
    BY <1>6 DEF Import!vars, Import!tables, Import!BeginCommit, Import!BeginCancel, Import!Fail
  <2> QED
    BY <1>1, <2>1 DEF Import!Twin!vars
<1> QED
  BY <1>2, <1>3, <1>4, <1>5, <1>6 DEF Import!Next

-------------------------------------------------------------------------------
(* As in memory *)

\* Whatever overtakes an import, its requests are about rows that may still be applied
\* (OrganizationImport).
THEOREM ImportsStaySound == Import!Spec => []ImportInv
BY ImportInitially, ImportInductive, PTL DEF Import!Spec

\* Overlapping commits, cancellations and previews of imports over PostgreSQL do what the
\* service in memory does, one after the other (ImplementsTwin of OrganizationImport).
THEOREM ImportImplementsTwin == Import!Spec => Import!ImplementsTwin
<1>1. Import!Init => Import!Twin!Init
  BY DEF Import!Init, Import!Twin!Init, Import!Organizations
<1> QED
  BY <1>1, ImportStepIsTwins, ImportsStaySound, PTL
     DEF Import!Spec, Import!ImplementsTwin, Import!Twin!Spec

\* Overlapping generations of a weekly report make one snapshot of each command and number those
\* of a week 1, 2, ..., as the service in memory does (ImplementsTwin of WeeklyReport).
THEOREM WeeklyImplementsTwin == Weekly!Spec => Weekly!ImplementsTwin
<1>1. Weekly!Init => Weekly!Twin!Init
  BY DEF Weekly!Init, Weekly!Twin!Init
<1> QED
  BY <1>1, WeeklyInitially, WeeklyInductive, WeeklyStepIsTwins, PTL
     DEF Weekly!Spec, Weekly!ImplementsTwin, Weekly!Twin!Spec
===============================================================================
