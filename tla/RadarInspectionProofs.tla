------------------------ MODULE RadarInspectionProofs ------------------------
(***************************************************************************)
(* What holds of the inspections of a candidate for any number of          *)
(* processes, schedulers and moments.                                      *)
(*                                                                         *)
(* A row of radar_evidence exists only under a completed record            *)
(* (RowsAreDone), and a process adds one only while the record is its own: *)
(* that is why there is never a second one, whoever dies, repeats or       *)
(* forgets an answer.                                                      *)
(***************************************************************************)
EXTENDS RadarInspection, TLAPS

USE MomentsAssumption, NamesAssumption
    DEF MomentsAssumption, NamesAssumption, row, table, job

\* Evidence of a key is there once, and its record is completed, or not at all.
RowsAreDone == \A k \in Moments : rows[k] = 0 \/ (rows[k] = 1 /\ record[k] = "done")

IInv == TypeOK /\ RowsAreDone

States == Processes \cup {"free", "orphan", "done"}

\* Forgetting the keys that nobody refers to keeps the tables well-formed.
LEMMA TableKept ==
  ASSUME NEW records \in [Moments -> States], NEW counts \in [Moments -> 0 .. 2],
         Table(records, counts),
         \A k \in Moments : counts[k] = 0 \/ (counts[k] = 1 /\ records[k] = "done")
  PROVE  /\ record' \in [Moments -> States] /\ rows' \in [Moments -> 0 .. 2]
         /\ RowsAreDone'
<1> DEFINE live == Live'
<1>1. /\ record' = [k \in Moments |-> IF k \in live THEN records[k] ELSE "free"]
      /\ rows' = [k \in Moments |-> IF k \in live THEN counts[k] ELSE 0]
  BY DEF Table
<1> HIDE DEF live
<1>2. QED
  BY <1>1 DEF RowsAreDone, States

\* What a process leaves behind when it goes on or stops.
LEMMA JobKept ==
  ASSUME TypeOK, NEW p \in Processes,
         \/ Leave(p)
         \/ \E k \in Moments : \E step \in {"listed", "inspecting", "releasing"} :
              /\ pc' = [pc EXCEPT ![p] = step]
              /\ key' = [key EXCEPT ![p] = k]
  PROVE  /\ pc' \in [Processes -> {"idle", "listed", "inspecting", "releasing"}]
         /\ key' \in [Processes -> Moments \cup {None}]
         /\ \A q \in Processes : pc'[q] # "idle" => key'[q] # None
  BY DEF TypeOK, Leave

\* Creating, requesting and deciding.
LEMMA UsersKeep == ASSUME IInv, User \/ Source PROVE IInv'
<1> USE DEF IInv, TypeOK, Final, States
<1>1. RowsAreDone
  OBVIOUS
<1>2. ASSUME UNCHANGED <<table, slot, old, job>>, status' \in {status, "new"},
             requested' = requested, deferOver' = deferOver, evidence' = evidence,
             sourcing' \in BOOLEAN
      PROVE  IInv'
  BY <1>1, <1>2 DEF RowsAreDone
<1>3. ASSUME Create \/ SourceCreate \/ SourceFails PROVE IInv'
  BY <1>2, <1>3 DEF Create, SourceCreate, SourceFails
<1>4. ASSUME NEW m \in Moments, SetRequested(m), sourcing' \in BOOLEAN PROVE IInv'
  <2>1. record' \in [Moments -> States] /\ rows' \in [Moments -> 0 .. 2] /\ RowsAreDone'
    BY <1>1, <1>4, TableKept DEF SetRequested, RowsAreDone
  <2>2. QED
    BY <1>4, <2>1 DEF SetRequested
<1>5. ASSUME NEW decision \in Final \cup {"deferred"}, Decide(decision) PROVE IInv'
  <2>1. record' \in [Moments -> States] /\ rows' \in [Moments -> 0 .. 2] /\ RowsAreDone'
    BY <1>1, <1>5, TableKept DEF Decide, RowsAreDone
  <2>2. QED
    BY <1>5, <2>1 DEF Decide
<1>6. QED
  BY <1>3, <1>4, <1>5 DEF User, Source, RequestInspection, SourceRequest

\* Taking a request, reserving its key, giving it up.
LEMMA ProcessesKeep ==
  ASSUME IInv, NEW p \in Processes,
         TakeRequested(p) \/ TakeDue(p) \/ Inspect(p) \/ Abandon(p)
  PROVE  IInv'
<1> USE DEF IInv, TypeOK, States
<1>1. ASSUME NEW k \in Moments, Take(p, k) PROVE IInv'
  BY <1>1, JobKept DEF Take, RowsAreDone
<1>2. CASE TakeRequested(p) \/ TakeDue(p)
  BY <1>1, <1>2 DEF TakeRequested, TakeDue
<1>3. CASE Reserve(p)
  <2>1. key[p] \in Moments /\ record[key[p]] = "free"
    BY <1>3 DEF Reserve
  <2>2. rows[key[p]] = 0
    BY <2>1 DEF RowsAreDone
  <2>3. record' \in [Moments -> States] /\ RowsAreDone'
    BY <1>3, <2>1, <2>2 DEF Reserve, RowsAreDone
  <2>4. pc' \in [Processes -> {"idle", "listed", "inspecting", "releasing"}]
        /\ \A q \in Processes : pc'[q] # "idle" => key'[q] # None
    BY <1>3, <2>1 DEF Reserve
  <2>5. QED
    BY <1>3, <2>3, <2>4 DEF Reserve
<1>4. ASSUME Leave(p), UNCHANGED <<row, slot, old, sourcing>>,
             NEW records \in [Moments -> States], Table(records, rows),
             \A k \in Moments : rows[k] = 0 \/ records[k] = "done"
      PROVE  IInv'
  <2>1. \A k \in Moments : rows[k] = 0 \/ (rows[k] = 1 /\ records[k] = "done")
    BY <1>4 DEF RowsAreDone
  <2>2. record' \in [Moments -> States] /\ rows' \in [Moments -> 0 .. 2] /\ RowsAreDone'
    BY <1>4, <2>1, TableKept
  <2>3. QED
    BY <1>4, <2>2, JobKept
<1>5. CASE Skip(p)
  BY <1>4, <1>5 DEF Skip, RowsAreDone
<1>6. CASE Release(p)
  <2>1. key[p] \in Moments
    BY <1>6 DEF Release
  <2>2. [record EXCEPT ![key[p]] = Released(p)] \in [Moments -> States]
    BY <2>1 DEF Released
  <2>3. \A k \in Moments : rows[k] = 0 \/ [record EXCEPT ![key[p]] = Released(p)][k] = "done"
    BY <2>1 DEF Released, RowsAreDone
  <2>4. QED
    BY <1>4, <1>6, <2>2, <2>3 DEF Release
<1>7. CASE Abandon(p)
  <2>1. key[p] \in Moments /\ record[key[p]] = p
    BY <1>7 DEF Abandon
  <2>2. \A k \in Moments : rows[k] = 0 \/ [record EXCEPT ![key[p]] = "orphan"][k] = "done"
    BY <2>1 DEF RowsAreDone
  <2>3. QED
    BY <1>4, <1>7, <2>2 DEF Abandon
<1>8. QED
  BY <1>2, <1>3, <1>5, <1>6, <1>7 DEF Inspect

\* Evidence is written by the process that has the key, so it is the first of that key.
LEMMA ApplyKeeps ==
  ASSUME IInv, NEW p \in Processes, NEW answer \in {"idle", "releasing"}, Apply(p, answer)
  PROVE  IInv'
<1> USE DEF IInv, TypeOK, States
<1>1. key[p] \in Moments /\ record[key[p]] = p
  BY DEF Apply
<1>2. rows[key[p]] = 0
  BY <1>1 DEF RowsAreDone
<1> DEFINE records == [record EXCEPT ![key[p]] = "done"]
           counts == [rows EXCEPT ![key[p]] = IF @ < 2 THEN @ + 1 ELSE @]
<1>3. records \in [Moments -> States] /\ counts \in [Moments -> 0 .. 2]
  BY <1>1, <1>2
<1>4. \A k \in Moments : counts[k] = 0 \/ (counts[k] = 1 /\ records[k] = "done")
  BY <1>1, <1>2 DEF RowsAreDone
<1>5. Table(records, counts)
  BY DEF Apply
<1> HIDE DEF records, counts
<1>6. record' \in [Moments -> States] /\ rows' \in [Moments -> 0 .. 2] /\ RowsAreDone'
  BY <1>3, <1>4, <1>5, TableKept
<1>7. Leave(p) \/ (pc' = [pc EXCEPT ![p] = "releasing"] /\ key' = key)
  BY DEF Apply
<1>8. /\ pc' \in [Processes -> {"idle", "listed", "inspecting", "releasing"}]
      /\ key' \in [Processes -> Moments \cup {None}]
      /\ \A q \in Processes : pc'[q] # "idle" => key'[q] # None
  BY <1>1, <1>7, JobKept
<1>9. QED
  BY <1>6, <1>8 DEF Apply

\* Time and the cleaning of records.
LEMMA TimeKeeps ==
  ASSUME IInv,
         \/ DeferEnds
         \/ \E m \in Moments : NextSlot(m)
         \/ \E k \in Moments : RecordExpires(k)
  PROVE  IInv'
<1> USE DEF IInv, TypeOK, States
<1>1. CASE DeferEnds
  BY <1>1 DEF DeferEnds, RowsAreDone
<1>2. ASSUME NEW m \in Moments, NextSlot(m) PROVE IInv'
  <2>1. record' \in [Moments -> States] /\ rows' \in [Moments -> 0 .. 2] /\ RowsAreDone'
    BY <1>2, TableKept DEF NextSlot, RowsAreDone
  <2>2. QED
    BY <1>2, <2>1 DEF NextSlot
<1>3. ASSUME NEW k \in Moments, RecordExpires(k) PROVE IInv'
  BY <1>3 DEF RecordExpires, RowsAreDone
<1>4. QED
  BY <1>1, <1>2, <1>3

LEMMA Initially == Init => IInv
<1> SUFFICES ASSUME Init PROVE IInv
  OBVIOUS
<1>1. slot \in Moments /\ RowsAreDone
  BY DEF Init, RowsAreDone
<1>2. /\ record \in [Moments -> States] /\ rows \in [Moments -> 0 .. 2]
      /\ pc \in [Processes -> {"idle", "listed", "inspecting", "releasing"}]
      /\ key \in [Processes -> Moments \cup {None}]
      /\ \A p \in Processes : pc[p] = "idle"
  BY DEF Init, States
<1>3. QED
  BY <1>1, <1>2 DEF Init, IInv, TypeOK, States

LEMMA Inductive == IInv /\ [Next]_vars => IInv'
<1>1. IInv /\ UNCHANGED vars => IInv'
  BY DEF vars, IInv, TypeOK, RowsAreDone
<1>2. QED
  BY <1>1, UsersKeep, ProcessesKeep, ApplyKeeps, TimeKeeps DEF Next, Inspected

\* The inductive invariant holds in every reachable state.
THEOREM Invariance == Spec => []IInv
  BY Initially, Inductive, PTL DEF Spec

\* Every column and every job has its type in every reachable state.
THEOREM TypeCorrect == Spec => []TypeOK
  BY Invariance, PTL DEF IInv

\* While the record of a key lives, the key has one row of evidence at most, for any
\* number of processes that list its request, die in it or lose its answer.
THEOREM EvidenceIsWrittenOnce == Spec => []OneEvidencePerKey
<1>1. IInv => OneEvidencePerKey
  BY DEF IInv, RowsAreDone, OneEvidencePerKey
<1>2. QED
  BY <1>1, Invariance, PTL
-------------------------------------------------------------------------------
(* The service in memory *)

\* Every step is one of the service in memory, or none.
LEMMA StepIsTwins == ASSUME IInv, [Next]_vars PROVE [Twin!Next]_(Twin!vars)
<1> DEFINE Simulates == [Twin!Next]_(Twin!vars)
<1>1. ASSUME UNCHANGED <<status, requested, evidence>> PROVE Simulates
  BY <1>1 DEF Twin!vars
<1>2. ASSUME Create \/ SourceCreate PROVE Simulates
  BY <1>2 DEF Create, SourceCreate, Twin!Create, Twin!Next
<1>3. ASSUME NEW m \in Moments, SetRequested(m) PROVE Simulates
  BY <1>3 DEF SetRequested, Mutable, Final, Twin!RequestInspection, Twin!Mutable, Twin!Final,
              Twin!Next
<1>4. ASSUME NEW decision \in Final \cup {"deferred"}, Decide(decision) PROVE Simulates
  <2>1. Twin!Decide(decision)
    BY <1>4 DEF Decide, Mutable, Final, Twin!Decide, Twin!Mutable, Twin!Final
  <2>2. QED
    BY <2>1 DEF Twin!Next, Twin!Final, Final
<1>5. ASSUME NEW p \in Processes, NEW answer \in {"idle", "releasing"}, Apply(p, answer)
      PROVE  Simulates
  BY <1>5 DEF Apply, StillMutable, Mutable, Final, Twin!ApplyInspection, Twin!Mutable,
              Twin!Final, Twin!Next
<1>6. ASSUME NEW p \in Processes,
             TakeRequested(p) \/ TakeDue(p) \/ Inspect(p) \/ Abandon(p)
      PROVE  Simulates
  BY <1>1, <1>6 DEF TakeRequested, TakeDue, Take, Inspect, Reserve, Skip, Release, Abandon
<1>7. ASSUME \/ SourceFails \/ DeferEnds
             \/ \E m \in Moments : NextSlot(m)
             \/ \E k \in Moments : RecordExpires(k)
      PROVE  Simulates
  BY <1>1, <1>7 DEF SourceFails, DeferEnds, NextSlot, RecordExpires
<1>8. ASSUME UNCHANGED vars PROVE Simulates
  BY <1>1, <1>8 DEF vars
<1> HIDE DEF Simulates
<1>9. Simulates
  BY <1>2, <1>3, <1>4, <1>5, <1>6, <1>7, <1>8
     DEF Next, User, Source, RequestInspection, SourceRequest, Inspected
<1>10. QED
  BY <1>9 DEF Simulates

\* Any number of processes that share the queue: users see the service in memory, so no
\* inspection under way changes what was decided.
THEOREM ImplementsService == Spec => ImplementsTwin
<1>1. Init => Twin!Init
  BY DEF Init, Twin!Init
<1>2. IInv /\ [Next]_vars => [Twin!Next]_(Twin!vars)
  BY StepIsTwins
<1> HIDE DEF IInv
<1>3. QED
  BY <1>1, <1>2, Invariance, PTL DEF Spec, ImplementsTwin, Twin!Spec
===============================================================================
