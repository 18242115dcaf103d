--------------------------- MODULE PlacementProofs ---------------------------
(***************************************************************************)
(* What holds of a placement for any number of workers and moments.        *)
(*                                                                         *)
(* The inductive invariant IInv follows one check through its three        *)
(* transactions and the acknowledgement: who holds a reservation is still  *)
(* at work on it (ReservationsHeld), a key has a check once its record is  *)
(* completed (DoneIsChecked), a job that returned from runL0Check has such *)
(* a key (CheckedIsDone), the owner of the lease works on the row's own    *)
(* key (LeaseHasKey).  FreshReads is what a SERIALIZABLE snapshot gives    *)
(* to the transaction that applies a result.                               *)
(***************************************************************************)
EXTENDS PlacementMonitor, TLAPS

USE MomentsAssumption, NamesAssumption, MaxAttemptsAssumption
    DEF MomentsAssumption, NamesAssumption, MaxAttemptsAssumption,
        row, lease, table, job

\* A reservation is that of a worker between its first and its second transaction.
ReservationsHeld ==
  \A k \in Moments, w \in Workers :
    record[k] = w => key[w] = k /\ pc[w] \in {"checking", "applying"}

\* health_check has a row of a key exactly while its idempotency record is completed.
DoneIsChecked == \A k \in Moments : checks[k] = IF record[k] = "done" THEN 1 ELSE 0

\* Whoever is about to acknowledge a check has a completed record to show for it.
CheckedIsDone == \A w \in Workers : pc[w] = "checked" => record[key[w]] = "done"

\* The owner of the lease works on the key of the row.
LeaseHasKey == \A w \in Workers : lockedBy = w /\ pc[w] # "idle" => key[w] = jobKey

\* A transaction whose snapshot has the current row decides on the current facts.
FreshReads == \A w \in fresh : seen[w] = fails /\ status = "active"

\* The counter in the row is the one of the results in health_check.
FailsIsStreak == fails = streak

IInv ==
  /\ TypeOK
  /\ ReservationsHeld /\ DoneIsChecked /\ CheckedIsDone
  /\ LeaseHasKey /\ FreshReads /\ FailsIsStreak
  /\ InactiveIsQuiet
-------------------------------------------------------------------------------

\* Rows of a key are kept as given while something refers to it, and forgotten else.
LEMMA TableEffect ==
  ASSUME NEW records, NEW rows, Table(records, rows)
  PROVE  /\ DOMAIN record' = Moments /\ DOMAIN checks' = Moments
         /\ record' = [k \in Moments |-> record'[k]] /\ checks' = [k \in Moments |-> checks'[k]]
         /\ \A k \in Moments : \/ record'[k] = records[k] /\ checks'[k] = rows[k]
                               \/ record'[k] = "free" /\ checks'[k] = 0
         /\ \A k \in Moments \cap Live' : record'[k] = records[k]
  BY DEF Table

\* A key that a column has is one something refers to, as is that of a job.
LEMMA InUse == {nextCheck', jobKey'} \subseteq Live' /\ \A w \in Workers : key'[w] \in Live'
  BY DEF Live

\* The columns of the placement keep their types.
LEMMA RowTyped ==
  ASSUME TypeOK, Next
  PROVE  RowTypeOK'
<1> USE DEF TypeOK, RowTypeOK
<1>1. ASSUME NEW w \in Workers, ClaimBatch(w) PROVE RowTypeOK'
  BY <1>1 DEF ClaimBatch, Claimable, JobKey, AtMost
<1>2. ASSUME NEW w \in Workers, Reserve(w) \/ Replay(w) \/ Refused(w) \/ BeginApply(w)
      PROVE  RowTypeOK'
  BY <1>2 DEF Reserve, Replay, Refused, BeginApply
<1>3. ASSUME NEW n \in 0 .. 2, NEW result, NEW m \in Moments, Checked(n, result, m)
      PROVE  RowTypeOK'
  BY <1>3 DEF Checked, AlertAfter
<1>4. ASSUME NEW w \in Workers, NEW result, NEW m \in Moments, NEW answer,
             Apply(w, result, m, answer)
      PROVE  RowTypeOK'
  <2>1. Failures(seen[w], result) \in 0 .. 2
    BY DEF JobTypeOK, Failures, AtMost
  <2>2. QED
    BY <1>3, <1>4, <2>1 DEF Apply
<1>5. ASSUME NEW result, NEW m \in Moments, ManualCheck(result, m) PROVE RowTypeOK'
  <2>1. Failures(fails, result) \in 0 .. 2
    BY DEF Failures, AtMost
  <2>2. QED
    BY <1>3, <1>5, <2>1 DEF ManualCheck
<1>6. ASSUME NEW w \in Workers, NEW state, Release(w, state) PROVE RowTypeOK'
  BY <1>6 DEF Release
<1>7. ASSUME NEW w \in Workers, MarkCompleted(w) \/ DeadLetter(w) PROVE RowTypeOK'
  <2>1. CASE MarkCompleted(w)
    BY <2>1 DEF MarkCompleted
  <2>2. CASE DeadLetter(w)
    BY <2>2 DEF DeadLetter, Unplan
  <2>3. QED
    BY <1>7, <2>1, <2>2
<1>8. ASSUME NEW w \in Workers, NEW m \in Moments, MarkFailed(w, m) PROVE RowTypeOK'
  BY <1>8 DEF MarkFailed
<1>9. ASSUME NEW w \in Workers, LeaseLost(w) \/ Crash(w) PROVE RowTypeOK'
  BY <1>9 DEF LeaseLost, Crash
<1>10. ASSUME NEW s \in Statuses, NEW newPage \in BOOLEAN, Update(s, newPage) PROVE RowTypeOK'
  <2>1. nextCheck' \in Moments \cup {Null} /\ due' \in BOOLEAN
    BY <1>10 DEF Update, Replan, Unplan
  <2>2. attempts' \in 0 .. MaxAttempts /\ alert' \in BOOLEAN
    BY <1>10 DEF Update, ResetMonitor
  <2>3. QED
    BY <1>10, <2>1, <2>2 DEF Update, ResetMonitor
<1>11. ASSUME Archive PROVE RowTypeOK'
  <2>1. attempts' \in 0 .. MaxAttempts
    BY <1>11 DEF Archive, ResetMonitor
  <2>2. QED
    BY <1>11, <2>1 DEF Archive, Unplan, ResetMonitor, Statuses
<1>12. ASSUME FallsDue \/ \E k \in Moments : RecordExpires(k) PROVE RowTypeOK'
  BY <1>12 DEF FallsDue, RecordExpires
<1>13. QED
  BY <1>1, <1>2, <1>4, <1>5, <1>6, <1>7, <1>8, <1>9, <1>10, <1>11, <1>12
     DEF Next, RunBatch, RunL0Check, Acknowledge, Lifecycle

\* What the steps of a job write into it.
LEMMA JobsTyped ==
  ASSUME TypeOK, Next
  PROVE  JobTypeOK'
<1> USE DEF TypeOK, JobTypeOK
<1>1. ASSUME NEW w \in Workers, ClaimBatch(w) PROVE JobTypeOK'
  <2>1. JobKey \in Moments
    BY <1>1 DEF ClaimBatch, Claimable, JobKey, RowTypeOK
  <2>2. QED
    BY <1>1, <2>1 DEF ClaimBatch
<1>2. ASSUME NEW w \in Workers, Reserve(w) \/ Replay(w) \/ Refused(w) PROVE JobTypeOK'
  BY <1>2 DEF Reserve, Replay, Refused, Goto
<1>3. ASSUME NEW w \in Workers, BeginApply(w) PROVE JobTypeOK'
  BY <1>3 DEF BeginApply, Goto, RowTypeOK
<1>4. ASSUME NEW w \in Workers, NEW result, NEW m, NEW answer \in {"checked", "releasing"},
             Apply(w, result, m, answer)
      PROVE  JobTypeOK'
  BY <1>4 DEF Apply, Serializable, Checked, Unread, Goto
<1>5. ASSUME NEW result, NEW m, ManualCheck(result, m) PROVE JobTypeOK'
  BY <1>5 DEF ManualCheck, Checked
<1>6. ASSUME NEW w \in Workers, NEW state, Release(w, state) PROVE JobTypeOK'
  BY <1>6 DEF Release, Unread, Goto
<1>7. ASSUME NEW w \in Workers, MarkCompleted(w) \/ DeadLetter(w) \/ (\E m \in Moments : MarkFailed(w, m))
      PROVE  JobTypeOK'
  BY <1>7 DEF MarkCompleted, DeadLetter, MarkFailed, Leave
<1>8. ASSUME NEW w \in Workers, LeaseLost(w) PROVE JobTypeOK'
  BY <1>8 DEF LeaseLost, Leave
<1>9. ASSUME NEW w \in Workers, Crash(w) PROVE JobTypeOK'
  BY <1>9 DEF Crash, Leave, Unread
<1>10. ASSUME Lifecycle PROVE JobTypeOK'
  BY <1>10 DEF Lifecycle, Update, Archive, ResetMonitor
<1>11. ASSUME FallsDue \/ \E k \in Moments : RecordExpires(k) PROVE JobTypeOK'
  BY <1>11 DEF FallsDue, RecordExpires
<1> HIDE DEF TypeOK, JobTypeOK
<1>12. ASSUME NEW w \in Workers, RunL0Check(w) PROVE JobTypeOK'
  BY <1>2, <1>3, <1>4, <1>6, <1>12 DEF RunL0Check
<1>13. ASSUME NEW w \in Workers, Acknowledge(w) PROVE JobTypeOK'
  BY <1>7, <1>13 DEF Acknowledge
<1>14. QED
  BY <1>1, <1>5, <1>8, <1>9, <1>10, <1>11, <1>12, <1>13 DEF Next, RunBatch
\* Reservations, completed records and checks stay in step.
LEMMA TableKept ==
  ASSUME TypeOK, ReservationsHeld, DoneIsChecked, CheckedIsDone, Next
  PROVE  (TableTypeOK /\ ReservationsHeld /\ DoneIsChecked /\ CheckedIsDone)'
<1> DEFINE Kept == TableTypeOK /\ ReservationsHeld /\ DoneIsChecked /\ CheckedIsDone
<1> USE DEF TypeOK, TableTypeOK, JobTypeOK, ReservationsHeld, DoneIsChecked, CheckedIsDone
<1>1. ASSUME NEW w \in Workers, ClaimBatch(w) PROVE Kept'
  BY <1>1 DEF ClaimBatch
<1>2. ASSUME NEW w \in Workers, Reserve(w) PROVE Kept'
  BY <1>2 DEF Reserve, Goto
\* Steps of a job that leave the tables alone.
<1>3. ASSUME NEW w \in Workers, NEW label, Goto(w, label), UNCHANGED <<table, key>>,
             pc[w] \in {"checking", "applying"} => label \in {"checking", "applying"},
             label = "checked" => record[key[w]] = "done"
      PROVE  Kept'
  <2>1. TableTypeOK' /\ DoneIsChecked'
    BY <1>3
  <2>2. \A v \in Workers : pc'[v] = IF v = w THEN label ELSE pc[v]
    BY <1>3 DEF Goto
  <2>3. QED
    BY <1>3, <2>1, <2>2
<1>4. ASSUME NEW w \in Workers, Replay(w) \/ Refused(w) \/ BeginApply(w) PROVE Kept'
  BY <1>3, <1>4 DEF Replay, Refused, BeginApply
<1>5. ASSUME NEW w \in Workers, NEW result, NEW m, NEW answer \in {"checked", "releasing"},
             Apply(w, result, m, answer)
      PROVE  Kept'
  <2>1. /\ pc[w] = "applying" /\ record[key[w]] = w
        /\ key' = key /\ pc' = [pc EXCEPT ![w] = answer]
        /\ streak' = Failures(streak, result)
        /\ Table([record EXCEPT ![key[w]] = "done"], [checks EXCEPT ![key[w]] = AtMost(@ + 1, 2)])
    BY <1>5 DEF Apply, Serializable, Checked, Goto
  <2>2. key[w] \in Moments /\ checks[key[w]] = 0 /\ AtMost(0 + 1, 2) = 1
    <3>1. pc[w] # "idle" /\ w \in Workers
      BY <2>1
    <3>2. key[w] \in Moments
      BY <3>1
    <3>3. checks[key[w]] = 0
      BY <2>1, <3>2
    <3>4. AtMost(0 + 1, 2) = 1
      BY DEF AtMost
    <3>5. QED
      BY <3>2, <3>3, <3>4
  <2>3. streak' \in 0 .. 2
    BY <2>1 DEF Failures, AtMost
  <2> DEFINE records == [record EXCEPT ![key[w]] = "done"]
             rows == [checks EXCEPT ![key[w]] = AtMost(@ + 1, 2)]
  <2>4. /\ Table(records, rows)
        /\ \A k \in Moments : /\ records[k] = IF k = key[w] THEN "done" ELSE record[k]
                             /\ rows[k] = IF k = key[w] THEN 1 ELSE checks[k]
    BY <2>1, <2>2
  <2> HIDE DEF records, rows
  <2>5. \A v \in Workers : key'[v] \in Moments =>
          record'[key[v]] = IF key[v] = key[w] THEN "done" ELSE record[key[v]]
    BY <2>1, <2>2, <2>4, TableEffect, InUse
  <2>6. TableTypeOK'
    BY <2>1, <2>3, <2>4, TableEffect
  <2>7. DoneIsChecked'
    BY <2>2, <2>4, TableEffect
  <2>8. ReservationsHeld' /\ CheckedIsDone'
    BY <2>1, <2>2, <2>4, <2>5, TableEffect
  <2>9. QED
    BY <2>6, <2>7, <2>8
\* The steps that only forget.
<1>6. ASSUME Table(record, checks), streak' \in 0 .. 2,
             \A v \in Workers : /\ pc'[v] \in {pc[v], "idle"}
                                /\ key'[v] = IF pc'[v] = pc[v] THEN key[v] ELSE Null
                                /\ pc'[v] = "idle" => pc[v] \notin {"checking", "applying"}
      PROVE  Kept'
  <2>1. \A k \in Moments : \/ record'[k] = record[k] /\ checks'[k] = checks[k]
                           \/ record'[k] = "free" /\ checks'[k] = 0
    BY <1>6, TableEffect
  <2>2. TableTypeOK' /\ DoneIsChecked' /\ ReservationsHeld'
    BY <1>6, <2>1, TableEffect
  <2>3. ASSUME NEW v \in Workers, pc'[v] = "checked" PROVE record'[key'[v]] = "done"
    <3>1. pc[v] = "checked" /\ key'[v] = key[v]
      BY <1>6, <2>3
    <3>2. key[v] \in Moments \cap Live'
      BY <3>1, InUse
    <3>3. QED
      BY <1>6, <3>1, <3>2, TableEffect
  <2>4. QED
    BY <2>2, <2>3
<1>7. ASSUME NEW result, NEW m, ManualCheck(result, m) PROVE Kept'
  <2>1. streak' \in 0 .. 2 /\ key' = key /\ pc' = pc
    BY <1>7 DEF ManualCheck, Checked, Failures, AtMost
  <2>2. QED
    BY <1>6, <1>7, <2>1 DEF ManualCheck
<1>8. ASSUME NEW w \in Workers, NEW state \in {"free", "orphan"}, Release(w, state) PROVE Kept'
  <2>1. /\ UNCHANGED <<checks, streak, key>>
        /\ pc[w] \in {"checking", "applying", "releasing"}
        /\ \A v \in Workers : pc'[v] = IF v = w THEN "errored" ELSE pc[v]
    BY <1>8 DEF Release, Goto
  <2>2. key[w] \in Moments
    BY <2>1
  <2>3. \A k \in Moments : record'[k] = IF k = key[w] /\ record[k] = w THEN state ELSE record[k]
    BY <1>8, <2>2 DEF Release, Released
  <2>4. TableTypeOK'
    <3>1. Released(w, state) \in Workers \cup {"free", "orphan", "done"}
      <4>1. \A k \in Moments : record[k] \in Workers \cup {"free", "orphan", "done"}
        OBVIOUS
      <4>2. QED
        BY <2>2, <4>1 DEF Released
    <3>2. record' \in [Moments -> Workers \cup {"free", "orphan", "done"}]
      BY <1>8, <3>1 DEF Release
    <3>3. QED
      BY <2>1, <3>2
  <2>5. DoneIsChecked' /\ ReservationsHeld'
    BY <2>1, <2>3
  <2>6. ASSUME NEW v \in Workers, pc'[v] = "checked" PROVE record'[key'[v]] = "done"
    <3>1. pc[v] = "checked" /\ key'[v] = key[v] /\ key[v] \in Moments
      BY <2>1, <2>6
    <3>2. record[key[v]] = "done" /\ w # "done"
      BY <3>1
    <3>3. QED
      BY <2>3, <3>1, <3>2
  <2>7. QED
    BY <2>4, <2>5, <2>6
<1>9. ASSUME NEW w \in Workers,
             MarkCompleted(w) \/ (\E m \in Moments : MarkFailed(w, m)) \/ DeadLetter(w) \/ LeaseLost(w)
      PROVE  Kept'
  <2>1. /\ Table(record, checks) /\ streak' = streak
        /\ Leave(w) /\ pc[w] \in {"checked", "errored"}
    BY <1>9 DEF MarkCompleted, MarkFailed, DeadLetter, LeaseLost
  <2>2. QED
    BY <1>6, <2>1 DEF Leave
<1>10. ASSUME NEW w \in Workers, Crash(w) PROVE Kept'
  <2>1. /\ streak' = streak
        /\ pc' = [pc EXCEPT ![w] = "idle"] /\ key' = [key EXCEPT ![w] = Null]
    BY <1>10 DEF Crash, Leave
  <2>2. \A k \in Moments :
          \/ /\ record'[k] = IF record[k] = w THEN "orphan" ELSE record[k]
             /\ checks'[k] = checks[k]
          \/ record'[k] = "free" /\ checks'[k] = 0
    BY <1>10, TableEffect DEF Crash
  <2>3. TableTypeOK'
    BY <1>10, <2>1, <2>2, TableEffect DEF Crash
  <2>4. DoneIsChecked' /\ ReservationsHeld'
    BY <2>1, <2>2
  <2>5. ASSUME NEW v \in Workers, pc'[v] = "checked" PROVE record'[key'[v]] = "done"
    <3>1. pc[v] = "checked" /\ key'[v] = key[v]
      BY <2>1, <2>5
    <3>2. key[v] \in Moments \cap Live'
      BY <3>1, InUse
    <3>3. record[key[v]] = "done" /\ w # "done"
      BY <3>1
    <3>4. QED
      BY <1>10, <3>1, <3>2, <3>3, TableEffect DEF Crash
  <2>6. QED
    BY <2>3, <2>4, <2>5
<1>11. ASSUME Lifecycle PROVE Kept'
  <2>1. Table(record, checks) /\ UNCHANGED <<streak, pc, key>>
    BY <1>11 DEF Lifecycle, Update, Archive
  <2>2. QED
    BY <1>6, <2>1
<1>12. ASSUME FallsDue PROVE Kept'
  BY <1>12 DEF FallsDue
<1>13. ASSUME NEW k \in Moments, RecordExpires(k) PROVE Kept'
  BY <1>13 DEF RecordExpires
<1> HIDE DEF Kept
<1>14. ASSUME NEW w \in Workers, RunL0Check(w) PROVE Kept'
  BY <1>2, <1>4, <1>5, <1>8, <1>14 DEF RunL0Check
<1>15. ASSUME NEW w \in Workers, Acknowledge(w) PROVE Kept'
  BY <1>9, <1>15 DEF Acknowledge
<1>16. Kept'
  BY <1>1, <1>7, <1>9, <1>10, <1>11, <1>12, <1>13, <1>14, <1>15 DEF Next, RunBatch
<1>17. QED
  BY <1>16 DEF Kept
\* A check applied from a current snapshot, or at once, counts like health_check does.
LEMMA CheckedKept ==
  ASSUME TypeOK, LeaseHasKey, FailsIsStreak, InactiveIsQuiet, status = "active",
         NEW result, NEW m \in Moments, Checked(Failures(fails, result), result, m),
         \A w \in Workers : pc'[w] # "idle" => pc[w] # "idle"
  PROVE  (LeaseHasKey /\ FreshReads /\ FailsIsStreak /\ InactiveIsQuiet)'
<1>1. /\ UNCHANGED <<status, lockedBy, jobKey, key>> /\ fresh' = {}
      /\ fails' = Failures(fails, result) /\ streak' = Failures(streak, result)
  BY DEF Checked
<1>2. (FreshReads /\ FailsIsStreak)'
  BY <1>1 DEF FreshReads, FailsIsStreak
<1>3. (LeaseHasKey /\ InactiveIsQuiet)'
  BY <1>1 DEF LeaseHasKey, InactiveIsQuiet
<1>4. QED
  BY <1>2, <1>3

\* The lease, the snapshots and the quiet of an inactive placement.
LEMMA LeaseKept ==
  ASSUME TypeOK, LeaseHasKey, FreshReads, FailsIsStreak, InactiveIsQuiet, Next
  PROVE  (LeaseHasKey /\ FreshReads /\ FailsIsStreak /\ InactiveIsQuiet)'
<1> DEFINE Kept == LeaseHasKey /\ FreshReads /\ FailsIsStreak /\ InactiveIsQuiet
<1> USE DEF LeaseHasKey, FreshReads, FailsIsStreak, InactiveIsQuiet
<1>1. DOMAIN pc = Workers /\ DOMAIN key = Workers /\ DOMAIN seen = Workers
  BY DEF TypeOK, JobTypeOK
<1>2. ASSUME NEW w \in Workers, ClaimBatch(w) PROVE Kept'
  BY <1>1, <1>2 DEF ClaimBatch, Claimable
<1>3. ASSUME NEW w \in Workers, NEW label, Goto(w, label), pc[w] # "idle",
             UNCHANGED <<row, streak, key>>, fresh' \subseteq fresh,
             \A v \in fresh' : seen'[v] = seen[v]
      PROVE  Kept'
  BY <1>1, <1>3 DEF Goto
<1>4. ASSUME NEW w \in Workers, Reserve(w) \/ Replay(w) \/ Refused(w) PROVE Kept'
  BY <1>3, <1>4 DEF Reserve, Replay, Refused
<1>5. ASSUME NEW w \in Workers, BeginApply(w) PROVE Kept'
  BY <1>1, <1>5 DEF BeginApply, Goto
<1>6. ASSUME NEW w \in Workers, NEW state, Release(w, state) PROVE Kept'
  BY <1>1, <1>3, <1>6 DEF Release, Unread
<1>7. ASSUME NEW w \in Workers, NEW result, NEW m \in Moments, NEW answer,
             Apply(w, result, m, answer)
      PROVE  Kept'
  <2>1. seen[w] = fails /\ status = "active"
    BY <1>7 DEF Apply, Serializable
  <2>2. Checked(Failures(fails, result), result, m)
    BY <1>7, <2>1 DEF Apply
  <2>3. \A v \in Workers : pc'[v] # "idle" => pc[v] # "idle"
    BY <1>1, <1>7 DEF Apply, Serializable, Goto
  <2>4. QED
    BY <2>1, <2>2, <2>3, CheckedKept
<1>8. ASSUME NEW result, NEW m \in Moments, ManualCheck(result, m) PROVE Kept'
  <2>1. pc' = pc
    BY <1>8 DEF ManualCheck
  <2>2. QED
    BY <1>8, <2>1, CheckedKept DEF ManualCheck
\* Whoever acknowledges owns the lease, so the placement is active.
<1>9. ASSUME NEW w \in Workers, Acknowledge(w) PROVE Kept'
  <2>1. lockedBy = w /\ lockedBy' = Null /\ fresh' = {}
        /\ UNCHANGED <<status, fails, streak, alert>>
    BY <1>9 DEF Acknowledge, MarkCompleted, MarkFailed, DeadLetter, Owns
  <2>2. status = "active"
    BY <2>1
  <2>3. QED
    BY <2>1, <2>2
<1>10. ASSUME NEW w \in Workers, LeaseLost(w) \/ Crash(w) PROVE Kept'
  <2>1. /\ UNCHANGED <<row, streak>> /\ Leave(w) /\ fresh' \subseteq fresh
        /\ \A v \in fresh' : seen'[v] = seen[v]
    BY <1>1, <1>10 DEF LeaseLost, Crash, Unread, TypeOK, JobTypeOK
  <2>2. QED
    BY <1>1, <2>1 DEF Leave
<1>11. ASSUME NEW s \in Statuses, NEW newPage \in BOOLEAN, Update(s, newPage) PROVE Kept'
  <2>1. /\ lockedBy' = Null /\ jobKey' = Null /\ fresh' = {} /\ status' = s
        /\ UNCHANGED <<fails, streak>>
        /\ s = "ended" => ~alert'
        /\ s # "archived"
    BY <1>11 DEF Update, ResetMonitor
  <2>2. s # "active" => nextCheck' = Null
    BY <1>11 DEF Update, Replan, CheckNow, Unplan
  <2>3. QED
    BY <2>1, <2>2
<1>12. ASSUME Archive PROVE Kept'
  BY <1>12 DEF Archive, ResetMonitor, Unplan
<1>13. ASSUME FallsDue \/ \E k \in Moments : RecordExpires(k) PROVE Kept'
  BY <1>13 DEF FallsDue, RecordExpires
<1> HIDE DEF Kept
<1>14. ASSUME NEW w \in Workers, RunBatch(w) PROVE Kept'
  BY <1>2, <1>4, <1>5, <1>6, <1>7, <1>10, <1>14 DEF RunBatch, RunL0Check
<1>15. Kept'
  BY <1>8, <1>9, <1>10, <1>11, <1>12, <1>13, <1>14 DEF Next, Lifecycle
<1>16. QED
  BY <1>15 DEF Kept

\* Nothing is under way in the first state.
LEMMA Initially == Init => IInv
<1> SUFFICES ASSUME Init PROVE IInv
  OBVIOUS
<1>1. RowTypeOK
  <2>1. due \in BOOLEAN /\ nextCheck \in Moments \cup {Null}
    BY DEF Init
  <2>2. 0 \in 0 .. MaxAttempts /\ 0 \in 0 .. 2
    OBVIOUS
  <2>3. QED
    BY <2>1, <2>2 DEF Init, RowTypeOK, Statuses
<1>2. TableTypeOK /\ JobTypeOK
  BY DEF Init, TableTypeOK, JobTypeOK
<1>3. ReservationsHeld /\ DoneIsChecked /\ CheckedIsDone
  BY DEF Init, ReservationsHeld, DoneIsChecked, CheckedIsDone
<1>4. LeaseHasKey /\ FreshReads /\ FailsIsStreak /\ InactiveIsQuiet
  BY DEF Init, LeaseHasKey, FreshReads, FailsIsStreak, InactiveIsQuiet
<1>5. QED
  BY <1>1, <1>2, <1>3, <1>4 DEF IInv, TypeOK

\* Every step keeps the invariant.
LEMMA Inductive == IInv /\ [Next]_vars => IInv'
<1> SUFFICES ASSUME IInv, [Next]_vars PROVE IInv'
  OBVIOUS
<1>1. CASE Next
  BY <1>1, RowTyped, JobsTyped, TableKept, LeaseKept DEF IInv, TypeOK
<1>2. CASE UNCHANGED vars
  <2>1. TypeOK'
    BY <1>2 DEF IInv, vars, TypeOK, RowTypeOK, TableTypeOK, JobTypeOK
  <2>2. (ReservationsHeld /\ DoneIsChecked /\ CheckedIsDone)'
    BY <1>2 DEF IInv, vars, ReservationsHeld, DoneIsChecked, CheckedIsDone
  <2>3. (LeaseHasKey /\ FreshReads /\ FailsIsStreak /\ InactiveIsQuiet)'
    BY <1>2 DEF IInv, vars, LeaseHasKey, FreshReads, FailsIsStreak, InactiveIsQuiet
  <2>4. QED
    BY <2>1, <2>2, <2>3 DEF IInv
<1>3. QED
  BY <1>1, <1>2

\* The invariant holds in every reachable state.
THEOREM Invariance == Spec => []IInv
  BY Initially, Inductive, PTL DEF Spec

\* Every column, record and local has its type in every reachable state.
THEOREM TypeCorrect == Spec => []TypeOK
  BY Invariance, PTL DEF IInv

\* While its idempotency record lives, a job key has one health_check row at most, for
\* any number of workers, retries, lost answers and stolen leases.
THEOREM KeyIsCheckedOnce == Spec => []OneCheckPerKey
<1>1. IInv => OneCheckPerKey
  BY DEF IInv, DoneIsChecked, OneCheckPerKey
<1>2. QED
  BY <1>1, Invariance, PTL

\* Late checks and acknowledgements neither plan nor lease an inactive placement, nor
\* open an alert of one that has ended.
THEOREM InactiveStaysQuiet == Spec => []InactiveIsQuiet
  BY Invariance, PTL DEF IInv

\* Only a worker whose key has its check, or a change of the placement, ends a run of
\* the monitor: a process that took over a lease has taken over the key as well.
THEOREM CompletedRunIsChecked == Spec => CompletedMeansChecked
<1> DEFINE Ended == jobKey # Null /\ jobKey' = Null /\ ~Lifecycle
<1>1. IInv /\ [Next]_vars => [Ended => checks[jobKey] = 1]_vars
  <2> SUFFICES ASSUME IInv, Next, Ended PROVE checks[jobKey] = 1
    OBVIOUS
  <2>1. ASSUME NEW w \in Workers, RunBatch(w) \/ Crash(w) PROVE jobKey' # Null
    <3>1. ClaimBatch(w) => jobKey' # Null
      BY DEF ClaimBatch, Claimable, JobKey
    <3>2. RunL0Check(w) \/ LeaseLost(w) \/ Crash(w) => jobKey' = jobKey
      BY DEF RunL0Check, Reserve, Replay, Refused, BeginApply, Apply, Checked, Release,
             LeaseLost, Crash
    <3>3. QED
      BY <2>1, <3>1, <3>2 DEF RunBatch
  <2>2. ASSUME \/ \E result \in Results, m \in Moments : ManualCheck(result, m)
               \/ FallsDue
               \/ \E k \in Moments : RecordExpires(k)
        PROVE  jobKey' = jobKey
    BY <2>2 DEF ManualCheck, Checked, FallsDue, RecordExpires
  <2>3. PICK w \in Workers : Acknowledge(w)
    BY <2>1, <2>2 DEF Next
  <2>4. MarkCompleted(w)
    BY <2>3 DEF Acknowledge, MarkFailed, DeadLetter
  <2>5. pc[w] = "checked" /\ key[w] = jobKey
    BY <2>4 DEF MarkCompleted, Owns, IInv, LeaseHasKey
  <2>6. record[jobKey] = "done" /\ jobKey \in Moments
    BY <2>5 DEF IInv, CheckedIsDone, TypeOK, RowTypeOK
  <2>7. QED
    BY <2>6 DEF IInv, DoneIsChecked
<1>2. QED
  BY <1>1, Invariance, PTL DEF Spec, CompletedMeansChecked

\* The second failed result in a row opens the alert for any number of checks at once:
\* each is counted from the row its snapshot has, and that row is the current one.
THEOREM SecondFailureOpensAlert == Spec => SecondFailureAlerts
<1> DEFINE Second == streak' = 2 /\ \E w \in Workers : Recorded(w)
<1>1. IInv /\ [Next]_vars => [Second => alert']_vars
  <2> SUFFICES ASSUME IInv, Second PROVE alert'
    OBVIOUS
  <2>1. PICK w \in Workers, result \in Results, m \in Moments, answer \in {"checked", "releasing"} :
          Apply(w, result, m, answer)
    BY DEF Recorded
  <2>2. seen[w] = streak
    BY <2>1 DEF Apply, Serializable, IInv, FreshReads, FailsIsStreak
  <2>3. Failures(seen[w], result) = 2 /\ alert' = AlertAfter(2, result)
    BY <2>1, <2>2 DEF Apply, Checked
  <2>4. result = "failed"
    BY <2>3 DEF Failures
  <2>5. QED
    BY <2>3, <2>4 DEF AlertAfter
<1>2. QED
  BY <1>1, Invariance, PTL DEF Spec, SecondFailureAlerts
-------------------------------------------------------------------------------
(* The placement in memory *)

\* The placement is planned, or was until its job died, exactly while it is active.
ActiveIsPlanned == status = "active" <=> nextCheck # Null \/ dead

\* A check of an active placement counts as it does in memory.
LEMMA CheckedIsTwins ==
  ASSUME TypeOK, ActiveIsPlanned, status = "active",
         NEW result \in Results, NEW m \in Moments, Checked(Failures(fails, result), result, m)
  PROVE  Twin!Check /\ ActiveIsPlanned'
<1>1. /\ fails \in 0 .. 2 /\ alert \in BOOLEAN
      /\ UNCHANGED <<status, dead>> /\ nextCheck' = m /\ m # Null
      /\ fails' = Failures(fails, result)
      /\ alert' = AlertAfter(Failures(fails, result), result)
  BY DEF TypeOK, RowTypeOK, Checked
<1> DEFINE planned == nextCheck # Null \/ dead
<1>2. planned' = TRUE
  BY <1>1
<1>3. ActiveIsPlanned'
  BY <1>1 DEF ActiveIsPlanned
<1>4. Twin!HealthCheck
  <2>1. CASE result = "failed" /\ fails = 2
    <3>1. Failures(fails, result) = 2
      BY <2>1 DEF Failures, AtMost
    <3>2. fails' = fails /\ alert'
      BY <1>1, <2>1, <3>1 DEF AlertAfter
    <3>3. QED
      BY <2>1, <3>2 DEF Twin!HealthCheck
  <2>2. CASE result = "failed" /\ fails < 2
    <3>1. Failures(fails, result) = fails + 1 /\ (fails + 1 = 2 <=> fails = 1)
      BY <1>1, <2>2 DEF Failures, AtMost
    <3>2. alert' = (alert \/ fails = 1)
      BY <1>1, <2>2, <3>1, Zenon DEF AlertAfter
    <3>3. QED
      BY <1>1, <2>2, <3>1, <3>2 DEF Twin!HealthCheck
  <2>3. CASE result # "failed"
    <3>1. Failures(fails, result) = 0 /\ 0 # 2
      BY <2>3 DEF Failures
    <3>2. alert' = (result # "healthy" /\ alert)
      BY <1>1, <3>1, Zenon DEF AlertAfter
    <3>3. alert' \in {alert, FALSE}
      BY <1>1, <3>2, Zenon
    <3>4. QED
      BY <1>1, <3>1, <3>3 DEF Twin!HealthCheck
  <2>4. QED
    BY <1>1, <2>1, <2>2, <2>3
<1>5. QED
  BY <1>1, <1>2, <1>3, <1>4 DEF Twin!Check

\* Every step is one of the service in memory, or none.
LEMMA StepIsTwins ==
  ASSUME IInv, ActiveIsPlanned, [Next]_vars
  PROVE  [Twin!Next]_(Twin!vars) /\ ActiveIsPlanned'
<1> DEFINE Simulates == [Twin!Next]_(Twin!vars) /\ ActiveIsPlanned'
<1>1. TypeOK /\ FreshReads /\ InactiveIsQuiet
  BY DEF IInv
<1>2. ASSUME UNCHANGED <<status, nextCheck, dead, fails, alert>> PROVE Simulates
  BY <1>2 DEF ActiveIsPlanned, Twin!vars
<1>3. ASSUME NEW result \in Results, NEW m \in Moments, status = "active",
             Checked(Failures(fails, result), result, m)
      PROVE  Simulates
  BY <1>1, <1>3, CheckedIsTwins DEF Twin!Next
<1>4. ASSUME NEW w \in Workers, NEW result \in Results, NEW m \in Moments, NEW answer,
             Apply(w, result, m, answer)
      PROVE  Simulates
  <2>1. seen[w] = fails /\ status = "active"
    BY <1>1, <1>4 DEF Apply, Serializable, FreshReads
  <2>2. QED
    BY <1>3, <1>4, <2>1 DEF Apply
<1>5. ASSUME NEW result \in Results, NEW m \in Moments, ManualCheck(result, m) PROVE Simulates
  BY <1>3, <1>5 DEF ManualCheck
<1>6. ASSUME NEW w \in Workers, ClaimBatch(w) \/ LeaseLost(w) \/ Crash(w) PROVE Simulates
  BY <1>2, <1>6 DEF ClaimBatch, LeaseLost, Crash
<1>7. ASSUME NEW w \in Workers, RunL0Check(w) PROVE Simulates
  <2>1. ASSUME Reserve(w) \/ Replay(w) \/ Refused(w) \/ BeginApply(w)
               \/ \E state \in {"free", "orphan"} : Release(w, state)
        PROVE  Simulates
    BY <1>2, <2>1 DEF Reserve, Replay, Refused, BeginApply, Release
  <2>2. QED
    BY <1>4, <1>7, <2>1 DEF RunL0Check
\* Whoever acknowledges owns the lease, so the placement is active, and stays planned or
\* dies.
<1>8. ASSUME NEW w \in Workers, Acknowledge(w) PROVE Simulates
  <2>1. status = "active"
    BY <1>1, <1>8 DEF Acknowledge, MarkCompleted, MarkFailed, DeadLetter, Owns, InactiveIsQuiet
  <2>2. UNCHANGED <<status, fails, alert>> /\ (nextCheck' # Null \/ dead')
    <3>1. CASE MarkCompleted(w)
      BY <2>1, <3>1 DEF MarkCompleted, ActiveIsPlanned
    <3>2. CASE \E m \in Moments : MarkFailed(w, m)
      BY <3>2 DEF MarkFailed
    <3>3. CASE DeadLetter(w)
      BY <3>3 DEF DeadLetter
    <3>4. QED
      BY <1>8, <3>1, <3>2, <3>3 DEF Acknowledge
  <2>3. QED
    BY <2>1, <2>2 DEF ActiveIsPlanned, Twin!vars
<1>9. ASSUME NEW s \in Statuses, NEW newPage \in BOOLEAN, Update(s, newPage) PROVE Simulates
  <2>1. /\ status \in Twin!Living /\ s \in Twin!Living
        /\ status' = s /\ dead' = FALSE /\ alert' = (alert /\ s # "ended") /\ fails' = fails
    BY <1>1, <1>9 DEF Update, ResetMonitor, TypeOK, RowTypeOK, Statuses, Twin!Living
  <2>2. s = "active" <=> nextCheck' # Null
    BY <1>9 DEF Update, Replan, CheckNow, Unplan
  <2>3. Twin!Update(s) /\ ActiveIsPlanned'
    BY <2>1, <2>2 DEF Twin!Update, Twin!Applied, ActiveIsPlanned
  <2>4. QED
    BY <2>1, <2>3 DEF Twin!Next
<1>10. ASSUME Archive PROVE Simulates
  <2>1. /\ status \in Twin!Living /\ status' = "archived"
        /\ nextCheck' = Null /\ dead' = FALSE /\ alert' = FALSE /\ fails' = fails
    BY <1>1, <1>10 DEF Archive, Unplan, ResetMonitor, TypeOK, RowTypeOK, Statuses, Twin!Living
  <2>2. QED
    BY <2>1 DEF Twin!Archive, Twin!Next, ActiveIsPlanned
<1>11. ASSUME FallsDue \/ \E k \in Moments : RecordExpires(k) PROVE Simulates
  BY <1>2, <1>11 DEF FallsDue, RecordExpires
<1>12. ASSUME UNCHANGED vars PROVE Simulates
  BY <1>2, <1>12 DEF vars
<1> HIDE DEF Simulates
<1>13. Simulates
  BY <1>5, <1>6, <1>7, <1>8, <1>9, <1>10, <1>11, <1>12 DEF Next, RunBatch, Lifecycle
<1>14. QED
  BY <1>13 DEF Simulates

\* A placement that is not planned is not active in the first state either.
LEMMA InitiallyTwins == Init => Twin!Register /\ ActiveIsPlanned
<1> SUFFICES ASSUME Init PROVE Twin!Register /\ ActiveIsPlanned
  OBVIOUS
<1>1. status \in {"active", "paused"} /\ dead = FALSE /\ fails = 0 /\ alert = FALSE
  BY DEF Init
<1>2. nextCheck # Null <=> status = "active"
  BY DEF Init
<1>3. QED
  BY <1>1, <1>2 DEF Twin!Register, ActiveIsPlanned

\* For any number of workers, retries and users at once, checks and edits change the
\* placement as they do one after the other in memory.
THEOREM ImplementsService == Spec => ImplementsTwin
<1>1. Init => Twin!Register /\ ActiveIsPlanned
  BY InitiallyTwins
<1>2. IInv /\ ActiveIsPlanned /\ [Next]_vars => [Twin!Next]_(Twin!vars) /\ ActiveIsPlanned'
  BY StepIsTwins
<1> HIDE DEF IInv, ActiveIsPlanned
<1>3. QED
  BY <1>1, <1>2, Invariance, PTL DEF Spec, ImplementsTwin, Twin!Spec
===============================================================================
