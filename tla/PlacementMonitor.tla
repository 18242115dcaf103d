--------------------------- MODULE PlacementMonitor ---------------------------
(***************************************************************************)
(* One placement, the worker processes that check it on schedule           *)
(* (placement-monitor.service.ts), users who check it by hand, and the     *)
(* changes of its life cycle (persistence/postgres-placement.service.ts).  *)
(*                                                                         *)
(* runL0Check is three transactions around a network call: the idempotency *)
(* key is reserved, the page fetched, and the result applied with the key  *)
(* completed; after an error the reservation is released.  The worker then *)
(* acknowledges the job in a fourth.  Leases expire, processes die and     *)
(* answers get lost between any two of them.                               *)
(*                                                                         *)
(* A moment is a value of next_check_at, and the job key minted from it.   *)
(* A moment that no column and no job refers to may be used again.         *)
(***************************************************************************)
EXTENDS Integers

CONSTANTS
  Workers,      \* placement-monitor-worker processes, one job each
  Moments,      \* bound: values of next_check_at in use at once
  Null,         \* NULL in next_check_at, monitor_job_key and monitor_locked_by
  MaxAttempts   \* PLACEMENT_MONITOR_MAX_ATTEMPTS

ASSUME MomentsAssumption == Moments \subseteq Nat
ASSUME NamesAssumption ==
  /\ Null \notin Workers \cup Moments
  /\ Workers \cap {"free", "orphan", "done"} = {}
ASSUME MaxAttemptsAssumption == MaxAttempts \in Nat \ {0}

VARIABLES
  \* the placement row
  status,       \* business_status, or "archived" with archived_at
  nextCheck,    \* next_check_at
  due,          \* next_check_at has come
  lockedBy,     \* monitor_locked_by
  attempts,     \* monitor_attempts, up to MaxAttempts
  jobKey,       \* monitor_job_key
  dead,         \* monitor_dead_at is set
  fails,        \* consecutive_failures, up to 2
  alert,        \* an alert is open
  \* other tables
  record,       \* idempotency_record of each job key: who reserved it, or its state
  checks,       \* health_check rows of each job key, up to 2
  streak,       \* failed results at the end of health_check, up to 2
  \* jobs
  pc,           \* where each is
  key,          \* the key of each job
  seen,         \* consecutive_failures as its transaction read it
  fresh,        \* those whose transaction's snapshot has the current row
  upToDate      \* those that fetch the page the row names now

row == <<status, nextCheck, due, lockedBy, attempts, jobKey, dead, fails, alert>>
lease == <<lockedBy, attempts, jobKey, dead>>
table == <<record, checks, streak>>
job == <<pc, key, seen, fresh, upToDate>>
vars == <<row, table, job>>

-------------------------------------------------------------------------------
(* Data *)

Results == {"healthy", "failed", "other"}   \* other: blocked, unknown
\* planned is paused under another name.
Statuses == {"active", "paused", "ended", "archived"}

RowTypeOK ==
  /\ status \in Statuses
  /\ nextCheck \in Moments \cup {Null} /\ due \in BOOLEAN
  /\ lockedBy \in Workers \cup {Null}
  /\ attempts \in 0 .. MaxAttempts
  /\ jobKey \in Moments \cup {Null}
  /\ dead \in BOOLEAN
  /\ fails \in 0 .. 2 /\ alert \in BOOLEAN

\* A reservation is its worker's; an orphan nobody will complete or release.
TableTypeOK ==
  /\ record \in [Moments -> Workers \cup {"free", "orphan", "done"}]
  /\ checks \in [Moments -> 0 .. 2]
  /\ streak \in 0 .. 2

JobTypeOK ==
  /\ pc \in [Workers -> {"idle", "claimed", "checking", "applying", "releasing",
                          "checked", "errored"}]
  /\ key \in [Workers -> Moments \cup {Null}]
  /\ seen \in [Workers -> 0 .. 2]
  /\ \A w \in Workers : pc[w] # "idle" => key[w] # Null   \* mapClaimedRow
  /\ fresh \subseteq Workers
  /\ upToDate \subseteq Workers

TypeOK == RowTypeOK /\ TableTypeOK /\ JobTypeOK

AtMost(n, bound) == IF n <= bound THEN n ELSE bound

\* Moments that a column or a job refers to.
Live == {nextCheck, jobKey} \cup {key[w] : w \in Workers}

\* next_check_at is a new timestamp: the smallest moment nothing refers to.
IsNew(m) == m \notin Live /\ \A n \in Moments \ Live : m <= n

\* Nobody asks again for a key that nothing refers to: its rows are forgotten.
Table(records, rows) ==
  LET live == Live' IN
  /\ record' = [k \in Moments |-> IF k \in live THEN records[k] ELSE "free"]
  /\ checks' = [k \in Moments |-> IF k \in live THEN rows[k] ELSE 0]

Init ==
  /\ status \in {"active", "paused"}
  /\ due = (status = "active")
  /\ nextCheck \in IF due THEN {m \in Moments : \A n \in Moments : m <= n} ELSE {Null}
  /\ lockedBy = Null /\ attempts = 0 /\ jobKey = Null /\ dead = FALSE
  /\ fails = 0 /\ alert = FALSE
  /\ record = [k \in Moments |-> "free"]
  /\ checks = [k \in Moments |-> 0]
  /\ streak = 0
  /\ pc = [w \in Workers |-> "idle"]
  /\ key = [w \in Workers |-> Null]
  /\ seen = [w \in Workers |-> 0]
  /\ fresh = {}
  /\ upToDate = {}

-------------------------------------------------------------------------------
(* The worker's claim *)

\* Not locked, or locked for longer than a lease.  A batch of ten checks of up to 15
\* seconds outlasts the 60 of its lease, so a lease may be up whenever it is held.
Claimable ==
  /\ status = "active"
  /\ nextCheck # Null /\ due
  /\ ~dead

\* Mutant: no COALESCE.
JobKeyOfRow == jobKey

\* COALESCE(monitor_job_key, next_check_at): retries keep the key.
JobKey == IF jobKey = Null THEN nextCheck ELSE jobKey

ClaimBatch(w) ==
  /\ pc[w] = "idle"
  /\ Claimable
  /\ lockedBy' = w
  /\ attempts' = AtMost(attempts + 1, MaxAttempts)
  /\ jobKey' = JobKey
  /\ pc' = [pc EXCEPT ![w] = "claimed"]
  /\ key' = [key EXCEPT ![w] = JobKey]
  /\ fresh' = {}
  /\ UNCHANGED <<status, nextCheck, due, dead, fails, alert, table, seen, upToDate>>

-------------------------------------------------------------------------------
(* runL0Check *)

Goto(w, label) == pc' = [pc EXCEPT ![w] = label]

\* The page is read and the key reserved.  A change of the page between the two acts
\* like one just after them.
Reserve(w) ==
  /\ pc[w] = "claimed"
  /\ status # "archived"
  /\ record[key[w]] = "free"
  /\ record' = [record EXCEPT ![key[w]] = w]
  /\ upToDate' = upToDate \cup {w}
  /\ Goto(w, "checking")
  /\ UNCHANGED <<row, checks, streak, key, seen, fresh>>

\* The stored answer is returned: nothing is checked, next_check_at stays.
Replay(w) ==
  /\ pc[w] = "claimed"
  /\ status # "archived"
  /\ record[key[w]] = "done"
  /\ Goto(w, "checked")
  /\ UNCHANGED <<row, table, key, seen, fresh, upToDate>>

\* PlacementNotFoundError, IdempotencyInProgressError.
Refused(w) ==
  /\ pc[w] = "claimed"
  /\ status = "archived" \/ record[key[w]] \notin {"free", "done"}
  /\ Goto(w, "errored")
  /\ UNCHANGED <<row, table, key, seen, fresh, upToDate>>

\* Mutant: no check of the business status.
BeginApplyAny(w) ==
  /\ pc[w] = "checking"
  /\ seen' = [seen EXCEPT ![w] = fails]
  /\ fresh' = fresh \cup {w}
  /\ Goto(w, "applying")
  /\ UNCHANGED <<row, table, key, upToDate>>

\* The page has been fetched.  The snapshot of the SERIALIZABLE transaction is that of
\* its first statement, the advisory lock, before it has the lock.
BeginApply(w) ==
  /\ pc[w] = "checking"
  /\ status = "active"
  /\ seen' = [seen EXCEPT ![w] = fails]
  /\ fresh' = fresh \cup {w}
  /\ Goto(w, "applying")
  /\ UNCHANGED <<row, table, key, upToDate>>

\* What a check has read is used by its transaction only.
Unread(w) ==
  /\ seen' = [seen EXCEPT ![w] = 0]
  /\ upToDate' = upToDate \ {w}

\* Mutant: READ COMMITTED.
ReadCommitted(w) == pc[w] = "applying"

\* An update of a row that was written after the snapshot fails.
Serializable(w) == pc[w] = "applying" /\ w \in fresh

\* applyPlacementHealthCheck
Failures(n, result) == IF result = "failed" THEN AtMost(n + 1, 2) ELSE 0
AlertAfter(n, result) == result # "healthy" /\ (alert \/ n = 2)

\* The row of the placement, its alert and health_check after a check.
Checked(n, result, m) ==
  /\ IsNew(m)
  /\ nextCheck' = m
  /\ due' = FALSE
  /\ fails' = n
  /\ alert' = AlertAfter(n, result)
  /\ streak' = Failures(streak, result)
  /\ fresh' = {}
  /\ UNCHANGED <<status, lease, key>>

\* completeIdempotency finds the reservation.  If the commit's answer is lost, the
\* caller sees an error and releases.
Apply(w, result, m, answer) ==
  /\ Serializable(w)
  /\ record[key[w]] = w
  /\ Checked(Failures(seen[w], result), result, m)
  /\ Unread(w)
  /\ Goto(w, answer)
  /\ Table([record EXCEPT ![key[w]] = "done"],
           [checks EXCEPT ![key[w]] = AtMost(@ + 1, 2)])

\* POST l0-checks, under a key of its own.  It is one step: the races of a check, from
\* its first read to its commit, are those of another worker's job.
ManualCheck(result, m) ==
  /\ status = "active"
  /\ Checked(Failures(fails, result), result, m)
  /\ UNCHANGED <<pc, seen, upToDate>>
  /\ Table(record, checks)

\* Mutant: the reservation is deleted even if it is completed.
ReleasedAny(w, state) == IF record[key[w]] \in {w, "done"} THEN state ELSE record[key[w]]

\* releaseReservation deletes the reservation unless it is completed, or fails itself
\* and is ignored.
Released(w, state) == IF record[key[w]] = w THEN state ELSE record[key[w]]

\* The checker throws; the placement is not active (EMB-004) or archived; the
\* transaction fails, for a serialization failure or a lost connection; or its answer
\* is lost.  Until the release nobody sees that the check has failed.
Release(w, state) ==
  /\ pc[w] \in {"checking", "applying", "releasing"}
  /\ record' = [record EXCEPT ![key[w]] = Released(w, state)]
  /\ Goto(w, "errored")
  /\ fresh' = fresh \ {w}
  /\ Unread(w)
  /\ UNCHANGED <<row, checks, streak, key>>

-------------------------------------------------------------------------------
(* The worker's acknowledgements.  job.attempts is monitor_attempts: whoever   *)
(* writes that column takes the lease away.                                    *)

Leave(w) ==
  /\ pc' = [pc EXCEPT ![w] = "idle"]
  /\ key' = [key EXCEPT ![w] = Null]

\* Mutant: the acknowledgements look the row up by its id.
OwnsAny(w) == lockedBy # Null /\ ~dead

Owns(w) == lockedBy = w /\ ~dead

\* Mutant: the key of the finished run stays.
CompletedKeepsKey(w) ==
  /\ pc[w] = "checked"
  /\ Owns(w)
  /\ lockedBy' = Null
  /\ attempts' = 0
  /\ Leave(w)
  /\ fresh' = {}
  /\ UNCHANGED <<status, nextCheck, due, jobKey, dead, fails, alert, table, seen, upToDate>>

MarkCompleted(w) ==
  /\ pc[w] = "checked"
  /\ Owns(w)
  /\ lockedBy' = Null
  /\ attempts' = 0
  /\ jobKey' = Null
  /\ Leave(w)
  /\ fresh' = {}
  /\ UNCHANGED <<status, nextCheck, due, dead, fails, alert, streak, seen, upToDate>>
  /\ Table(record, checks)

\* next_check_at moves; the attempts and the job key stay.
MarkFailed(w, m) ==
  /\ pc[w] = "errored"
  /\ Owns(w)
  /\ attempts < MaxAttempts
  /\ IsNew(m)
  /\ nextCheck' = m
  /\ due' = FALSE
  /\ lockedBy' = Null
  /\ Leave(w)
  /\ fresh' = {}
  /\ UNCHANGED <<status, attempts, jobKey, dead, fails, alert, streak, seen, upToDate>>
  /\ Table(record, checks)

Unplan == nextCheck' = Null /\ due' = FALSE

DeadLetter(w) ==
  /\ pc[w] = "errored"
  /\ Owns(w)
  /\ attempts = MaxAttempts
  /\ Unplan
  /\ dead' = TRUE
  /\ lockedBy' = Null
  /\ Leave(w)
  /\ fresh' = {}
  /\ UNCHANGED <<status, attempts, jobKey, fails, alert, streak, seen, upToDate>>
  /\ Table(record, checks)

\* PlacementMonitorLeaseLostError ends the process, which is started again.
LeaseLost(w) ==
  /\ pc[w] \in {"checked", "errored"}
  /\ ~Owns(w)
  /\ Leave(w)
  /\ UNCHANGED <<row, streak, seen, fresh, upToDate>>
  /\ Table(record, checks)

\* The process dies and is started again: its lease and its reservation stay behind.
\* Also the end of a process in its batch, when an earlier job of it lost its lease.
\* (Once its own job is over and its lease lost, its death is LeaseLost.)
Crash(w) ==
  /\ pc[w] # "idle"
  /\ pc[w] \in {"checked", "errored"} => Owns(w)
  /\ Leave(w)
  /\ fresh' = fresh \ {w}
  /\ Unread(w)
  /\ UNCHANGED <<row, streak>>
  /\ Table([k \in Moments |-> IF record[k] = w THEN "orphan" ELSE record[k]], checks)

-------------------------------------------------------------------------------
(* The life cycle of the placement, and time *)

\* update and archive both end the current run of the monitor.
ResetMonitor ==
  /\ lockedBy' = Null
  /\ attempts' = 0
  /\ jobKey' = Null
  /\ dead' = FALSE
  /\ fresh' = {}

\* Mutant: an active placement that is not planned is left alone.
CheckActivated(s, newPage) == s = "active" /\ (status # "active" \/ newPage)

\* resolvePlacementUpdate: an inactive placement is not planned, an active one is
\* checked now if it was not active, not planned, or is another page (newPage).
CheckNow(s, newPage) == s = "active" /\ (status # "active" \/ nextCheck = Null \/ newPage)

Replan(s, newPage) ==
  \/ s # "active" /\ Unplan
  \/ /\ CheckNow(s, newPage)
     /\ nextCheck' \in {m \in Moments : IsNew(m)}
     /\ due' = TRUE
  \/ /\ s = "active" /\ ~CheckNow(s, newPage)
     /\ UNCHANGED <<nextCheck, due>>

Update(s, newPage) ==
  /\ status # "archived" /\ s # "archived"
  /\ status' = s
  /\ ResetMonitor
  /\ Replan(s, newPage)
  /\ alert' = (alert /\ s # "ended")
  /\ upToDate' = IF newPage THEN {} ELSE upToDate
  /\ UNCHANGED <<fails, streak, pc, key, seen>>
  /\ Table(record, checks)

Archive ==
  /\ status # "archived"
  /\ status' = "archived"
  /\ Unplan
  /\ alert' = FALSE
  /\ ResetMonitor
  /\ UNCHANGED <<fails, streak, pc, key, seen, upToDate>>
  /\ Table(record, checks)

FallsDue ==
  /\ nextCheck # Null /\ ~due
  /\ due' = TRUE
  /\ UNCHANGED <<status, nextCheck, lease, fails, alert, table, job>>

\* 24 hours after its reservation a key is free again; no job lasts as long.
RecordExpires(k) ==
  /\ record[k] \in {"orphan", "done"}
  /\ \A w \in Workers : key[w] # k
  /\ record' = [record EXCEPT ![k] = "free"]
  /\ checks' = [checks EXCEPT ![k] = 0]
  /\ UNCHANGED <<row, streak, job>>

-------------------------------------------------------------------------------

RunL0Check(w) ==
  \/ Reserve(w) \/ Replay(w) \/ Refused(w) \/ BeginApply(w)
  \/ \E result \in Results, m \in Moments, answer \in {"checked", "releasing"} :
       Apply(w, result, m, answer)
  \/ \E state \in {"free", "orphan"} : Release(w, state)

Acknowledge(w) ==
  \/ MarkCompleted(w)
  \/ \E m \in Moments : MarkFailed(w, m)
  \/ DeadLetter(w)

RunBatch(w) == ClaimBatch(w) \/ RunL0Check(w) \/ LeaseLost(w)

Lifecycle ==
  \/ \E s \in Statuses, newPage \in BOOLEAN : Update(s, newPage)
  \/ Archive

Next ==
  \/ \E w \in Workers : RunBatch(w) \/ Acknowledge(w) \/ Crash(w)
  \/ \E result \in Results, m \in Moments : ManualCheck(result, m)
  \/ Lifecycle
  \/ FallsDue
  \/ \E k \in Moments : RecordExpires(k)

Spec == Init /\ [][Next]_vars

CrashAny == \E w \in Workers : Crash(w)

Finished == \E w \in Workers : pc[w] \in {"checked", "errored"}

\* Workers poll for ever and time passes; processes do not die for ever, nor is the
\* placement edited for ever; and not every job that finishes has lost its lease.
Fairness ==
  /\ \A w \in Workers : WF_vars(RunBatch(w)) /\ WF_vars(Acknowledge(w))
  /\ []<>Finished => []<><<\E w \in Workers : Acknowledge(w)>>_vars
  /\ <>[][~CrashAny /\ ~Lifecycle]_vars

FairSpec == Spec /\ Fairness

-------------------------------------------------------------------------------
(* Properties *)

\* The step records a check of w.
Recorded(w) ==
  \E result \in Results, m \in Moments, answer \in {"checked", "releasing"} :
    Apply(w, result, m, answer)

\* ADR-0007: the stable job key protects the append-only HealthCheck from duplicates.
\* While the idempotency record of a key lives, health_check gets one row of it at
\* most, whoever retries, steals the lease or loses an answer.
OneCheckPerKey == \A k \in Moments : checks[k] <= 1

\* A placement that is not active has no next check, no lease and, once it has ended,
\* no alert, however late the checks and acknowledgements that were under way arrive.
InactiveIsQuiet ==
  /\ status # "active" => nextCheck = Null /\ lockedBy = Null /\ jobKey = Null
  /\ status \in {"ended", "archived"} => ~alert

\* A run of the monitor ends with a recorded check: nobody but a change of the
\* placement takes the job key away before, even if processes take over its lease.
CompletedMeansChecked ==
  [][jobKey # Null /\ jobKey' = Null /\ ~Lifecycle => checks[jobKey] = 1]_vars

\* Two failed results in a row at the end of health_check leave an alert open at the
\* second one, also when two checks run at once.
SecondFailureAlerts ==
  [][streak' = 2 /\ (\E w \in Workers : Recorded(w)) => alert']_vars

\* A due placement is checked, retried later or given up; a replayed answer, which
\* leaves next_check_at in the past, does not keep it due for ever.
DueIsHandled == due ~> ~due \/ dead

\* docs/runbooks/placement-l0.md: a change of the page sets an immediate check.  So a
\* result that takes a due placement out of the queue is one of the page it names now.
NewPageIsChecked ==
  [][\A w \in Workers : due /\ Recorded(w) => w \in upToDate]_vars

\* Whatever the workers, their retries and the users do at once, a placement changes
\* as in the in-memory service under one request at a time: each recorded check starts
\* from the failures and the alert the one before it left, on an active placement, and
\* an active placement is always planned, unless its job is dead.
Twin == INSTANCE PlacementTwin WITH planned <- nextCheck # Null \/ dead
ImplementsTwin == Twin!Spec
===============================================================================
