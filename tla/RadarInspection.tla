--------------------------- MODULE RadarInspection ---------------------------
(***************************************************************************)
(* The inspections of one radar candidate                                  *)
(* (persistence/postgres-radar.service.ts): users request them and decide; *)
(* the API processes (radar-inline-inspection.ts) and the worker           *)
(* (radar-recheck-worker.ts) take the requests from one queue, and the     *)
(* worker repeats inspections on schedule; sourcing creates candidates and *)
(* requests their first inspection.                                        *)
(*                                                                         *)
(* inspect is two transactions around a network call, as runL0Check is:    *)
(* the idempotency key is reserved, the page fetched, and the observation  *)
(* applied with the key completed; after an error the reservation is       *)
(* released.  A requested inspection takes its key from the time of the    *)
(* request, a scheduled one from the number of the interval (the slot).    *)
(* A moment is such a time or slot; one that nothing refers to may be used *)
(* again.                                                                  *)
(***************************************************************************)
EXTENDS Integers

CONSTANTS
  Processes,   \* the processes that inspect, one candidate each at a time
  Schedulers,  \* those of them that run the scheduled rechecks
  Moments,     \* bound: times of requests and slots in use at once
  None         \* NULL in inspection_requested_at, and no key

ASSUME MomentsAssumption == Moments \subseteq Nat
ASSUME NamesAssumption ==
  /\ None \notin Moments
  /\ Schedulers \subseteq Processes
  /\ Processes \cap {"free", "orphan", "done"} = {}

VARIABLES
  \* the candidate's row
  status,     \* "absent" before it is created
  requested,  \* inspection_requested_at
  deferOver,  \* the candidate is deferred and defer_until has come
  evidence,   \* the candidate has evidence
  \* other tables, and time
  record,     \* idempotency_record of each key: who reserved it, or its state
  rows,       \* radar_evidence rows of each key, up to 2
  slot,       \* the current interval
  old,        \* no evidence since an interval ago
  \* jobs
  pc,         \* where each process is
  key,        \* the key it inspects under
  sourcing    \* sourcing has created the candidate and not yet requested its inspection

row == <<status, requested, deferOver, evidence>>
table == <<record, rows>>
job == <<pc, key>>
vars == <<row, table, slot, old, job, sourcing>>

-------------------------------------------------------------------------------
(* Data *)

\* rejected: or merged, which differs in other rows only (RadarCandidates).
Final == {"accepted", "rejected"}

TypeOK ==
  /\ status \in {"absent", "new", "ready", "deferred"} \cup Final
  /\ requested \in Moments \cup {None}
  /\ deferOver \in BOOLEAN /\ evidence \in BOOLEAN
  /\ sourcing \in BOOLEAN
  /\ record \in [Moments -> Processes \cup {"free", "orphan", "done"}]
  /\ rows \in [Moments -> 0 .. 2]
  /\ slot \in Moments
  /\ old \in BOOLEAN
  /\ pc \in [Processes -> {"idle", "listed", "inspecting", "releasing"}]
  /\ key \in [Processes -> Moments \cup {None}]
  /\ \A p \in Processes : pc[p] # "idle" => key[p] # None

\* assertMutable
Mutable == status \notin Final \cup {"absent"}

\* Moments that a column, the clock or a job refers to.
Live == {requested, slot} \cup {key[p] : p \in Processes}

\* A new timestamp or slot: the smallest moment nothing refers to.
IsNew(m) == m \notin Live /\ \A n \in Moments \ Live : m <= n

\* Nobody asks again for a key that nothing refers to: its rows are forgotten.
Table(records, counts) ==
  LET live == Live' IN
  /\ record' = [k \in Moments |-> IF k \in live THEN records[k] ELSE "free"]
  /\ rows' = [k \in Moments |-> IF k \in live THEN counts[k] ELSE 0]

Init ==
  /\ status = "absent" /\ requested = None
  /\ deferOver = FALSE /\ evidence = FALSE
  /\ record = [k \in Moments |-> "free"]
  /\ rows = [k \in Moments |-> 0]
  /\ slot \in {m \in Moments : \A n \in Moments : m <= n}
  /\ old = TRUE
  /\ pc = [p \in Processes |-> "idle"]
  /\ key = [p \in Processes |-> None]
  /\ sourcing = FALSE

-------------------------------------------------------------------------------
(* Users and sourcing *)

\* create, by hand or as a row of an imported file
Create ==
  /\ status = "absent"
  /\ status' = "new"
  /\ UNCHANGED <<requested, deferOver, evidence, table, slot, old, job, sourcing>>

SetRequested(m) ==
  /\ Mutable
  /\ IsNew(m)
  /\ requested' = m
  /\ UNCHANGED <<status, deferOver, evidence, slot, old, job>>
  /\ Table(record, rows)

RequestInspection(m) == SetRequested(m) /\ UNCHANGED sourcing

\* RadarSourcingService.runCycle: an unknown domain becomes a candidate.  A domain that
\* has a candidate, in any status, is skipped.
SourceCreate ==
  /\ status = "absent"
  /\ status' = "new"
  /\ sourcing' = TRUE
  /\ UNCHANGED <<requested, deferOver, evidence, table, slot, old, job>>

SourceRequest(m) == sourcing /\ SetRequested(m) /\ sourcing' = FALSE

\* The request fails and is counted in failedCandidates, or the process dies.
SourceFails ==
  /\ sourcing
  /\ sourcing' = FALSE
  /\ UNCHANGED <<row, table, slot, old, job>>

\* decide, but for what it does to other tables (RadarCandidates).  defer_until may be
\* in the past.
Decide(decision) ==
  /\ Mutable
  /\ decision = "accepted" => evidence
  /\ status' = decision
  /\ requested' = IF decision = "deferred" THEN requested ELSE None
  /\ deferOver' \in IF decision = "deferred" THEN BOOLEAN ELSE {FALSE}
  /\ UNCHANGED <<evidence, slot, old, job, sourcing>>
  /\ Table(record, rows)

-------------------------------------------------------------------------------
(* The processes that inspect *)

Take(p, k) ==
  /\ pc[p] = "idle"
  /\ pc' = [pc EXCEPT ![p] = "listed"]
  /\ key' = [key EXCEPT ![p] = k]
  /\ UNCHANGED <<row, table, slot, old, sourcing>>

Leave(p) ==
  /\ pc' = [pc EXCEPT ![p] = "idle"]
  /\ key' = [key EXCEPT ![p] = None]

\* Mutant: the list is not restricted to requests.
TakeAll(p) == Mutable /\ Take(p, requested)

\* processRequestedInspections
TakeRequested(p) == requested # None /\ Mutable /\ Take(p, requested)

\* Mutant: deferred candidates are not selected.
DueIfReady == status = "ready" /\ old = TRUE

\* listDue: no evidence since an interval ago.
Due == (status = "ready" \/ (status = "deferred" /\ deferOver)) /\ old = TRUE

\* RadarRecheckScheduler.runBatch
TakeDue(p) == p \in Schedulers /\ Due /\ Take(p, slot)

\* Mutant: a completed record does not hold the key.
ReserveAgain(p) ==
  /\ pc[p] = "listed"
  /\ record[key[p]] \in {"free", "done"}
  /\ record' = [record EXCEPT ![key[p]] = p]
  /\ pc' = [pc EXCEPT ![p] = "inspecting"]
  /\ UNCHANGED <<row, rows, slot, old, key, sourcing>>

Reserve(p) ==
  /\ pc[p] = "listed"
  /\ record[key[p]] = "free"
  /\ record' = [record EXCEPT ![key[p]] = p]
  /\ pc' = [pc EXCEPT ![p] = "inspecting"]
  /\ UNCHANGED <<row, rows, slot, old, key, sourcing>>

\* The stored response, or IdempotencyInProgressError, which is counted as failed.
Skip(p) ==
  /\ pc[p] = "listed"
  /\ record[key[p]] # "free"
  /\ Leave(p)
  /\ UNCHANGED <<row, slot, old, sourcing>>
  /\ Table(record, rows)

\* Mutant: no assertMutable after the page was fetched.
StillCandidate == status # "absent"

StillMutable == Mutable

\* The page has been fetched: the evidence is written, the request cleared and the key
\* completed.  If the commit's answer is lost, the caller sees an error and releases.
Apply(p, answer) ==
  /\ pc[p] = "inspecting"
  /\ StillMutable
  /\ record[key[p]] = p
  /\ status' = "ready"
  /\ requested' = None
  /\ evidence' = TRUE
  /\ old' = FALSE
  /\ IF answer = "idle" THEN Leave(p)
     ELSE pc' = [pc EXCEPT ![p] = answer] /\ UNCHANGED key
  /\ deferOver' = FALSE
  /\ UNCHANGED <<slot, sourcing>>
  /\ Table([record EXCEPT ![key[p]] = "done"],
           [rows EXCEPT ![key[p]] = IF @ < 2 THEN @ + 1 ELSE @])

\* releaseReservation deletes the reservation unless it is completed.
Released(p) == IF record[key[p]] = p THEN "free" ELSE record[key[p]]

\* The inspector throws; the candidate has been decided; the transaction fails, for a
\* serialization failure or a lost connection; or its answer is lost.
Release(p) ==
  /\ pc[p] \in {"inspecting", "releasing"}
  /\ Leave(p)
  /\ UNCHANGED <<row, slot, old, sourcing>>
  /\ Table([record EXCEPT ![key[p]] = Released(p)], rows)

\* The process dies and is started again, or the release itself fails and is ignored:
\* the reservation stays behind.  (A process that dies without one leaves nothing behind.)
Abandon(p) ==
  /\ pc[p] = "inspecting" /\ record[key[p]] = p
  /\ Leave(p)
  /\ UNCHANGED <<row, slot, old, sourcing>>
  /\ Table([record EXCEPT ![key[p]] = "orphan"], rows)

-------------------------------------------------------------------------------
(* Time *)

DeferEnds ==
  /\ status = "deferred" /\ ~deferOver
  /\ deferOver' = TRUE
  /\ UNCHANGED <<status, requested, evidence, table, slot, old, job, sourcing>>

\* Evidence of one slot becomes an interval old in the next, here when that begins.
NextSlot(m) ==
  /\ IsNew(m)
  /\ slot' = m
  /\ old' = TRUE
  /\ UNCHANGED <<row, job, sourcing>>
  /\ Table(record, rows)

\* Mutant: the reservation of a dead process never expires.
CompletedExpires(k) ==
  /\ record[k] = "done" /\ \A p \in Processes : key[p] # k
  /\ record' = [record EXCEPT ![k] = "free"]
  /\ rows' = [rows EXCEPT ![k] = 0]
  /\ UNCHANGED <<row, slot, old, job, sourcing>>

\* 24 hours after its reservation a key is free again; no inspection lasts as long.
RecordExpires(k) ==
  /\ \/ record[k] = "orphan"
     \/ record[k] = "done" /\ \A p \in Processes : key[p] # k
  /\ record' = [record EXCEPT ![k] = "free"]
  /\ rows' = [rows EXCEPT ![k] = 0]
  /\ UNCHANGED <<row, slot, old, job, sourcing>>

-------------------------------------------------------------------------------

Inspected(p) == \E answer \in {"idle", "releasing"} : Apply(p, answer)

Inspect(p) == Reserve(p) \/ Skip(p) \/ Release(p)

User ==
  \/ Create
  \/ \E m \in Moments : RequestInspection(m)
  \/ \E decision \in Final \cup {"deferred"} : Decide(decision)

Source == SourceCreate \/ SourceFails \/ \E m \in Moments : SourceRequest(m)

Next ==
  \/ User \/ Source
  \/ \E p \in Processes :
       TakeRequested(p) \/ TakeDue(p) \/ Inspect(p) \/ Inspected(p) \/ Abandon(p)
  \/ DeferEnds
  \/ \E m \in Moments : NextSlot(m)
  \/ \E k \in Moments : RecordExpires(k)

Spec == Init /\ [][Next]_vars

\* Both loops poll for ever, the requests first, and time passes; processes do not die,
\* nor do releases fail, for ever; and a page that is fetched again and again is applied some day.
Fairness ==
  /\ \A p \in Processes :
       /\ SF_vars(TakeRequested(p)) /\ SF_vars(TakeDue(p))
       /\ WF_vars(Inspect(p)) /\ SF_vars(Inspected(p))
  /\ \A k \in Moments : WF_vars(RecordExpires(k))
  /\ SF_vars(\E m \in Moments : NextSlot(m))
  /\ <>[][\A p \in Processes : ~Abandon(p)]_vars

FairSpec == Spec /\ Fairness

-------------------------------------------------------------------------------
(* Properties *)

\* radar-inline-inspection.ts: a run beside the worker neither repeats an inspection nor
\* duplicates evidence.  While the idempotency record of a key lives, radar_evidence
\* gets one row of it at most, whoever lists the request late or loses an answer.
OneEvidencePerKey == \A k \in Moments : rows[k] <= 1

\* The user's request is served, or dropped with a decision, although a process died in
\* the middle of it.
RequestIsServed == requested # None ~> requested = None

\* docs/runbooks/radar.md: a READY candidate, or a deferred one whose date has come, is
\* inspected again when its evidence has become old.
DueIsInspected ==
  LET Stale == (status = "ready" \/ (status = "deferred" /\ deferOver)) /\ old
  IN  Stale ~> ~Stale

Twin == INSTANCE RadarTwin WITH pending <- requested # None

\* For its users the queue over PostgreSQL behaves as the service in memory: a candidate
\* that is accepted, rejected or merged stays as it was decided, whatever inspection was
\* under way then, and no request outlives the decision.
ImplementsTwin == Twin!Spec
===============================================================================
