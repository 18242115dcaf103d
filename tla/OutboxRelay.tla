----------------------------- MODULE OutboxRelay -----------------------------
(***************************************************************************)
(* The transactional outbox and the processes that drain it:               *)
(* outbox/outbox-relay.service.ts (the batch loop),                        *)
(* outbox/prisma-outbox-relay.store.ts (claim and acknowledge),            *)
(* the publishers, and the three workers built from them.                  *)
(*                                                                         *)
(* Time is relative: a row knows how many ticks its next attempt is away   *)
(* and how old its lease is, a worker how old its batch is.  A tick passes *)
(* for all of them together, so the clock of the code (Date.now()) needs   *)
(* no bound.                                                               *)
(***************************************************************************)
EXTENDS Integers, FiniteSets

CONSTANTS
  Events,          \* ids of outbox_event rows, in ORDER BY occurred_at, id
  Types,           \* event types
  TypeOf,          \* the type of each event
  Workers,         \* worker processes
  Names,           \* lease owner names written to locked_by
  NameOf,          \* the name each process signs leases with
  Subscription,    \* the event types each process claims (all = no filter)
  NoName,          \* locked_by IS NULL
  NoEvent,         \* no publication in flight
  BatchSize,       \* LIMIT of one claim
  LeaseTicks,      \* leaseMs
  PublishTicks,    \* transport timeout: one publication takes at most this
  BaseRetry,       \* baseRetryMs
  MaxRetry,        \* maxRetryMs
  AttemptCap       \* attempts are counted up to here; the delay saturates before

ASSUME EventsAssumption == Events \subseteq Nat
ASSUME TypeOfAssumption == TypeOf \in [Events -> Types]
ASSUME NamesAssumption == NameOf \in [Workers -> Names] /\ NoName \notin Names
ASSUME NoEventAssumption == NoEvent \notin Events
ASSUME SubscriptionAssumption == Subscription \in [Workers -> SUBSET Types]
ASSUME TimingAssumption ==
  /\ BatchSize \in Nat \ {0}
  /\ LeaseTicks \in Nat
  /\ PublishTicks \in Nat
  /\ BaseRetry \in Nat
  /\ MaxRetry \in Nat
  /\ AttemptCap \in Nat \ {0}

VARIABLES
  \* the outbox_event table, a variable per column the relay reads or writes
  written,    \* the row exists: the business transaction committed
  published,  \* published_at IS NOT NULL
  attempts,   \* attempts, saturating at AttemptCap
  wait,       \* ticks until next_attempt_at
  lockedBy,   \* locked_by
  lockAge,    \* ticks since locked_at, saturating; 0 when unlocked
  \* the processes
  pc,         \* where each process is in runBatch
  batch,      \* the events a process has claimed and not yet acknowledged
  current,    \* the event whose publication or acknowledgement is in flight
  batchAge,   \* ticks since the process claimed its batch, saturating
  callAge,    \* ticks since the current publication began
  \* the consumers
  reached     \* the processes whose consumer has accepted the event

table == <<written, published, attempts, wait, lockedBy, lockAge>>
process == <<pc, batch, current, batchAge, callAge>>
vars == <<table, process, reached>>

-------------------------------------------------------------------------------
(* Data *)

\* "publishing" awaits the publisher, "acking" markPublished, "failing" markFailed.
Busy == {"publishing", "acking", "failing"}
PC == {"down", "idle"} \cup Busy

TypeOK ==
  /\ written \in [Events -> BOOLEAN]
  /\ published \in [Events -> BOOLEAN]
  /\ attempts \in [Events -> 0 .. AttemptCap]
  /\ wait \in [Events -> 0 .. MaxRetry]
  /\ lockedBy \in [Events -> Names \cup {NoName}]
  /\ lockAge \in [Events -> 0 .. LeaseTicks + 1]
  /\ pc \in [Workers -> PC]
  /\ batch \in [Workers -> SUBSET Events]
  /\ current \in [Workers -> Events \cup {NoEvent}]
  /\ batchAge \in [Workers -> 0 .. LeaseTicks + 1]
  /\ callAge \in [Workers -> 0 .. PublishTicks]
  /\ reached \in [Events -> SUBSET Workers]

AtMost(n, bound) == IF n <= bound THEN n ELSE bound
CountDown(n) == IF n = 0 THEN 0 ELSE n - 1

\* Mutant: the ceiling of the backoff is forgotten.
RetryDelayUnbounded(n) == BaseRetry * 2 ^ (n - 1)

\* baseRetryMs * 2^(attempts - 1), at most maxRetryMs.
RetryDelay(n) ==
  LET delay == BaseRetry * 2 ^ (n - 1)
  IN  IF delay \in 0 .. MaxRetry THEN delay ELSE MaxRetry

Init ==
  /\ written = [e \in Events |-> FALSE]
  /\ published = [e \in Events |-> FALSE]
  /\ attempts = [e \in Events |-> 0]
  /\ wait = [e \in Events |-> 0]
  /\ lockedBy = [e \in Events |-> NoName]
  /\ lockAge = [e \in Events |-> 0]
  /\ pc = [w \in Workers |-> "idle"]
  /\ batch = [w \in Workers |-> {}]
  /\ current = [w \in Workers |-> NoEvent]
  /\ batchAge = [w \in Workers |-> 0]
  /\ callAge = [w \in Workers |-> 0]
  /\ reached = [e \in Events |-> {}]

-------------------------------------------------------------------------------
(* The producers: the event appears with the business transaction's commit,  *)
(* due at once.  Commits need not happen in occurred_at order.               *)

Write(e) ==
  /\ ~written[e]
  /\ written' = [written EXCEPT ![e] = TRUE]
  /\ UNCHANGED <<published, attempts, wait, lockedBy, lockAge, process, reached>>

-------------------------------------------------------------------------------
(* runBatch *)

\* Mutant: claimBatch forgets published_at IS NULL.
ClaimablePublished(w) ==
  {e \in Events :
     /\ written[e]
     /\ wait[e] = 0
     /\ lockedBy[e] = NoName \/ lockAge[e] > LeaseTicks
     /\ TypeOf[e] \in Subscription[w]}

\* Mutant: claimBatch takes unlocked rows only, never an expired lease.
ClaimableUnlocked(w) ==
  {e \in Events :
     /\ written[e]
     /\ ~published[e]
     /\ wait[e] = 0
     /\ lockedBy[e] = NoName
     /\ TypeOf[e] \in Subscription[w]}

\* The WHERE clause of claimBatch: unpublished, due, and unlocked or with a
\* lease that is strictly older than leaseMs.
Claimable(w) ==
  {e \in Events :
     /\ written[e]
     /\ ~published[e]
     /\ wait[e] = 0
     /\ lockedBy[e] = NoName \/ lockAge[e] > LeaseTicks
     /\ TypeOf[e] \in Subscription[w]}

\* ORDER BY occurred_at, id LIMIT batchSize.
Claimed(w) ==
  {e \in Claimable(w) :
     Cardinality({f \in Claimable(w) : f < e}) < BatchSize}

\* The loop goes on with any event of the rest of the batch (UPDATE ... RETURNING
\* promises no order), or the process waits for its next poll.
GoOn(w, rest) ==
  /\ batch' = [batch EXCEPT ![w] = rest]
  /\ callAge' = [callAge EXCEPT ![w] = 0]
  /\ \/ /\ rest = {}
        /\ pc' = [pc EXCEPT ![w] = "idle"]
        /\ current' = [current EXCEPT ![w] = NoEvent]
        /\ batchAge' = [batchAge EXCEPT ![w] = 0]
     \/ \E e \in rest :
        /\ pc' = [pc EXCEPT ![w] = "publishing"]
        /\ current' = [current EXCEPT ![w] = e]
        /\ UNCHANGED batchAge

\* claimBatch: one statement that leases the batch and counts the attempt.
ClaimBatch(w) ==
  LET claimed == Claimed(w)
  IN  /\ pc[w] = "idle"
      /\ claimed # {}
      /\ lockedBy' = [e \in Events |-> IF e \in claimed THEN NameOf[w] ELSE lockedBy[e]]
      /\ lockAge' = [e \in Events |-> IF e \in claimed THEN 0 ELSE lockAge[e]]
      /\ attempts' = [e \in Events |-> IF e \in claimed
                                       THEN AtMost(attempts[e] + 1, AttemptCap)
                                       ELSE attempts[e]]
      /\ GoOn(w, claimed)
      /\ UNCHANGED <<written, published, wait, reached>>

\* publish resolves: the consumer answered 2xx in time.
PublishAccepted(w) ==
  /\ pc[w] = "publishing"
  /\ pc' = [pc EXCEPT ![w] = "acking"]
  /\ reached' = [reached EXCEPT ![current[w]] = @ \cup {w}]
  /\ UNCHANGED <<table, batch, current, batchAge, callAge>>

\* publish throws although the consumer took the event: timeout or lost answer.
PublishAnswerLost(w) ==
  /\ pc[w] = "publishing"
  /\ pc' = [pc EXCEPT ![w] = "failing"]
  /\ reached' = [reached EXCEPT ![current[w]] = @ \cup {w}]
  /\ UNCHANGED <<table, batch, current, batchAge, callAge>>

\* Mutant: a refusal (response.ok is false) is taken for a success.
PublishRejectedAcked(w) ==
  /\ pc[w] = "publishing"
  /\ pc' = [pc EXCEPT ![w] = "acking"]
  /\ UNCHANGED <<table, batch, current, batchAge, callAge, reached>>

\* publish throws and the consumer has nothing: refused, unreachable, not 2xx.
PublishRejected(w) ==
  /\ pc[w] = "publishing"
  /\ pc' = [pc EXCEPT ![w] = "failing"]
  /\ UNCHANGED <<table, batch, current, batchAge, callAge, reached>>

\* Mutant: the acknowledgement does not check who holds the lease.
OwnsAnybody(w, e) == ~published[e]

\* The WHERE clause of both acknowledgements.
Owns(w, e) == lockedBy[e] = NameOf[w] /\ ~published[e]

\* The event leaves the batch, acknowledged or with its lease lost.
Drop(w) == GoOn(w, batch[w] \ {current[w]}) /\ UNCHANGED reached

Unlock(e) ==
  /\ lockedBy' = [lockedBy EXCEPT ![e] = NoName]
  /\ lockAge' = [lockAge EXCEPT ![e] = 0]

MarkPublished(w) ==
  LET e == current[w]
  IN  /\ pc[w] = "acking"
      /\ Owns(w, e)
      /\ published' = [published EXCEPT ![e] = TRUE]
      /\ Unlock(e)
      /\ Drop(w)
      /\ UNCHANGED <<written, attempts, wait>>

\* The delay follows the attempts the claim returned, which the row still has
\* while the claim's owner is in locked_by.
MarkFailed(w) ==
  LET e == current[w]
  IN  /\ pc[w] = "failing"
      /\ Owns(w, e)
      /\ wait' = [wait EXCEPT ![e] = RetryDelay(attempts[e])]
      /\ Unlock(e)
      /\ Drop(w)
      /\ UNCHANGED <<written, published, attempts>>

\* OutboxLeaseLostError from either acknowledgement is swallowed: the batch goes on.
LeaseLost(w) ==
  /\ pc[w] \in {"acking", "failing"}
  /\ ~Owns(w, current[w])
  /\ Drop(w)
  /\ UNCHANGED table

\* The process dies, or runBatch throws (a failed claim, a failed acknowledgement),
\* which ends the process too.  The leases it took stay in the table.
Crash(w) ==
  /\ pc[w] # "down"
  /\ pc' = [pc EXCEPT ![w] = "down"]
  /\ batch' = [batch EXCEPT ![w] = {}]
  /\ current' = [current EXCEPT ![w] = NoEvent]
  /\ batchAge' = [batchAge EXCEPT ![w] = 0]
  /\ callAge' = [callAge EXCEPT ![w] = 0]
  /\ UNCHANGED <<table, reached>>

\* restart: unless-stopped.
Restart(w) ==
  /\ pc[w] = "down"
  /\ pc' = [pc EXCEPT ![w] = "idle"]
  /\ UNCHANGED <<table, batch, current, batchAge, callAge, reached>>

\* A tick passes for the table and the processes.  No publication outlives its
\* timeout (AbortController / AbortSignal.timeout), and an acknowledgement, one
\* statement, is short against a tick.
Tick ==
  /\ \A w \in Workers : /\ pc[w] \notin {"acking", "failing"}
                        /\ pc[w] = "publishing" => callAge[w] < PublishTicks
  /\ wait' = [e \in Events |-> CountDown(wait[e])]
  /\ lockAge' = [e \in Events |-> IF lockedBy[e] = NoName THEN 0
                                  ELSE AtMost(lockAge[e] + 1, LeaseTicks + 1)]
  /\ batchAge' = [w \in Workers |-> IF pc[w] = "publishing"
                                    THEN AtMost(batchAge[w] + 1, LeaseTicks + 1) ELSE 0]
  /\ callAge' = [w \in Workers |-> IF pc[w] = "publishing" THEN callAge[w] + 1 ELSE 0]
  /\ UNCHANGED <<written, published, attempts, lockedBy, pc, batch, current, reached>>

-------------------------------------------------------------------------------

RunBatch(w) ==
  \/ ClaimBatch(w)
  \/ PublishAccepted(w)
  \/ PublishAnswerLost(w)
  \/ PublishRejected(w)
  \/ MarkPublished(w)
  \/ MarkFailed(w)
  \/ LeaseLost(w)

Next ==
  \/ \E e \in Events : Write(e)
  \/ \E w \in Workers : RunBatch(w)
  \/ \E w \in Workers : Crash(w)
  \/ \E w \in Workers : Restart(w)
  \/ Tick

Spec == Init /\ [][Next]_vars

CrashAny == \E w \in Workers : Crash(w)
AcceptInTime(e) ==
  \E w \in Workers : current[w] = e /\ batchAge[w] <= LeaseTicks /\ PublishAccepted(w)

\* Processes are scheduled, restarted and see time pass; they do not die for ever;
\* and an event whose publication is begun under a lease again and again is some day
\* accepted before that lease expires.
Fairness ==
  /\ WF_vars(Tick)
  /\ \A w \in Workers : WF_vars(RunBatch(w)) /\ WF_vars(Restart(w))
  /\ \A e \in Events : SF_vars(AcceptInTime(e))
  /\ <>[][~CrashAny]_vars

FairSpec == Spec /\ Fairness

-------------------------------------------------------------------------------
(* Properties *)

\* While the lease of a process's batch has not expired, every event still in that
\* batch is leased to that process in the table and is unpublished: no other
\* process publishes, acknowledges or reschedules it (ADR-0003, one current owner).
LeaseIsExclusive ==
  \A w \in Workers : batchAge[w] <= LeaseTicks =>
    \A e \in batch[w] : lockedBy[e] = NameOf[w] /\ ~published[e]

\* Once confirmed, a row is never claimed, released or rescheduled again, however
\* late the other processes that once leased it come back with their answers.
PublishedIsFinal ==
  [][\A e \in Events : published[e] =>
        /\ published'[e]
        /\ lockedBy'[e] = lockedBy[e]
        /\ attempts'[e] = attempts[e]
        /\ wait'[e] <= wait[e]]_vars

\* Every event a business transaction committed is confirmed in the end, through
\* crashes, lost leases, refusals and lost answers.
EventuallyPublished ==
  \A e \in Events : written[e] ~> published[e]

\* The relay implements at-least-once delivery: it confirms only what some
\* consumer has accepted.
Delivery == INSTANCE AtLeastOnceDelivery WITH
  accepted  <- {e \in Events : reached[e] # {}},
  confirmed <- {e \in Events : published[e]}
AtLeastOnce == Delivery!Spec

\* ADR-0006: report-digest-worker leases its own event type and the events of other
\* types stay available to their own consumers.  So a confirmed event whose type has
\* a dedicated consumer has been accepted by a dedicated consumer of that type.
Dedicated(w, e) == TypeOf[e] \in Subscription[w] /\ Subscription[w] # Types
ConsumerReached ==
  \A e \in Events :
    published[e] /\ (\E w \in Workers : Dedicated(w, e)) =>
      \E w \in reached[e] : Dedicated(w, e)
==============================================================================
