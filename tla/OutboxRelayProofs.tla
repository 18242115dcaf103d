-------------------------- MODULE OutboxRelayProofs --------------------------
(***************************************************************************)
(* What holds of the outbox relay for every number of events and           *)
(* processes, every batch size, lease, timeout and backoff.                *)
(*                                                                         *)
(* The argument has two layers.  BatchInv ties the program counter of a    *)
(* process to its batch and to what the consumer has accepted; it needs    *)
(* no assumption on lease owner names and gives at-least-once delivery.    *)
(* LeaseInv adds that an unexpired batch and its rows agree on owner and   *)
(* age; it needs the names to be distinct and gives exclusive leases.      *)
(***************************************************************************)
EXTENDS OutboxRelay, TLAPS

USE EventsAssumption, TypeOfAssumption, NamesAssumption, NoEventAssumption,
    SubscriptionAssumption, TimingAssumption
    DEF EventsAssumption, TypeOfAssumption, NamesAssumption, NoEventAssumption,
        SubscriptionAssumption, TimingAssumption, table, process

\* A process holds events only while it is in runBatch, the one in flight is among
\* them, and what it is about to acknowledge, or has acknowledged, was accepted.
BatchInv ==
  /\ \A w \in Workers : pc[w] \notin Busy => batch[w] = {} /\ batchAge[w] = 0
  /\ \A w \in Workers : pc[w] \in Busy => current[w] \in batch[w]
  /\ \A w \in Workers : pc[w] = "acking" => reached[current[w]] # {}
  /\ \A e \in Events : published[e] => reached[e] # {}

\* The batch of a process and the rows of its events have the same age and owner
\* until the lease expires; a published row is locked by nobody.
LeaseInv ==
  /\ \A w \in Workers : batchAge[w] <= LeaseTicks =>
       \A e \in batch[w] : /\ lockedBy[e] = NameOf[w]
                           /\ ~published[e]
                           /\ lockAge[e] = batchAge[w]
  /\ \A e \in Events : published[e] => lockedBy[e] = NoName

-------------------------------------------------------------------------------

\* The delay before a retry is a number of ticks the row can hold, whatever the power.
LEMMA RetryDelayInRange == \A n : RetryDelay(n) \in 0 .. MaxRetry
  BY DEF RetryDelay

\* What going on with the rest of a batch does to the process and to the others.
LEMMA GoOnEffect ==
  ASSUME TypeOK, NEW w \in Workers, NEW rest \in SUBSET Events, GoOn(w, rest)
  PROVE  /\ pc' \in [Workers -> PC]
         /\ batch' \in [Workers -> SUBSET Events]
         /\ current' \in [Workers -> Events \cup {NoEvent}]
         /\ batchAge' \in [Workers -> 0 .. LeaseTicks + 1]
         /\ callAge' \in [Workers -> 0 .. PublishTicks]
         /\ batch'[w] = rest
         /\ \A v \in Workers \ {w} : /\ pc'[v] = pc[v]
                                     /\ batch'[v] = batch[v]
                                     /\ current'[v] = current[v]
                                     /\ batchAge'[v] = batchAge[v]
         /\ \/ rest = {} /\ pc'[w] = "idle" /\ batchAge'[w] = 0
            \/ pc'[w] = "publishing" /\ current'[w] \in rest /\ batchAge'[w] = batchAge[w]
<1> USE DEF TypeOK, PC, Busy
<1>1. CASE rest = {} /\ pc' = [pc EXCEPT ![w] = "idle"]
                     /\ current' = [current EXCEPT ![w] = NoEvent]
                     /\ batchAge' = [batchAge EXCEPT ![w] = 0]
  BY <1>1 DEF GoOn
<1>2. ASSUME NEW e \in rest, pc' = [pc EXCEPT ![w] = "publishing"],
             current' = [current EXCEPT ![w] = e], batchAge' = batchAge
      PROVE  /\ pc' \in [Workers -> PC]
             /\ batch' \in [Workers -> SUBSET Events]
             /\ current' \in [Workers -> Events \cup {NoEvent}]
             /\ batchAge' \in [Workers -> 0 .. LeaseTicks + 1]
             /\ callAge' \in [Workers -> 0 .. PublishTicks]
             /\ batch'[w] = rest
             /\ \A v \in Workers \ {w} : /\ pc'[v] = pc[v]
                                         /\ batch'[v] = batch[v]
                                         /\ current'[v] = current[v]
                                         /\ batchAge'[v] = batchAge[v]
             /\ pc'[w] = "publishing" /\ current'[w] \in rest /\ batchAge'[w] = batchAge[w]
  <2>1. e \in Events
    OBVIOUS
  <2>2. QED
    BY <1>2, <2>1 DEF GoOn
<1>3. QED
  BY <1>1, <1>2 DEF GoOn

\* claimBatch leases rows of the table.
LEMMA ClaimedInEvents ==
  ASSUME NEW w \in Workers
  PROVE  Claimed(w) \in SUBSET Events
  BY DEF Claimed, Claimable

\* Releasing a lease keeps the two lease columns in their ranges.
LEMMA UnlockTypes ==
  ASSUME TypeOK, NEW e, Unlock(e)
  PROVE  /\ lockedBy' \in [Events -> Names \cup {NoName}]
         /\ lockAge' \in [Events -> 0 .. LeaseTicks + 1]
<1>1. lockedBy' \in [Events -> Names \cup {NoName}]
  BY DEF Unlock, TypeOK
<1>2. lockAge' \in [Events -> 0 .. LeaseTicks + 1]
  <2> DEFINE Ages == 0 .. LeaseTicks + 1
  <2>1. 0 \in Ages /\ lockAge \in [Events -> Ages]
    BY DEF TypeOK
  <2> HIDE DEF Ages
  <2>2. lockAge' \in [Events -> Ages]
    BY <2>1, Zenon DEF Unlock
  <2>3. QED
    BY <2>2 DEF Ages
<1>3. QED
  BY <1>1, <1>2

\* What is left of a batch after an acknowledgement are rows of the table.
LEMMA RestInEvents ==
  ASSUME NEW w \in Workers, TypeOK
  PROVE  batch[w] \ {current[w]} \in SUBSET Events
  BY DEF TypeOK

\* Types: every operation leaves each column, batch and counter in its range.
THEOREM TypeCorrect == Spec => []TypeOK
<1>1. Init => TypeOK
  BY DEF Init, TypeOK, PC, Busy
<1>2. TypeOK /\ [Next]_vars => TypeOK'
  <2> SUFFICES ASSUME TypeOK, [Next]_vars PROVE TypeOK'
    OBVIOUS
  <2>1. ASSUME NEW e \in Events, Write(e) PROVE TypeOK'
    BY <2>1 DEF Write, TypeOK
  <2>2. ASSUME NEW w \in Workers, ClaimBatch(w) PROVE TypeOK'
    <3>1. attempts' \in [Events -> 0 .. AttemptCap]
      BY <2>2 DEF ClaimBatch, TypeOK, AtMost
    <3>2. lockedBy' \in [Events -> Names \cup {NoName}]
      BY <2>2 DEF ClaimBatch, TypeOK
    <3>3. lockAge' \in [Events -> 0 .. LeaseTicks + 1]
      BY <2>2 DEF ClaimBatch, TypeOK
    <3>4. GoOn(w, Claimed(w)) /\ UNCHANGED <<written, published, wait, reached>>
      BY <2>2 DEF ClaimBatch
    <3>5. QED
      BY <3>1, <3>2, <3>3, <3>4, ClaimedInEvents, GoOnEffect DEF TypeOK
  <2>3. ASSUME NEW w \in Workers, PublishAccepted(w) PROVE TypeOK'
    BY <2>3 DEF PublishAccepted, TypeOK, PC, Busy
  <2>4. ASSUME NEW w \in Workers, PublishAnswerLost(w) PROVE TypeOK'
    BY <2>4 DEF PublishAnswerLost, TypeOK, PC, Busy
  <2>5. ASSUME NEW w \in Workers, PublishRejected(w) PROVE TypeOK'
    BY <2>5 DEF PublishRejected, TypeOK, PC, Busy
  <2>6. ASSUME NEW w \in Workers, MarkPublished(w) PROVE TypeOK'
    <3>1. published' \in [Events -> BOOLEAN] /\ Unlock(current[w])
      BY <2>6 DEF MarkPublished, TypeOK
    <3>2. GoOn(w, batch[w] \ {current[w]}) /\ UNCHANGED <<written, attempts, wait, reached>>
      BY <2>6 DEF MarkPublished, Drop
    <3>3. QED
      BY <3>1, <3>2, UnlockTypes, RestInEvents, GoOnEffect DEF TypeOK
  <2>7. ASSUME NEW w \in Workers, MarkFailed(w) PROVE TypeOK'
    <3>1. wait' \in [Events -> 0 .. MaxRetry] /\ Unlock(current[w])
      BY <2>7, RetryDelayInRange DEF MarkFailed, TypeOK
    <3>2. GoOn(w, batch[w] \ {current[w]}) /\ UNCHANGED <<written, published, attempts, reached>>
      BY <2>7 DEF MarkFailed, Drop
    <3>3. QED
      BY <3>1, <3>2, UnlockTypes, RestInEvents, GoOnEffect DEF TypeOK
  <2>8. ASSUME NEW w \in Workers, LeaseLost(w) PROVE TypeOK'
    BY <2>8, RestInEvents, GoOnEffect DEF LeaseLost, Drop, TypeOK
  <2>9. ASSUME NEW w \in Workers, Crash(w) PROVE TypeOK'
    BY <2>9 DEF Crash, TypeOK, PC, Busy
  <2>10. ASSUME NEW w \in Workers, Restart(w) PROVE TypeOK'
    BY <2>10 DEF Restart, TypeOK, PC, Busy
  <2>11. CASE Tick
    <3>1. wait' \in [Events -> 0 .. MaxRetry]
      BY <2>11 DEF Tick, TypeOK, CountDown
    <3>2. lockAge' \in [Events -> 0 .. LeaseTicks + 1]
      BY <2>11 DEF Tick, TypeOK, AtMost
    <3>3. batchAge' \in [Workers -> 0 .. LeaseTicks + 1]
      BY <2>11 DEF Tick, TypeOK, AtMost
    <3>4. callAge' \in [Workers -> 0 .. PublishTicks]
      BY <2>11 DEF Tick, TypeOK
    <3>5. QED
      BY <2>11, <3>1, <3>2, <3>3, <3>4 DEF Tick, TypeOK
  <2>12. CASE UNCHANGED vars
    BY <2>12 DEF vars, TypeOK
  <2>13. QED
    BY <2>1, <2>2, <2>3, <2>4, <2>5, <2>6, <2>7, <2>8, <2>9, <2>10, <2>11, <2>12
    DEF Next, RunBatch
<1>3. QED
  BY <1>1, <1>2, PTL DEF Spec

-------------------------------------------------------------------------------

\* Going on with the rest of a batch keeps BatchInv.
LEMMA GoOnKeepsBatchInv ==
  ASSUME TypeOK, BatchInv, NEW w \in Workers, NEW rest \in SUBSET Events, GoOn(w, rest),
         reached' = reached, \A e \in Events : published'[e] => reached[e] # {}
  PROVE  BatchInv'
<1>1. /\ pc'[w] \notin Busy => batch'[w] = {} /\ batchAge'[w] = 0
      /\ pc'[w] \in Busy => current'[w] \in batch'[w]
      /\ pc'[w] # "acking"
  <2>1. batch'[w] = rest
    BY GoOnEffect
  <2>2. \/ rest = {} /\ pc'[w] = "idle" /\ batchAge'[w] = 0
        \/ pc'[w] = "publishing" /\ current'[w] \in rest /\ batchAge'[w] = batchAge[w]
    BY GoOnEffect
  <2>3. QED
    BY <2>1, <2>2 DEF Busy
<1>2. \A v \in Workers \ {w} : /\ pc'[v] = pc[v]
                                /\ batch'[v] = batch[v]
                                /\ current'[v] = current[v]
                                /\ batchAge'[v] = batchAge[v]
  BY GoOnEffect
<1>3. QED
  BY <1>1, <1>2 DEF BatchInv

\* BatchInv is preserved by every step, whoever shares whose lease name.
LEMMA BatchInvStep ==
  ASSUME TypeOK, TypeOK', BatchInv, [Next]_vars
  PROVE  BatchInv'
<1> USE DEF BatchInv, Busy
<1>1. ASSUME NEW e \in Events, Write(e) PROVE BatchInv'
  BY <1>1 DEF Write
<1>2. ASSUME NEW w \in Workers, ClaimBatch(w) PROVE BatchInv'
  <2>1. GoOn(w, Claimed(w)) /\ UNCHANGED <<published, reached>>
    BY <1>2 DEF ClaimBatch
  <2>2. QED
    BY <2>1, ClaimedInEvents, GoOnKeepsBatchInv
<1>3. ASSUME NEW w \in Workers, PublishAccepted(w) PROVE BatchInv'
  <2>1. current[w] \in Events
    BY <1>3 DEF PublishAccepted, TypeOK
  <2>2. \A e \in Events : reached[e] \subseteq reached'[e]
    BY <1>3, <2>1 DEF PublishAccepted, TypeOK
  <2>3. reached'[current[w]] # {}
    BY <1>3, <2>1 DEF PublishAccepted, TypeOK
  <2>4. \A v \in Workers : pc[v] = "acking" => current[v] \in Events
    BY DEF TypeOK
  <2>5. \A v \in Workers : /\ pc'[v] \in Busy <=> pc[v] \in Busy
                           /\ pc'[v] = "acking" => pc[v] = "acking" \/ v = w
    BY <1>3 DEF PublishAccepted, TypeOK
  <2>6. /\ batch' = batch /\ batchAge' = batchAge
        /\ current' = current /\ published' = published
    BY <1>3 DEF PublishAccepted
  <2>7. \A v \in Workers : pc'[v] = "acking" => reached'[current'[v]] # {}
    BY <2>2, <2>3, <2>4, <2>5, <2>6
  <2>8. \A e \in Events : published'[e] => reached'[e] # {}
    BY <2>2, <2>6
  <2>9. QED
    BY <2>5, <2>6, <2>7, <2>8
<1>4. ASSUME NEW w \in Workers, PublishAnswerLost(w) PROVE BatchInv'
  <2>1. current[w] \in Events
    BY <1>4 DEF PublishAnswerLost, TypeOK
  <2>2. \A e \in Events : reached[e] \subseteq reached'[e]
    BY <1>4, <2>1 DEF PublishAnswerLost, TypeOK
  <2>3. \A v \in Workers : pc[v] = "acking" => current[v] \in Events
    BY DEF TypeOK
  <2>4. QED
    BY <1>4, <2>2, <2>3 DEF PublishAnswerLost, TypeOK
<1>5. ASSUME NEW w \in Workers, PublishRejected(w) PROVE BatchInv'
  <2>1. \A v \in Workers : /\ pc'[v] \in Busy <=> pc[v] \in Busy
                           /\ pc'[v] = "acking" => pc[v] = "acking"
    BY <1>5 DEF PublishRejected, TypeOK
  <2>2. QED
    BY <1>5, <2>1 DEF PublishRejected
<1>6. ASSUME NEW w \in Workers, MarkPublished(w) PROVE BatchInv'
  <2>1. GoOn(w, batch[w] \ {current[w]}) /\ reached' = reached
    BY <1>6 DEF MarkPublished, Drop
  <2>2. \A e \in Events : published'[e] => reached[e] # {}
    BY <1>6 DEF MarkPublished, TypeOK
  <2>3. QED
    BY <2>1, <2>2, RestInEvents, GoOnKeepsBatchInv
<1>7. ASSUME NEW w \in Workers, MarkFailed(w) PROVE BatchInv'
  <2>1. GoOn(w, batch[w] \ {current[w]}) /\ UNCHANGED <<published, reached>>
    BY <1>7 DEF MarkFailed, Drop
  <2>2. QED
    BY <2>1, RestInEvents, GoOnKeepsBatchInv
<1>8. ASSUME NEW w \in Workers, LeaseLost(w) PROVE BatchInv'
  <2>1. GoOn(w, batch[w] \ {current[w]}) /\ UNCHANGED <<published, reached>>
    BY <1>8 DEF LeaseLost, Drop
  <2>2. QED
    BY <2>1, RestInEvents, GoOnKeepsBatchInv
<1>9. ASSUME NEW w \in Workers, Crash(w) PROVE BatchInv'
  BY <1>9 DEF Crash, TypeOK
<1>10. ASSUME NEW w \in Workers, Restart(w) PROVE BatchInv'
  BY <1>10 DEF Restart, TypeOK
<1>11. CASE Tick
  BY <1>11 DEF Tick, TypeOK
<1>12. CASE UNCHANGED vars
  BY <1>12 DEF vars
<1>13. QED
  BY <1>1, <1>2, <1>3, <1>4, <1>5, <1>6, <1>7, <1>8, <1>9, <1>10, <1>11, <1>12
  DEF Next, RunBatch

\* In every state each process's batch, current event and program counter agree.
LEMMA BatchInvariant == Spec => []BatchInv
<1>1. Init => BatchInv
  BY DEF Init, BatchInv, Busy
<1>2. TypeOK /\ TypeOK' /\ BatchInv /\ [Next]_vars => BatchInv'
  BY BatchInvStep
<1>3. QED
  BY <1>1, <1>2, TypeCorrect, PTL DEF Spec

\* At-least-once delivery: every step of the relay is a delivery, a confirmation of
\* something delivered, or invisible to the consumers.
THEOREM ImplementsAtLeastOnce == Spec => AtLeastOnce
<1>1. Init => Delivery!Init
  BY DEF Init, Delivery!Init
<1>2. TypeOK /\ TypeOK' /\ BatchInv /\ [Next]_vars => [Delivery!Next]_(Delivery!vars)
  <2> SUFFICES ASSUME TypeOK, TypeOK', BatchInv, [Next]_vars
               PROVE  [Delivery!Next]_(Delivery!vars)
    OBVIOUS
  <2> DEFINE acc == {e \in Events : reached[e] # {}}
             con == {e \in Events : published[e]}
  <2>1. ASSUME UNCHANGED <<published, reached>> PROVE UNCHANGED Delivery!vars
    BY <2>1 DEF Delivery!vars
  <2>2. ASSUME NEW w \in Workers, pc[w] = "publishing", published' = published,
               reached' = [reached EXCEPT ![current[w]] = @ \cup {w}]
        PROVE  Delivery!Next
    <3>1. current[w] \in Events
      BY <2>2 DEF BatchInv, Busy, TypeOK
    <3>2. \A e \in Events : reached'[e] # {} <=> reached[e] # {} \/ e = current[w]
      BY <2>2, <3>1 DEF TypeOK
    <3>3. acc' = acc \cup {current[w]}
      BY <3>1, <3>2
    <3>4. con' = con
      BY <2>2
    <3>5. QED
      BY <3>1, <3>3, <3>4 DEF Delivery!Next, Delivery!Accept
  <2>3. ASSUME NEW w \in Workers, MarkPublished(w) PROVE Delivery!Next
    <3>1. current[w] \in Events /\ current[w] \in acc
      BY <2>3 DEF MarkPublished, BatchInv, Busy, TypeOK
    <3>2. acc' = acc
      BY <2>3 DEF MarkPublished, Drop
    <3>3. \A e \in Events : published'[e] <=> published[e] \/ e = current[w]
      BY <2>3, <3>1 DEF MarkPublished, TypeOK
    <3>4. con' = con \cup {current[w]}
      BY <3>1, <3>3
    <3>5. QED
      BY <3>1, <3>2, <3>4 DEF Delivery!Next, Delivery!Confirm
  <2>4. ASSUME NEW e \in Events, Write(e) PROVE UNCHANGED <<published, reached>>
    BY <2>4 DEF Write
  <2>5. ASSUME NEW w \in Workers,
               ClaimBatch(w) \/ PublishRejected(w) \/ MarkFailed(w) \/ LeaseLost(w)
                 \/ Crash(w) \/ Restart(w)
        PROVE  UNCHANGED <<published, reached>>
    BY <2>5 DEF ClaimBatch, PublishRejected, MarkFailed, LeaseLost, Drop, Crash, Restart
  <2>6. ASSUME NEW w \in Workers, PublishAccepted(w) \/ PublishAnswerLost(w)
        PROVE  Delivery!Next
    BY <2>2, <2>6 DEF PublishAccepted, PublishAnswerLost
  <2>7. Tick \/ UNCHANGED vars => UNCHANGED <<published, reached>>
    BY DEF Tick, vars
  <2>8. QED
    BY <2>1, <2>3, <2>4, <2>5, <2>6, <2>7 DEF Next, RunBatch
<1>3. QED
  BY <1>1, <1>2, TypeCorrect, BatchInvariant, PTL DEF Spec, AtLeastOnce, Delivery!Spec

-------------------------------------------------------------------------------

\* Exclusive leases.  Two processes must not sign with one name (the workers default
\* to hostname:pid:role; a shared OUTBOX_WORKER_ID would break the premise).
THEOREM ExclusiveLease ==
  ASSUME \A v, w \in Workers : NameOf[v] = NameOf[w] => v = w
  PROVE  Spec => []LeaseIsExclusive
<1>1. Init => LeaseInv
  BY DEF Init, LeaseInv
<1>2. TypeOK /\ TypeOK' /\ BatchInv /\ LeaseInv /\ [Next]_vars => LeaseInv'
  <2> SUFFICES ASSUME TypeOK, TypeOK', BatchInv, LeaseInv, [Next]_vars PROVE LeaseInv'
    OBVIOUS
  <2>1. ASSUME NEW e \in Events, Write(e) PROVE LeaseInv'
    BY <2>1 DEF Write, LeaseInv, TypeOK
  <2>2. ASSUME NEW w \in Workers, ClaimBatch(w) PROVE LeaseInv'
    <3>1. GoOn(w, Claimed(w)) /\ UNCHANGED published /\ pc[w] = "idle"
      BY <2>2 DEF ClaimBatch
    <3>2. \A e \in Claimed(w) : lockedBy'[e] = NameOf[w] /\ lockAge'[e] = 0 /\ ~published[e]
      BY <2>2, ClaimedInEvents DEF ClaimBatch, Claimed, Claimable, TypeOK
    <3>3. \A e \in Events \ Claimed(w) : lockedBy'[e] = lockedBy[e] /\ lockAge'[e] = lockAge[e]
      BY <2>2 DEF ClaimBatch, TypeOK
    <3>4. \A v \in Workers : batchAge[v] <= LeaseTicks => batch[v] \cap Claimed(w) = {}
      <4> SUFFICES ASSUME NEW v \in Workers, batchAge[v] <= LeaseTicks,
                          NEW e \in batch[v], e \in Claimed(w)
                   PROVE  FALSE
        OBVIOUS
      <4>1. lockedBy[e] = NameOf[v] /\ lockAge[e] <= LeaseTicks
        BY DEF LeaseInv
      <4>2. lockedBy[e] = NoName \/ lockAge[e] > LeaseTicks
        BY DEF Claimed, Claimable
      <4>3. NameOf[v] # NoName /\ lockAge[e] \in Int
        BY DEF TypeOK
      <4>4. QED
        BY <4>1, <4>2, <4>3
    <3>5. batchAge[w] = 0 /\ batchAge'[w] = 0 /\ batch'[w] = Claimed(w)
      BY <3>1, ClaimedInEvents, GoOnEffect DEF BatchInv, Busy
    <3>6. \A v \in Workers \ {w} : batchAge'[v] = batchAge[v] /\ batch'[v] = batch[v]
      BY <3>1, ClaimedInEvents, GoOnEffect
    <3>7. \A e \in Events : published'[e] => lockedBy'[e] = NoName
      BY <3>1, <3>3, ClaimedInEvents, <3>2 DEF LeaseInv
    <3>8. \A v \in Workers : batch[v] \subseteq Events
      BY DEF TypeOK
    <3>9. QED
      BY <3>1, <3>2, <3>3, <3>4, <3>5, <3>6, <3>7, <3>8 DEF LeaseInv
  <2>3. ASSUME NEW w \in Workers,
               PublishAccepted(w) \/ PublishAnswerLost(w) \/ PublishRejected(w)
        PROVE  LeaseInv'
    BY <2>3 DEF PublishAccepted, PublishAnswerLost, PublishRejected, LeaseInv
  \* An acknowledgement by the owner touches the row of the one event it drops.
  <2>4. ASSUME NEW w \in Workers, Drop(w), Owns(w, current[w]), Unlock(current[w]),
               \A e \in Events : published'[e] => published[e] \/ e = current[w]
        PROVE  LeaseInv'
    <3>1. GoOn(w, batch[w] \ {current[w]})
      BY <2>4 DEF Drop
    <3> DEFINE rest == batch[w] \ {current[w]}
    <3>2. batch'[w] = rest /\ (rest = {} \/ batchAge'[w] = batchAge[w])
      <4>1. rest \in SUBSET Events /\ GoOn(w, rest)
        BY <3>1, RestInEvents
      <4> HIDE DEF rest
      <4>2. QED
        BY <4>1, GoOnEffect
    <3>3. \A v \in Workers \ {w} : batchAge'[v] = batchAge[v] /\ batch'[v] = batch[v]
      BY <3>1, RestInEvents, GoOnEffect
    <3>4. \A v \in Workers \ {w} : batchAge[v] <= LeaseTicks => current[w] \notin batch[v]
      BY <2>4 DEF LeaseInv, Owns
    <3>5. \A e \in Events \ {current[w]} : lockedBy'[e] = lockedBy[e] /\ lockAge'[e] = lockAge[e]
      BY <2>4 DEF Unlock, TypeOK
    <3>6. current[w] \in Events => lockedBy'[current[w]] = NoName
      BY <2>4 DEF Unlock, TypeOK
    <3>7. \A v \in Workers : batch[v] \subseteq Events
      BY DEF TypeOK
    <3>8. \A e \in Events : published'[e] => lockedBy'[e] = NoName
      BY <2>4, <3>5, <3>6 DEF LeaseInv
    <3>9. ASSUME NEW v \in Workers, batchAge'[v] <= LeaseTicks, NEW e \in batch'[v]
          PROVE  lockedBy'[e] = NameOf[v] /\ ~published'[e] /\ lockAge'[e] = batchAge'[v]
      <4>1. batchAge'[v] = batchAge[v] /\ e \in batch[v] /\ e # current[w]
        BY <3>2, <3>3, <3>4, <3>9
      <4>2. QED
        BY <2>4, <3>5, <3>7, <3>9, <4>1 DEF LeaseInv
    <3>10. QED
      BY <3>8, <3>9 DEF LeaseInv
  <2>5. ASSUME NEW w \in Workers, MarkPublished(w) PROVE LeaseInv'
    BY <2>4, <2>5 DEF MarkPublished, TypeOK
  <2>6. ASSUME NEW w \in Workers, MarkFailed(w) PROVE LeaseInv'
    BY <2>4, <2>6 DEF MarkFailed
  <2>7. ASSUME NEW w \in Workers, LeaseLost(w) PROVE LeaseInv'
    <3>1. GoOn(w, batch[w] \ {current[w]})
      BY <2>7 DEF LeaseLost, Drop
    <3> DEFINE rest == batch[w] \ {current[w]}
    <3>2. batch'[w] = rest /\ (rest = {} \/ batchAge'[w] = batchAge[w])
      <4>1. rest \in SUBSET Events /\ GoOn(w, rest)
        BY <3>1, RestInEvents
      <4> HIDE DEF rest
      <4>2. QED
        BY <4>1, GoOnEffect
    <3>3. \A v \in Workers \ {w} : batchAge'[v] = batchAge[v] /\ batch'[v] = batch[v]
      BY <3>1, RestInEvents, GoOnEffect
    <3>4. QED
      BY <2>7, <3>2, <3>3 DEF LeaseLost, LeaseInv
  <2>8. ASSUME NEW w \in Workers, Crash(w) PROVE LeaseInv'
    BY <2>8 DEF Crash, LeaseInv, TypeOK
  <2>9. ASSUME NEW w \in Workers, Restart(w) PROVE LeaseInv'
    BY <2>9 DEF Restart, LeaseInv
  <2>10. CASE Tick
    <3>1. ASSUME NEW w \in Workers, batchAge'[w] <= LeaseTicks, NEW e \in batch'[w]
          PROVE  lockedBy'[e] = NameOf[w] /\ ~published'[e] /\ lockAge'[e] = batchAge'[w]
      <4>1. pc[w] = "publishing" /\ e \in batch[w] /\ e \in Events
        BY <2>10, <3>1 DEF Tick, BatchInv, Busy, TypeOK
      <4>2. batchAge'[w] = batchAge[w] + 1 /\ batchAge[w] <= LeaseTicks
        BY <2>10, <3>1, <4>1 DEF Tick, AtMost, TypeOK
      <4>3. lockedBy[e] = NameOf[w] /\ ~published[e] /\ lockAge[e] = batchAge[w]
        BY <4>1, <4>2 DEF LeaseInv
      <4>4. NameOf[w] # NoName
        OBVIOUS
      <4>5. lockAge'[e] = lockAge[e] + 1
        BY <2>10, <4>1, <4>2, <4>3, <4>4 DEF Tick, AtMost, TypeOK
      <4>6. QED
        BY <2>10, <4>2, <4>3, <4>5 DEF Tick
    <3>2. QED
      BY <2>10, <3>1 DEF Tick, LeaseInv
  <2>11. CASE UNCHANGED vars
    BY <2>11 DEF vars, LeaseInv
  <2>12. QED
    BY <2>1, <2>2, <2>3, <2>5, <2>6, <2>7, <2>8, <2>9, <2>10, <2>11 DEF Next, RunBatch
<1>3. LeaseInv => LeaseIsExclusive
  BY DEF LeaseInv, LeaseIsExclusive
<1>4. QED
  BY <1>1, <1>2, <1>3, TypeCorrect, BatchInvariant, PTL DEF Spec

-------------------------------------------------------------------------------

\* A confirmed row is left alone for ever, by stale owners too.
THEOREM ConfirmedForEver == Spec => PublishedIsFinal
<1> DEFINE Kept == \A e \in Events : published[e] =>
                     /\ published'[e]
                     /\ lockedBy'[e] = lockedBy[e]
                     /\ attempts'[e] = attempts[e]
                     /\ wait'[e] <= wait[e]
<1>1. TypeOK /\ [Next]_vars => [Kept]_vars
  <2> SUFFICES ASSUME TypeOK, Next PROVE Kept
    OBVIOUS
  <2>1. \A e \in Events : wait[e] \in Nat
    BY DEF TypeOK
  <2>2. ASSUME UNCHANGED table PROVE Kept
    BY <2>1, <2>2
  <2>3. ASSUME NEW e \in Events, Write(e) PROVE Kept
    BY <2>1, <2>3 DEF Write
  <2>4. ASSUME NEW w \in Workers, ClaimBatch(w) PROVE Kept
    <3>1. \A e \in Claimed(w) : ~published[e]
      BY DEF Claimed, Claimable
    <3>2. QED
      BY <2>1, <2>4, <3>1 DEF ClaimBatch
  <2>5. ASSUME NEW w \in Workers, MarkPublished(w) PROVE Kept
    BY <2>1, <2>5 DEF MarkPublished, Owns, Unlock, TypeOK
  <2>6. ASSUME NEW w \in Workers, MarkFailed(w) PROVE Kept
    <3>1. ~published[current[w]]
      BY <2>6 DEF MarkFailed, Owns
    <3>2. \A e \in Events : e # current[w] => /\ wait'[e] = wait[e]
                                             /\ lockedBy'[e] = lockedBy[e]
      BY <2>6 DEF MarkFailed, Unlock, TypeOK
    <3>3. published' = published /\ attempts' = attempts
      BY <2>6 DEF MarkFailed
    <3>4. ASSUME NEW e \in Events, published[e]
          PROVE  /\ published'[e]
                 /\ lockedBy'[e] = lockedBy[e]
                 /\ attempts'[e] = attempts[e]
                 /\ wait'[e] <= wait[e]
      <4>1. e # current[w]
        BY <3>1, <3>4
      <4>2. wait'[e] = wait[e] /\ lockedBy'[e] = lockedBy[e] /\ wait[e] \in Nat
        BY <2>1, <3>2, <4>1
      <4>3. QED
        BY <3>3, <3>4, <4>2
    <3>5. QED
      BY <3>4
  <2>7. ASSUME NEW w \in Workers,
               PublishAccepted(w) \/ PublishAnswerLost(w) \/ PublishRejected(w)
                 \/ LeaseLost(w) \/ Crash(w) \/ Restart(w)
        PROVE  UNCHANGED table
    BY <2>7 DEF PublishAccepted, PublishAnswerLost, PublishRejected, LeaseLost,
                Crash, Restart
  <2>8. CASE Tick
    <3>1. \A e \in Events : wait'[e] <= wait[e]
      BY <2>1, <2>8 DEF Tick, CountDown
    <3>2. UNCHANGED <<published, attempts, lockedBy>>
      BY <2>8 DEF Tick
    <3>3. ASSUME NEW e \in Events, published[e]
          PROVE  /\ published'[e]
                 /\ lockedBy'[e] = lockedBy[e]
                 /\ attempts'[e] = attempts[e]
                 /\ wait'[e] <= wait[e]
      BY <3>1, <3>2, <3>3
    <3>4. QED
      BY <3>3
  <2>9. QED
    BY <2>2, <2>3, <2>4, <2>5, <2>6, <2>7, <2>8 DEF Next, RunBatch
<1>2. QED
  BY <1>1, TypeCorrect, PTL DEF Spec, PublishedIsFinal
==============================================================================
