---------------------------- MODULE TrafficEstimate ----------------------------
(***************************************************************************)
(* What the Radar tells of the traffic of a host                           *)
(* (monitoring/radar-traffic-provider.ts, tranco-traffic-provider.ts): the *)
(* visits Similarweb counted, or else the rank of the host in Tranco's     *)
(* list of the day.  Ranks are kept for Ttl, the absence from the list     *)
(* included, and requests are kept apart by a pause; both are shared by    *)
(* the inspections that a process runs.  Both services are outside.        *)
(***************************************************************************)
EXTENDS Integers, Sequences, FiniteSets, FiniteSetsExt

CONSTANTS
  Inspections, Hosts,
  Ranks,       \* ranks the list may give
  Counts,      \* visits of each day that Similarweb may tell
  Ttl,         \* RADAR_TRANKO_TTL_DAYS
  Interval,    \* minRequestIntervalMs
  MaxTime,     \* bound of the clock
  None

TrafficAssumption ==
  /\ {Ttl, Interval, MaxTime} \subseteq Nat \ {0}
  /\ Ranks \subseteq Nat \ {0} /\ None \notin Nat \cup {"similarweb", "tranco"}
  /\ \A visits \in Counts : visits \in Seq(Nat)

VARIABLES
  provider,       \* "similarweb", "tranco" or None, by the environment
  time,
  ranking,        \* outside: rank of each host in the list of the day, or None
  ranked,         \* history: ranks of each host at each time
  cache,          \* of each host: None or [at, rank]
  lastRequestAt,
  call,           \* of each inspection: None or its call
  estimate        \* of each inspection: None or [at, host, rank, range]

vars == <<provider, time, ranking, ranked, cache, lastRequestAt, call, estimate>>

-------------------------------------------------------------------------------
(* Estimates *)

\* Of ranks up to the first number, visits a month from the second to the third.
Bands == << <<100, 100000000, 1000000000>>, <<1000, 20000000, 100000000>>,
            <<10000, 3000000, 20000000>>, <<100000, 400000, 3000000>>,
            <<500000, 80000, 400000>>, <<1000000, 30000, 80000>> >>

\* Math.round(n / 30), at least 1.
Daily(n) == Max({1, (n + 15) \div 30})

\* rankToMonthlyVisitsBand and toEstimate.
RangeOfRank(rank) ==
  LET holding == {i \in DOMAIN Bands : rank <= Bands[i][1]} IN
  IF rank = None \/ holding = {} THEN None ELSE
    LET band == Bands[Min(holding)]
    IN [month |-> <<band[2], band[3]>>, day |-> <<Daily(band[2]), Daily(band[3])>>]

Total(visits) == MapThenSumSet(LAMBDA i : visits[i], DOMAIN visits)

\* Thirty days of the mean, less and more a tenth.
RangeOfVisits(visits) ==
  IF visits = <<>> THEN None ELSE
    LET days == {visits[i] : i \in DOMAIN visits}
        month(tenths) == Total(visits) * 3 * tenths
    IN [month |-> <<month(9) \div Len(visits), -((-month(11)) \div Len(visits))>>,
        day |-> <<Min(days), Max(days)>>]

TypeOK ==
  /\ provider \in {"similarweb", "tranco", None} /\ time \in 0 .. MaxTime
  /\ \A i \in Inspections :
       /\ call[i] # None => call[i].step \in {"waiting", "sent"} /\ call[i].host \in Hosts
       /\ (estimate[i] # None /\ estimate[i].range # None) =>
            LET range == estimate[i].range IN
            /\ range.month[1] <= range.month[2] /\ range.day[1] <= range.day[2]
            /\ range.day[1] <= range.month[2]

Init ==
  /\ provider \in {"similarweb", "tranco", None}
  /\ time = 0 /\ lastRequestAt = -Interval
  /\ ranking \in [Hosts -> Ranks \cup {None}]
  /\ ranked = [h \in Hosts |-> [t \in 0 .. MaxTime |-> IF t = 0 THEN {ranking[h]} ELSE {}]]
  /\ cache = [h \in Hosts |-> None]
  /\ call = [i \in Inspections |-> None] /\ estimate = [i \in Inspections |-> None]

-------------------------------------------------------------------------------
(* Outside *)

Pass ==
  /\ time < MaxTime /\ time' = time + 1
  /\ ranked' = [h \in Hosts |-> [ranked[h] EXCEPT ![time + 1] = {ranking[h]}]]
  /\ UNCHANGED <<provider, ranking, cache, lastRequestAt, call, estimate>>

\* Tranco publishes another list, at most once in a unit of time.
Publish(h, rank) ==
  /\ provider = "tranco" /\ rank # ranking[h] /\ Cardinality(ranked[h][time]) = 1
  /\ ranking' = [ranking EXCEPT ![h] = rank]
  /\ ranked' = [ranked EXCEPT ![h][time] = @ \cup {rank}]
  /\ UNCHANGED <<provider, time, cache, lastRequestAt, call, estimate>>

-------------------------------------------------------------------------------
(* estimate *)

Tell(i, h, rank, range) ==
  /\ estimate' = [estimate EXCEPT ![i] = [at |-> time, host |-> h, rank |-> rank, range |-> range]]
  /\ call' = [call EXCEPT ![i] = None]

Idle(i) == call[i] = None /\ estimate[i] = None

NotConfigured(i, h) ==
  /\ provider = None /\ Idle(i) /\ Tell(i, h, None, None)
  /\ UNCHANGED <<provider, time, ranking, ranked, cache, lastRequestAt>>

\* An error, or an answer that is none, tells no visits.
Similarweb(i, h, visits) ==
  /\ provider = "similarweb" /\ Idle(i)
  /\ Tell(i, h, None, RangeOfVisits(visits))
  /\ UNCHANGED <<provider, time, ranking, ranked, cache, lastRequestAt>>

IsFresh(h) == cache[h] # None /\ time - cache[h].at < Ttl

AskKept(i, h) ==
  /\ provider = "tranco" /\ Idle(i) /\ IsFresh(h)
  /\ Tell(i, h, cache[h].rank, RangeOfRank(cache[h].rank))
  /\ UNCHANGED <<provider, time, ranking, ranked, cache, lastRequestAt>>

\* throttle: the pause is computed once, from the last request that was sent.
Ask(i, h) ==
  /\ provider = "tranco" /\ Idle(i) /\ ~IsFresh(h)
  /\ LET alone == \A j \in Inspections : call[j] = None IN
     call' = [j \in Inspections |->
       IF j = i THEN [step |-> "waiting", host |-> h, wake |-> Max({time, lastRequestAt + Interval}),
                      alone |-> alone, gap |-> None]
       ELSE IF call[j] = None THEN None ELSE [call[j] EXCEPT !.alone = FALSE]]
  /\ UNCHANGED <<provider, time, ranking, ranked, cache, lastRequestAt, estimate>>

Wake(i) ==
  /\ call[i] # None /\ call[i].step = "waiting" /\ time >= call[i].wake
  /\ lastRequestAt' = time
  /\ call' = [call EXCEPT ![i].step = "sent", ![i].gap = time - lastRequestAt]
  /\ UNCHANGED <<provider, time, ranking, ranked, cache, estimate>>

\* fetchDomainRank: the rank of the latest day, or none; 404 is none, too.
Answered(i) ==
  LET h == call[i].host IN
  /\ call[i] # None /\ call[i].step = "sent"
  /\ cache' = [cache EXCEPT ![h] = [at |-> time, rank |-> ranking[h]]]
  /\ Tell(i, h, ranking[h], RangeOfRank(ranking[h]))
  /\ UNCHANGED <<provider, time, ranking, ranked, lastRequestAt>>

KeepNoError(h) == cache' = cache

\* Any other answer, or none: not kept, and told as no data.
Unanswered(i) ==
  /\ call[i] # None /\ call[i].step = "sent"
  /\ KeepNoError(call[i].host)
  /\ call' = [call EXCEPT ![i] = None]
  /\ UNCHANGED <<provider, time, ranking, ranked, lastRequestAt, estimate>>

\* The inspection takes the estimate.
Take(i) ==
  /\ estimate[i] # None /\ estimate' = [estimate EXCEPT ![i] = None]
  /\ UNCHANGED <<provider, time, ranking, ranked, cache, lastRequestAt, call>>

Next ==
  \/ Pass
  \/ \E h \in Hosts, rank \in Ranks \cup {None} : Publish(h, rank)
  \/ \E i \in Inspections :
       \/ \E h \in Hosts :
            \/ NotConfigured(i, h) \/ AskKept(i, h) \/ Ask(i, h)
            \/ \E visits \in Counts : Similarweb(i, h, visits)
       \/ Wake(i) \/ Answered(i) \/ Unanswered(i) \/ Take(i)

Spec == Init /\ [][Next]_vars

-------------------------------------------------------------------------------
\* The comments of TrancoTrafficProvider: an estimate, and the absence of one, is that of a
\* list that was published no longer than Ttl ago, whoever asked for it; an error is not
\* remembered as an absence.
EstimateIsFresh ==
  \A i \in Inspections : (provider = "tranco" /\ estimate[i] # None) =>
    \E t \in 0 .. MaxTime :
      /\ estimate[i].at - Ttl < t /\ t <= estimate[i].at
      /\ estimate[i].rank \in ranked[estimate[i].host][t]

\* The comment of throttle: requests are kept apart, if inspections do not overlap (as in
\* the worker, which inspects one candidate at a time).
RequestsAreApart ==
  \A i \in Inspections :
    (call[i] # None /\ call[i].step = "sent" /\ call[i].alone) => call[i].gap >= Interval
===============================================================================
