----------------------------- MODULE WeeklyReport -----------------------------
(***************************************************************************)
(* The snapshots of the weekly report                                      *)
(* (persistence/postgres-report.service.ts) and the worker that makes them *)
(* on schedule (workers/weekly-report-worker.ts).  A generation is a       *)
(* SERIALIZABLE transaction whose snapshot is taken before it waits for    *)
(* the lock of the week.  The worker generates the report of the latest    *)
(* slot, then sleeps until the next one; whatever fails ends its process,  *)
(* and another one starts.                                                 *)
(*                                                                         *)
(* Weeks run from Monday 00:00 in Moscow, which keeps one offset the whole *)
(* year; a week's report is due on the next Monday at 10:00                *)
(* (reporting/weekly-report-scheduler.ts, domain/weekly-report.ts).  Times *)
(* count from a Monday 00:00, in any unit.                                 *)
(*                                                                         *)
(* One team; what a report says is left out.                               *)
(***************************************************************************)
EXTENDS Integers, FiniteSets, FiniteSetsExt

CONSTANTS
  Week,       \* the length of a week
  Due,        \* from Monday 00:00 to the slot
  MaxTime,    \* bound: the clock
  Requested,  \* bound: the commands of users
  Formulas,
  Scheduled,  \* the worker's version of the formulas
  Worker,     \* the worker, one of the processes that generate
  Processes,
  None

-------------------------------------------------------------------------------
(* Dates *)

Monday(t) == t - (t % Week)

MondayDue(t) == Monday(t) + Due

\* latestWeeklyReportRun
LatestDue(t) == IF t < MondayDue(t) THEN MondayDue(t) - Week ELSE MondayDue(t)

\* nextWeeklyReportDue
NextDue(t) == IF t < MondayDue(t) THEN MondayDue(t) ELSE MondayDue(t) + Week

\* The date of a week before the slot.
PeriodStart(due) == Monday(due - Week)

PeriodEnd(start) == start + Week - 1

WeekAssumption == Week \in Nat \ {0} /\ Due \in 0 .. Week - 1
ScheduledAssumption == Scheduled \in Formulas
WorkerAssumption == Worker \in Processes
ClockAssumption == MaxTime \in Nat /\ MaxTime >= Week
RequestedAssumption ==
  /\ Requested \subseteq [period : Int, asOf : Nat, formula : Formulas]
  /\ \A c \in Requested : c.asOf >= PeriodEnd(c.period)

VARIABLES
  now,
  snapshots,   \* report_snapshot
  keys,        \* slots whose idempotency key is recorded
  dueAt,       \* when the sleeping worker wakes, None while it is up
  generation,  \* what each transaction will write, as its snapshot has it, or None
  out,         \* as in SerializableSnapshot
  doomed

tables == <<snapshots, keys>>
vars == <<now, tables, dueAt, generation, out, doomed>>

-------------------------------------------------------------------------------
(* Data *)

RunFor(slot) == [period |-> PeriodStart(slot), asOf |-> slot, formula |-> Scheduled]

Commands == Requested \cup {RunFor(LatestDue(t)) : t \in 0 .. MaxTime}

IsExact(s, c) == s.period = c.period /\ s.asOf = c.asOf /\ s.formula = c.formula

Published(c) == \E s \in snapshots : IsExact(s, c)

TypeOK ==
  /\ now \in 0 .. MaxTime
  /\ \A s \in snapshots : s.revision \in 1 .. Cardinality(snapshots)
  /\ \A s \in snapshots : [period |-> s.period, asOf |-> s.asOf, formula |-> s.formula] \in Commands
  /\ \A slot \in keys : RunFor(slot) \in Commands
  /\ dueAt # None => dueAt \in now - MaxTime .. now + Week
  /\ out \cup doomed \subseteq {p \in Processes : generation[p] # None}

Init ==
  /\ now \in 0 .. Week
  /\ snapshots = {} /\ keys = {}
  /\ dueAt = None
  /\ generation = [p \in Processes |-> None]
  /\ out = {} /\ doomed = {}

-------------------------------------------------------------------------------
(* Transactions *)

Exact(c) == <<"exact", c>>                   \* the unique keys of report_snapshot
Revision(p, n) == <<"revision", p, n>>
Reports(p) == <<"reports", p>>               \* the search for the snapshots of a week
Key(c) == <<"key", c>>                       \* the worker's idempotency record

\* A generation g that finds its snapshot writes its idempotency record only.
Footprint(g) ==
  [reads |-> {Reports(g.command.period)},
   writes |-> (IF g.exact THEN {} ELSE {Reports(g.command.period)})
                 \cup (IF g.scheduled THEN {Key(g.command)} ELSE {}),
   rows |-> (IF g.exact THEN {} ELSE {Exact(g.command), Revision(g.command.period, g.revision)})
               \cup (IF g.scheduled THEN {Key(g.command)} ELSE {})]

Transaction ==
  INSTANCE SerializableSnapshot WITH
    Transactions <- Processes,
    footprint <- [p \in Processes |->
                    IF generation[p] = None THEN [reads |-> {}, writes |-> {}, rows |-> {}]
                                            ELSE Footprint(generation[p])]

RevisionsOf(p) == {s.revision : s \in {x \in snapshots : x.period = p}}

NextRevision(p) == Max({0} \cup RevisionsOf(p)) + 1

Begin(p, c, scheduled) ==
  /\ generation[p] = None
  /\ generation' = [generation EXCEPT ![p] =
       [command |-> c, exact |-> Published(c), revision |-> NextRevision(c.period),
        scheduled |-> scheduled]]

Store(g) ==
  IF g.exact THEN UNCHANGED snapshots
  ELSE snapshots' = snapshots \cup
         {[period |-> g.command.period, asOf |-> g.command.asOf,
           formula |-> g.command.formula, revision |-> g.revision]}

-------------------------------------------------------------------------------
(* The users *)

Generate(p, c) ==
  /\ p # Worker
  /\ Begin(p, c, FALSE)
  /\ UNCHANGED <<now, tables, dueAt, out, doomed>>

CommitGenerate(p) ==
  /\ p # Worker /\ generation[p] # None
  /\ Transaction!Commit(p)
  /\ Store(generation[p])
  /\ generation' = [generation EXCEPT ![p] = None]
  /\ UNCHANGED <<now, keys, dueAt>>

Fail(p) ==
  /\ p # Worker /\ generation[p] # None
  /\ Transaction!Rollback(p)
  /\ generation' = [generation EXCEPT ![p] = None]
  /\ UNCHANGED <<now, tables, dueAt>>

-------------------------------------------------------------------------------
(* The worker *)

\* runLatestDue: the run of the latest slot by the clock.
RunLatestDue ==
  LET slot == LatestDue(now)
  IN  /\ dueAt = None
      /\ slot \notin keys
      /\ Begin(Worker, RunFor(slot), TRUE)
      /\ UNCHANGED <<now, tables, dueAt, out, doomed>>

Sleep == dueAt' = NextDue(now)

\* The snapshot, or that of the same command, is there; the worker sleeps until the slot
\* that is next by the clock now.
CommitRun ==
  /\ generation[Worker] # None
  /\ Transaction!Commit(Worker)
  /\ Store(generation[Worker])
  /\ keys' = keys \cup {generation[Worker].command.asOf}
  /\ generation' = [generation EXCEPT ![Worker] = None]
  /\ Sleep
  /\ UNCHANGED now

\* The key of the slot is known: the answer is replayed.
Replay ==
  /\ dueAt = None /\ generation[Worker] = None
  /\ LatestDue(now) \in keys
  /\ Published(RunFor(LatestDue(now)))
  /\ Sleep
  /\ UNCHANGED <<now, tables, generation, out, doomed>>

Wake ==
  /\ dueAt # None /\ now >= dueAt
  /\ dueAt' = None
  /\ UNCHANGED <<now, tables, generation, out, doomed>>

\* The process dies, is stopped or exits with an error, and is started again.
Restart ==
  /\ dueAt' = None
  /\ IF generation[Worker] = None THEN UNCHANGED <<generation, out, doomed>>
     ELSE /\ Transaction!Rollback(Worker)
          /\ generation' = [generation EXCEPT ![Worker] = None]
  /\ UNCHANGED <<now, tables>>

\* 24 hours after, the record is deleted.
KeyExpires(slot) ==
  /\ keys' = keys \ {slot}
  /\ UNCHANGED <<now, snapshots, dueAt, generation, out, doomed>>

Tick ==
  /\ now < MaxTime
  /\ now' = now + 1
  /\ UNCHANGED <<tables, dueAt, generation, out, doomed>>

Next ==
  \/ \E p \in Processes :
       \/ \E c \in Requested : Generate(p, c)
       \/ CommitGenerate(p) \/ Fail(p)
  \/ RunLatestDue \/ CommitRun \/ Replay \/ Wake \/ Restart
  \/ \E slot \in keys : KeyExpires(slot)
  \/ Tick

Spec == Init /\ [][Next]_vars

-------------------------------------------------------------------------------
(* Properties *)

Twin == INSTANCE WeeklyTwin

\* Runs and requests that overlap number the snapshots of a week as if they had come one
\* after the other, and make one of each moment of the data and version of the formulas.
ImplementsTwin == Twin!Spec
===============================================================================
