------------------------------ MODULE TodayQueue ------------------------------
(***************************************************************************)
(* The queue of the day and the answers to completions and reschedulings   *)
(* (persistence/postgres-today.service.ts, domain priority.ts and          *)
(* task-reschedule.ts).                                                    *)
(*                                                                         *)
(* A command is a transaction at READ COMMITTED; the queue it answers with *)
(* is read after it, by queries of their own, while others work.  The      *)
(* answer of a completion is then kept with its idempotency record, which  *)
(* replays repeat, and after that it is sent: the code looks for a kept    *)
(* answer before it renders one, and not again when it keeps it.           *)
(*                                                                         *)
(* What a completion writes of the opportunity is in OpportunityLifecycle; *)
(* here it is whether the opportunity waits.  One user sees every task;    *)
(* a count stands for the set of what it counts; records do not expire     *)
(* while a request runs.                                                   *)
(***************************************************************************)
EXTENDS Integers, FiniteSets

CONSTANTS
  Requests,    \* processes that serve one request at a time
  Keys,        \* idempotency keys
  Commands,    \* completions [kind, next, due] and reschedulings [kind, due]
  ScoreOf,     \* partner score of the opportunity
  Acted,       \* bound: the tasks that commands are sent for
  MaxTask,     \* bound: tasks of the opportunity
  MaxDue,      \* bound of deadlines, in days
  MaxDay,      \* bound of the clock
  None

Tasks == 1 .. MaxTask

Dues == 1 .. MaxDue

Days == 1 .. MaxDay

VARIABLES
  day,
  task,       \* of each id: None or [due, version, priority, waiting, completed]
  records,    \* of each operation and key: None or [command, answer]
  trail,      \* audit_log of "task.reschedule"
  serving,    \* of each process: None or what it serves
  sent,       \* history: the answers that were sent to each completion and key
  overlapped  \* history: the completions two requests of a key rendered answers to at once

vars == <<day, task, records, trail, serving, sent, overlapped>>

Operations == [kind : {"complete", "reschedule"}, task : Acted, key : Keys]

-------------------------------------------------------------------------------
(* calculatePriority *)

Clamp(low, high, n) == IF n < low THEN low ELSE IF n > high THEN high ELSE n

\* Math.round of a fifth.
Fifth(n) == (n + 2) \div 5

\* The reasons in the order they are asked for.
Reasons(factors) ==
  LET weights == <<
        CASE factors.overdue > 3 -> 40 [] factors.overdue \in 1 .. 3 -> 25 [] OTHER -> 0,
        IF factors.inbound THEN 20 ELSE 0,
        Fifth(Clamp(0, 100, factors.score)),
        IF factors.integration \/ factors.alert THEN 15 ELSE 0,
        Clamp(0, 10, factors.inactive \div 3),
        IF factors.waiting THEN -20 ELSE 0 >>
      codes == <<"overdue", "inbound", "partner-potential", "technical-risk", "inactivity",
                 "waiting">>
  IN [i \in 1 .. 6 |-> [code |-> codes[i], weight |-> weights[i]]]

Weight(reason) == IF reason.weight < 0 THEN -reason.weight ELSE reason.weight

\* The three that weigh most; of two that weigh the same, the one that is asked for first.
Shown(reasons) ==
  {reasons[i].code : i \in
     {i \in 1 .. 6 :
        /\ reasons[i].weight # 0
        /\ Cardinality({j \in 1 .. 6 : \/ Weight(reasons[j]) > Weight(reasons[i])
                                       \/ Weight(reasons[j]) = Weight(reasons[i]) /\ j < i}) < 3}}

Priority(factors) ==
  LET reasons == Reasons(factors)
      w(i) == reasons[i].weight
  IN [score |-> Clamp(0, 100, w(1) + w(2) + w(3) + w(4) + w(5) + w(6)),
      reasons |-> Shown(reasons)]

\* What a completion tells of the next task; an alert of a placement and an SLA task
\* come with a priority of their own.
NextPriority(waiting) ==
  Priority([overdue |-> 0, inbound |-> FALSE, score |-> ScoreOf, integration |-> FALSE,
            alert |-> FALSE, inactive |-> 0, waiting |-> waiting])

-------------------------------------------------------------------------------
(* getToday *)

Open(t) == task[t] # None /\ task[t].completed = None

\* actionGroup, as of a day.
Group(t, today) ==
  IF task[t].waiting THEN "waiting"
  ELSE IF task[t].due < today \/ task[t].priority.score >= 60 THEN "critical"
  ELSE IF task[t].due = today THEN "today"
  ELSE "later"

ListAsOf(today) ==
  {[task |-> t, due |-> task[t].due, group |-> Group(t, today)] : t \in {s \in Tasks : Open(s)}}

CompletedOn(today) == {t \in Tasks : task[t] # None /\ task[t].completed = today}

RescheduledOn(today) == {e \in trail : e.day = today}

NewTask(due, priority, waiting) ==
  [due |-> due, version |-> 1, priority |-> priority, waiting |-> waiting, completed |-> None]

(* Rows of the tables, what requests know, and what they answer *)

TaskRows ==
  [due : Dues, version : Nat, priority : {NextPriority(waiting) : waiting \in BOOLEAN},
   waiting : BOOLEAN, completed : Days \cup {None}]

Entries == [task : Tasks, due : Dues, group : {"waiting", "critical", "today", "later"}]

Reschedulings == [task : Acted, version : Nat, from : Dues, to : Dues, day : Days]

Answers ==
  [day : Days, list : SUBSET Entries,
   counts : [completed : SUBSET Tasks, rescheduled : SUBSET Reschedulings]]

Records == [command : Commands, answer : Answers \cup {None}]

Services ==
  [step : {"transaction", "committed", "listing", "counting", "rendered", "kept"},
   command : Commands, op : Operations, version : Nat \cup {None}, was : Dues \cup {None},
   day : Days \cup {None}, list : SUBSET Entries, answer : Answers \cup {None}]

QueueAssumption ==
  /\ {MaxTask, MaxDue, MaxDay} \subseteq Nat \ {0}
  /\ Acted \subseteq Tasks /\ ScoreOf \in Nat
  /\ \A command \in Commands :
       \/ command.kind = "complete" /\ command.next = "close"
       \/ command.kind = "complete" /\ command.next \in {"task", "waiting"} /\ command.due \in Dues
       \/ command.kind = "reschedule" /\ command.due \in Dues
  /\ None \notin Nat \cup TaskRows \cup Records \cup Answers

Init ==
  /\ day = 1
  /\ task = [t \in Tasks |-> IF t = 1 THEN NewTask(1, NextPriority(FALSE), FALSE) ELSE None]
  /\ records = [op \in Operations |-> None]
  /\ trail = {}
  /\ serving = [r \in Requests |-> None]
  /\ sent = [op \in Operations |-> {}]
  /\ overlapped = {}

-------------------------------------------------------------------------------
(* completeTask and rescheduleTask *)

Operation(command, t, key) == [kind |-> command.kind, task |-> t, key |-> key]

\* The unique index makes the second insert of a key wait for the first.
KeyIsHeld(op) ==
  \E r \in Requests : serving[r] # None /\ serving[r].op = op /\ serving[r].step = "transaction"

Serve(r, step, command, op, version, due) ==
  serving' = [serving EXCEPT ![r] =
    [step |-> step, command |-> command, op |-> op, version |-> version, was |-> due,
     day |-> None, list |-> {}, answer |-> None]]

\* A new key: the task is read. assertLaterDeadline.
Begin(r, command, t, key) ==
  LET op == Operation(command, t, key) IN
  /\ serving[r] = None /\ ~KeyIsHeld(op) /\ records[op] = None
  /\ Open(t)
  /\ command.kind = "reschedule" => command.due > task[t].due
  /\ Serve(r, "transaction", command, op, task[t].version, task[t].due)
  /\ UNCHANGED <<day, task, records, trail, sent, overlapped>>

\* A key that was used for the same command.
BeginReplay(r, command, t, key) ==
  LET op == Operation(command, t, key) IN
  /\ serving[r] = None /\ records[op] # None /\ records[op].command = command
  /\ Serve(r, "committed", command, op, None, None)
  /\ UNCHANGED <<day, task, records, trail, sent, overlapped>>

\* updateMany WHERE status = OPEN AND version = ...
Unchanged(r) ==
  LET t == serving[r].op.task IN Open(t) /\ task[t].version = serving[r].version

Committed(r) ==
  /\ serving' = [serving EXCEPT ![r].step = "committed", ![r].version = None, ![r].was = None]
  /\ records' = [records EXCEPT ![serving[r].op] =
                   [command |-> serving[r].command, answer |-> None]]

CommitCompletion(r) ==
  LET t == serving[r].op.task
      command == serving[r].command
      done == [task EXCEPT ![t].completed = day, ![t].version = @ + 1]
  IN
  /\ serving[r] # None /\ serving[r].step = "transaction" /\ command.kind = "complete"
  /\ Unchanged(r)
  /\ IF command.next = "close" THEN task' = done
     ELSE \E n \in Tasks :
            /\ task[n] = None /\ \A m \in Tasks : m < n => task[m] # None
            /\ LET waiting == command.next = "waiting" IN
               task' = [done EXCEPT ![n] = NewTask(command.due, NextPriority(waiting), waiting)]
  /\ Committed(r)
  /\ UNCHANGED <<day, trail, sent, overlapped>>

CommitReschedule(r) ==
  LET t == serving[r].op.task
      command == serving[r].command
  IN
  /\ serving[r] # None /\ serving[r].step = "transaction" /\ command.kind = "reschedule"
  /\ Unchanged(r)
  /\ task' = [task EXCEPT ![t].due = command.due, ![t].version = @ + 1]
  /\ trail' = trail \cup {[task |-> t, version |-> serving[r].version + 1, from |-> serving[r].was,
                           to |-> command.due, day |-> day]}
  /\ Committed(r)
  /\ UNCHANGED <<day, sent, overlapped>>

\* ConcurrencyConflictError: the key is free again.
Conflict(r) ==
  /\ serving[r] # None /\ serving[r].step = "transaction" /\ ~Unchanged(r)
  /\ serving' = [serving EXCEPT ![r] = None]
  /\ UNCHANGED <<day, task, records, trail, sent, overlapped>>

Send(r, answer) ==
  /\ serving' = [serving EXCEPT ![r] = None]
  /\ sent' = IF serving[r].op.kind = "complete" THEN [sent EXCEPT ![serving[r].op] = @ \cup {answer}]
             ELSE sent

\* A replay of a completion repeats the answer that is kept.
Repeat(r) ==
  /\ serving[r] # None /\ serving[r].step = "committed"
  /\ records[serving[r].op].answer # None
  /\ Send(r, records[serving[r].op].answer)
  /\ UNCHANGED <<day, task, records, trail, overlapped>>

Rendering(op) ==
  \E r \in Requests :
    serving[r] # None /\ serving[r].op = op /\ serving[r].step \in {"listing", "counting", "rendered"}

\* getToday: its moment decides on the groups, however late the rows are read.
BeginToday(r) ==
  /\ serving[r] # None /\ serving[r].step = "committed"
  /\ records[serving[r].op].answer = None
  /\ serving' = [serving EXCEPT ![r].step = "listing", ![r].day = day]
  /\ overlapped' = IF serving[r].op.kind = "complete" /\ Rendering(serving[r].op)
                   THEN overlapped \cup {serving[r].op} ELSE overlapped
  /\ UNCHANGED <<day, task, records, trail, sent>>

\* The tasks and the counts are read by queries of their own.
ReadList(r) ==
  /\ serving[r] # None /\ serving[r].step = "listing"
  /\ serving' = [serving EXCEPT ![r].step = "counting", ![r].list = ListAsOf(serving[r].day)]
  /\ UNCHANGED <<day, task, records, trail, sent, overlapped>>

CountsOf(today) == [completed |-> CompletedOn(today), rescheduled |-> RescheduledOn(today)]

ReadCounts(r) ==
  /\ serving[r] # None /\ serving[r].step = "counting"
  /\ serving' = [serving EXCEPT ![r].step = "rendered", ![r].answer =
                   [day |-> serving[r].day, list |-> serving[r].list,
                    counts |-> CountsOf(serving[r].day)]]
  /\ UNCHANGED <<day, task, records, trail, sent, overlapped>>

\* idempotencyRecord.update: todayPayload, for completions, whatever was kept meanwhile.
Keep(r) ==
  /\ serving[r] # None /\ serving[r].step = "rendered" /\ serving[r].op.kind = "complete"
  /\ records' = [records EXCEPT ![serving[r].op].answer = serving[r].answer]
  /\ serving' = [serving EXCEPT ![r].step = "kept"]
  /\ UNCHANGED <<day, task, trail, sent, overlapped>>

Respond(r) ==
  /\ serving[r] # None
  /\ serving[r].step = IF serving[r].op.kind = "complete" THEN "kept" ELSE "rendered"
  /\ Send(r, serving[r].answer)
  /\ UNCHANGED <<day, task, records, trail, overlapped>>

\* The process dies, or its answer is lost: a transaction under way is rolled back.
Die(r) ==
  /\ serving[r] # None
  /\ serving' = [serving EXCEPT ![r] = None]
  /\ UNCHANGED <<day, task, records, trail, sent, overlapped>>

Midnight ==
  /\ day < MaxDay /\ day' = day + 1
  /\ UNCHANGED <<task, records, trail, serving, sent, overlapped>>

Next ==
  \/ \E r \in Requests :
       \/ \E command \in Commands, t \in Acted, key \in Keys :
            Begin(r, command, t, key) \/ BeginReplay(r, command, t, key)
       \/ CommitCompletion(r) \/ CommitReschedule(r) \/ Conflict(r)
       \/ Repeat(r) \/ BeginToday(r) \/ ReadList(r) \/ ReadCounts(r) \/ Keep(r)
       \/ Respond(r) \/ Die(r)
  \/ Midnight

Spec == Init /\ [][Next]_vars

-------------------------------------------------------------------------------
TypeOK ==
  /\ day \in Days
  /\ task \in [Tasks -> TaskRows \cup {None}]
  /\ records \in [Operations -> Records \cup {None}]
  /\ trail \subseteq Reschedulings
  /\ serving \in [Requests -> Services \cup {None}]
  /\ sent \in [Operations -> SUBSET Answers]
  /\ overlapped \subseteq Operations

\* Whatever it overlaps with, and however often it is rendered, the answer to a completion
\* shows the task no more, counts it if it is of that day, and the answer to a rescheduling
\* shows no deadline before the one that was asked for.
AnswersTellOutcome ==
  /\ \A r \in Requests : serving[r] # None =>
       LET op == serving[r].op IN
       \A entry \in serving[r].list : entry.task = op.task =>
         op.kind = "reschedule" /\ entry.due >= serving[r].command.due
  /\ \A op \in Operations : \A answer \in sent[op] :
       /\ \A entry \in answer.list : entry.task # op.task
       /\ answer.day = task[op.task].completed => op.task \in answer.counts.completed

\* The code comment of completeTask: a completion that was answered is answered so again, by
\* whatever process, on whatever day, and although processes die after they keep an answer and
\* before they send it.  Not so if two requests of the key render answers at once: each keeps
\* its own, and sends it, in any order.
ReplayRepeats ==
  \A op \in Operations \ overlapped : \A answer \in sent[op] : records[op].answer = answer

\* The audit of reschedulings is a chain: each starts from the deadline the last one left,
\* and deadlines only become later.
TrailIsAChain ==
  \A e \in trail :
    /\ e.from < e.to
    /\ \A o \in trail : (o # e /\ o.task = e.task /\ o.version <= e.version) => o.to <= e.from
===============================================================================
