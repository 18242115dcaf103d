------------------------- MODULE SerializableSnapshot -------------------------
(***************************************************************************)
(* What PostgreSQL's SERIALIZABLE transactions see of each other.  Each    *)
(* reads from its snapshot, taken with its first statement; a lock it      *)
(* waits for after that does not show it what the holder has written.      *)
(*                                                                         *)
(* A transaction reads and writes items: rows, and searches, which find    *)
(* rows that are added or changed later as well.  u ->rw v when u has read *)
(* what v has written since.  Of u ->rw t ->rw v, v the first of them to   *)
(* commit, t does not commit; nor does a transaction that writes a row     *)
(* written since its snapshot.                                             *)
(***************************************************************************)

CONSTANT Transactions

VARIABLES
  footprint, \* of each transaction under way: the items it reads and writes, and the rows
             \* among those; all empty when it is not under way
  out,       \* transactions that have read what another one has written since
  doomed     \* transactions that will not commit

Idle == [reads |-> {}, writes |-> {}, rows |-> {}]

Active(t) == footprint[t] # Idle

\* Mutant: REPEATABLE READ, where reading what another one writes goes unnoticed.
NeverReads(u, v) == FALSE

ReadsWritten(u, v) == u.reads \cap v.writes # {}

\* t is the middle of two conflicts, the first of them under way, the last committed.
Pivot(t) ==
  /\ t \in out
  /\ \E u \in Transactions \ {t} : Active(u) /\ ReadsWritten(footprint[u], footprint[t])

MayCommit(t) == t \notin doomed /\ ~Pivot(t)

\* What a commit of f means for the other transactions under way.
Committed(f, others) ==
  LET late == {u \in others : ReadsWritten(footprint[u], f)}
  IN  /\ out' = (out \cap others) \cup late
      /\ doomed' = (doomed \cap others)
           \cup {u \in others : footprint[u].rows \cap f.rows # {}}
           \cup {u \in others : u \in out \cup late /\ ReadsWritten(f, footprint[u])}

Commit(t) == MayCommit(t) /\ Committed(footprint[t], {u \in Transactions \ {t} : Active(u)})

\* A transaction that begins and commits in one step.
CommitAtOnce(f) == Committed(f, {u \in Transactions : Active(u)})

Rollback(t) == out' = out \ {t} /\ doomed' = doomed \ {t}
===============================================================================
