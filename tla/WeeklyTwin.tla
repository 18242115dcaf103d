------------------------------ MODULE WeeklyTwin ------------------------------
(***************************************************************************)
(* What the weekly report promises (ADR-0005): the snapshots of a week are *)
(* never changed, one is made for each moment of the data and version of   *)
(* the formulas, and they are numbered 1, 2, ... as they come.  This is    *)
(* the service in memory (report.service.ts).                              *)
(***************************************************************************)
EXTENDS Naturals, FiniteSets

CONSTANTS Commands   \* the commands parseGenerateWeeklyReportCommand lets through

VARIABLE snapshots

Init == snapshots = {}

OfPeriod(p) == {s \in snapshots : s.period = p}

IsExact(s, c) == s.period = c.period /\ s.asOf = c.asOf /\ s.formula = c.formula

GenerateWeekly(c) ==
  /\ ~\E s \in snapshots : IsExact(s, c)
  /\ snapshots' = snapshots \cup
       {[period |-> c.period, asOf |-> c.asOf, formula |-> c.formula,
         revision |-> Cardinality(OfPeriod(c.period)) + 1]}

Next == \E c \in Commands : GenerateWeekly(c)

Spec == Init /\ [][Next]_snapshots
===============================================================================
