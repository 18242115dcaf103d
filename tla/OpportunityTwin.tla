---------------------------- MODULE OpportunityTwin ----------------------------
(***************************************************************************)
(* An opportunity in memory (apps/api/src/today.service.ts,                *)
(* opportunity.service.ts): every operation runs to its end before the     *)
(* next one begins.                                                        *)
(*                                                                         *)
(* In memory an opportunity is the list of its actions, each with a copy   *)
(* of its stage.  Two differences of the list are left open here: it       *)
(* forgets an opportunity without actions, and the one that was closed by  *)
(* completing a task keeps its stage on the actions that remain.  Version, *)
(* status and stage data of the copies are left out.                       *)
(***************************************************************************)
EXTENDS Naturals

CONSTANTS
  Tasks, NoTask,        \* ids of actions
  Working, SX, SL, NoStage

VARIABLES
  stage,
  resume,      \* resumeStages: where the pause began
  open,        \* the actions in the list
  technical    \* the action of the open alert of its placement

twin == <<stage, resume, open, technical>>

Init ==
  /\ stage \in Working \cup {SX, SL} /\ resume = NoStage
  /\ open = {} \/ \E t \in Tasks : open = {t}
  /\ technical = NoTask

\* assertOpportunityTransitionAllowed
Allowed(to) ==
  \/ stage \in Working /\ to \in {SX} \cup (Working \cap {stage + 1})
  \/ stage \in Working /\ stage <= 8 /\ to = SL
  \/ stage = SX /\ to \in {resume, SL} \ {NoStage}

\* completeTask, with the next action.
Complete(t, new) ==
  /\ t \in open /\ new \notin open
  /\ open' = (open \ {t}) \cup {new}
  /\ UNCHANGED <<stage, resume, technical>>

\* completeTask, without one.
CompleteLast(t) ==
  /\ t \in open
  /\ open' = open \ {t}
  /\ stage' \in {stage, SL}
  /\ resume' = IF stage' = SL THEN NoStage ELSE resume
  /\ UNCHANGED technical

\* transition: leaving the funnel takes all actions off the list.
Transition(to) ==
  /\ Allowed(to)
  /\ stage' = to
  /\ resume' = IF to = SX THEN stage ELSE NoStage
  /\ open' = IF to = SL THEN {} ELSE open
  /\ UNCHANGED technical

\* createTechnicalPlacementTask
Alert(new) ==
  /\ technical = NoTask /\ new \notin open
  /\ open' = open \cup {new} /\ technical' = new
  /\ UNCHANGED <<stage, resume>>

\* resolveTechnicalPlacementTask: somebody may have completed it.
Resolve ==
  /\ technical # NoTask
  /\ open' = open \ {technical} /\ technical' = NoTask
  /\ UNCHANGED <<stage, resume>>

\* rescheduleTask moves a deadline, which no property tells apart.
Next ==
  \/ \E t, new \in Tasks : Complete(t, new)
  \/ \E t \in Tasks : CompleteLast(t) \/ Alert(t)
  \/ \E to \in Working \cup {SX, SL} : Transition(to)
  \/ Resolve

Spec == Init /\ [][Next]_twin
================================================================================
