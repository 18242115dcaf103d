------------------------------ MODULE AccessTwin ------------------------------
(***************************************************************************)
(* Users and their roles as the in-memory service keeps them               *)
(* (access-administration.service.ts, createMemory and updateMemory): one  *)
(* request at a time.                                                      *)
(***************************************************************************)
EXTENDS Naturals

CONSTANTS
  Users,
  Founders    \* administrators from the seed

VARIABLES
  known,      \* registered users
  admin,      \* those with role:admin
  active,
  userVersion

vars == <<known, admin, active, userVersion>>

\* seedMemoryUsers, its other users left out.
Init ==
  /\ known = Founders /\ admin = Founders /\ active = Founders
  /\ userVersion = [u \in Users |-> IF u \in Founders THEN 1 ELSE 0]

Administrators == known \cap admin \cap active

Set(S, u, member) == IF member THEN S \cup {u} ELSE S \ {u}

Stored(u, isAdmin, isActive) ==
  /\ known' = known \cup {u}
  /\ admin' = Set(admin, u, isAdmin)
  /\ active' = Set(active, u, isActive)
  /\ userVersion' = [userVersion EXCEPT ![u] = @ + 1]

Create(u, isAdmin) == u \notin known /\ Stored(u, isAdmin, TRUE)

\* assertSafeAccessChange
Safe(u, toAdmin, toActive) ==
  u \in Administrators /\ ~(toAdmin /\ toActive) => Administrators \ {u} # {}

Update(u, toAdmin, toActive) ==
  /\ u \in known
  /\ Safe(u, toAdmin, toActive)
  /\ Stored(u, toAdmin, toActive)

Next ==
  \E u \in Users :
    \/ \E isAdmin \in BOOLEAN : Create(u, isAdmin)
    \/ \E toAdmin, toActive \in BOOLEAN : Update(u, toAdmin, toActive)

Spec == Init /\ [][Next]_vars
===============================================================================
