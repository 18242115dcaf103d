------------------------- MODULE AtLeastOnceDelivery -------------------------
(***************************************************************************)
(* What the transactional outbox promises its consumers (ADR-0003): an     *)
(* event handed over by a business transaction may be delivered any number *)
(* of times, by anybody, at any moment; it is confirmed once, and only     *)
(* after some delivery of it succeeded; a confirmed event stays confirmed. *)
(* Consumers therefore deduplicate by event id and never miss an event     *)
(* that the producer believes delivered.                                   *)
(***************************************************************************)
CONSTANT Events

VARIABLES
  accepted,   \* events a consumer has accepted at least once
  confirmed   \* events the producer will not offer again

vars == <<accepted, confirmed>>

TypeOK == /\ accepted \subseteq Events
          /\ confirmed \subseteq Events

Init == accepted = {} /\ confirmed = {}

Accept(e) == /\ accepted' = accepted \cup {e}
             /\ UNCHANGED confirmed

Confirm(e) == /\ e \in accepted
              /\ confirmed' = confirmed \cup {e}
              /\ UNCHANGED accepted

Next == \E e \in Events : Accept(e) \/ Confirm(e)

Spec == Init /\ [][Next]_vars
==============================================================================
