----------------------------- MODULE ContactTwin -----------------------------
(***************************************************************************)
(* The contact registry without concurrency: contact-registry.service.ts,  *)
(* the in-memory service behind the same API, where every operation is one *)
(* synchronous call.  ContactRegistry, the transactions over PostgreSQL,   *)
(* implements it: whatever its requests do at once, the effect is that of  *)
(* these calls in some order.  That service finds a contact through its    *)
(* links; here it is found by its profile, as in the table.                *)
(***************************************************************************)
EXTENDS Naturals

CONSTANTS Contacts, Orgs, None

VARIABLES
  state,    \* of each profile: absent, active or archived
  version,  \* of each profile
  merged,   \* mergedContacts: the contact each retired one was merged into
  link,     \* the contacts of each organization
  primary   \* those of them with isPrimary

vars == <<state, version, merged, link, primary>>

Init ==
  /\ state \in [Contacts -> {"absent", "active"}]
  /\ version = [c \in Contacts |-> 1]
  /\ merged = [c \in Contacts |-> None]
  /\ link \in [Orgs -> SUBSET {c \in Contacts : state[c] = "active"}]
  /\ primary \in [Orgs -> SUBSET Contacts]
  /\ \A o \in Orgs : primary[o] \subseteq link[o]

\* A new contact becomes primary in an organization that has no contacts.
Add(o, c) ==
  /\ link' = [link EXCEPT ![o] = @ \cup {c}]
  /\ primary' = IF link[o] = {} THEN [primary EXCEPT ![o] = {c}] ELSE primary

\* registerProfile: another service brings in a contact.
Register(c) ==
  /\ state[c] = "absent"
  /\ state' = [state EXCEPT ![c] = "active"]
  /\ UNCHANGED <<version, merged, link, primary>>

Create(o, c) ==
  /\ state[c] = "absent"
  /\ state' = [state EXCEPT ![c] = "active"]
  /\ Add(o, c)
  /\ UNCHANGED <<version, merged>>

Link(o, c) ==
  /\ state[c] # "absent" /\ merged[c] = None /\ c \notin link[o]
  /\ Add(o, c)
  /\ UNCHANGED <<state, version, merged>>

\* The links of the source move to the target with their isPrimary, unless the target
\* has one; contacts merged into the source are repointed.
Merge(s, t) ==
  /\ s # t /\ merged[s] = None /\ merged[t] = None
  /\ state[s] # "absent" /\ state[t] # "absent"
  /\ link' = [o \in Orgs |->
       IF s \in link[o] THEN (link[o] \ {s}) \cup {t} ELSE link[o]]
  /\ primary' = [o \in Orgs |->
       IF s \in primary[o] /\ t \notin link[o]
         THEN (primary[o] \ {s}) \cup {t} ELSE primary[o] \ {s}]
  /\ merged' = [c \in Contacts |-> IF c = s \/ merged[c] = s THEN t ELSE merged[c]]
  /\ UNCHANGED <<state, version>>

Update(c) ==
  /\ state[c] = "active" /\ merged[c] = None
  /\ version' = [version EXCEPT ![c] = @ + 1]
  /\ UNCHANGED <<state, merged, link, primary>>

\* changeContactArchived
ChangeArchived(c) ==
  /\ state[c] # "absent" /\ merged[c] = None
  /\ state' = [state EXCEPT ![c] = IF @ = "active" THEN "archived" ELSE "active"]
  /\ version' = [version EXCEPT ![c] = @ + 1]
  /\ UNCHANGED <<merged, link, primary>>

Next ==
  \/ \E c \in Contacts : Register(c) \/ Update(c) \/ ChangeArchived(c)
  \/ \E o \in Orgs, c \in Contacts : Create(o, c) \/ Link(o, c)
  \/ \E s, t \in Contacts : Merge(s, t)

Spec == Init /\ [][Next]_vars
=============================================================================
