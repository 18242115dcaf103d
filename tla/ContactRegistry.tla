--------------------------- MODULE ContactRegistry ---------------------------
(***************************************************************************)
(* The contact registry over PostgreSQL (postgres-contact.service.ts) with *)
(* the two others who write its tables: the interaction of a completed     *)
(* task (createInteraction of prisma-task-completion.store.ts) and the     *)
(* contact of an imported organization (createImportedContact of           *)
(* postgres-organization-import.service.ts).                               *)
(*                                                                         *)
(* Requests are transactions.  What they have read and the advisory locks  *)
(* they hold are their state; their writes are one step, the commit, which *)
(* also releases the locks.  All but the import run under READ COMMITTED:  *)
(* each statement sees what is committed when it starts, so the WHERE of a *)
(* write is evaluated at the commit.                                       *)
(***************************************************************************)
EXTENDS Naturals, FiniteSets, TLC

CONSTANTS
  Users,       \* requests in flight
  Contacts,    \* contact ids: numbers, because locks are taken in their order
  Orgs,        \* organization ids
  Channels,    \* normalized e-mails, phones and messengers
  None,        \* NULL
  Seeds,       \* how many contacts there may be to begin with
  MaxVersion,  \* bound: forms are opened below this version
  Editable     \* bound: the contacts that are edited and archived

ASSUME IdsAssumption ==
  /\ Contacts \subseteq Nat /\ Orgs \subseteq Nat /\ Channels \subseteq Nat
  /\ None \notin Contacts \cup Orgs \cup Users
ASSUME RequestsAssumption == IsFiniteSet(Users)
ASSUME BoundsAssumption == Seeds \subseteq Nat /\ MaxVersion \in Nat /\ Editable \subseteq Contacts

VARIABLES
  \* rows
  state,         \* of a contact: absent, active or archived (archived_at)
  version,       \* of a contact
  merged,        \* merged_into_id
  channels,      \* email, phone, messenger
  link,          \* the contacts with an active link (valid_to is NULL) to each organization
  primary,       \* those of them with is_primary
  known,         \* organizations that exist
  interacted,    \* contacts with rows in interaction
  \* requests
  pc,            \* the point a request has reached
  contact,       \* the contact it is about
  other,         \* the target of a merge; the contact an interaction goes to
  org,           \* the organization it is about
  form,          \* version and channels the client has seen, channels it sends
  from,          \* organizations of the source's links
  lead,          \* the organization had no active link
  \* advisory locks
  want, wantLinks, wantChannels,    \* those a request has yet to take
  graphLock, mergeLock, linksLock, channelLock, registryLock,
  \* history
  imported       \* organizations of the import

rows == <<state, version, merged, channels, link, primary, known, interacted>>
locals == <<contact, other, org, form, from, lead>>
wants == <<want, wantLinks, wantChannels>>
locks == <<graphLock, mergeLock, linksLock, channelLock, registryLock>>
vars == <<rows, pc, locals, wants, locks, imported>>

Owners == Users \cup {None}
Forms == [version : Nat, seen : SUBSET Channels, sent : SUBSET Channels]
Blank == [version |-> 1, seen |-> {}, sent |-> {}]

RowsTypeOK ==
  /\ state \in [Contacts -> {"absent", "active", "archived"}]
  /\ version \in [Contacts -> Nat]
  /\ merged \in [Contacts -> Contacts \cup {None}]
  /\ channels \in [Contacts -> SUBSET Channels]
  /\ link \in [Orgs -> SUBSET Contacts]
  /\ primary \in [Orgs -> SUBSET Contacts]
  /\ known \subseteq Orgs /\ interacted \subseteq Contacts
  /\ imported \subseteq Orgs

LocalsTypeOK ==
  /\ pc \in [Users -> {"idle", "graph", "pair", "past", "merging", "failed", "link",
                       "linking", "linked", "create", "creating", "record", "recording",
                       "update", "updating", "archive", "archiving", "importing"}]
  /\ contact \in [Users -> Contacts \cup {None}]
  /\ other \in [Users -> Contacts \cup {None}]
  /\ org \in [Users -> Orgs \cup {None}]
  /\ form \in [Users -> Forms]
  /\ from \in [Users -> SUBSET Orgs]
  /\ lead \in [Users -> BOOLEAN]
  /\ want \in [Users -> SUBSET Contacts]
  /\ wantLinks \in [Users -> SUBSET Orgs]
  /\ wantChannels \in [Users -> SUBSET Channels]

LocksTypeOK ==
  /\ graphLock \in Owners
  /\ mergeLock \in [Contacts -> Owners]
  /\ linksLock \in [Orgs -> Owners]
  /\ channelLock \in [Channels -> Owners]
  /\ registryLock \in [Contacts -> Owners]

TypeOK == RowsTypeOK /\ LocalsTypeOK /\ LocksTypeOK

Active(c) == state[c] = "active" /\ merged[c] = None

\* A contact that a request may still be about when it starts: one that was merged away
\* is refused by every operation, whatever happens meanwhile.
Exists(c) == state[c] # "absent" /\ merged[c] = None

Least(S) == CHOOSE x \in S : \A y \in S : x <= y

\* randomUUID: the next contact takes the smallest id no row has.
IsNew(c) == state[c] = "absent" /\ \A d \in Contacts : d < c => state[d] # "absent"

\* The contacts a create or an update would show as duplicates.
Duplicates(S, c) ==
  {d \in Contacts \ {c} : Active(d) /\ channels[d] \cap S # {}}

Init ==
  /\ \E n \in Seeds :
       state = [c \in Contacts |-> IF c <= n THEN "active" ELSE "absent"]
  /\ version = [c \in Contacts |-> 1]
  /\ merged = [c \in Contacts |-> None]
  /\ channels = [c \in Contacts |-> {}]
  /\ known \in SUBSET Orgs
  /\ link \in [Orgs -> SUBSET {c \in Contacts : state[c] = "active"}]
  /\ \A o \in Orgs \ known : link[o] = {}
  /\ primary \in [Orgs -> {{}} \cup {{c} : c \in Contacts}]
  /\ \A o \in Orgs : primary[o] \subseteq link[o] /\ (link[o] # {} => primary[o] # {})
  /\ interacted = {}
  /\ pc = [u \in Users |-> "idle"]
  /\ contact = [u \in Users |-> None]
  /\ other = [u \in Users |-> None]
  /\ org = [u \in Users |-> None]
  /\ form = [u \in Users |-> Blank]
  /\ from = [u \in Users |-> {}]
  /\ lead = [u \in Users |-> FALSE]
  /\ want = [u \in Users |-> {}]
  /\ wantLinks = [u \in Users |-> {}]
  /\ wantChannels = [u \in Users |-> {}]
  /\ graphLock = None
  /\ mergeLock = [c \in Contacts |-> None]
  /\ linksLock = [o \in Orgs |-> None]
  /\ channelLock = [ch \in Channels |-> None]
  /\ registryLock = [c \in Contacts |-> None]
  /\ imported = {}

-------------------------------------------------------------------------------
(* Transactions and advisory locks *)

\* The transaction of u ends: pg_advisory_xact_lock is released with it.
End(u) ==
  /\ pc' = [pc EXCEPT ![u] = "idle"]
  /\ contact' = [contact EXCEPT ![u] = None]
  /\ other' = [other EXCEPT ![u] = None]
  /\ org' = [org EXCEPT ![u] = None]
  /\ form' = [form EXCEPT ![u] = Blank]
  /\ from' = [from EXCEPT ![u] = {}]
  /\ lead' = [lead EXCEPT ![u] = FALSE]
  /\ want' = [want EXCEPT ![u] = {}]
  /\ wantLinks' = [wantLinks EXCEPT ![u] = {}]
  /\ wantChannels' = [wantChannels EXCEPT ![u] = {}]
  /\ graphLock' = IF graphLock = u THEN None ELSE graphLock
  /\ mergeLock' = [c \in Contacts |-> IF mergeLock[c] = u THEN None ELSE mergeLock[c]]
  /\ linksLock' = [o \in Orgs |-> IF linksLock[o] = u THEN None ELSE linksLock[o]]
  /\ channelLock' = [ch \in Channels |->
                       IF channelLock[ch] = u THEN None ELSE channelLock[ch]]
  /\ registryLock' = [c \in Contacts |->
                        IF registryLock[c] = u THEN None ELSE registryLock[c]]

\* A refusal (404, 409, 422), an error or a lost connection rolls everything back.
Abort(u) == pc[u] # "idle" /\ End(u) /\ UNCHANGED <<rows, imported>>

\* Of several locks of a kind the least is taken first.
First(S, x) == x \in S /\ x = Least(S)

TakeMergeLock(u) ==
  \E c \in Contacts :
    /\ First(want[u], c)
    /\ mergeLock[c] = None
    /\ mergeLock' = [mergeLock EXCEPT ![c] = u]
    /\ want' = [want EXCEPT ![u] = @ \ {c}]
    /\ UNCHANGED <<rows, pc, locals, wantLinks, wantChannels, graphLock, linksLock,
                   channelLock, registryLock, imported>>

TakeLinksLock(u) ==
  \E o \in Orgs :
    /\ First(wantLinks[u], o)
    /\ linksLock[o] = None
    /\ linksLock' = [linksLock EXCEPT ![o] = u]
    /\ wantLinks' = [wantLinks EXCEPT ![u] = @ \ {o}]
    /\ UNCHANGED <<rows, pc, locals, want, wantChannels, graphLock, mergeLock,
                   channelLock, registryLock, imported>>

TakeChannelLock(u) ==
  \E ch \in Channels :
    /\ First(wantChannels[u], ch)
    /\ channelLock[ch] = None
    /\ channelLock' = [channelLock EXCEPT ![ch] = u]
    /\ wantChannels' = [wantChannels EXCEPT ![u] = @ \ {ch}]
    /\ UNCHANGED <<rows, pc, locals, want, wantLinks, graphLock, mergeLock,
                   linksLock, registryLock, imported>>

-------------------------------------------------------------------------------
(* createContact *)

StartCreate(u) ==
  \E o \in known, S \in (SUBSET Channels) \ {{}} :
    /\ pc[u] = "idle"
    /\ pc' = [pc EXCEPT ![u] = "create"]
    /\ org' = [org EXCEPT ![u] = o]
    /\ form' = [form EXCEPT ![u].sent = S]
    /\ wantChannels' = [wantChannels EXCEPT ![u] = S]
    /\ UNCHANGED <<rows, contact, other, from, lead, want, wantLinks, locks, imported>>

\* Mutant: the first contact of an organization is counted without its lock.
CreateReadUnlocked(u) ==
  /\ pc[u] = "create" /\ wantChannels[u] = {}
  /\ Duplicates(form[u].sent, None) = {}
  /\ lead' = [lead EXCEPT ![u] = link[org[u]] = {}]
  /\ pc' = [pc EXCEPT ![u] = "creating"]
  /\ UNCHANGED <<rows, contact, other, org, form, from, wants, locks, imported>>

\* The links lock is the last one; a read that follows a lock is part of taking it.
CreateRead(u) ==
  /\ pc[u] = "create" /\ wantChannels[u] = {}
  /\ linksLock[org[u]] = None
  /\ linksLock' = [linksLock EXCEPT ![org[u]] = u]
  /\ Duplicates(form[u].sent, None) = {}
  /\ lead' = [lead EXCEPT ![u] = link[org[u]] = {}]
  /\ pc' = [pc EXCEPT ![u] = "creating"]
  /\ UNCHANGED <<rows, contact, other, org, form, from, wants, graphLock, mergeLock,
                 channelLock, registryLock, imported>>

Insert(c, S) ==
  /\ IsNew(c)
  /\ state' = [state EXCEPT ![c] = "active"]
  /\ channels' = [channels EXCEPT ![c] = S]

InsertLink(o, c, isPrimary) ==
  /\ link' = [link EXCEPT ![o] = @ \cup {c}]
  /\ primary' = IF isPrimary THEN [primary EXCEPT ![o] = @ \cup {c}] ELSE primary

Create(u) ==
  \E c \in Contacts :
    /\ pc[u] = "creating"
    /\ Insert(c, form[u].sent)
    /\ InsertLink(org[u], c, lead[u])
    /\ End(u)
    /\ UNCHANGED <<version, merged, known, interacted, imported>>

-------------------------------------------------------------------------------
(* linkContact *)

StartLink(u) ==
  \E o \in known, c \in Contacts :
    /\ pc[u] = "idle" /\ Exists(c)
    /\ pc' = [pc EXCEPT ![u] = "link"]
    /\ org' = [org EXCEPT ![u] = o]
    /\ contact' = [contact EXCEPT ![u] = c]
    /\ UNCHANGED <<rows, other, form, from, lead, wants, locks, imported>>

LinkRead(u) ==
  /\ pc[u] = "link" /\ mergeLock[contact[u]] = None
  /\ mergeLock' = [mergeLock EXCEPT ![contact[u]] = u]
  /\ Active(contact[u])
  /\ pc' = [pc EXCEPT ![u] = "linking"]
  /\ UNCHANGED <<rows, locals, wants, graphLock, linksLock, channelLock, registryLock,
                 imported>>

LinkCount(u) ==
  /\ pc[u] = "linking" /\ linksLock[org[u]] = None
  /\ linksLock' = [linksLock EXCEPT ![org[u]] = u]
  /\ contact[u] \notin link[org[u]]
  /\ lead' = [lead EXCEPT ![u] = link[org[u]] = {}]
  /\ pc' = [pc EXCEPT ![u] = "linked"]
  /\ UNCHANGED <<rows, contact, other, org, form, from, wants, graphLock, mergeLock,
                 channelLock, registryLock, imported>>

\* The unique index admits one active link of a contact to an organization.
Link(u) ==
  /\ pc[u] = "linked"
  /\ contact[u] \notin link[org[u]]
  /\ InsertLink(org[u], contact[u], lead[u])
  /\ End(u)
  /\ UNCHANGED <<state, version, merged, channels, known, interacted, imported>>

-------------------------------------------------------------------------------
(* mergeContact *)

StartMerge(u) ==
  \E s, t \in Contacts :
    /\ pc[u] = "idle" /\ s # t /\ Exists(s) /\ Exists(t)
    /\ pc' = [pc EXCEPT ![u] = "graph"]
    /\ contact' = [contact EXCEPT ![u] = s]
    /\ other' = [other EXCEPT ![u] = t]
    /\ UNCHANGED <<rows, org, form, from, lead, wants, locks, imported>>

\* Mutant: merges of different pairs do not wait for each other.
TakeGraphLockNot(u) ==
  /\ pc[u] = "graph"
  /\ want' = [want EXCEPT ![u] = {contact[u], other[u]}]
  /\ pc' = [pc EXCEPT ![u] = "pair"]
  /\ UNCHANGED <<rows, locals, wantLinks, wantChannels, locks, imported>>

TakeGraphLock(u) ==
  /\ pc[u] = "graph" /\ graphLock = None
  /\ graphLock' = u
  /\ want' = [want EXCEPT ![u] = {contact[u], other[u]}]
  /\ pc' = [pc EXCEPT ![u] = "pair"]
  /\ UNCHANGED <<rows, locals, wantLinks, wantChannels, mergeLock, linksLock,
                 channelLock, registryLock, imported>>

\* Mutant: only the source and the target are locked.
RetiredForgotten(s) == {}

\* Contacts merged into the source earlier are locked as well.
Retired(s) == {c \in Contacts : merged[c] = s}

MergeRead(u) ==
  /\ pc[u] = "pair" /\ want[u] = {}
  /\ Active(contact[u]) /\ Active(other[u])
  /\ want' = [want EXCEPT ![u] = Retired(contact[u])]
  /\ pc' = [pc EXCEPT ![u] = "past"]
  /\ UNCHANGED <<rows, locals, wantLinks, wantChannels, locks, imported>>

MergeLinks(u) ==
  /\ pc[u] = "past" /\ want[u] = {}
  /\ LET orgs == {o \in Orgs : contact[u] \in link[o]}
     IN  /\ from' = [from EXCEPT ![u] = orgs]
         /\ wantLinks' = [wantLinks EXCEPT ![u] = orgs]
  /\ pc' = [pc EXCEPT ![u] = "merging"]
  /\ UNCHANGED <<rows, contact, other, org, form, lead, want, wantChannels, locks,
                 imported>>

\* Links the target has already are closed, the others moved with their is_primary.
Moved(o, s, t) == (link[o] \ {s}) \cup {t}

\* Mutant: a moved link is no longer primary.
DroppedPrimary(o, s, t) == primary[o] \ {s}

MovedPrimary(o, s, t) ==
  IF s \in primary[o] /\ t \notin link[o]
    THEN (primary[o] \ {s}) \cup {t} ELSE primary[o] \ {s}

\* Mutant: contacts merged into the source earlier keep pointing to it.
Chained(s, t) == [merged EXCEPT ![s] = t]

Repointed(s, t) ==
  [c \in Contacts |-> IF c = s \/ merged[c] = s THEN t ELSE merged[c]]

\* interaction_append_only refuses to move interactions, if there is one.
Merge(u) ==
  LET s == contact[u]
      t == other[u]
      orgs == {o \in from[u] : s \in link[o]}
  IN  /\ pc[u] = "merging" /\ wantLinks[u] = {}
      /\ s \notin interacted
      /\ link' = [o \in Orgs |-> IF o \in orgs THEN Moved(o, s, t) ELSE link[o]]
      /\ primary' = [o \in Orgs |->
           IF o \in orgs THEN MovedPrimary(o, s, t) ELSE primary[o]]
      /\ merged' = Repointed(s, t)
      /\ End(u)
      /\ UNCHANGED <<state, version, channels, known, interacted, imported>>

\* The trigger's exception: the answer is an error, and Abort rolls back.
MergeFails(u) ==
  /\ pc[u] = "merging" /\ wantLinks[u] = {}
  /\ contact[u] \in interacted
  /\ pc' = [pc EXCEPT ![u] = "failed"]
  /\ UNCHANGED <<rows, locals, wants, locks, imported>>

-------------------------------------------------------------------------------
(* updateContact, archiveContact, restoreContact *)

\* The client sends the version it has read, at some time before.
StartEdit(u) ==
  \E c \in Editable, S \in (SUBSET Channels) \ {{}}, point \in {"update", "archive"} :
    /\ pc[u] = "idle" /\ Exists(c) /\ version[c] < MaxVersion
    /\ pc' = [pc EXCEPT ![u] = point]
    /\ contact' = [contact EXCEPT ![u] = c]
    /\ form' = [form EXCEPT ![u] =
         [version |-> version[c], seen |-> channels[c], sent |-> S]]
    /\ UNCHANGED <<rows, other, org, from, lead, wants, locks, imported>>

\* Mutant: the version the client has read is not compared.
AnyVersion(u) == TRUE

\* assertEditableContact, and the WHERE of the updates
SameVersion(u) == version[contact[u]] = form[u].version

TakeRegistryLock(u) ==
  /\ registryLock[contact[u]] = None
  /\ registryLock' = [registryLock EXCEPT ![contact[u]] = u]

UpdateRead(u) ==
  /\ pc[u] = "update"
  /\ TakeRegistryLock(u)
  /\ Active(contact[u]) /\ SameVersion(u)
  /\ Duplicates(form[u].sent, contact[u]) = {}
  /\ pc' = [pc EXCEPT ![u] = "updating"]
  /\ UNCHANGED <<rows, locals, wants, graphLock, mergeLock, linksLock, channelLock,
                 imported>>

Edited(c) == version' = [version EXCEPT ![c] = @ + 1]

Update(u) ==
  /\ pc[u] = "updating"
  /\ SameVersion(u) /\ Active(contact[u])
  /\ channels' = [channels EXCEPT ![contact[u]] = form[u].sent]
  /\ Edited(contact[u])
  /\ End(u)
  /\ UNCHANGED <<state, merged, link, primary, known, interacted, imported>>

ArchiveRead(u) ==
  /\ pc[u] = "archive"
  /\ TakeRegistryLock(u)
  /\ merged[contact[u]] = None /\ SameVersion(u)
  /\ pc' = [pc EXCEPT ![u] = "archiving"]
  /\ UNCHANGED <<rows, locals, wants, graphLock, mergeLock, linksLock, channelLock,
                 imported>>

\* archive of an active contact, restore of an archived one
ChangeArchived(u) ==
  /\ pc[u] = "archiving"
  /\ SameVersion(u) /\ merged[contact[u]] = None
  /\ state' = [state EXCEPT ![contact[u]] =
       IF @ = "active" THEN "archived" ELSE "active"]
  /\ Edited(contact[u])
  /\ End(u)
  /\ UNCHANGED <<merged, channels, link, primary, known, interacted, imported>>

-------------------------------------------------------------------------------
(* createInteraction of a task's completion *)

\* getTask offers active contacts linked to the organization of the task.
StartRecord(u) ==
  \E c \in UNION {link[o] : o \in Orgs} :
    /\ pc[u] = "idle" /\ Active(c)
    /\ pc' = [pc EXCEPT ![u] = "record"]
    /\ contact' = [contact EXCEPT ![u] = c]
    /\ UNCHANGED <<rows, other, org, form, from, lead, wants, locks, imported>>

\* Mutant: only a merged contact is resolved, another becomes NULL.
MergedOnly(c) == merged[c]

Survivor(c) == IF merged[c] = None THEN c ELSE merged[c]

RecordRead(u) ==
  LET c == contact[u]
  IN  /\ pc[u] = "record" /\ mergeLock[c] = None
      /\ mergeLock' = [mergeLock EXCEPT ![c] = u]
      /\ other' = [other EXCEPT ![u] = Survivor(c)]
      /\ pc' = [pc EXCEPT ![u] = "recording"]
      /\ UNCHANGED <<rows, contact, org, form, from, lead, wants, graphLock, linksLock,
                     channelLock, registryLock, imported>>

Record(u) ==
  /\ pc[u] = "recording"
  /\ interacted' = interacted \cup {other[u]}
  /\ End(u)
  /\ UNCHANGED <<state, version, merged, channels, link, primary, known, imported>>

-------------------------------------------------------------------------------
(* createImportedContact: SERIALIZABLE, no advisory lock of the registry *)

\* The snapshot: a contact with the row's e-mail, if there is one.
ImportRead(u) ==
  \E o \in Orgs \ known, ch \in Channels, c \in Contacts \cup {None} :
    /\ pc[u] = "idle"
    /\ IF Duplicates({ch}, None) = {} THEN c = None ELSE c \in Duplicates({ch}, None)
    /\ pc' = [pc EXCEPT ![u] = "importing"]
    /\ org' = [org EXCEPT ![u] = o]
    /\ contact' = [contact EXCEPT ![u] = c]
    /\ form' = [form EXCEPT ![u].sent = {ch}]
    /\ UNCHANGED <<rows, other, from, lead, wants, locks, imported>>

Import(u) ==
  \E c \in Contacts :
    /\ pc[u] = "importing" /\ org[u] \notin known
    /\ \/ contact[u] = None /\ Insert(c, form[u].sent)
       \/ contact[u] = c /\ UNCHANGED <<state, channels>>
    /\ InsertLink(org[u], c, TRUE)
    /\ known' = known \cup {org[u]}
    /\ imported' = imported \cup {org[u]}
    /\ End(u)
    /\ UNCHANGED <<version, merged, interacted>>

-------------------------------------------------------------------------------
Next ==
  \E u \in Users :
    \/ TakeMergeLock(u) \/ TakeLinksLock(u) \/ TakeChannelLock(u) \/ Abort(u)
    \/ StartCreate(u) \/ CreateRead(u) \/ Create(u)
    \/ StartLink(u) \/ LinkRead(u) \/ LinkCount(u) \/ Link(u)
    \/ StartMerge(u) \/ TakeGraphLock(u) \/ MergeRead(u) \/ MergeLinks(u) \/ Merge(u)
    \/ MergeFails(u)
    \/ StartEdit(u) \/ UpdateRead(u) \/ Update(u) \/ ArchiveRead(u) \/ ChangeArchived(u)
    \/ StartRecord(u) \/ RecordRead(u) \/ Record(u)
    \/ ImportRead(u) \/ Import(u)

Spec == Init /\ [][Next]_vars

-------------------------------------------------------------------------------
(* Properties *)

\* A contact is merged into one that is not merged itself: later merges repoint what
\* was merged before, so one step finds the survivor (createInteraction takes one).
FlatMerges == \A c \in Contacts : merged[c] # None => merged[merged[c]] = None

\* No interaction goes to a contact that was merged away, however late the completion
\* of the task comes: the locks of mergeContact and createInteraction exclude it.
HistoryFollowsSurvivor == \A c \in interacted : merged[c] = None

\* Nobody has to follow more than one merge to find whom a history is about.
HistoryIsFound == FlatMerges /\ HistoryFollowsSurvivor

\* An organization has at most one primary contact, although creations, links and
\* merges decide on it from links they have read before.
OnePrimary == \A o \in Orgs : \A c, d \in primary[o] : c = d

\* An edit is applied to what its author saw: channels written by others after the
\* form was opened are not overwritten.
NoLostUpdate ==
  [][\A u \in Users :
       pc[u] = "updating" /\ version'[contact[u]] # version[contact[u]]
         /\ pc'[u] = "idle"
       => channels[contact[u]] = form[u].seen]_vars

\* u waits for a lock that v holds.
WaitsFor(u, v) ==
  u # v /\ v \in
    (IF pc[u] = "graph" THEN {graphLock} ELSE {})
    \cup (IF pc[u] \in {"link", "record"} THEN {mergeLock[contact[u]]} ELSE {})
    \cup {mergeLock[c] : c \in {c \in want[u] : First(want[u], c)}}
    \cup (IF pc[u] = "linking" \/ (pc[u] = "create" /\ wantChannels[u] = {})
            THEN {linksLock[org[u]]} ELSE {})
    \cup {linksLock[o] : o \in {o \in wantLinks[u] : First(wantLinks[u], o)}}
    \cup {channelLock[ch] : ch \in {ch \in wantChannels[u] : First(wantChannels[u], ch)}}
    \cup (IF pc[u] \in {"update", "archive"} THEN {registryLock[contact[u]]} ELSE {})

\* No set of requests waits for each other: some request of it can go on.
NoDeadlock ==
  \A S \in (SUBSET Users) \ {{}} : \E u \in S : \A v \in S : ~WaitsFor(u, v)

\* The transactions have the effect of the in-memory service's calls, in the order of
\* their commits.  Links of organizations the import made are outside of that service.
Twin == INSTANCE ContactTwin WITH
  link <- [o \in Orgs |-> IF o \in imported THEN {} ELSE link[o]],
  primary <- [o \in Orgs |-> IF o \in imported THEN {} ELSE primary[o]]
ImplementsTwin == Twin!Spec

\* docs/adr/0004-safe-contact-merge.md:14: a merge takes all interactions along, so it
\* does not fail because there are some.
MergeTakesHistory == \A u \in Users : pc[u] # "failed"

\* Requests are interchangeable: TLC needs one of each set of them.
Requests == Permutations(Users)
=============================================================================
