---------------------------- MODULE ContactProofs ----------------------------
(***************************************************************************)
(* What holds of the contact registry for any number of requests,          *)
(* contacts, organizations and channels.                                   *)
(*                                                                         *)
(* The properties speak of the commit, and a request decides by what it    *)
(* read before: the invariant says which of these facts its locks keep     *)
(* true until then.  A part of it is about the rows (RowsInv), the others  *)
(* are about one request each: what it is about (Subject) and what it may  *)
(* still rely on (CreateInv, LinkInv, MergeInv, EditInv, RecordInv).       *)
(***************************************************************************)
EXTENDS ContactRegistry, FiniteSetTheorems, WellFoundedInduction, TLAPS

USE IdsAssumption, BoundsAssumption
    DEF IdsAssumption, BoundsAssumption, rows, locals, wants, locks

\* A merge leaves nobody behind, and an organization that is not there has no contacts.
RowsInv ==
  /\ HistoryIsFound /\ OnePrimary
  /\ \A o \in Orgs : primary[o] \subseteq link[o]
  /\ \A o \in Orgs \ known : link[o] = {}
  /\ \A c \in Contacts : state[c] = "absent" =>
       merged[c] = None /\ \A o \in Orgs : c \notin link[o]

InOrganization == {"create", "creating", "link", "linking", "linked"}
InMerge == {"graph", "pair", "past", "merging"}
InEdit == {"update", "updating", "archive", "archiving"}

\* What a request is about exists, and goes on existing.
Subject(u) ==
  /\ pc[u] \in InOrganization => org[u] \in known
  /\ pc[u] = "importing" => /\ org[u] \in Orgs
                            /\ contact[u] # None =>
                                 contact[u] \in Contacts /\ state[contact[u]] # "absent"
  /\ pc[u] \in {"link", "linking", "linked", "record", "recording"} \cup InEdit \cup InMerge =>
       contact[u] \in Contacts
  /\ pc[u] \in {"link", "linking", "linked"} \cup InEdit \cup InMerge =>
       state[contact[u]] # "absent"
  /\ pc[u] \in InMerge => /\ other[u] \in Contacts /\ other[u] # contact[u]
                          /\ state[other[u]] # "absent"
  /\ pc[u] = "recording" => other[u] \in Contacts

\* The organization has no other contact as long as the lock of its links is held.
CreateInv(u) ==
  pc[u] \in {"creating", "linked"} =>
    linksLock[org[u]] = u /\ (lead[u] <=> link[org[u]] = {})

\* A contact is not merged away while it is linked.
LinkInv(u) ==
  pc[u] \in {"linking", "linked"} =>
    mergeLock[contact[u]] = u /\ merged[contact[u]] = None

\* A merge holds its source, its target and all it has to repoint, and has seen every link
\* of the source.
MergeInv(u) ==
  /\ pc[u] \in {"pair", "past", "merging"} => graphLock = u
  /\ pc[u] = "pair" => \A c \in {contact[u], other[u]} \ want[u] : mergeLock[c] = u
  /\ pc[u] \in {"past", "merging"} =>
       /\ mergeLock[contact[u]] = u /\ mergeLock[other[u]] = u
       /\ merged[contact[u]] = None /\ merged[other[u]] = None
       /\ \A c \in Contacts : merged[c] = contact[u] => mergeLock[c] = u \/ c \in want[u]
  /\ pc[u] = "merging" =>
       /\ \A c \in Contacts : merged[c] = contact[u] => mergeLock[c] = u
       /\ \A o \in Orgs \ imported : contact[u] \in link[o] => o \in from[u]

\* Whoever still has the version that was shown edits the channels that were shown.
EditInv(u) ==
  pc[u] \in InEdit =>
    /\ form[u].version <= version[contact[u]]
    /\ form[u].version = version[contact[u]] => form[u].seen = channels[contact[u]]

\* The survivor stays one while the contact it was found by is held.
RecordInv(u) ==
  pc[u] = "recording" =>
    /\ mergeLock[contact[u]] = u
    /\ merged[other[u]] = None
    /\ other[u] = contact[u] \/ merged[contact[u]] = other[u]

RequestInv(u) ==
  Subject(u) /\ CreateInv(u) /\ LinkInv(u) /\ MergeInv(u) /\ EditInv(u) /\ RecordInv(u)

IInv == TypeOK /\ RowsInv /\ \A u \in Users : RequestInv(u)

-------------------------------------------------------------------------------
(* Types *)

\* The end of a transaction leaves a request with nothing in mind.
LEMMA EndTyped ==
  ASSUME LocalsTypeOK, LocksTypeOK, NEW u \in Users, End(u)
  PROVE  LocalsTypeOK' /\ LocksTypeOK'
<1>1. Blank \in Forms
  BY DEF Blank, Forms
<1>2. LocalsTypeOK'
  BY <1>1 DEF LocalsTypeOK, End
<1>3. LocksTypeOK'
  BY DEF LocksTypeOK, Owners, End
<1>4. QED
  BY <1>2, <1>3

\* What a step of u leaves to the other requests: what they have in mind and their locks.
Others(u) ==
  \A v \in Users \ {u} :
    /\ pc'[v] = pc[v] /\ contact'[v] = contact[v] /\ other'[v] = other[v]
    /\ org'[v] = org[v] /\ form'[v] = form[v] /\ from'[v] = from[v]
    /\ lead'[v] = lead[v] /\ want'[v] = want[v]
    /\ graphLock = v => graphLock' = v
    /\ \A c \in Contacts : mergeLock[c] = v => mergeLock'[c] = v
    /\ \A o \in Orgs : linksLock[o] = v => linksLock'[o] = v

LEMMA EndOthers ==
  ASSUME LocalsTypeOK, LocksTypeOK, NEW u \in Users, End(u)
  PROVE  Others(u) /\ pc'[u] = "idle"
<1>1. ASSUME NEW v \in Users \ {u}
      PROVE  /\ pc'[v] = pc[v] /\ contact'[v] = contact[v] /\ other'[v] = other[v]
             /\ org'[v] = org[v] /\ form'[v] = form[v] /\ from'[v] = from[v]
             /\ lead'[v] = lead[v] /\ want'[v] = want[v]
  BY DEF LocalsTypeOK, End
<1>2. ASSUME NEW v \in Users \ {u}
      PROVE  /\ graphLock = v => graphLock' = v
             /\ \A c \in Contacts : mergeLock[c] = v => mergeLock'[c] = v
             /\ \A o \in Orgs : linksLock[o] = v => linksLock'[o] = v
  BY DEF LocksTypeOK, End
<1>3. pc'[u] = "idle"
  BY DEF LocalsTypeOK, End
<1>4. QED
  BY <1>1, <1>2, <1>3 DEF Others

\* The steps at which a request reads; all others are commits or roll back.
TakesLock(u) == TakeMergeLock(u) \/ TakeLinksLock(u) \/ TakeChannelLock(u)
Starts(u) ==
  \/ StartCreate(u) \/ StartLink(u) \/ StartMerge(u) \/ StartEdit(u) \/ StartRecord(u)
  \/ ImportRead(u)
Reads(u) ==
  \/ CreateRead(u) \/ LinkRead(u) \/ LinkCount(u)
  \/ TakeGraphLock(u) \/ MergeRead(u) \/ MergeLinks(u) \/ MergeFails(u)
  \/ UpdateRead(u) \/ ArchiveRead(u) \/ RecordRead(u)
Writes(u) ==
  \/ Create(u) \/ Link(u) \/ Merge(u) \/ Update(u) \/ ChangeArchived(u) \/ Record(u)
  \/ Import(u)

LEMMA TakesLockTyped ==
  ASSUME TypeOK, NEW u \in Users, TakesLock(u)
  PROVE  TypeOK' /\ Others(u) /\ UNCHANGED <<rows, imported>>
<1> USE DEF TypeOK, RowsTypeOK, LocalsTypeOK, LocksTypeOK, Owners
<1>1. CASE TakeMergeLock(u)
  BY <1>1 DEF TakeMergeLock, Others
<1>2. CASE TakeLinksLock(u)
  BY <1>2 DEF TakeLinksLock, Others
<1>3. CASE TakeChannelLock(u)
  BY <1>3 DEF TakeChannelLock, Others
<1>4. QED
  BY <1>1, <1>2, <1>3 DEF TakesLock

LEMMA SentTyped ==
  ASSUME form \in [Users -> Forms], NEW u \in Users, NEW S \in SUBSET Channels
  PROVE  [form EXCEPT ![u].sent = S] \in [Users -> Forms]
<1>1. form[u] \in Forms
  OBVIOUS
<1>2. [form[u] EXCEPT !.sent = S] \in Forms
  BY <1>1 DEF Forms
<1>3. QED
  BY <1>2

LEMMA StartsTyped ==
  ASSUME TypeOK, NEW u \in Users, Starts(u)
  PROVE  TypeOK' /\ Others(u) /\ UNCHANGED <<rows, imported>>
<1> USE DEF TypeOK, RowsTypeOK, LocalsTypeOK, LocksTypeOK, Owners
<1>1. CASE StartCreate(u)
  <2>1. PICK o \in known, S \in (SUBSET Channels) \ {{}} :
          /\ pc' = [pc EXCEPT ![u] = "create"]
          /\ org' = [org EXCEPT ![u] = o]
          /\ form' = [form EXCEPT ![u].sent = S]
          /\ wantChannels' = [wantChannels EXCEPT ![u] = S]
          /\ UNCHANGED <<rows, contact, other, from, lead, want, wantLinks, locks, imported>>
    BY <1>1 DEF StartCreate
  <2>2. form' \in [Users -> Forms]
    BY <2>1, SentTyped
  <2>3. Others(u)
    BY <2>1 DEF Others
  <2>4. QED
    BY <2>1, <2>2, <2>3
<1>2. CASE StartLink(u)
  BY <1>2 DEF StartLink, Others
<1>3. CASE StartMerge(u)
  BY <1>3 DEF StartMerge, Others
<1>4. CASE StartEdit(u)
  <2>1. PICK c \in Editable, S \in (SUBSET Channels) \ {{}}, point \in {"update", "archive"} :
          /\ pc' = [pc EXCEPT ![u] = point]
          /\ contact' = [contact EXCEPT ![u] = c]
          /\ form' = [form EXCEPT ![u] =
               [version |-> version[c], seen |-> channels[c], sent |-> S]]
          /\ UNCHANGED <<rows, other, org, from, lead, wants, locks, imported>>
    BY <1>4 DEF StartEdit
  <2>2. [version |-> version[c], seen |-> channels[c], sent |-> S] \in Forms
    BY DEF Forms
  <2>3. form' \in [Users -> Forms]
    BY <2>1, <2>2
  <2>4. Others(u)
    BY <2>1 DEF Others
  <2>5. QED
    BY <2>1, <2>3, <2>4
<1>5. CASE StartRecord(u)
  BY <1>5 DEF StartRecord, Others
<1>6. CASE ImportRead(u)
  <2>1. PICK o \in Orgs \ known, ch \in Channels, c \in Contacts \cup {None} :
          /\ pc' = [pc EXCEPT ![u] = "importing"]
          /\ org' = [org EXCEPT ![u] = o]
          /\ contact' = [contact EXCEPT ![u] = c]
          /\ form' = [form EXCEPT ![u].sent = {ch}]
          /\ UNCHANGED <<rows, other, from, lead, wants, locks, imported>>
    BY <1>6 DEF ImportRead
  <2>2. form' \in [Users -> Forms]
    <3>1. {ch} \in SUBSET Channels
      OBVIOUS
    <3>2. [form EXCEPT ![u].sent = {ch}] \in [Users -> Forms]
      BY <3>1, SentTyped
    <3>3. QED
      BY <2>1, <3>2
  <2>3. Others(u)
    BY <2>1 DEF Others
  <2>4. QED
    BY <2>1, <2>2, <2>3
<1>7. QED
  BY <1>1, <1>2, <1>3, <1>4, <1>5, <1>6 DEF Starts

LEMMA ReadsTyped ==
  ASSUME TypeOK, NEW u \in Users, Reads(u), Subject(u)
  PROVE  TypeOK' /\ Others(u) /\ UNCHANGED <<rows, imported>>
<1> USE DEF TypeOK, RowsTypeOK, LocalsTypeOK, LocksTypeOK, Owners, Subject, InOrganization,
            InMerge, InEdit
<1>1. CASE CreateRead(u)
  BY <1>1 DEF CreateRead, Others
<1>2. CASE LinkRead(u)
  BY <1>2 DEF LinkRead, Others
<1>3. CASE LinkCount(u)
  BY <1>3 DEF LinkCount, Others
<1>4. CASE TakeGraphLock(u)
  BY <1>4 DEF TakeGraphLock, Others
<1>5. CASE MergeRead(u)
  BY <1>5 DEF MergeRead, Retired, Others
<1>6. CASE MergeLinks(u)
  BY <1>6 DEF MergeLinks, Others
<1>7. CASE MergeFails(u)
  BY <1>7 DEF MergeFails, Others
<1>8. CASE UpdateRead(u)
  BY <1>8 DEF UpdateRead, TakeRegistryLock, Others
<1>9. CASE ArchiveRead(u)
  BY <1>9 DEF ArchiveRead, TakeRegistryLock, Others
<1>10. CASE RecordRead(u)
  BY <1>10 DEF RecordRead, Survivor, Others
<1>11. QED
  BY <1>1, <1>2, <1>3, <1>4, <1>5, <1>6, <1>7, <1>8, <1>9, <1>10 DEF Reads

LEMMA WritesTyped ==
  ASSUME TypeOK, NEW u \in Users, Writes(u), Subject(u)
  PROVE  TypeOK' /\ Others(u) /\ pc'[u] = "idle"
<1>1. End(u)
  BY DEF Writes, Create, Link, Merge, Update, ChangeArchived, Record, Import
<1>2. LocalsTypeOK' /\ LocksTypeOK' /\ Others(u) /\ pc'[u] = "idle"
  BY <1>1, EndTyped, EndOthers DEF TypeOK
<1> USE DEF TypeOK, RowsTypeOK, Subject, InOrganization, InMerge, InEdit
<1>3. form[u].sent \in SUBSET Channels
  BY DEF LocalsTypeOK, Forms
<1>4. ASSUME NEW c \in Contacts, Insert(c, form[u].sent)
      PROVE  /\ state' \in [Contacts -> {"absent", "active", "archived"}]
             /\ channels' \in [Contacts -> SUBSET Channels]
  BY <1>3, <1>4 DEF Insert
<1>5. ASSUME NEW o \in Orgs, NEW c \in Contacts, NEW p, InsertLink(o, c, p)
      PROVE  link' \in [Orgs -> SUBSET Contacts] /\ primary' \in [Orgs -> SUBSET Contacts]
  BY <1>5 DEF InsertLink
<1>6. CASE Create(u)
  <2>1. org[u] \in Orgs
    BY <1>6 DEF Create
  <2>2. RowsTypeOK'
    BY <1>4, <1>5, <1>6, <2>1 DEF Create
  <2>3. QED
    BY <1>2, <2>2
<1>7. CASE Link(u)
  <2>1. org[u] \in Orgs /\ contact[u] \in Contacts
    BY <1>7 DEF Link
  <2>2. RowsTypeOK'
    BY <1>5, <1>7, <2>1 DEF Link
  <2>3. QED
    BY <1>2, <2>2
<1>8. CASE Merge(u)
  <2>1. contact[u] \in Contacts /\ other[u] \in Contacts
    BY <1>8 DEF Merge
  <2>2. merged' \in [Contacts -> Contacts \cup {None}]
    BY <1>8, <2>1 DEF Merge, Repointed
  <2>3. link' \in [Orgs -> SUBSET Contacts]
    BY <1>8, <2>1 DEF Merge, Moved
  <2>4. primary' \in [Orgs -> SUBSET Contacts]
    BY <1>8, <2>1 DEF Merge, MovedPrimary
  <2>5. QED
    BY <1>2, <1>8, <2>2, <2>3, <2>4 DEF Merge
<1>9. ASSUME contact[u] \in Contacts, Edited(contact[u]) PROVE version' \in [Contacts -> Nat]
  <2>1. version[contact[u]] + 1 \in Nat
    <3>1. version[contact[u]] \in Nat
      BY <1>9
    <3>2. \A n \in Nat : n + 1 \in Nat
      OBVIOUS
    <3>3. QED
      BY <3>1, <3>2
  <2>2. version' = [version EXCEPT ![contact[u]] = version[contact[u]] + 1]
    BY <1>9 DEF Edited
  <2>3. QED
    BY <2>1, <2>2
<1>10. CASE Update(u)
  <2>1. contact[u] \in Contacts /\ Edited(contact[u])
    BY <1>10 DEF Update
  <2>2. channels' \in [Contacts -> SUBSET Channels]
    BY <1>3, <1>10 DEF Update
  <2>3. UNCHANGED <<state, merged, link, primary, known, interacted, imported>>
    BY <1>10 DEF Update
  <2>4. RowsTypeOK'
    BY <1>9, <2>1, <2>2, <2>3
  <2>5. QED
    BY <1>2, <2>4
<1>11. CASE ChangeArchived(u)
  <2>1. contact[u] \in Contacts /\ Edited(contact[u])
    BY <1>11 DEF ChangeArchived
  <2>2. state' \in [Contacts -> {"absent", "active", "archived"}]
    BY <1>11 DEF ChangeArchived
  <2>3. UNCHANGED <<merged, channels, link, primary, known, interacted, imported>>
    BY <1>11 DEF ChangeArchived
  <2>4. RowsTypeOK'
    BY <1>9, <2>1, <2>2, <2>3
  <2>5. QED
    BY <1>2, <2>4
<1>12. CASE Record(u)
  <2>1. other[u] \in Contacts
    BY <1>12 DEF Record
  <2>2. QED
    BY <1>2, <1>12, <2>1 DEF Record
<1>13. CASE Import(u)
  <2>1. org[u] \in Orgs
    BY <1>13 DEF Import
  <2>2. PICK c \in Contacts :
          /\ \/ Insert(c, form[u].sent)
             \/ UNCHANGED <<state, channels>>
          /\ InsertLink(org[u], c, TRUE)
          /\ known' = known \cup {org[u]} /\ imported' = imported \cup {org[u]}
          /\ UNCHANGED <<version, merged, interacted>>
    BY <1>13 DEF Import
  <2>3. RowsTypeOK'
    BY <1>4, <1>5, <2>1, <2>2
  <2>4. QED
    BY <1>2, <2>3
<1>14. QED
  BY <1>6, <1>7, <1>8, <1>10, <1>11, <1>12, <1>13 DEF Writes

\* The steps of a request: to begin, to take a lock, to read, to commit or to roll back.
LEMMA Steps ==
  ASSUME Next
  PROVE  \E u \in Users : Starts(u) \/ TakesLock(u) \/ Reads(u) \/ Writes(u) \/ Abort(u)
  BY Zenon DEF Next, Starts, TakesLock, Reads, Writes

-------------------------------------------------------------------------------
(* Reading *)

\* A request keeps what it relies on while others read.
LEMMA UnwrittenKeeps ==
  ASSUME TypeOK, NEW u \in Users, Others(u), UNCHANGED <<rows, imported>>,
         NEW v \in Users \ {u}, RequestInv(v)
  PROVE  RequestInv(v)'
<1> USE DEF TypeOK, RowsTypeOK, RequestInv, InOrganization, InMerge, InEdit
<1>1. /\ pc'[v] = pc[v] /\ contact'[v] = contact[v] /\ other'[v] = other[v]
      /\ org'[v] = org[v] /\ form'[v] = form[v] /\ from'[v] = from[v]
      /\ lead'[v] = lead[v] /\ want'[v] = want[v]
      /\ graphLock = v => graphLock' = v
      /\ \A c \in Contacts : mergeLock[c] = v => mergeLock'[c] = v
      /\ \A o \in Orgs : linksLock[o] = v => linksLock'[o] = v
  BY DEF Others
<1>2. Subject(v)'
  BY <1>1 DEF Subject
<1>3. CreateInv(v)'
  BY <1>1 DEF CreateInv, Subject
<1>4. LinkInv(v)'
  BY <1>1 DEF LinkInv, Subject
<1>5. MergeInv(v)'
  <2>1. CASE pc[v] \notin {"pair", "past", "merging"}
    BY <1>1, <2>1 DEF MergeInv
  <2>2. CASE pc[v] = "pair"
    <3>1. contact[v] \in Contacts /\ other[v] \in Contacts
      BY <2>2 DEF Subject
    <3>2. graphLock = v /\ \A c \in {contact[v], other[v]} \ want[v] : mergeLock[c] = v
      BY <2>2 DEF MergeInv
    <3>3. graphLock' = v /\ \A c \in {contact[v], other[v]} \ want[v] : mergeLock'[c] = v
      BY <1>1, <3>1, <3>2
    <3>4. pc'[v] = "pair" /\ contact'[v] = contact[v] /\ other'[v] = other[v] /\ want'[v] = want[v]
      BY <1>1, <2>2
    <3>5. QED
      BY <3>3, <3>4 DEF MergeInv
  <2>3. CASE pc[v] \in {"past", "merging"}
    <3>1. contact[v] \in Contacts /\ other[v] \in Contacts
      BY <2>3 DEF Subject
    <3>2. /\ graphLock = v /\ mergeLock[contact[v]] = v /\ mergeLock[other[v]] = v
          /\ merged[contact[v]] = None /\ merged[other[v]] = None
          /\ \A c \in Contacts : merged[c] = contact[v] => mergeLock[c] = v \/ c \in want[v]
          /\ pc[v] = "merging" =>
               /\ \A c \in Contacts : merged[c] = contact[v] => mergeLock[c] = v
               /\ \A o \in Orgs \ imported : contact[v] \in link[o] => o \in from[v]
      BY <2>3 DEF MergeInv
    <3>3. QED
      BY <1>1, <2>3, <3>1, <3>2 DEF MergeInv
  <2>4. QED
    BY <2>1, <2>2, <2>3
<1>6. EditInv(v)'
  BY <1>1 DEF EditInv
<1>7. RecordInv(v)'
  BY <1>1 DEF RecordInv, Subject
<1>8. QED
  BY <1>2, <1>3, <1>4, <1>5, <1>6, <1>7

\* Another lock takes nothing away.
LEMMA TakesLockKeeps ==
  ASSUME TypeOK, NEW u \in Users, TakesLock(u), RequestInv(u)
  PROVE  RequestInv(u)'
<1> USE DEF TypeOK, RowsTypeOK, LocalsTypeOK, LocksTypeOK, RequestInv, InOrganization, InMerge,
            InEdit
<1>1. /\ UNCHANGED <<rows, imported, pc, locals>>
      /\ graphLock' = graphLock
      /\ \A c \in Contacts : mergeLock[c] = u => mergeLock'[c] = u
      /\ \A o \in Orgs : linksLock[o] = u => linksLock'[o] = u
      /\ \A c \in Contacts : c \notin want'[u] => c \notin want[u] \/ mergeLock'[c] = u
  BY DEF TakesLock, TakeMergeLock, TakeLinksLock, TakeChannelLock
<1>2. Subject(u)' /\ EditInv(u)'
  BY <1>1 DEF Subject, EditInv
<1>3. CreateInv(u)' /\ LinkInv(u)' /\ RecordInv(u)'
  BY <1>1 DEF CreateInv, LinkInv, RecordInv, Subject
<1>4. MergeInv(u)'
  <2>1. CASE pc[u] \notin {"pair", "past", "merging"}
    BY <1>1, <2>1 DEF MergeInv
  <2>2. CASE pc[u] = "pair"
    <3>1. contact[u] \in Contacts /\ other[u] \in Contacts
      BY <2>2 DEF Subject
    <3>2. graphLock = u /\ \A c \in {contact[u], other[u]} \ want[u] : mergeLock[c] = u
      BY <2>2 DEF MergeInv
    <3>3. QED
      BY <1>1, <2>2, <3>1, <3>2 DEF MergeInv
  <2>3. CASE pc[u] \in {"past", "merging"}
    <3>1. contact[u] \in Contacts /\ other[u] \in Contacts
      BY <2>3 DEF Subject
    <3>2. /\ graphLock = u /\ mergeLock[contact[u]] = u /\ mergeLock[other[u]] = u
          /\ merged[contact[u]] = None /\ merged[other[u]] = None
          /\ \A c \in Contacts : merged[c] = contact[u] => mergeLock[c] = u \/ c \in want[u]
          /\ pc[u] = "merging" =>
               /\ \A c \in Contacts : merged[c] = contact[u] => mergeLock[c] = u
               /\ \A o \in Orgs \ imported : contact[u] \in link[o] => o \in from[u]
      BY <2>3 DEF MergeInv
    <3>3. QED
      BY <1>1, <2>3, <3>1, <3>2 DEF MergeInv
  <2>4. QED
    BY <2>1, <2>2, <2>3
<1>5. QED
  BY <1>2, <1>3, <1>4

\* A request begins about what exists.
LEMMA StartsKeep ==
  ASSUME TypeOK, NEW u \in Users, Starts(u)
  PROVE  RequestInv(u)'
<1> USE DEF TypeOK, RowsTypeOK, LocalsTypeOK, RequestInv, InOrganization, InMerge, InEdit,
            Subject, CreateInv, LinkInv, MergeInv, EditInv, RecordInv, Exists
<1>1. CASE StartCreate(u)
  <2>1. pc'[u] = "create" /\ org'[u] \in known'
    BY <1>1 DEF StartCreate
  <2>2. QED
    BY <2>1
<1>2. CASE StartLink(u)
  <2>1. /\ pc'[u] = "link" /\ org'[u] \in known'
        /\ contact'[u] \in Contacts /\ state'[contact'[u]] # "absent"
    BY <1>2 DEF StartLink
  <2>2. QED
    BY <2>1
<1>3. CASE StartMerge(u)
  <2>1. /\ pc'[u] = "graph" /\ contact'[u] \in Contacts /\ other'[u] \in Contacts
        /\ contact'[u] # other'[u]
        /\ state'[contact'[u]] # "absent" /\ state'[other'[u]] # "absent"
    BY <1>3 DEF StartMerge
  <2>2. QED
    BY <2>1
<1>4. CASE StartEdit(u)
  <2>1. PICK c \in Editable, S \in SUBSET Channels, point \in {"update", "archive"} :
          /\ Exists(c)
          /\ pc' = [pc EXCEPT ![u] = point]
          /\ contact' = [contact EXCEPT ![u] = c]
          /\ form' = [form EXCEPT ![u] =
               [version |-> version[c], seen |-> channels[c], sent |-> S]]
          /\ UNCHANGED rows
    BY <1>4 DEF StartEdit
  <2>2. /\ contact'[u] = c /\ c \in Contacts /\ pc'[u] \in {"update", "archive"}
        /\ form'[u] = [version |-> version[c], seen |-> channels[c], sent |-> S]
    BY <2>1
  <2>3. /\ form'[u].version = version'[contact'[u]] /\ form'[u].seen = channels'[contact'[u]]
        /\ version'[contact'[u]] \in Nat
    BY <2>1, <2>2
  <2>4. state'[contact'[u]] # "absent"
    BY <2>1, <2>2
  <2>5. EditInv(u)'
    BY <2>3
  <2>6. QED
    BY <2>2, <2>4, <2>5
<1>5. CASE StartRecord(u)
  <2>1. pc'[u] = "record" /\ contact'[u] \in Contacts
    BY <1>5 DEF StartRecord
  <2>2. QED
    BY <2>1
<1>6. CASE ImportRead(u)
  <2>1. PICK o \in Orgs \ known, ch \in Channels, c \in Contacts \cup {None} :
          /\ IF Duplicates({ch}, None) = {} THEN c = None ELSE c \in Duplicates({ch}, None)
          /\ pc' = [pc EXCEPT ![u] = "importing"]
          /\ org' = [org EXCEPT ![u] = o]
          /\ contact' = [contact EXCEPT ![u] = c]
          /\ UNCHANGED state
    BY <1>6 DEF ImportRead
  <2>2. pc'[u] = "importing" /\ org'[u] \in Orgs /\ contact'[u] = c
    BY <2>1
  <2>3. c # None => c \in Contacts /\ state'[c] # "absent"
    BY <2>1 DEF Duplicates, Active
  <2>4. QED
    BY <2>2, <2>3
<1>7. QED
  BY <1>1, <1>2, <1>3, <1>4, <1>5, <1>6 DEF Starts

\* What a request reads under its locks it may rely on.
LEMMA ReadsKeep ==
  ASSUME TypeOK, RowsInv, NEW u \in Users, Reads(u), RequestInv(u)
  PROVE  RequestInv(u)'
<1> USE DEF TypeOK, RowsTypeOK, LocalsTypeOK, LocksTypeOK, RequestInv, InOrganization, InMerge,
            InEdit, Subject
<1>1. CASE CreateRead(u)
  <2>1. /\ pc'[u] = "creating" /\ org'[u] \in known' /\ org'[u] \in Orgs
        /\ linksLock'[org'[u]] = u /\ (lead'[u] <=> link'[org'[u]] = {})
    BY <1>1 DEF CreateRead
  <2>2. QED
    BY <2>1 DEF CreateInv, LinkInv, MergeInv, EditInv, RecordInv
<1>2. CASE LinkRead(u)
  <2>1. /\ pc'[u] = "linking" /\ UNCHANGED <<rows, org, contact>>
        /\ mergeLock'[contact'[u]] = u /\ merged'[contact'[u]] = None
    BY <1>2 DEF LinkRead, Active
  <2>2. org[u] \in known /\ contact[u] \in Contacts /\ state[contact[u]] # "absent"
    BY <1>2 DEF LinkRead
  <2>3. QED
    BY <2>1, <2>2 DEF CreateInv, LinkInv, MergeInv, EditInv, RecordInv
<1>3. CASE LinkCount(u)
  <2>1. /\ pc'[u] = "linked" /\ UNCHANGED <<rows, org, contact, mergeLock>>
        /\ org[u] \in known /\ org[u] \in Orgs /\ contact[u] \in Contacts
        /\ state[contact[u]] # "absent"
        /\ linksLock'[org'[u]] = u /\ (lead'[u] <=> link'[org'[u]] = {})
    BY <1>3 DEF LinkCount
  <2>2. mergeLock[contact[u]] = u /\ merged[contact[u]] = None
    BY <1>3 DEF LinkCount, LinkInv
  <2>3. QED
    BY <2>1, <2>2 DEF CreateInv, LinkInv, MergeInv, EditInv, RecordInv
<1>4. CASE TakeGraphLock(u)
  <2>1. /\ pc'[u] = "pair" /\ UNCHANGED <<rows, contact, other>> /\ graphLock' = u
        /\ want'[u] = {contact[u], other[u]}
    BY <1>4 DEF TakeGraphLock
  <2>2. pc[u] \in InMerge
    BY <1>4 DEF TakeGraphLock
  <2>3. QED
    BY <2>1, <2>2 DEF CreateInv, LinkInv, MergeInv, EditInv, RecordInv
<1>5. CASE MergeRead(u)
  <2>1. /\ pc'[u] = "past" /\ UNCHANGED <<rows, contact, other, graphLock, mergeLock>>
        /\ want'[u] = {c \in Contacts : merged[c] = contact[u]} /\ want[u] = {} /\ pc[u] = "pair"
        /\ merged[contact[u]] = None /\ merged[other[u]] = None
    BY <1>5 DEF MergeRead, Active, Retired
  <2>2. graphLock = u /\ mergeLock[contact[u]] = u /\ mergeLock[other[u]] = u
    BY <2>1 DEF MergeInv
  <2>3. MergeInv(u)'
    BY <2>1, <2>2 DEF MergeInv
  <2>4. QED
    BY <2>1, <2>3 DEF CreateInv, LinkInv, EditInv, RecordInv
<1>6. CASE MergeLinks(u)
  <2>1. /\ pc'[u] = "merging" /\ UNCHANGED <<rows, contact, other, graphLock, mergeLock>>
        /\ want'[u] = {} /\ want[u] = {} /\ pc[u] = "past"
        /\ from'[u] = {o \in Orgs : contact[u] \in link[o]}
    BY <1>6 DEF MergeLinks
  <2>2. MergeInv(u)'
    BY <2>1 DEF MergeInv
  <2>3. QED
    BY <2>1, <2>2 DEF CreateInv, LinkInv, EditInv, RecordInv
<1>7. CASE MergeFails(u)
  <2>1. pc'[u] = "failed"
    BY <1>7 DEF MergeFails
  <2>2. QED
    BY <2>1 DEF CreateInv, LinkInv, MergeInv, EditInv, RecordInv
<1>8. CASE UpdateRead(u) \/ ArchiveRead(u)
  <2>1. /\ pc[u] \in {"update", "archive"} /\ pc'[u] \in {"updating", "archiving"}
        /\ UNCHANGED <<rows, locals>>
    BY <1>8 DEF UpdateRead, ArchiveRead
  <2>2. EditInv(u)'
    BY <2>1 DEF EditInv
  <2>3. QED
    BY <2>1, <2>2 DEF CreateInv, LinkInv, MergeInv, RecordInv
<1>9. CASE RecordRead(u)
  <2>1. /\ pc'[u] = "recording" /\ UNCHANGED <<rows, contact>> /\ contact[u] \in Contacts
        /\ mergeLock'[contact[u]] = u /\ other'[u] = Survivor(contact[u])
    BY <1>9 DEF RecordRead
  <2>2. /\ Survivor(contact[u]) \in Contacts /\ merged[Survivor(contact[u])] = None
        /\ Survivor(contact[u]) = contact[u] \/ merged[contact[u]] = Survivor(contact[u])
    <3>1. CASE merged[contact[u]] = None
      BY <2>1, <3>1 DEF Survivor
    <3>2. CASE merged[contact[u]] # None
      <4>1. merged[contact[u]] \in Contacts
        BY <2>1, <3>2
      <4>2. FlatMerges
        BY DEF RowsInv, HistoryIsFound
      <4>3. merged[merged[contact[u]]] = None
        BY <2>1, <3>2, <4>2 DEF FlatMerges
      <4>4. QED
        BY <3>2, <4>1, <4>3 DEF Survivor
    <3>3. QED
      BY <3>1, <3>2
  <2>3. QED
    BY <2>1, <2>2 DEF CreateInv, LinkInv, MergeInv, EditInv, RecordInv
<1>10. QED
  BY <1>1, <1>2, <1>3, <1>4, <1>5, <1>6, <1>7, <1>8, <1>9 DEF Reads

-------------------------------------------------------------------------------
(* Writing *)

\* Nothing is asked of a request that is over.
LEMMA OverKeeps == ASSUME NEW u \in Users, pc'[u] = "idle" PROVE RequestInv(u)'
  BY DEF RequestInv, Subject, CreateInv, LinkInv, MergeInv, EditInv, RecordInv,
         InOrganization, InMerge, InEdit

\* What a commit that merges nobody may do to the rows others rely on: contacts stay, links
\* under a lock are as empty as they were, an edit shows in the version, and a contact that
\* is held is not linked.
Harmless(v) ==
  /\ merged' = merged
  /\ known \subseteq known' /\ imported \subseteq imported'
  /\ \A c \in Contacts : state[c] # "absent" =>
       /\ state'[c] # "absent"
       /\ version'[c] >= version[c]
       /\ version'[c] = version[c] => channels'[c] = channels[c]
       /\ mergeLock[c] = v => \A o \in Orgs \ imported' : c \in link'[o] => c \in link[o]
  /\ \A o \in known : linksLock[o] = v => (link'[o] = {} <=> link[o] = {})

LEMMA HarmlessKeeps ==
  ASSUME TypeOK, TypeOK', NEW u \in Users, Others(u), NEW v \in Users \ {u}, RequestInv(v),
         Harmless(v)
  PROVE  RequestInv(v)'
<1> USE DEF TypeOK, RowsTypeOK, RequestInv, InOrganization, InMerge, InEdit
<1>1. /\ pc'[v] = pc[v] /\ contact'[v] = contact[v] /\ other'[v] = other[v]
      /\ org'[v] = org[v] /\ form'[v] = form[v] /\ from'[v] = from[v]
      /\ lead'[v] = lead[v] /\ want'[v] = want[v]
      /\ graphLock = v => graphLock' = v
      /\ \A c \in Contacts : mergeLock[c] = v => mergeLock'[c] = v
      /\ \A o \in Orgs : linksLock[o] = v => linksLock'[o] = v
  BY DEF Others
<1>2. Subject(v)'
  <2>1. /\ known \subseteq known'
        /\ \A c \in Contacts : state[c] # "absent" => state'[c] # "absent"
    BY DEF Harmless
  <2>2. Subject(v)
    OBVIOUS
  <2>3. QED
    BY <1>1, <2>1, <2>2, Zenon DEF Subject
<1>3. CreateInv(v)'
  <2>1. CASE pc[v] \in {"creating", "linked"}
    <3>1. org[v] \in known /\ org[v] \in Orgs
      BY <2>1 DEF Subject
    <3>2. linksLock[org[v]] = v /\ (lead[v] <=> link[org[v]] = {})
      BY <2>1 DEF CreateInv
    <3>3. linksLock'[org[v]] = v /\ (link'[org[v]] = {} <=> link[org[v]] = {})
      BY <1>1, <3>1, <3>2 DEF Harmless
    <3>4. QED
      BY <1>1, <3>2, <3>3 DEF CreateInv
  <2>2. CASE pc[v] \notin {"creating", "linked"}
    BY <1>1, <2>2 DEF CreateInv
  <2>3. QED
    BY <2>1, <2>2
<1>4. LinkInv(v)'
  BY <1>1 DEF LinkInv, Subject, Harmless
<1>5. MergeInv(v)'
  <2>1. CASE pc[v] \notin {"pair", "past", "merging"}
    BY <1>1, <2>1 DEF MergeInv
  <2>2. CASE pc[v] = "pair"
    <3>1. contact[v] \in Contacts /\ other[v] \in Contacts
      BY <2>2 DEF Subject
    <3>2. graphLock = v /\ \A c \in {contact[v], other[v]} \ want[v] : mergeLock[c] = v
      BY <2>2 DEF MergeInv
    <3>3. graphLock' = v /\ \A c \in {contact[v], other[v]} \ want[v] : mergeLock'[c] = v
      BY <1>1, <3>1, <3>2
    <3>4. pc'[v] = "pair" /\ contact'[v] = contact[v] /\ other'[v] = other[v] /\ want'[v] = want[v]
      BY <1>1, <2>2
    <3>5. QED
      BY <3>3, <3>4 DEF MergeInv
  <2>3. CASE pc[v] \in {"past", "merging"}
    <3>1. contact[v] \in Contacts /\ other[v] \in Contacts /\ state[contact[v]] # "absent"
      BY <2>3 DEF Subject
    <3>2. /\ graphLock = v /\ mergeLock[contact[v]] = v /\ mergeLock[other[v]] = v
          /\ merged[contact[v]] = None /\ merged[other[v]] = None
          /\ \A c \in Contacts : merged[c] = contact[v] => mergeLock[c] = v \/ c \in want[v]
          /\ pc[v] = "merging" =>
               /\ \A c \in Contacts : merged[c] = contact[v] => mergeLock[c] = v
               /\ \A o \in Orgs \ imported : contact[v] \in link[o] => o \in from[v]
      BY <2>3 DEF MergeInv
    <3>3. /\ merged' = merged
          /\ \A o \in Orgs \ imported' :
               o \notin imported /\ (contact[v] \in link'[o] => contact[v] \in link[o])
      BY <3>1, <3>2 DEF Harmless
    <3>4. QED
      BY <1>1, <2>3, <3>1, <3>2, <3>3 DEF MergeInv
  <2>4. QED
    BY <2>1, <2>2, <2>3
<1>6. EditInv(v)'
  <2>1. CASE pc[v] \in InEdit
    <3>1. contact[v] \in Contacts /\ state[contact[v]] # "absent"
      BY <2>1 DEF Subject
    <3>2. /\ form[v].version <= version[contact[v]]
          /\ form[v].version = version[contact[v]] => form[v].seen = channels[contact[v]]
      BY <2>1 DEF EditInv
    <3>3. /\ version'[contact[v]] >= version[contact[v]]
          /\ version'[contact[v]] = version[contact[v]] =>
               channels'[contact[v]] = channels[contact[v]]
      BY <3>1 DEF Harmless
    <3>4. form[v].version \in Nat /\ version[contact[v]] \in Nat /\ version'[contact[v]] \in Nat
      BY <3>1 DEF LocalsTypeOK, Forms
    <3>5. /\ form[v].version <= version'[contact[v]]
          /\ form[v].version = version'[contact[v]] => form[v].seen = channels'[contact[v]]
      BY <3>2, <3>3, <3>4
    <3>6. QED
      BY <1>1, <3>5 DEF EditInv
  <2>2. CASE pc[v] \notin InEdit
    BY <1>1, <2>2 DEF EditInv
  <2>3. QED
    BY <2>1, <2>2
<1>7. RecordInv(v)'
  BY <1>1 DEF RecordInv, Subject, Harmless
<1>8. QED
  BY <1>2, <1>3, <1>4, <1>5, <1>6, <1>7

\* A link that is primary is the first one of its organization.
LEMMA LinkKeeps ==
  ASSUME TypeOK, RowsInv, NEW o \in Orgs, NEW c \in Contacts, NEW p \in BOOLEAN,
         InsertLink(o, c, p), p => link[o] = {}, o \in known',
         known \subseteq known', UNCHANGED <<merged, interacted>>,
         state'[c] # "absent", \A d \in Contacts : state'[d] = "absent" => state[d] = "absent"
  PROVE  RowsInv'
<1> USE DEF TypeOK, RowsTypeOK, RowsInv
<1>1. /\ link' = [link EXCEPT ![o] = @ \cup {c}]
      /\ primary' = IF p THEN [primary EXCEPT ![o] = @ \cup {c}] ELSE primary
  BY DEF InsertLink
<1>2. HistoryIsFound'
  BY DEF HistoryIsFound, FlatMerges, HistoryFollowsSurvivor
<1>3. p => primary[o] = {}
  OBVIOUS
<1>4. \A x \in Orgs : primary'[x] = primary[x] \/ (x = o /\ primary'[x] = {c})
  BY <1>1, <1>3
<1>5. OnePrimary'
  <2>1. \A x \in Orgs : \A d, e \in primary[x] : d = e
    BY DEF OnePrimary
  <2>2. ASSUME NEW x \in Orgs, NEW d \in primary'[x], NEW e \in primary'[x] PROVE d = e
    <3>1. CASE primary'[x] = primary[x]
      BY <2>1, <2>2, <3>1
    <3>2. CASE primary'[x] = {c}
      BY <2>2, <3>2
    <3>3. QED
      BY <1>4, <3>1, <3>2
  <2>3. QED
    BY <2>2 DEF OnePrimary
<1>6. \A x \in Orgs : link'[x] = link[x] \/ (x = o /\ link'[x] = link[x] \cup {c})
  BY <1>1
<1>7. \A x \in Orgs : primary'[x] \subseteq link'[x]
  <2>1. primary'[o] = {c} => primary'[o] \subseteq link'[o]
    BY <1>1
  <2>2. QED
    BY <1>4, <1>6, <2>1
<1>8. \A x \in Orgs \ known' : link'[x] = {}
  BY <1>6
<1>9. \A d \in Contacts : state'[d] = "absent" =>
        merged'[d] = None /\ \A x \in Orgs : d \notin link'[x]
  BY <1>6
<1>10. QED
  BY <1>2, <1>5, <1>7, <1>8, <1>9

\* All commits but a merge leave to the others what they rely on, and the rows in order.
LEMMA CreateKeeps ==
  ASSUME TypeOK, RowsInv, NEW u \in Users, Create(u), RequestInv(u)
  PROVE  RowsInv' /\ \A v \in Users \ {u} : Harmless(v)
<1> USE DEF TypeOK, RowsTypeOK, InOrganization
<1>1. PICK c \in Contacts :
        Insert(c, form[u].sent) /\ InsertLink(org[u], c, lead[u])
  BY DEF Create
<1>2. /\ UNCHANGED <<version, merged, known, interacted, imported>> /\ pc[u] = "creating"
  BY DEF Create
<1>3. org[u] \in known /\ org[u] \in Orgs /\ linksLock[org[u]] = u /\ lead[u] \in BOOLEAN
      /\ (lead[u] <=> link[org[u]] = {})
  BY <1>2 DEF RequestInv, Subject, CreateInv, LocalsTypeOK
<1>4. /\ state[c] = "absent" /\ state'[c] = "active"
      /\ \A d \in Contacts : d # c => state'[d] = state[d] /\ channels'[d] = channels[d]
  BY <1>1 DEF Insert, IsNew
<1>5. RowsInv'
  <2>1. /\ lead[u] => link[org[u]] = {}
        /\ org[u] \in known' /\ known \subseteq known' /\ UNCHANGED <<merged, interacted>>
        /\ state'[c] # "absent" /\ \A d \in Contacts : state'[d] = "absent" => state[d] = "absent"
    BY <1>2, <1>3, <1>4
  <2>2. QED
    BY <1>1, <1>3, <2>1, LinkKeeps, Zenon
<1>6. \A o \in Orgs : link'[o] = link[o] \/ (o = org[u] /\ link'[o] = link[o] \cup {c})
  BY <1>1, <1>3 DEF InsertLink
<1>7. ASSUME NEW v \in Users \ {u} PROVE Harmless(v)
  <2>1. \A d \in Contacts : version'[d] >= version[d]
    BY <1>2
  <2>2. \A d \in Contacts : state[d] # "absent" =>
          /\ state'[d] # "absent" /\ channels'[d] = channels[d]
          /\ \A o \in Orgs : d \in link'[o] => d \in link[o]
    BY <1>4, <1>6
  <2>3. \A o \in known : linksLock[o] = v => link'[o] = link[o]
    BY <1>3, <1>6
  <2>4. QED
    BY <1>2, <2>1, <2>2, <2>3 DEF Harmless
<1>8. QED
  BY <1>5, <1>7

LEMMA LinkCommitKeeps ==
  ASSUME TypeOK, RowsInv, NEW u \in Users, Link(u), RequestInv(u)
  PROVE  RowsInv' /\ \A v \in Users \ {u} : Harmless(v)
<1> USE DEF TypeOK, RowsTypeOK, InOrganization
<1>1. /\ UNCHANGED <<state, version, merged, channels, known, interacted, imported>>
      /\ pc[u] = "linked" /\ InsertLink(org[u], contact[u], lead[u])
  BY DEF Link
<1>2. /\ org[u] \in known /\ org[u] \in Orgs /\ contact[u] \in Contacts
      /\ state[contact[u]] # "absent" /\ mergeLock[contact[u]] = u
      /\ linksLock[org[u]] = u /\ lead[u] \in BOOLEAN /\ (lead[u] <=> link[org[u]] = {})
  BY <1>1 DEF RequestInv, Subject, CreateInv, LinkInv, LocalsTypeOK
<1>3. RowsInv'
  <2>1. /\ lead[u] => link[org[u]] = {}
        /\ org[u] \in known' /\ known \subseteq known' /\ UNCHANGED <<merged, interacted>>
        /\ state'[contact[u]] # "absent"
        /\ \A d \in Contacts : state'[d] = "absent" => state[d] = "absent"
    BY <1>1, <1>2
  <2>2. org[u] \in Orgs /\ contact[u] \in Contacts /\ lead[u] \in BOOLEAN
    BY <1>2
  <2>3. InsertLink(org[u], contact[u], lead[u])
    BY <1>1
  <2> HIDE DEF TypeOK, RowsTypeOK
  <2>4. QED
    BY <2>1, <2>2, <2>3, LinkKeeps, Zenon
<1>4. \A o \in Orgs : link'[o] = link[o] \/ (o = org[u] /\ link'[o] = link[o] \cup {contact[u]})
  BY <1>1, <1>2 DEF InsertLink
<1>5. ASSUME NEW v \in Users \ {u} PROVE Harmless(v)
  <2>1. \A d \in Contacts : version'[d] >= version[d]
    BY <1>1
  <2>2. \A d \in Contacts : mergeLock[d] = v =>
          \A o \in Orgs : d \in link'[o] => d \in link[o]
    BY <1>2, <1>4
  <2>3. \A o \in known : linksLock[o] = v => link'[o] = link[o]
    BY <1>2, <1>4
  <2>4. QED
    BY <1>1, <2>1, <2>2, <2>3 DEF Harmless
<1>6. QED
  BY <1>3, <1>5

LEMMA ImportKeeps ==
  ASSUME TypeOK, RowsInv, NEW u \in Users, Import(u), RequestInv(u)
  PROVE  RowsInv' /\ \A v \in Users \ {u} : Harmless(v)
<1> USE DEF TypeOK, RowsTypeOK
<1>1. PICK c \in Contacts :
        /\ \/ contact[u] = None /\ Insert(c, form[u].sent)
           \/ contact[u] = c /\ UNCHANGED <<state, channels>>
        /\ InsertLink(org[u], c, TRUE)
  BY DEF Import
<1>2. /\ UNCHANGED <<version, merged, interacted>> /\ pc[u] = "importing"
      /\ org[u] \notin known
      /\ known' = known \cup {org[u]} /\ imported' = imported \cup {org[u]}
  BY DEF Import
<1>3. org[u] \in Orgs /\ link[org[u]] = {}
  BY <1>2 DEF RequestInv, Subject, RowsInv
<1>4. /\ \A d \in Contacts : state[d] # "absent" =>
           state'[d] = state[d] /\ channels'[d] = channels[d]
      /\ \A d \in Contacts : state'[d] = "absent" => state[d] = "absent"
  BY <1>1 DEF Insert, IsNew
<1>5. state'[c] # "absent"
  <2>1. CASE Insert(c, form[u].sent)
    BY <2>1 DEF Insert
  <2>2. CASE contact[u] = c /\ UNCHANGED <<state, channels>>
    BY <1>2, <2>2 DEF RequestInv, Subject
  <2>3. QED
    BY <1>1, <2>1, <2>2
<1>6. RowsInv'
  BY <1>1, <1>2, <1>3, <1>4, <1>5, LinkKeeps
<1>7. \A o \in Orgs : o # org[u] => link'[o] = link[o]
  BY <1>1 DEF InsertLink
<1>8. ASSUME NEW v \in Users \ {u} PROVE Harmless(v)
  <2>1. \A d \in Contacts : version'[d] >= version[d]
    BY <1>2
  <2>2. \A o \in known \cup (Orgs \ imported') : link'[o] = link[o]
    BY <1>2, <1>7
  <2>3. QED
    BY <1>2, <1>4, <2>1, <2>2 DEF Harmless
<1>9. QED
  BY <1>6, <1>8

LEMMA EditsKeep ==
  ASSUME TypeOK, RowsInv, NEW u \in Users, Update(u) \/ ChangeArchived(u) \/ Record(u),
         RequestInv(u)
  PROVE  RowsInv' /\ \A v \in Users \ {u} : Harmless(v)
<1> USE DEF TypeOK, RowsTypeOK, InEdit, RequestInv
<1>1. UNCHANGED <<merged, link, primary, known, imported>>
  BY DEF Update, ChangeArchived, Record
<1>2. /\ \A c \in Contacts : state[c] # "absent" =>
           /\ state'[c] # "absent"
           /\ version'[c] >= version[c]
           /\ version'[c] = version[c] => channels'[c] = channels[c]
      /\ \A c \in Contacts : state'[c] = "absent" => state[c] = "absent"
  <2>1. \A n \in Nat : n + 1 >= n /\ n + 1 # n /\ n >= n
    OBVIOUS
  <2>2. CASE Update(u)
    <3>1. contact[u] \in Contacts /\ state' = state
      BY <2>2 DEF Update, Subject
    <3>2. /\ version'[contact[u]] = version[contact[u]] + 1
          /\ \A c \in Contacts : c # contact[u] =>
               version'[c] = version[c] /\ channels'[c] = channels[c]
      BY <2>2, <3>1 DEF Update, Edited
    <3>3. QED
      BY <2>1, <3>1, <3>2
  <2>3. CASE ChangeArchived(u)
    <3>1. contact[u] \in Contacts /\ state[contact[u]] # "absent" /\ channels' = channels
      BY <2>3 DEF ChangeArchived, Subject
    <3>2. /\ state'[contact[u]] # "absent"
          /\ version'[contact[u]] = version[contact[u]] + 1
          /\ \A c \in Contacts : c # contact[u] =>
               version'[c] = version[c] /\ state'[c] = state[c]
      BY <2>3, <3>1 DEF ChangeArchived, Edited
    <3>3. QED
      BY <2>1, <3>1, <3>2
  <2>4. CASE Record(u)
    BY <2>1, <2>4 DEF Record
  <2>5. QED
    BY <2>2, <2>3, <2>4
<1>3. HistoryFollowsSurvivor'
  <2>1. CASE Record(u)
    <3>1. merged[other[u]] = None /\ interacted' = interacted \cup {other[u]}
      BY <2>1 DEF Record, RecordInv
    <3>2. QED
      BY <1>1, <3>1 DEF RowsInv, HistoryIsFound, HistoryFollowsSurvivor
  <2>2. CASE Update(u) \/ ChangeArchived(u)
    BY <1>1, <2>2 DEF Update, ChangeArchived, RowsInv, HistoryIsFound, HistoryFollowsSurvivor
  <2>3. QED
    BY <2>1, <2>2
<1>4. RowsInv'
  BY <1>1, <1>2, <1>3 DEF RowsInv, HistoryIsFound, FlatMerges, OnePrimary
<1>5. ASSUME NEW v \in Users \ {u} PROVE Harmless(v)
  BY <1>1, <1>2 DEF Harmless
<1>6. QED
  BY <1>4, <1>5

\* What a merge writes, and what its locks say of it.
LEMMA MergeEffect ==
  ASSUME TypeOK, NEW u \in Users, Merge(u), RequestInv(u)
  PROVE  LET s == contact[u]
             t == other[u]
         IN  /\ s \in Contacts /\ t \in Contacts /\ s # t
             /\ state[s] # "absent" /\ state[t] # "absent"
             /\ merged[s] = None /\ merged[t] = None /\ s \notin interacted
             /\ graphLock = u
             /\ \A c \in Contacts :
                  c = s \/ c = t \/ merged[c] = s => mergeLock[c] = u
             /\ \A c \in Contacts :
                  merged'[c] = IF c = s \/ merged[c] = s THEN t ELSE merged[c]
             /\ \A o \in Orgs :
                  \/ link'[o] = link[o] /\ primary'[o] = primary[o]
                  \/ /\ s \in link[o] /\ link'[o] = Moved(o, s, t)
                     /\ primary'[o] = MovedPrimary(o, s, t)
             /\ \A o \in Orgs \ imported : s \in link[o] => o \in from[u]
             /\ UNCHANGED <<state, version, channels, known, interacted, imported>>
<1>1. pc[u] = "merging"
  BY DEF Merge
<1>2. /\ contact[u] \in Contacts /\ other[u] \in Contacts /\ other[u] # contact[u]
      /\ state[contact[u]] # "absent" /\ state[other[u]] # "absent"
  BY <1>1 DEF RequestInv, Subject, InMerge
<1>3. /\ graphLock = u /\ mergeLock[contact[u]] = u /\ mergeLock[other[u]] = u
      /\ merged[contact[u]] = None /\ merged[other[u]] = None
      /\ \A c \in Contacts : merged[c] = contact[u] => mergeLock[c] = u
      /\ \A o \in Orgs \ imported : contact[u] \in link[o] => o \in from[u]
  BY <1>1 DEF RequestInv, MergeInv
<1>4. \A c \in Contacts :
        merged'[c] = IF c = contact[u] \/ merged[c] = contact[u] THEN other[u] ELSE merged[c]
  BY DEF Merge, Repointed
<1>5. \A o \in Orgs :
        \/ link'[o] = link[o] /\ primary'[o] = primary[o]
        \/ /\ contact[u] \in link[o] /\ link'[o] = Moved(o, contact[u], other[u])
           /\ primary'[o] = MovedPrimary(o, contact[u], other[u])
  BY DEF Merge
<1>6. /\ contact[u] \notin interacted
      /\ UNCHANGED <<state, version, channels, known, interacted, imported>>
  BY DEF Merge
<1>7. QED
  BY <1>2, <1>3, <1>4, <1>5, <1>6

\* Who was merged into the source is repointed, and the target is nobody's source.
LEMMA MergeKeepsRows ==
  ASSUME TypeOK, RowsInv, NEW u \in Users, Merge(u), RequestInv(u)
  PROVE  RowsInv'
<1> DEFINE s == contact[u]
           t == other[u]
<1>1. /\ s \in Contacts /\ t \in Contacts /\ s # t
      /\ state[s] # "absent" /\ state[t] # "absent"
      /\ merged[s] = None /\ merged[t] = None /\ s \notin interacted
      /\ \A c \in Contacts : merged'[c] = IF c = s \/ merged[c] = s THEN t ELSE merged[c]
      /\ \A o \in Orgs :
           \/ link'[o] = link[o] /\ primary'[o] = primary[o]
           \/ /\ s \in link[o] /\ link'[o] = Moved(o, s, t)
              /\ primary'[o] = MovedPrimary(o, s, t)
      /\ UNCHANGED <<state, known, interacted>>
  BY MergeEffect
<1> HIDE DEF s, t
<1> USE DEF TypeOK, RowsTypeOK
<1>2. FlatMerges /\ HistoryFollowsSurvivor
  BY DEF RowsInv, HistoryIsFound
<1>3. None \notin Contacts
  OBVIOUS
<1>4. ASSUME NEW c \in Contacts, merged[c] = None, c # s PROVE merged'[c] = None
  BY <1>1, <1>3, <1>4
<1>5. FlatMerges'
  <2> SUFFICES ASSUME NEW c \in Contacts, merged'[c] # None PROVE merged'[merged'[c]] = None
    BY DEF FlatMerges
  <2>1. CASE c = s \/ merged[c] = s
    BY <1>1, <1>4, <2>1
  <2>2. CASE ~(c = s \/ merged[c] = s)
    <3>1. merged'[c] = merged[c] /\ merged[c] \in Contacts /\ merged[c] # s
      BY <1>1, <2>2
    <3>2. merged[merged[c]] = None
      BY <1>2, <3>1, <1>3 DEF FlatMerges
    <3>3. QED
      BY <1>4, <3>1, <3>2
  <2>3. QED
    BY <2>1, <2>2
<1>6. HistoryFollowsSurvivor'
  BY <1>1, <1>2, <1>4 DEF HistoryFollowsSurvivor
<1>7. ASSUME NEW o \in Orgs
      PROVE  /\ \A c, d \in primary'[o] : c = d
             /\ primary'[o] \subseteq link'[o]
             /\ link[o] = {} => link'[o] = {}
             /\ \A c \in Contacts : c \in link'[o] => c \in link[o] \/ c = t
  <2>1. (\A c, d \in primary[o] : c = d) /\ primary[o] \subseteq link[o]
    BY DEF RowsInv, OnePrimary
  <2>2. CASE link'[o] = link[o] /\ primary'[o] = primary[o]
    BY <2>1, <2>2
  <2>3. CASE /\ s \in link[o] /\ link'[o] = Moved(o, s, t)
             /\ primary'[o] = MovedPrimary(o, s, t)
    <3>1. link'[o] = (link[o] \ {s}) \cup {t}
      BY <2>3 DEF Moved
    <3>2. \/ primary'[o] = primary[o] \ {s}
          \/ s \in primary[o] /\ primary'[o] = (primary[o] \ {s}) \cup {t}
      BY <2>3 DEF MovedPrimary
    <3>3. \A c, d \in primary'[o] : c = d
      BY <2>1, <3>2
    <3>4. QED
      BY <2>1, <2>3, <3>1, <3>2, <3>3
  <2>4. QED
    BY <1>1, <2>2, <2>3
<1>8. HistoryIsFound' /\ OnePrimary'
  BY <1>5, <1>6, <1>7 DEF HistoryIsFound, OnePrimary
<1>9. \A c \in Contacts : state'[c] = "absent" =>
        merged'[c] = None /\ \A o \in Orgs : c \notin link'[o]
  BY <1>1, <1>4, <1>7 DEF RowsInv
<1>10. \A o \in Orgs \ known' : link'[o] = {}
  BY <1>1, <1>7 DEF RowsInv
<1>11. QED
  BY <1>7, <1>8, <1>9, <1>10 DEF RowsInv

\* Nobody else relies on a contact that a merge takes away.
LEMMA MergeKeepsRequests ==
  ASSUME TypeOK, NEW u \in Users, Merge(u), RequestInv(u), Others(u),
         NEW v \in Users \ {u}, RequestInv(v)
  PROVE  RequestInv(v)'
<1> DEFINE s == contact[u]
           t == other[u]
<1>1. /\ s \in Contacts /\ t \in Contacts /\ s # t
      /\ merged[s] = None /\ merged[t] = None
      /\ graphLock = u
      /\ \A c \in Contacts : c = s \/ c = t \/ merged[c] = s => mergeLock[c] = u
      /\ \A c \in Contacts : merged'[c] = IF c = s \/ merged[c] = s THEN t ELSE merged[c]
      /\ \A o \in Orgs :
           \/ link'[o] = link[o] /\ primary'[o] = primary[o]
           \/ s \in link[o] /\ link'[o] = Moved(o, s, t)
      /\ UNCHANGED <<state, version, channels, known, imported>>
  BY MergeEffect
<1> HIDE DEF s, t
<1> USE DEF TypeOK, RowsTypeOK, RequestInv, InOrganization, InMerge, InEdit
<1>2. /\ pc'[v] = pc[v] /\ contact'[v] = contact[v] /\ other'[v] = other[v]
      /\ org'[v] = org[v] /\ form'[v] = form[v] /\ from'[v] = from[v]
      /\ lead'[v] = lead[v] /\ want'[v] = want[v]
      /\ \A c \in Contacts : mergeLock[c] = v => mergeLock'[c] = v
      /\ \A o \in Orgs : linksLock[o] = v => linksLock'[o] = v
  BY DEF Others
<1>3. \A c \in Contacts : mergeLock[c] = v => c # s /\ merged[c] # s /\ merged'[c] = merged[c]
  BY <1>1
<1>4. \A o \in Orgs : link'[o] = {} <=> link[o] = {}
  BY <1>1 DEF Moved
<1>5. Subject(v)'
  BY <1>1, <1>2 DEF Subject
<1>6. CreateInv(v)'
  BY <1>2, <1>4 DEF CreateInv, Subject
<1>7. LinkInv(v)'
  BY <1>2, <1>3 DEF LinkInv, Subject
<1>8. MergeInv(v)'
  BY <1>1, <1>2 DEF MergeInv
<1>9. EditInv(v)'
  BY <1>1, <1>2 DEF EditInv
<1>10. RecordInv(v)'
  <2>1. CASE pc[v] = "recording"
    <3>1. /\ contact[v] \in Contacts /\ other[v] \in Contacts
          /\ mergeLock[contact[v]] = v /\ merged[other[v]] = None
          /\ other[v] = contact[v] \/ merged[contact[v]] = other[v]
      BY <2>1 DEF Subject, RecordInv
    <3>2. other[v] # s /\ merged'[contact[v]] = merged[contact[v]]
      BY <1>3, <3>1
    <3>3. None # s
      BY <1>1
    <3>4. merged'[other[v]] = None
      BY <1>1, <3>1, <3>2, <3>3
    <3>5. QED
      BY <1>2, <3>1, <3>2, <3>4 DEF RecordInv
  <2>2. CASE pc[v] # "recording"
    BY <1>2, <2>2 DEF RecordInv
  <2>3. QED
    BY <2>1, <2>2
<1>11. QED
  BY <1>5, <1>6, <1>7, <1>8, <1>9, <1>10

LEMMA WritesKeep ==
  ASSUME TypeOK, RowsInv, NEW u \in Users, Writes(u), \A v \in Users : RequestInv(v)
  PROVE  TypeOK' /\ RowsInv' /\ \A v \in Users : RequestInv(v)'
<1>1. RequestInv(u) /\ Subject(u)
  BY DEF RequestInv
<1>2. TypeOK' /\ Others(u) /\ pc'[u] = "idle"
  BY <1>1, WritesTyped
<1>3. RequestInv(u)'
  BY <1>2, OverKeeps
<1>4. CASE Merge(u)
  <2>1. RowsInv'
    BY <1>1, <1>4, MergeKeepsRows
  <2>2. ASSUME NEW v \in Users \ {u} PROVE RequestInv(v)'
    BY <1>1, <1>2, <1>4, MergeKeepsRequests
  <2>3. QED
    BY <1>2, <1>3, <2>1, <2>2
<1>5. CASE ~Merge(u)
  <2>1. RowsInv' /\ \A v \in Users \ {u} : Harmless(v)
    <3>1. CASE Create(u)
      BY <1>1, <3>1, CreateKeeps
    <3>2. CASE Link(u)
      BY <1>1, <3>2, LinkCommitKeeps
    <3>3. CASE Import(u)
      BY <1>1, <3>3, ImportKeeps
    <3>4. CASE Update(u) \/ ChangeArchived(u) \/ Record(u)
      BY <1>1, <3>4, EditsKeep
    <3>5. QED
      BY <1>5, <3>1, <3>2, <3>3, <3>4 DEF Writes
  <2>2. ASSUME NEW v \in Users \ {u} PROVE RequestInv(v)'
    BY <1>2, <2>1, HarmlessKeeps
  <2>3. QED
    BY <1>2, <1>3, <2>1, <2>2
<1>6. QED
  BY <1>4, <1>5

\* The rows are as they were, and so is what the other requests rely on.
LEMMA UnwrittenKeepsAll ==
  ASSUME TypeOK, RowsInv, TypeOK', NEW u \in Users, Others(u), UNCHANGED <<rows, imported>>,
         RequestInv(u)', \A v \in Users : RequestInv(v)
  PROVE  IInv'
<1>1. RowsInv'
  BY DEF RowsInv, HistoryIsFound, FlatMerges, HistoryFollowsSurvivor, OnePrimary
<1>2. ASSUME NEW v \in Users \ {u} PROVE RequestInv(v)'
  BY <1>2, UnwrittenKeeps
<1>3. QED
  BY <1>1, <1>2 DEF IInv

LEMMA AbortKeeps ==
  ASSUME TypeOK, RowsInv, NEW u \in Users, Abort(u), \A v \in Users : RequestInv(v)
  PROVE  IInv'
<1>1. End(u) /\ UNCHANGED <<rows, imported>>
  BY DEF Abort
<1>2. TypeOK' /\ Others(u) /\ pc'[u] = "idle"
  BY <1>1, EndTyped, EndOthers DEF TypeOK, RowsTypeOK
<1>3. RequestInv(u)'
  BY <1>2, OverKeeps
<1>4. QED
  BY <1>1, <1>2, <1>3, UnwrittenKeepsAll

LEMMA Initially == Init => IInv
<1> SUFFICES ASSUME Init PROVE IInv
  OBVIOUS
<1>1. Blank \in Forms
  BY DEF Blank, Forms
<1>2. TypeOK
  BY <1>1 DEF Init, TypeOK, RowsTypeOK, LocalsTypeOK, LocksTypeOK, Owners
<1>3. HistoryIsFound
  BY DEF Init, HistoryIsFound, FlatMerges, HistoryFollowsSurvivor
<1>4. OnePrimary
  BY DEF Init, OnePrimary
<1>5. RowsInv
  BY <1>3, <1>4 DEF Init, RowsInv
<1>6. ASSUME NEW u \in Users PROVE RequestInv(u)
  <2>1. pc[u] = "idle"
    BY DEF Init
  <2>2. QED
    BY <2>1 DEF RequestInv, Subject, CreateInv, LinkInv, MergeInv, EditInv, RecordInv,
                InOrganization, InMerge, InEdit
<1>7. QED
  BY <1>2, <1>5, <1>6 DEF IInv

LEMMA Inductive == IInv /\ [Next]_vars => IInv'
<1> SUFFICES ASSUME IInv, [Next]_vars PROVE IInv'
  OBVIOUS
<1>1. TypeOK /\ RowsInv /\ \A v \in Users : RequestInv(v)
  BY DEF IInv
<1>2. ASSUME NEW u \in Users, Starts(u) PROVE IInv'
  <2>1. TypeOK' /\ Others(u) /\ UNCHANGED <<rows, imported>>
    BY <1>1, <1>2, StartsTyped
  <2>2. RequestInv(u)'
    BY <1>1, <1>2, StartsKeep
  <2>3. QED
    BY <1>1, <2>1, <2>2, UnwrittenKeepsAll
<1>3. ASSUME NEW u \in Users, TakesLock(u) PROVE IInv'
  <2>1. TypeOK' /\ Others(u) /\ UNCHANGED <<rows, imported>>
    BY <1>1, <1>3, TakesLockTyped
  <2>2. RequestInv(u)'
    BY <1>1, <1>3, TakesLockKeeps
  <2>3. QED
    BY <1>1, <2>1, <2>2, UnwrittenKeepsAll
<1>4. ASSUME NEW u \in Users, Reads(u) PROVE IInv'
  <2>1. TypeOK' /\ Others(u) /\ UNCHANGED <<rows, imported>>
    BY <1>1, <1>4, ReadsTyped DEF RequestInv
  <2>2. RequestInv(u)'
    BY <1>1, <1>4, ReadsKeep
  <2>3. QED
    BY <1>1, <2>1, <2>2, UnwrittenKeepsAll
<1>5. ASSUME NEW u \in Users, Writes(u) PROVE IInv'
  <2>1. TypeOK' /\ RowsInv' /\ \A v \in Users : RequestInv(v)'
    BY <1>1, <1>5, WritesKeep
  <2>2. QED
    BY <2>1 DEF IInv
<1>6. ASSUME NEW u \in Users, Abort(u) PROVE IInv'
  BY <1>1, <1>6, AbortKeeps
<1>7. CASE UNCHANGED vars
  <2>1. TypeOK'
    BY <1>1, <1>7 DEF vars, TypeOK, RowsTypeOK, LocalsTypeOK, LocksTypeOK, Owners
  <2>2. RowsInv'
    BY <1>1, <1>7 DEF vars, RowsInv, HistoryIsFound, FlatMerges, HistoryFollowsSurvivor,
                      OnePrimary
  <2>3. ASSUME NEW v \in Users PROVE RequestInv(v)'
    BY <1>1, <1>7 DEF vars, RequestInv, Subject, CreateInv, LinkInv, MergeInv, EditInv,
                      RecordInv, InOrganization, InMerge, InEdit
  <2>4. QED
    BY <2>1, <2>2, <2>3 DEF IInv
<1>8. QED
  BY <1>2, <1>3, <1>4, <1>5, <1>6, <1>7, Steps

-------------------------------------------------------------------------------
(* Theorems *)

\* Whatever requests are in flight, every one may rely on what the comments above say.
THEOREM Invariance == Spec => []IInv
  BY Initially, Inductive, PTL DEF Spec

\* The rows, what requests have in mind and the locks have their types.
THEOREM TypeCorrect == Spec => []TypeOK
<1>1. IInv => TypeOK
  BY DEF IInv
<1>2. QED
  BY <1>1, Invariance, PTL

\* One step along merged_into_id finds the contact a history is about, as
\* createInteraction takes one: merges and completions hold locks in common.
THEOREM MergedHistoryIsFound == Spec => []HistoryIsFound
<1>1. IInv => HistoryIsFound
  BY DEF IInv, RowsInv
<1>2. QED
  BY <1>1, Invariance, PTL

\* Creations, links, merges and imports leave an organization at most one primary contact.
THEOREM OnePrimaryContact == Spec => []OnePrimary
<1>1. IInv => OnePrimary
  BY DEF IInv, RowsInv
<1>2. QED
  BY <1>1, Invariance, PTL

\* What a step of another request leaves to a request, stated for all of its kinds.
LEMMA OthersAsBefore ==
  ASSUME IInv, NEW u \in Users,
         Starts(u) \/ TakesLock(u) \/ Reads(u) \/ Writes(u) \/ Abort(u)
  PROVE  Others(u)
<1>1. TypeOK /\ RequestInv(u) /\ Subject(u)
  BY DEF IInv, RequestInv
<1>2. CASE Abort(u)
  BY <1>1, <1>2, EndOthers DEF Abort, TypeOK
<1>3. QED
  BY <1>1, <1>2, StartsTyped, TakesLockTyped, ReadsTyped, WritesTyped

\* updateContact replaces the channels its author saw, whatever else was edited meanwhile.
THEOREM NothingIsLost == Spec => NoLostUpdate
<1>1. ASSUME IInv, [Next]_vars, NEW u \in Users, pc[u] = "updating",
             version'[contact[u]] # version[contact[u]], pc'[u] = "idle"
      PROVE  channels[contact[u]] = form[u].seen
  <2>1. version' # version /\ ~UNCHANGED vars
    BY <1>1 DEF vars
  <2>2. PICK w \in Users :
          Starts(w) \/ TakesLock(w) \/ Reads(w) \/ Writes(w) \/ Abort(w)
    BY <1>1, <2>1, Steps
  <2>3. w = u
    BY <1>1, <2>2, OthersAsBefore DEF Others
  <2>4. Writes(u) \/ Starts(u)
    BY <2>1, <2>2, <2>3
       DEF TakesLock, TakeMergeLock, TakeLinksLock, TakeChannelLock, Reads, CreateRead,
           LinkRead, LinkCount, TakeGraphLock, MergeRead, MergeLinks, MergeFails, UpdateRead,
           ArchiveRead, RecordRead, Abort
  <2>5. Update(u)
    BY <1>1, <2>4
       DEF Writes, Create, Link, Merge, ChangeArchived, Record, Import, Starts, StartCreate,
           StartLink, StartMerge, StartEdit, StartRecord, ImportRead
  <2>6. EditInv(u) /\ SameVersion(u)
    BY <1>1, <2>5 DEF IInv, RequestInv, Update
  <2>7. QED
    BY <1>1, <2>6 DEF EditInv, SameVersion, InEdit
<1>2. IInv /\ [Next]_vars =>
        [\A u \in Users :
           pc[u] = "updating" /\ version'[contact[u]] # version[contact[u]]
             /\ pc'[u] = "idle"
           => channels[contact[u]] = form[u].seen]_vars
  BY <1>1
<1>3. QED
  BY <1>2, Invariance, PTL DEF Spec, NoLostUpdate

-------------------------------------------------------------------------------
(* The in-memory service *)

\* What that service knows of: links of organizations the import did not make.
Known(f) == [o \in Orgs |-> IF o \in imported THEN {} ELSE f[o]]

LEMMA CreateIsTwins ==
  ASSUME TypeOK, RowsInv, NEW u \in Users, RequestInv(u), Create(u)
  PROVE  [Twin!Next]_Twin!vars
<1> USE DEF TypeOK, RowsTypeOK, InOrganization
<1>1. PICK c \in Contacts :
        /\ Insert(c, form[u].sent) /\ InsertLink(org[u], c, lead[u])
        /\ UNCHANGED <<version, merged, known, interacted, imported>> /\ pc[u] = "creating"
  BY DEF Create
<1>2. PICK o \in Orgs :
        o = org[u] /\ (lead[u] <=> link[o] = {}) /\ primary[o] \subseteq link[o]
  BY <1>1 DEF RequestInv, Subject, CreateInv, RowsInv
<1>3. state[c] = "absent" /\ state' = [state EXCEPT ![c] = "active"]
  BY <1>1 DEF Insert, IsNew
<1>4. /\ link' = [link EXCEPT ![o] = link[o] \cup {c}]
      /\ primary' = IF link[o] = {} THEN [primary EXCEPT ![o] = {c}] ELSE primary
  BY <1>1, <1>2 DEF InsertLink
<1>5. CASE o \in imported
  <2>1. Known(link)' = Known(link) /\ Known(primary)' = Known(primary)
    BY <1>1, <1>2, <1>4, <1>5 DEF Known
  <2>2. Twin!Register(c)
    BY <1>1, <1>3, <2>1 DEF Twin!Register, Known
  <2>3. QED
    BY <2>2 DEF Twin!Next
<1>6. CASE o \notin imported
  <2>1. Known(link)' = [Known(link) EXCEPT ![o] = @ \cup {c}]
    BY <1>1, <1>2, <1>4, <1>6 DEF Known
  <2>2. Known(primary)' =
          IF Known(link)[o] = {} THEN [Known(primary) EXCEPT ![o] = {c}] ELSE Known(primary)
    BY <1>1, <1>2, <1>4, <1>6 DEF Known
  <2>3. Twin!Create(o, c)
    <3>1. UNCHANGED <<version, merged>>
      BY <1>1
    <3>2. QED
      BY <1>3, <2>1, <2>2, <3>1, Zenon DEF Twin!Create, Twin!Add, Known
  <2>4. QED
    BY <1>2, <2>3 DEF Twin!Next
<1>7. QED
  BY <1>5, <1>6

LEMMA LinkIsTwins ==
  ASSUME TypeOK, RowsInv, NEW u \in Users, RequestInv(u), Link(u)
  PROVE  [Twin!Next]_Twin!vars
<1> USE DEF TypeOK, RowsTypeOK, InOrganization
<1>1. /\ InsertLink(org[u], contact[u], lead[u]) /\ contact[u] \notin link[org[u]]
      /\ UNCHANGED <<state, version, merged, imported>> /\ pc[u] = "linked"
  BY DEF Link
<1>2. PICK o \in Orgs, c \in Contacts :
        /\ o = org[u] /\ c = contact[u] /\ state[c] # "absent" /\ merged[c] = None
        /\ c \notin link[o] /\ (lead[u] <=> link[o] = {}) /\ primary[o] \subseteq link[o]
  BY <1>1 DEF RequestInv, Subject, CreateInv, LinkInv, RowsInv
<1>3. /\ link' = [link EXCEPT ![o] = link[o] \cup {c}]
      /\ primary' = IF link[o] = {} THEN [primary EXCEPT ![o] = {c}] ELSE primary
  BY <1>1, <1>2 DEF InsertLink
<1>4. CASE o \in imported
  <2>1. Known(link)' = Known(link) /\ Known(primary)' = Known(primary)
    BY <1>1, <1>2, <1>3, <1>4 DEF Known
  <2>2. QED
    BY <1>1, <2>1 DEF Twin!vars, Known
<1>5. CASE o \notin imported
  <2>1. Known(link)' = [Known(link) EXCEPT ![o] = @ \cup {c}]
    BY <1>1, <1>2, <1>3, <1>5 DEF Known
  <2>2. Known(primary)' =
          IF Known(link)[o] = {} THEN [Known(primary) EXCEPT ![o] = {c}] ELSE Known(primary)
    BY <1>1, <1>2, <1>3, <1>5 DEF Known
  <2>3. Twin!Link(o, c)
    <3>1. UNCHANGED <<state, version, merged>>
      BY <1>1
    <3>2. c \notin Known(link)[o]
      BY <1>2, <1>5 DEF Known
    <3>3. QED
      BY <1>2, <2>1, <2>2, <3>1, <3>2, Zenon DEF Twin!Link, Twin!Add, Known
  <2>4. QED
    BY <1>2, <2>3 DEF Twin!Next
<1>6. QED
  BY <1>4, <1>5

\* The links lock of every organization of the source is held: none is forgotten.
LEMMA MergeIsTwins ==
  ASSUME TypeOK, RowsInv, NEW u \in Users, RequestInv(u), Merge(u)
  PROVE  [Twin!Next]_Twin!vars
<1> USE DEF TypeOK, RowsTypeOK
<1>1. PICK s \in Contacts, t \in Contacts :
        /\ s = contact[u] /\ t = other[u] /\ s # t
        /\ state[s] # "absent" /\ state[t] # "absent"
        /\ merged[s] = None /\ merged[t] = None
        /\ \A o \in Orgs \ imported : s \in link[o] => o \in from[u]
        /\ UNCHANGED <<state, version, imported>>
  BY MergeEffect
<1>2. /\ merged' = Repointed(s, t)
      /\ link' = [o \in Orgs |->
           IF o \in from[u] /\ s \in link[o] THEN Moved(o, s, t) ELSE link[o]]
      /\ primary' = [o \in Orgs |->
           IF o \in from[u] /\ s \in link[o] THEN MovedPrimary(o, s, t) ELSE primary[o]]
  BY <1>1 DEF Merge
<1>3. \A o \in Orgs : primary[o] \subseteq link[o]
  BY DEF RowsInv
<1>4. Known(link)' = [o \in Orgs |->
        IF s \in Known(link)[o] THEN (Known(link)[o] \ {s}) \cup {t} ELSE Known(link)[o]]
  BY <1>1, <1>2 DEF Known, Moved
<1>5. Known(primary)' = [o \in Orgs |->
        IF s \in Known(primary)[o] /\ t \notin Known(link)[o]
          THEN (Known(primary)[o] \ {s}) \cup {t} ELSE Known(primary)[o] \ {s}]
  <2>1. ASSUME NEW o \in Orgs, o \notin imported
        PROVE  primary'[o] = IF s \in primary[o] /\ t \notin link[o]
                               THEN (primary[o] \ {s}) \cup {t} ELSE primary[o] \ {s}
    <3>1. CASE s \in link[o]
      BY <1>1, <1>2, <2>1, <3>1 DEF MovedPrimary
    <3>2. CASE s \notin link[o]
      <4>1. s \notin primary[o] /\ primary'[o] = primary[o]
        BY <1>2, <1>3, <3>2
      <4>2. primary[o] \ {s} = primary[o]
        BY <4>1
      <4>3. QED
        BY <4>1, <4>2
    <3>3. QED
      BY <3>1, <3>2
  <2>2. QED
    BY <1>1, <2>1 DEF Known
<1>6. Twin!Merge(s, t)
  <2>1. UNCHANGED <<state, version>>
    BY <1>1
  <2>2. QED
    BY <1>1, <1>2, <1>4, <1>5, <2>1, Zenon DEF Twin!Merge, Known, Repointed
<1>7. QED
  BY <1>1, <1>6 DEF Twin!Next

LEMMA EditIsTwins ==
  ASSUME TypeOK, NEW u \in Users, RequestInv(u), Update(u) \/ ChangeArchived(u)
  PROVE  [Twin!Next]_Twin!vars
<1>1. /\ contact[u] \in Contacts /\ state[contact[u]] # "absent"
      /\ UNCHANGED <<merged, link, primary, imported>> /\ Edited(contact[u])
      /\ merged[contact[u]] = None
  BY DEF RequestInv, Subject, InEdit, Update, ChangeArchived, Active
<1>2. Known(link)' = Known(link) /\ Known(primary)' = Known(primary)
  BY <1>1 DEF Known
<1>3. CASE Update(u)
  <2>1. Twin!Update(contact[u])
    BY <1>1, <1>2, <1>3 DEF Twin!Update, Update, Active, Edited, Known
  <2>2. QED
    BY <1>1, <2>1 DEF Twin!Next
<1>4. CASE ChangeArchived(u)
  <2>1. Twin!ChangeArchived(contact[u])
    BY <1>1, <1>2, <1>4 DEF Twin!ChangeArchived, ChangeArchived, Edited, Known
  <2>2. QED
    BY <1>1, <2>1 DEF Twin!Next
<1>5. QED
  BY <1>3, <1>4

\* The import links a contact to an organization that service does not have.
LEMMA ImportIsTwins ==
  ASSUME TypeOK, RowsInv, NEW u \in Users, RequestInv(u), Import(u)
  PROVE  [Twin!Next]_Twin!vars
<1> USE DEF TypeOK, RowsTypeOK
<1> DEFINE o == org[u]
<1>1. PICK c \in Contacts :
        /\ Insert(c, form[u].sent) \/ UNCHANGED <<state, channels>>
        /\ InsertLink(o, c, TRUE) /\ imported' = imported \cup {o}
        /\ UNCHANGED <<version, merged>> /\ pc[u] = "importing" /\ o \notin known
  BY DEF Import
<1>2. o \in Orgs /\ link[o] = {} /\ primary[o] = {}
  BY <1>1 DEF RequestInv, Subject, RowsInv
<1> HIDE DEF o
<1>3. Known(link)' = Known(link) /\ Known(primary)' = Known(primary)
  BY <1>1, <1>2 DEF InsertLink, Known
<1>4. CASE Insert(c, form[u].sent)
  <2>1. Twin!Register(c)
    BY <1>1, <1>3, <1>4 DEF Twin!Register, Insert, IsNew, Known
  <2>2. QED
    BY <2>1 DEF Twin!Next
<1>5. CASE UNCHANGED <<state, channels>>
  BY <1>1, <1>3, <1>5 DEF Twin!vars, Known
<1>6. QED
  BY <1>1, <1>4, <1>5

\* Every request is one call of the in-memory service, made when it commits.
THEOREM ImplementsService == Spec => ImplementsTwin
<1>1. Init => Twin!Init
  <2> SUFFICES ASSUME Init PROVE Twin!Init
    OBVIOUS
  <2>1. Known(link) = link /\ Known(primary) = primary
    BY DEF Init, Known
  <2>2. /\ Known(link) \in [Orgs -> SUBSET {c \in Contacts : state[c] = "active"}]
        /\ Known(primary) \in [Orgs -> SUBSET Contacts]
        /\ \A o \in Orgs : Known(primary)[o] \subseteq Known(link)[o]
    BY <2>1 DEF Init
  <2>3. QED
    <3>1. /\ state \in [Contacts -> {"absent", "active"}]
          /\ version = [c \in Contacts |-> 1] /\ merged = [c \in Contacts |-> None]
      BY DEF Init
    <3>2. QED
      BY <2>2, <3>1, Zenon DEF Twin!Init, Known
<1>2. IInv /\ [Next]_vars => [Twin!Next]_Twin!vars
  <2> SUFFICES ASSUME IInv, [Next]_vars PROVE [Twin!Next]_Twin!vars
    OBVIOUS
  <2>1. TypeOK /\ RowsInv /\ \A v \in Users : RequestInv(v)
    BY DEF IInv
  <2>2. ASSUME UNCHANGED <<rows, imported>> PROVE [Twin!Next]_Twin!vars
    BY <2>2 DEF Twin!vars
  <2>3. ASSUME NEW u \in Users, Starts(u) \/ TakesLock(u) \/ Reads(u) \/ Abort(u)
        PROVE  UNCHANGED <<rows, imported>>
    BY <2>1, <2>3, StartsTyped, TakesLockTyped, ReadsTyped DEF Abort, RequestInv
  <2>4. ASSUME NEW u \in Users, Writes(u) PROVE [Twin!Next]_Twin!vars
    <3>1. CASE Record(u)
      BY <3>1 DEF Record, Twin!vars
    <3>2. QED
      BY <2>1, <2>4, <3>1, CreateIsTwins, LinkIsTwins, MergeIsTwins, EditIsTwins,
         ImportIsTwins DEF Writes
  <2>5. CASE UNCHANGED vars
    BY <2>2, <2>5 DEF vars
  <2>6. QED
    BY <2>2, <2>3, <2>4, <2>5, Steps
<1>3. QED
  BY <1>1, <1>2, Invariance, PTL DEF Spec, ImplementsTwin, Twin!Spec

-------------------------------------------------------------------------------
(* Deadlocks *)

\* Which points a request may have reached with a lock, and with locks it has yet to take.
\* Locks of one kind are taken in the order of their numbers.
LockInv(u) ==
  /\ graphLock = u => pc[u] \in {"pair", "past", "merging", "failed"}
  /\ pc[u] \in {"pair", "past", "merging", "failed"} => graphLock = u
  /\ \A c \in Contacts : mergeLock[c] = u =>
       pc[u] \in {"linking", "linked", "pair", "past", "merging", "failed", "recording"}
  /\ \A o \in Orgs : linksLock[o] = u => pc[u] \in {"creating", "linked", "merging", "failed"}
  /\ \A ch \in Channels : channelLock[ch] = u =>
       pc[u] \in {"create", "creating"} /\ \A x \in wantChannels[u] : ch < x
  /\ \A c \in Contacts : registryLock[c] = u => pc[u] \in {"updating", "archiving"}
  /\ want[u] # {} => pc[u] \in {"pair", "past"}
  /\ wantLinks[u] # {} => pc[u] = "merging"
  /\ wantChannels[u] # {} => pc[u] = "create"

LocksInv == TypeOK /\ \A u \in Users : LockInv(u)

\* What a step of u leaves to the other requests: where they are, what they have yet to
\* take, and no lock they do not hold.
KeepsOthers(u) ==
  \A v \in Users \ {u} :
    /\ pc'[v] = pc[v] /\ want'[v] = want[v]
    /\ wantLinks'[v] = wantLinks[v] /\ wantChannels'[v] = wantChannels[v]
    /\ graphLock' = v <=> graphLock = v
    /\ \A c \in Contacts : mergeLock'[c] = v => mergeLock[c] = v
    /\ \A o \in Orgs : linksLock'[o] = v => linksLock[o] = v
    /\ \A ch \in Channels : channelLock'[ch] = v => channelLock[ch] = v
    /\ \A c \in Contacts : registryLock'[c] = v => registryLock[c] = v

\* A nonempty set of numbers has a least one: of the intervals from 0 to its elements, one
\* contains no other.
LEMMA HasLeast ==
  ASSUME NEW S \in SUBSET Nat, S # {}
  PROVE  Least(S) \in S /\ \A y \in S : Least(S) <= y
<1>1. PICK s \in S : TRUE
  OBVIOUS
<1> DEFINE R == StrictSubsetOrdering(0 .. s)
           T == {0 .. x : x \in {x \in S : x <= s}}
<1>2. IsFiniteSet(0 .. s)
  BY FS_Interval
<1>3. IsWellFoundedOn(R, SUBSET (0 .. s))
  BY <1>2, FS_StrictSubsetOrderingWellFounded, FS_FiniteSubsetsOfFinite
<1>4. T \subseteq SUBSET (0 .. s) /\ T # {}
  OBVIOUS
<1>5. PICK I \in T : \A J \in T : ~ (<<J, I>> \in R)
  <2> HIDE DEF R, T
  <2> QED
    BY <1>3, <1>4, WFMin
<1>6. PICK x \in S : x <= s /\ I = 0 .. x
  OBVIOUS
<1>7. ASSUME NEW y \in S, y < x PROVE FALSE
  <2>1. 0 .. y \in T
    BY <1>6, <1>7
  <2>2. 0 .. y \subseteq I /\ 0 .. y # I
    BY <1>6, <1>7
  <2>3. <<0 .. y, I>> \in R
    BY <2>1, <2>2, <1>4, <1>5 DEF StrictSubsetOrdering
  <2>4. QED
    BY <1>5, <2>1, <2>3
<1>8. \A y \in S : x <= y
  <2>1. \A y \in S : y \in Nat /\ ~ (y < x)
    BY <1>7
  <2>2. QED
    BY <2>1
<1>9. QED
  BY <1>8 DEF Least

\* The end of a transaction releases everything.
LEMMA EndReleases ==
  ASSUME LocalsTypeOK, LocksTypeOK, NEW u \in Users, End(u)
  PROVE  KeepsOthers(u) /\ LockInv(u)'
<1>1. ASSUME NEW v \in Users \ {u}
      PROVE  /\ pc'[v] = pc[v] /\ want'[v] = want[v]
             /\ wantLinks'[v] = wantLinks[v] /\ wantChannels'[v] = wantChannels[v]
  BY DEF LocalsTypeOK, End
<1>2. ASSUME NEW v \in Users \ {u}
      PROVE  /\ graphLock' = v <=> graphLock = v
             /\ \A c \in Contacts : mergeLock'[c] = v => mergeLock[c] = v
             /\ \A o \in Orgs : linksLock'[o] = v => linksLock[o] = v
             /\ \A ch \in Channels : channelLock'[ch] = v => channelLock[ch] = v
             /\ \A c \in Contacts : registryLock'[c] = v => registryLock[c] = v
  BY DEF LocksTypeOK, End
<1>3. /\ pc'[u] = "idle" /\ want'[u] = {} /\ wantLinks'[u] = {} /\ wantChannels'[u] = {}
      /\ graphLock' # u
      /\ \A c \in Contacts : mergeLock'[c] # u /\ registryLock'[c] # u
      /\ \A o \in Orgs : linksLock'[o] # u
      /\ \A ch \in Channels : channelLock'[ch] # u
  BY DEF LocalsTypeOK, LocksTypeOK, End
<1>4. QED
  BY <1>1, <1>2, <1>3 DEF KeepsOthers, LockInv

\* Taking the least of the locks that are wanted keeps their order.
LEMMA TakesLockInOrder ==
  ASSUME TypeOK, NEW u \in Users, TakesLock(u), LockInv(u)
  PROVE  KeepsOthers(u) /\ LockInv(u)'
<1> USE DEF TypeOK, LocalsTypeOK, LocksTypeOK
<1>1. CASE TakeMergeLock(u)
  BY <1>1 DEF TakeMergeLock, First, KeepsOthers, LockInv
<1>2. CASE TakeLinksLock(u)
  BY <1>2 DEF TakeLinksLock, First, KeepsOthers, LockInv
<1>3. CASE TakeChannelLock(u)
  <2>1. PICK ch \in Channels :
          /\ First(wantChannels[u], ch) /\ channelLock[ch] = None
          /\ channelLock' = [channelLock EXCEPT ![ch] = u]
          /\ wantChannels' = [wantChannels EXCEPT ![u] = @ \ {ch}]
          /\ UNCHANGED <<rows, pc, locals, want, wantLinks, graphLock, mergeLock,
                         linksLock, registryLock, imported>>
    BY <1>3 DEF TakeChannelLock
  <2>2. wantChannels[u] \subseteq Nat /\ wantChannels[u] # {}
    BY <2>1 DEF First
  <2>3. \A x \in wantChannels[u] : ch <= x
    BY <2>1, <2>2, HasLeast DEF First
  <2>4. \A x \in wantChannels'[u] : x \in wantChannels[u] /\ ch < x
    BY <2>1, <2>2, <2>3
  <2>5. pc[u] = "create" /\ pc'[u] = "create"
    BY <2>1 DEF First, LockInv
  <2>6. KeepsOthers(u)
    BY <2>1 DEF KeepsOthers
  <2>7. ASSUME NEW d \in Channels, channelLock'[d] = u
        PROVE  pc'[u] \in {"create", "creating"} /\ \A x \in wantChannels'[u] : d < x
    BY <2>1, <2>4, <2>5, <2>7 DEF LockInv
  <2>8. /\ wantChannels'[u] # {} => pc'[u] = "create"
        /\ pc' = pc /\ want' = want /\ wantLinks' = wantLinks /\ graphLock' = graphLock
        /\ mergeLock' = mergeLock /\ linksLock' = linksLock /\ registryLock' = registryLock
    BY <2>1, <2>5
  <2>9. LockInv(u)'
    BY <2>5, <2>7, <2>8 DEF LockInv
  <2>10. QED
    BY <2>6, <2>9
<1>4. QED
  BY <1>1, <1>2, <1>3 DEF TakesLock

\* A request begins without a lock.
LEMMA StartsWithoutLocks ==
  ASSUME TypeOK, NEW u \in Users, Starts(u), LockInv(u)
  PROVE  KeepsOthers(u) /\ LockInv(u)'
<1>1. pc[u] = "idle" /\ UNCHANGED locks
  BY DEF Starts, StartCreate, StartLink, StartMerge, StartEdit, StartRecord, ImportRead
<1>2. /\ pc'[u] \in {"create", "link", "graph", "update", "archive", "record", "importing"}
      /\ UNCHANGED <<want, wantLinks>>
      /\ wantChannels'[u] # {} => pc'[u] = "create"
      /\ \A v \in Users \ {u} : pc'[v] = pc[v] /\ wantChannels'[v] = wantChannels[v]
  <2> USE DEF TypeOK, LocalsTypeOK, LockInv
  <2>1. CASE StartCreate(u)
    BY <2>1 DEF StartCreate
  <2>2. CASE StartLink(u)
    BY <2>2 DEF StartLink
  <2>3. CASE StartMerge(u)
    BY <2>3 DEF StartMerge
  <2>4. CASE StartEdit(u)
    BY <2>4 DEF StartEdit
  <2>5. CASE StartRecord(u)
    BY <2>5 DEF StartRecord
  <2>6. CASE ImportRead(u)
    BY <2>6 DEF ImportRead
  <2>7. QED
    BY <2>1, <2>2, <2>3, <2>4, <2>5, <2>6 DEF Starts
<1>3. QED
  BY <1>1, <1>2 DEF LockInv, KeepsOthers

\* A read takes its lock at the point where it may.
LEMMA ReadsKeepLocks ==
  ASSUME TypeOK, NEW u \in Users, Reads(u), LockInv(u)
  PROVE  KeepsOthers(u) /\ LockInv(u)'
<1> USE DEF TypeOK, LocalsTypeOK, LocksTypeOK, Owners, KeepsOthers, LockInv
<1>1. CASE CreateRead(u)
  BY <1>1 DEF CreateRead
<1>2. CASE LinkRead(u)
  BY <1>2 DEF LinkRead
<1>3. CASE LinkCount(u)
  BY <1>3 DEF LinkCount
<1>4. CASE TakeGraphLock(u)
  BY <1>4 DEF TakeGraphLock
<1>5. CASE MergeRead(u)
  BY <1>5 DEF MergeRead
<1>6. CASE MergeLinks(u)
  BY <1>6 DEF MergeLinks
<1>7. CASE MergeFails(u)
  BY <1>7 DEF MergeFails
<1>8. CASE UpdateRead(u)
  BY <1>8 DEF UpdateRead, TakeRegistryLock
<1>9. CASE ArchiveRead(u)
  BY <1>9 DEF ArchiveRead, TakeRegistryLock
<1>10. CASE RecordRead(u)
  BY <1>10 DEF RecordRead
<1>11. QED
  BY <1>1, <1>2, <1>3, <1>4, <1>5, <1>6, <1>7, <1>8, <1>9, <1>10 DEF Reads

LEMMA WritesEnd ==
  ASSUME NEW u \in Users, Writes(u) \/ Abort(u)
  PROVE  End(u)
  BY DEF Writes, Create, Link, Merge, Update, ChangeArchived, Record, Import, Abort

LEMMA LocksInductive == IInv /\ LocksInv /\ [Next]_vars => LocksInv'
<1> SUFFICES ASSUME IInv, LocksInv, [Next]_vars PROVE LocksInv'
  OBVIOUS
<1>1. TypeOK /\ TypeOK' /\ \A v \in Users : LockInv(v)
  BY Inductive DEF IInv, LocksInv
<1>2. ASSUME NEW u \in Users, KeepsOthers(u), LockInv(u)' PROVE LocksInv'
  <2>1. ASSUME NEW v \in Users \ {u} PROVE LockInv(v)'
    BY <1>1, <1>2, <2>1 DEF KeepsOthers, LockInv
  <2>2. QED
    BY <1>1, <1>2, <2>1 DEF LocksInv
<1>3. CASE Next
  <2>1. PICK u \in Users : Starts(u) \/ TakesLock(u) \/ Reads(u) \/ Writes(u) \/ Abort(u)
    BY <1>3, Steps
  <2>2. CASE Starts(u)
    BY <1>1, <1>2, <2>2, StartsWithoutLocks
  <2>3. CASE TakesLock(u)
    BY <1>1, <1>2, <2>3, TakesLockInOrder
  <2>4. CASE Reads(u)
    BY <1>1, <1>2, <2>4, ReadsKeepLocks
  <2>5. CASE Writes(u) \/ Abort(u)
    BY <1>1, <1>2, <2>5, WritesEnd, EndReleases DEF TypeOK
  <2>6. QED
    BY <2>1, <2>2, <2>3, <2>4, <2>5
<1>4. CASE UNCHANGED vars
  <2>1. ASSUME NEW v \in Users PROVE LockInv(v)'
    BY <1>1, <1>4 DEF vars, LockInv
  <2>2. QED
    BY <1>1, <2>1 DEF LocksInv
<1>5. QED
  BY <1>3, <1>4

LEMMA LocksInitially == Init => LocksInv
<1> SUFFICES ASSUME Init PROVE LocksInv
  OBVIOUS
<1>1. TypeOK
  BY Initially DEF IInv
<1>2. ASSUME NEW u \in Users PROVE LockInv(u)
  BY DEF Init, LockInv
<1>3. QED
  BY <1>1, <1>2 DEF LocksInv

\* Before whom a request can wait, point by point: only who wants channels can wait before
\* one that waits at the same point, and that one wants greater channels.
AtGraph(u, v) == pc[u] = "graph" /\ pc[v] \in {"pair", "past", "merging", "failed"}
AtContact(u, v) ==
  pc[u] \in {"link", "record"} /\
  pc[v] \in {"linking", "linked", "pair", "past", "merging", "failed", "recording"}
AtPair(u, v) == pc[u] \in {"pair", "past"} /\ pc[v] \in {"linking", "linked", "recording"}
AtLinks(u, v) ==
  /\ pc[u] = "linking" \/ (pc[u] = "create" /\ wantChannels[u] = {})
  /\ pc[v] \in {"creating", "linked", "merging", "failed"}
AtMerge(u, v) == pc[u] = "merging" /\ pc[v] \in {"creating", "linked"}
AtChannels(u, v) ==
  /\ pc[u] = "create" /\ wantChannels[u] # {}
  /\ \/ pc[v] = "creating"
     \/ pc[v] = "create" /\ (wantChannels[v] # {} =>
                               Least(wantChannels[u]) < Least(wantChannels[v]))
AtRegistry(u, v) == pc[u] \in {"update", "archive"} /\ pc[v] \in {"updating", "archiving"}

WaitsSomewhere(u, v) ==
  \/ AtGraph(u, v) \/ AtContact(u, v) \/ AtPair(u, v) \/ AtLinks(u, v)
  \/ AtMerge(u, v) \/ AtChannels(u, v) \/ AtRegistry(u, v)

LEMMA WaitsAt ==
  ASSUME IInv, LocksInv, NEW u \in Users, NEW v \in Users, WaitsFor(u, v)
  PROVE  WaitsSomewhere(u, v)
<1>1. TypeOK /\ LockInv(u) /\ LockInv(v) /\ Subject(u) /\ u # v
  BY DEF IInv, LocksInv, RequestInv, WaitsFor
<1> USE DEF TypeOK, RowsTypeOK, LocalsTypeOK, LocksTypeOK, Owners, WaitsSomewhere
<1>2. CASE pc[u] = "graph" /\ graphLock = v
  BY <1>1, <1>2 DEF LockInv, AtGraph
<1>3. CASE pc[u] \in {"link", "record"} /\ mergeLock[contact[u]] = v
  <2>1. contact[u] \in Contacts
    BY <1>1, <1>3 DEF Subject
  <2>2. QED
    BY <1>1, <1>3, <2>1 DEF LockInv, AtContact
<1>4. ASSUME NEW c \in Contacts, First(want[u], c), mergeLock[c] = v
      PROVE  AtPair(u, v)
  <2>1. pc[u] \in {"pair", "past"} /\ graphLock = u
    BY <1>1, <1>4 DEF LockInv, First
  <2>2. pc[v] \notin {"pair", "past", "merging", "failed"}
    BY <1>1, <2>1 DEF LockInv
  <2>3. QED
    BY <1>1, <1>4, <2>1, <2>2 DEF LockInv, AtPair
<1>5. CASE /\ pc[u] = "linking" \/ (pc[u] = "create" /\ wantChannels[u] = {})
           /\ linksLock[org[u]] = v
  <2>1. org[u] \in Orgs
    BY <1>1, <1>5 DEF Subject, InOrganization
  <2>2. QED
    BY <1>1, <1>5, <2>1 DEF LockInv, AtLinks
<1>6. ASSUME NEW o \in Orgs, First(wantLinks[u], o), linksLock[o] = v
      PROVE  AtMerge(u, v)
  <2>1. pc[u] = "merging" /\ graphLock = u
    BY <1>1, <1>6 DEF LockInv, First
  <2>2. pc[v] \notin {"pair", "past", "merging", "failed"}
    BY <1>1, <2>1 DEF LockInv
  <2>3. QED
    BY <1>1, <1>6, <2>1, <2>2 DEF LockInv, AtMerge
<1>7. ASSUME NEW ch \in Channels, First(wantChannels[u], ch), channelLock[ch] = v
      PROVE  AtChannels(u, v)
  <2>1. pc[u] = "create" /\ wantChannels[u] # {} /\ ch = Least(wantChannels[u])
    BY <1>1, <1>7 DEF LockInv, First
  <2>2. pc[v] \in {"create", "creating"} /\ \A x \in wantChannels[v] : ch < x
    BY <1>1, <1>7 DEF LockInv
  <2>3. wantChannels[v] # {} => Least(wantChannels[v]) \in wantChannels[v]
    <3>1. wantChannels[v] \in SUBSET Nat
      BY <1>1
    <3>2. QED
      BY <3>1, HasLeast
  <2>4. QED
    BY <2>1, <2>2, <2>3 DEF AtChannels
<1>8. CASE pc[u] \in {"update", "archive"} /\ registryLock[contact[u]] = v
  <2>1. contact[u] \in Contacts
    BY <1>1, <1>8 DEF Subject, InEdit
  <2>2. QED
    BY <1>1, <1>8, <2>1 DEF LockInv, AtRegistry
<1>9. /\ want[u] \subseteq Contacts /\ wantLinks[u] \subseteq Orgs
      /\ wantChannels[u] \subseteq Channels
  BY <1>1
<1>10. QED
  BY <1>2, <1>3, <1>4, <1>5, <1>6, <1>7, <1>8, <1>9 DEF WaitsFor

\* Of finitely many requests that want channels some one wants the greatest: those that
\* want greater ones than it would be fewer.
LEMMA SomeoneIsLast ==
  ASSUME TypeOK, NEW S \in SUBSET Users, S # {},
         \A u \in S : wantChannels[u] # {}
  PROVE  \E u \in S : \A v \in S : ~ Least(wantChannels[u]) < Least(wantChannels[v])
<1> DEFINE After(u) == {v \in S : Least(wantChannels[u]) < Least(wantChannels[v])}
           T == {After(u) : u \in S}
           R == StrictSubsetOrdering(S)
<1>1. \A u \in S : Least(wantChannels[u]) \in Nat
  <2> SUFFICES ASSUME NEW u \in S PROVE Least(wantChannels[u]) \in Nat
    OBVIOUS
  <2>1. wantChannels[u] \in SUBSET Nat
    BY DEF TypeOK, LocalsTypeOK
  <2>2. QED
    BY <2>1, HasLeast
<1>2. IsFiniteSet(S)
  BY FS_Subset, RequestsAssumption DEF RequestsAssumption
<1>3. IsWellFoundedOn(R, SUBSET S)
  BY <1>2, FS_StrictSubsetOrderingWellFounded, FS_FiniteSubsetsOfFinite
<1>4. T \subseteq SUBSET S /\ T # {}
  <2>1. \A u \in S : After(u) \in SUBSET S
    OBVIOUS
  <2>2. PICK u \in S : TRUE
    OBVIOUS
  <2> HIDE DEF After
  <2>3. QED
    BY <2>1, <2>2
<1>5. PICK A \in T : \A B \in T : ~ (<<B, A>> \in R)
  <2> HIDE DEF R, T
  <2> QED
    BY <1>3, <1>4, WFMin
<1>6. PICK u \in S : A = After(u)
  BY <1>5
<1>7. ASSUME NEW v \in S, Least(wantChannels[u]) < Least(wantChannels[v]) PROVE FALSE
  <2>1. After(v) \subseteq After(u)
    BY <1>1, <1>7
  <2>2. v \in After(u) /\ v \notin After(v)
    BY <1>1, <1>7
  <2>3. <<After(v), A>> \in R
    BY <1>6, <2>1, <2>2 DEF StrictSubsetOrdering
  <2>4. QED
    BY <1>5, <2>3
<1>8. QED
  BY <1>7

\* Whoever holds a lock that is waited for is nearer to its commit.
LEMMA NobodyWaitsInACircle ==
  ASSUME IInv, LocksInv, NEW S \in SUBSET Users, S # {},
         \A u \in S : \E v \in S : WaitsFor(u, v)
  PROVE  FALSE
<1>1. \A u \in S : \E v \in S : WaitsSomewhere(u, v)
  BY WaitsAt
<1>2. ASSUME NEW u \in S PROVE pc[u] \notin {"updating", "archiving", "creating", "linked", "failed", "recording"}
  <2>1. PICK v \in S : WaitsSomewhere(u, v)
    BY <1>1
  <2>2. QED
    BY <2>1 DEF WaitsSomewhere, AtGraph, AtContact, AtPair, AtLinks, AtMerge, AtChannels, AtRegistry
<1>3. ASSUME NEW u \in S PROVE pc[u] \notin {"update", "archive", "merging"}
  <2>1. PICK v \in S : WaitsSomewhere(u, v)
    BY <1>1
  <2>2. QED
    BY <2>1, <1>2 DEF WaitsSomewhere, AtGraph, AtContact, AtPair, AtLinks, AtMerge, AtChannels, AtRegistry
<1>4. ASSUME NEW u \in S PROVE pc[u] # "linking" /\ (pc[u] = "create" => wantChannels[u] # {})
  <2>1. PICK v \in S : WaitsSomewhere(u, v)
    BY <1>1
  <2>2. QED
    BY <2>1, <1>2, <1>3 DEF WaitsSomewhere, AtGraph, AtContact, AtPair, AtLinks, AtMerge, AtChannels, AtRegistry
<1>5. ASSUME NEW u \in S PROVE pc[u] \notin {"pair", "past"}
  <2>1. PICK v \in S : WaitsSomewhere(u, v)
    BY <1>1
  <2>2. QED
    BY <2>1, <1>2, <1>4 DEF WaitsSomewhere, AtGraph, AtContact, AtPair, AtLinks, AtMerge, AtChannels, AtRegistry
<1>6. ASSUME NEW u \in S PROVE pc[u] \notin {"link", "record", "graph"}
  <2>1. PICK v \in S : WaitsSomewhere(u, v)
    BY <1>1
  <2>2. QED
    BY <2>1, <1>2, <1>3, <1>4, <1>5 DEF WaitsSomewhere, AtGraph, AtContact, AtPair, AtLinks, AtMerge, AtChannels, AtRegistry
<1>7. ASSUME NEW u \in S PROVE pc[u] = "create" /\ wantChannels[u] # {}
  <2>1. PICK v \in S : WaitsSomewhere(u, v)
    BY <1>1
  <2>2. QED
    BY <2>1, <1>3, <1>4, <1>5, <1>6 DEF WaitsSomewhere, AtGraph, AtContact, AtPair, AtLinks, AtMerge, AtChannels, AtRegistry
<1>8. PICK u \in S : \A v \in S : ~ Least(wantChannels[u]) < Least(wantChannels[v])
  BY <1>7, SomeoneIsLast DEF LocksInv
<1>9. PICK v \in S : WaitsSomewhere(u, v)
  BY <1>1
<1>10. AtChannels(u, v)
  BY <1>7, <1>9 DEF WaitsSomewhere, AtGraph, AtContact, AtPair, AtLinks, AtMerge, AtChannels, AtRegistry
<1>11. QED
  BY <1>2, <1>7, <1>8, <1>10 DEF AtChannels

LEMMA SomeoneGoesOn == IInv /\ LocksInv => NoDeadlock
<1> SUFFICES ASSUME IInv, LocksInv, NEW S \in (SUBSET Users) \ {{}}
             PROVE  \E u \in S : \A v \in S : ~WaitsFor(u, v)
  BY Zenon DEF NoDeadlock
<1>1. S \in SUBSET Users /\ S # {}
  OBVIOUS
<1>2. QED
  BY <1>1, NobodyWaitsInACircle

\* No set of requests, however many, waits for each other for advisory locks: the locks of a
\* kind are taken in order and only one merge takes locks of several kinds at a time
\* (mergeContact takes the graph lock first).
THEOREM RequestsGoOn == Spec => []NoDeadlock
  BY Invariance, LocksInitially, LocksInductive, SomeoneGoesOn, PTL DEF Spec
===============================================================================
