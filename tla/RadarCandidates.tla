--------------------------- MODULE RadarCandidates ---------------------------
(***************************************************************************)
(* The candidates of the radar and the organizations made of them          *)
(* (persistence/postgres-radar.service.ts): create and decide are          *)
(* SERIALIZABLE transactions.  Each takes its snapshot with its first      *)
(* statement, before it waits for its advisory lock, so the lock does not  *)
(* show it what the holder wrote; what keeps two of them from deciding on  *)
(* rows the other one changes is PostgreSQL's detection of conflicts       *)
(* (SerializableSnapshot).  A transaction that fails leaves nothing behind. *)
(*                                                                         *)
(* One team; inspections and requests are in RadarInspection, scores in    *)
(* RadarScore.                                                             *)
(***************************************************************************)
EXTENDS Naturals

CONSTANTS
  Candidates,   \* bound, numbered as they are committed
  Hosts,
  Requests,     \* bound: transactions at once
  None

Statuses == {"open", "accepted", "rejected", "merged"}

\* What a transaction writes.
Acts ==
  [kind : {"create", "decide"}, host : Hosts \cup {None}, candidate : Candidates \cup {None},
   status : Statuses, target : Candidates \cup {None}, dupCand : BOOLEAN, dupOrg : BOOLEAN]

CandidatesAssumption == Candidates \subseteq Nat
NamesAssumption == None \notin Candidates \cup Hosts \cup Acts

VARIABLES
  host,       \* host_normalized of each candidate, None before it is created
  status,     \* NEW, READY and DEFERRED are "open" here
  inspected,  \* the candidates with evidence
  mergedInto, \* merged_into_candidate_id
  dupCand,    \* the candidates with duplicate_candidate_id
  dupOrg,     \* those with duplicate_organization_id
  partners,   \* the hosts of active organizations
  act,        \* what each transaction will write, as its snapshot has it, or None
  out,        \* as in SerializableSnapshot
  doomed

rows == <<host, status, inspected, mergedInto, dupCand, dupOrg, partners>>
vars == <<rows, act, out, doomed>>

-------------------------------------------------------------------------------
(* Data *)

Create(h) ==
  [kind |-> "create", host |-> h, candidate |-> None, status |-> "open", target |-> None,
   dupCand |-> \E c \in Candidates : host[c] = h /\ status[c] \notin {"rejected", "merged"},
   dupOrg |-> h \in partners]

Decision(c, s, d) ==
  [kind |-> "decide", host |-> host[c], candidate |-> c, status |-> s, target |-> d,
   dupCand |-> c \in dupCand, dupOrg |-> c \in dupOrg]

TypeOK ==
  /\ host \in [Candidates -> Hosts \cup {None}]
  /\ status \in [Candidates -> Statuses]
  /\ mergedInto \in [Candidates -> Candidates \cup {None}]
  /\ \A c \in Candidates : mergedInto[c] # None <=> status[c] = "merged"
  /\ inspected \subseteq Candidates /\ dupCand \subseteq Candidates
  /\ dupOrg \subseteq Candidates /\ partners \subseteq Hosts
  /\ act \in [Requests -> Acts \cup {None}]
  /\ out \cup doomed \subseteq {r \in Requests : act[r] # None}

Init ==
  /\ host = [c \in Candidates |-> None]
  /\ status = [c \in Candidates |-> "open"]
  /\ mergedInto = [c \in Candidates |-> None]
  /\ inspected = {} /\ dupCand = {} /\ dupOrg = {}
  /\ partners \in SUBSET Hosts
  /\ act = [r \in Requests |-> None]
  /\ out = {} /\ doomed = {}

Exists(c) == host[c] # None

\* assertMutable
Mutable(c) == Exists(c) /\ status[c] = "open"

-------------------------------------------------------------------------------
(* Snapshot, conflicts, commit *)

Row(c) == <<"row", c>>
Search(h) == <<"search", h>>     \* the candidates of a host
Partner(h) == <<"partner", h>>   \* the organization of a host

Reads(a) ==
  IF a.kind = "create" THEN {Search(a.host), Partner(a.host)}
  ELSE {Row(a.candidate)} \cup {Row(d) : d \in {a.target} \ {None}}

WrittenRows(a) ==
  {Row(c) : c \in {a.candidate} \ {None}}
    \cup {Partner(h) : h \in {x \in {a.host} : a.status = "accepted"}}

\* A row added or changed changes the searches that find it.
Footprint(a) ==
  [reads |-> Reads(a), writes |-> {Search(a.host)} \cup WrittenRows(a), rows |-> WrittenRows(a)]

Snapshot ==
  INSTANCE SerializableSnapshot WITH
    Transactions <- Requests,
    footprint <- [r \in Requests |-> IF act[r] = None THEN [reads |-> {}, writes |-> {}, rows |-> {}]
                                                      ELSE Footprint(act[r])]

Begin(r, a) ==
  /\ act[r] = None
  /\ act' = [act EXCEPT ![r] = a]
  /\ UNCHANGED <<rows, out, doomed>>

IsNext(c) == ~Exists(c) /\ \A d \in Candidates : d < c => Exists(d)

Insert(a, c) ==
  /\ IsNext(c)
  /\ host' = [host EXCEPT ![c] = a.host]
  /\ dupCand' = IF a.dupCand THEN dupCand \cup {c} ELSE dupCand
  /\ dupOrg' = IF a.dupOrg THEN dupOrg \cup {c} ELSE dupOrg
  /\ UNCHANGED <<status, inspected, mergedInto, partners>>

\* The organization's domain is unique among the active ones.
Update(a) ==
  /\ a.status = "accepted" => a.host \notin partners
  /\ status' = [status EXCEPT ![a.candidate] = a.status]
  /\ mergedInto' = [mergedInto EXCEPT ![a.candidate] = a.target]
  /\ partners' = IF a.status = "accepted" THEN partners \cup {a.host} ELSE partners
  /\ UNCHANGED <<host, inspected, dupCand, dupOrg>>

Commit(r) ==
  /\ act[r] # None
  /\ Snapshot!Commit(r)
  /\ IF act[r].kind = "create" THEN \E c \in Candidates : Insert(act[r], c)
                               ELSE Update(act[r])
  /\ act' = [act EXCEPT ![r] = None]

Abort(r) ==
  /\ act[r] # None
  /\ Snapshot!Rollback(r)
  /\ act' = [act EXCEPT ![r] = None]
  /\ UNCHANGED rows

-------------------------------------------------------------------------------
(* The operations *)

BeginCreate(r, h) ==
  /\ \E c \in Candidates : ~Exists(c)
  /\ Begin(r, Create(h))

\* A deferred candidate stays open.
BeginDefer(r, c) == Mutable(c) /\ Begin(r, Decision(c, "open", None))

BeginReject(r, c) == Mutable(c) /\ Begin(r, Decision(c, "rejected", None))

\* RAD-003, RAD-002: the duplicate is the one found when the candidate was created.
BeginAccept(r, c) ==
  /\ Mutable(c)
  /\ c \in inspected
  /\ c \notin dupOrg
  /\ Begin(r, Decision(c, "accepted", None))

\* RAD-007
BeginMerge(r, c, d) ==
  /\ Mutable(c)
  /\ c # d
  /\ Exists(d) /\ status[d] # "merged"
  /\ Begin(r, Decision(c, "merged", d))

\* An inspection is applied, the score adjusted or an inspection requested: a short
\* transaction that reads and writes the candidate's row.
Touch(c, evidence) ==
  /\ Mutable(c)
  /\ inspected' = inspected \cup evidence
  /\ UNCHANGED <<host, status, mergedInto, dupCand, dupOrg, partners, act>>
  /\ Snapshot!CommitAtOnce(Footprint(Decision(c, "open", None)))

\* An import of organizations creates one with this host.
Imported(h) ==
  /\ h \notin partners
  /\ partners' = partners \cup {h}
  /\ UNCHANGED <<host, status, inspected, mergedInto, dupCand, dupOrg, act>>
  /\ Snapshot!CommitAtOnce([reads |-> {}, writes |-> {Partner(h)}, rows |-> {}])

Next ==
  \/ \E r \in Requests :
       \/ \E h \in Hosts : BeginCreate(r, h)
       \/ \E c \in Candidates : BeginDefer(r, c) \/ BeginReject(r, c) \/ BeginAccept(r, c)
       \/ \E c, d \in Candidates : BeginMerge(r, c, d)
       \/ Commit(r) \/ Abort(r)
  \/ \E c \in Candidates : \E evidence \in {{}, {c}} : Touch(c, evidence)
  \/ \E h \in Hosts : Imported(h)

Spec == Init /\ [][Next]_vars

-------------------------------------------------------------------------------
(* Properties *)

\* However merges run at once, following merged_into_candidate_id comes to an end: the
\* canonical candidate of a merged one can be found.
MergesEnd ==
  \A C \in (SUBSET Candidates) \ {{}} : \E c \in C : mergedInto[c] \notin C

\* docs/runbooks/radar.md: a candidate of a host that has one already is marked as its
\* duplicate, even if both were added at once.  (A candidate that is neither rejected
\* nor merged now was not when the later one was created.)
DuplicatesAreMarked ==
  \A c, d \in Candidates :
    /\ c < d /\ Exists(d) /\ host[c] = host[d]
    /\ status[c] \notin {"rejected", "merged"}
    => d \in dupCand

\* RAD-002, RAD-007: whoever looks for the canonical candidate of a host finds it.
Canonical == MergesEnd /\ DuplicatesAreMarked
===============================================================================
