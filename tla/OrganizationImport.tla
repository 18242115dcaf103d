-------------------------- MODULE OrganizationImport --------------------------
(***************************************************************************)
(* The import of organizations over PostgreSQL                             *)
(* (persistence/postgres-organization-import.service.ts).  A preview reads *)
(* the registry and keeps its decisions; commit and cancel are             *)
(* serializable transactions that take their snapshot before they wait for *)
(* the lock of the job: what a snapshot does not show fails the            *)
(* transaction when it writes a row written since, or inserts a host that  *)
(* exists.  Nothing of a transaction that fails stays.                     *)
(*                                                                         *)
(* One team; the contacts of a row are in ContactRegistry.                 *)
(***************************************************************************)
EXTENDS Integers, Sequences, TLC

CONSTANTS
  None,
  Jobs,
  Hosts,
  Names,
  Files,     \* the files to import
  Requests   \* bound: commits and cancellations at once

NoneAssumption == None \notin Hosts \cup Names \cup Jobs
FilesAssumption == Files \subseteq Seq([host : Hosts \cup {None}, name : Names \cup {None}])

VARIABLES
  name,      \* of the active organization of each host, None without one
  status,    \* of each job, "absent" before its preview
  rows,      \* of each job, as its preview has classified them
  protocol,  \* of each job: the resolved decision of each row
  request,   \* what each request commits or cancels, None before its snapshot
  stale      \* the requests that write a row written since their snapshot

tables == <<name, status, rows, protocol>>
vars == <<tables, request, stale>>

-------------------------------------------------------------------------------
(* Data *)

Organizations == {[id |-> h, host |-> h, name |-> name[h]] : h \in {x \in Hosts : name[x] # None}}

\* The service in memory; the rows of a file are classified and resolved as there.
Twin ==
  INSTANCE OrganizationImportTwin WITH
    organizations <- Organizations, Ids <- Hosts

TypeOK ==
  /\ name \in [Hosts -> Names \cup {None}]
  /\ status \in [Jobs -> {"absent", "preview", "committed", "cancelled"}]
  /\ \A j \in Jobs : Len(protocol[j]) \in {0, Len(rows[j])}
  /\ stale \subseteq {r \in Requests : request[r] # None}

Init ==
  /\ name = [h \in Hosts |-> None]
  /\ status = [j \in Jobs |-> "absent"]
  /\ rows = [j \in Jobs |-> <<>>]
  /\ protocol = [j \in Jobs |-> <<>>]
  /\ request = [r \in Requests |-> None]
  /\ stale = {}

-------------------------------------------------------------------------------
(* Transactions *)

Preview(j, file) ==
  /\ status[j] = "absent"
  /\ status' = [status EXCEPT ![j] = "preview"]
  /\ rows' = [rows EXCEPT ![j] = Twin!ClassifyRows(file, Organizations)]
  /\ UNCHANGED <<name, protocol, request, stale>>

Active(r) == request[r] # None

\* The organizations whose rows a request updates.
Updates(r) ==
  IF request[r].kind = "cancel" THEN {}
  ELSE {rows[request[r].job][i].match : i \in Twin!RowsOf(request[r].decisions, "update")}

\* The requests that fail once the organizations of hosts, or job j, are written.
Late(hosts, j) ==
  {r \in Requests : Active(r) /\ (request[r].job = j \/ Updates(r) \cap hosts # {})}

\* The status check of commit and cancel, in the snapshot.
IsPreview(j) == status[j] = "preview"

\* Mutant: a job is cancelled whatever its status.
WasPreviewed(j) == status[j] # "absent"

CanCancel(j) == IsPreview(j)

\* assertResolutions: only conflicts that may be confirmed are.
BeginCommit(r, j, chosen) ==
  /\ ~Active(r)
  /\ IsPreview(j)
  /\ \A i \in chosen : rows[j][i].confirmable
  /\ request' = [request EXCEPT ![r] =
       [kind |-> "commit", job |-> j, decisions |-> Twin!Resolved(rows[j], chosen)]]
  /\ UNCHANGED <<tables, stale>>

BeginCancel(r, j) ==
  /\ ~Active(r)
  /\ CanCancel(j)
  /\ request' = [request EXCEPT ![r] = [kind |-> "cancel", job |-> j]]
  /\ UNCHANGED <<tables, stale>>

\* domain_host_active_unique
HostIsFree(h) == name[h] = None

\* Every row is applied, or none.
Commit(r) ==
  LET j == request[r].job
      decisions == request[r].decisions
      created == Twin!RowsOf(decisions, "create")
      RowOf(h) == {i \in created : rows[j][i].host = h}
                    \cup {i \in Twin!RowsOf(decisions, "update") : rows[j][i].match = h}
  IN  /\ Active(r) /\ request[r].kind = "commit"
      /\ r \notin stale
      /\ \A i \in created : HostIsFree(rows[j][i].host)
      /\ name' = [h \in Hosts |-> IF RowOf(h) = {} THEN name[h]
                                  ELSE rows[j][CHOOSE i \in RowOf(h) : TRUE].name]
      /\ status' = [status EXCEPT ![j] = "committed"]
      /\ protocol' = [protocol EXCEPT ![j] = decisions]
      /\ request' = [request EXCEPT ![r] = None]
      /\ stale' = (stale \cup Late(Updates(r), j)) \ {r}
      /\ UNCHANGED rows

Cancel(r) ==
  /\ Active(r) /\ request[r].kind = "cancel"
  /\ r \notin stale
  /\ status' = [status EXCEPT ![request[r].job] = "cancelled"]
  /\ request' = [request EXCEPT ![r] = None]
  /\ stale' = (stale \cup Late({}, request[r].job)) \ {r}
  /\ UNCHANGED <<name, rows, protocol>>

Fail(r) ==
  /\ Active(r)
  /\ request' = [request EXCEPT ![r] = None]
  /\ stale' = stale \ {r}
  /\ UNCHANGED tables

\* A candidate of the radar becomes an organization.
OrganizationAdded(h, n) ==
  /\ name[h] = None
  /\ name' = [name EXCEPT ![h] = n]
  /\ UNCHANGED <<status, rows, protocol, request, stale>>

Next ==
  \/ \E j \in Jobs, file \in Files : Preview(j, file)
  \/ \E r \in Requests :
       \/ \E j \in Jobs : \E chosen \in SUBSET (1 .. Len(rows[j])) : BeginCommit(r, j, chosen)
       \/ \E j \in Jobs : BeginCancel(r, j)
       \/ Commit(r) \/ Cancel(r) \/ Fail(r)
  \/ \E h \in Hosts, n \in Names : OrganizationAdded(h, n)

Spec == Init /\ [][Next]_vars

-------------------------------------------------------------------------------
(* Properties *)

\* Commits and cancellations that overlap end as if they had come one after the other:
\* a job is settled once, a cancelled one leaves the registry as it is, and an import that
\* was overtaken by another one, or by the radar, leaves nothing of its rows behind.
ImplementsTwin == Twin!Spec
===============================================================================
