----------------------- MODULE OrganizationImportTwin -----------------------
(***************************************************************************)
(* The import of organizations as organization-import.service.ts keeps it  *)
(* in memory: preview, commit and cancel are synchronous steps.            *)
(* OrganizationImport, where commits and cancellations are transactions    *)
(* that overlap, implements it.  Both classify the rows of a file alike    *)
(* (application/organization-import.ts).                                   *)
(*                                                                         *)
(* A file is a sequence of rows: a host and a name, None where the field   *)
(* is not valid (the other fields of a row are valid here, and a name      *)
(* stands for the segment as well).  An organization has an id, a host and *)
(* a name.                                                                 *)
(***************************************************************************)
EXTENDS Integers, Sequences, TLC

CONSTANTS
  None,
  Jobs,
  Ids,    \* of organizations
  Hosts,
  Names,
  Files

VARIABLES
  organizations, \* id, host and name of each
  status,        \* of each job, "absent" before its preview
  rows,          \* of each job, as its preview has classified them
  protocol       \* of each job: the resolved decision of each row

vars == <<organizations, status, rows, protocol>>

-------------------------------------------------------------------------------
(* What a file means for the registry *)

\* classifyOrganizationImportRows, of one row: the decision of the preview, the
\* organization it is about and whether a user may turn a conflict into a creation.
Classify(file, i, known) ==
  LET row == file[i]
      ofHost == {o \in known : o.host = row.host}
      Row(decision, match, confirmable) ==
        [host |-> row.host, name |-> row.name,
         decision |-> decision, match |-> match, confirmable |-> confirmable]
      isRepeated == \E k \in 1 .. i - 1 : file[k].host = row.host
  IN  IF isRepeated \/ None \in {row.host, row.name} THEN Row("conflict", None, FALSE)
      ELSE IF \E o \in ofHost : o.name = row.name THEN Row("skip", None, FALSE)
      ELSE IF ofHost # {} THEN Row("update", (CHOOSE o \in ofHost : TRUE).id, FALSE)
      ELSE IF \E o \in known : o.name = row.name THEN Row("conflict", None, TRUE)
      ELSE Row("create", None, FALSE)

ClassifyRows(file, known) ==
  [i \in 1 .. Len(file) |-> Classify(file, i, known)]

\* The decisions as resolved by a user who has chosen the conflicts to create.
Resolved(classified, chosen) ==
  [i \in 1 .. Len(classified) |->
     IF classified[i].decision # "conflict" THEN classified[i].decision
     ELSE IF i \in chosen THEN "create" ELSE "skip"]

\* The rows resolved to d.
RowsOf(decisions, d) == {i \in 1 .. Len(decisions) : decisions[i] = d}

-------------------------------------------------------------------------------

\* A new organization may come from the radar.
OrganizationAdded(id, h, n) ==
  /\ \A o \in organizations : o.id # id
  /\ organizations' = organizations \cup {[id |-> id, host |-> h, name |-> n]}
  /\ UNCHANGED <<status, rows, protocol>>

Init ==
  /\ organizations = {}
  /\ status = [j \in Jobs |-> "absent"]
  /\ rows = [j \in Jobs |-> <<>>]
  /\ protocol = [j \in Jobs |-> <<>>]

Preview(j, file) ==
  /\ status[j] = "absent"
  /\ status' = [status EXCEPT ![j] = "preview"]
  /\ rows' = [rows EXCEPT ![j] = ClassifyRows(file, organizations)]
  /\ UNCHANGED <<organizations, protocol>>

\* applyRow of each row.  It creates whatever conflict the user chose, also one that may only
\* be skipped, which assertResolutions refuses over PostgreSQL.
Commit(j, chosen) ==
  LET decisions == Resolved(rows[j], chosen)
      created == RowsOf(decisions, "create")
      updates(o) == {i \in RowsOf(decisions, "update") : rows[j][i].match = o.id}
  IN  /\ status[j] = "preview"
      /\ status' = [status EXCEPT ![j] = "committed"]
      /\ protocol' = [protocol EXCEPT ![j] = decisions]
      /\ \E id \in [created -> Ids] :
           /\ \A i \in created : \A k \in created \ {i} : id[i] # id[k]
           /\ \A i \in created, o \in organizations : id[i] # o.id
           /\ organizations' =
                {IF updates(o) = {} THEN o
                 ELSE [o EXCEPT !.name = rows[j][CHOOSE i \in updates(o) : TRUE].name] :
                   o \in organizations}
                \cup {[id |-> id[i], host |-> rows[j][i].host, name |-> rows[j][i].name] :
                        i \in created}
      /\ UNCHANGED rows

Cancel(j) ==
  /\ status[j] = "preview"
  /\ status' = [status EXCEPT ![j] = "cancelled"]
  /\ UNCHANGED <<organizations, rows, protocol>>

Next ==
  \/ \E id \in Ids, h \in Hosts, n \in Names : OrganizationAdded(id, h, n)
  \/ \E j \in Jobs :
       \/ \E file \in Files : Preview(j, file)
       \/ \E chosen \in SUBSET (1 .. Len(rows[j])) : Commit(j, chosen)
       \/ Cancel(j)

Spec == Init /\ [][Next]_vars
=============================================================================
