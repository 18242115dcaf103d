---------------------------- MODULE SlaSettings ----------------------------
(***************************************************************************)
(* The SLA settings and the process version of opportunities               *)
(* (persistence/postgres-sla-settings.service.ts): to publish settings is  *)
(* to publish the next process definition and to move the opportunities    *)
(* that are open under the current one to it.  Opportunities come in with  *)
(* the version their transaction reads, are closed, and are opened again   *)
(* by the completion of a task (OpportunityLifecycle).                     *)
(*                                                                         *)
(* Publications and the transactions that create opportunities are         *)
(* serializable.  The advisory lock of publications is waited for after    *)
(* the snapshot is taken, so it orders them and shows them nothing.        *)
(***************************************************************************)
EXTENDS Naturals, FiniteSets

CONSTANTS
  Opportunities,
  Administrators,
  Requests,       \* bound: transactions at once
  MaxVersion,     \* bound: published definitions
  None

Publications ==
  [kind : {"publish", "create"}, version : Nat, moved : SUBSET Opportunities,
   created : Opportunities \cup {None}]

VersionAssumption == MaxVersion \in Nat \ {0} /\ None \notin Publications \cup Opportunities

VARIABLES
  published,       \* the version of the latest published definition
  processVersion,  \* of each opportunity, 0 before it is created
  closed,          \* the opportunities that are closed
  reopened,        \* history: those that were closed once
  form,            \* what each administrator has on the screen: version and opportunities
  publication,     \* what each transaction will write, as its snapshot has it, or None
  out,             \* as in SerializableSnapshot
  doomed

rows == <<published, processVersion, closed, reopened>>
vars == <<rows, form, publication, out, doomed>>

Versions == 1 .. MaxVersion

TypeOK ==
  /\ published \in Versions
  /\ processVersion \in [Opportunities -> 0 .. published]
  /\ reopened \cup closed \subseteq {o \in Opportunities : processVersion[o] # 0}
  /\ \A a \in Administrators : form[a].version \in 0 .. published
  /\ publication \in [Requests -> Publications \cup {None}]
  /\ out \cup doomed \subseteq {r \in Requests : publication[r] # None}

Init ==
  /\ published = 1
  /\ processVersion = [o \in Opportunities |-> 0]
  /\ closed = {} /\ reopened = {}
  /\ form = [a \in Administrators |-> [version |-> 0, affected |-> 0]]
  /\ publication = [r \in Requests |-> None]
  /\ out = {} /\ doomed = {}

Exists(o) == processVersion[o] # 0

\* The opportunities a publication moves.
OpenUnder(v) == {o \in Opportunities \ closed : processVersion[o] = v}

-------------------------------------------------------------------------------
(* Conflicts *)

Definitions == <<"definitions">>     \* the search for the latest definition
Open == <<"open opportunities">>     \* the search for those to move
Definition(v) == <<"definition", v>> \* the version of a definition is unique
Row(o) == <<"opportunity", o>>

\* A publication p moves p.moved; a creation creates p.created.
Footprint(p) ==
  IF p.kind = "publish"
  THEN [reads |-> {Definitions, Open},
        writes |-> {Definitions, Open},
        rows |-> {Definition(p.version)} \cup {Row(o) : o \in p.moved}]
  ELSE [reads |-> {Definitions}, writes |-> {Open}, rows |-> {Row(p.created)}]

Snapshot ==
  INSTANCE SerializableSnapshot WITH
    Transactions <- Requests,
    footprint <- [r \in Requests |->
                    IF publication[r] = None THEN [reads |-> {}, writes |-> {}, rows |-> {}]
                                             ELSE Footprint(publication[r])]

\* Another transaction changes the status of an opportunity.
StatusWritten(o) ==
  Snapshot!CommitAtOnce([reads |-> {Row(o)}, writes |-> {Open}, rows |-> {Row(o)}])

-------------------------------------------------------------------------------
(* Operations *)

\* The form is loaded: the definition first, its opportunities after it.
GetDefinition(a) ==
  /\ form' = [form EXCEPT ![a] = [version |-> published, affected |-> 0]]
  /\ UNCHANGED <<rows, publication, out, doomed>>

GetAffected(a) ==
  /\ form[a].version # 0
  /\ form' = [form EXCEPT ![a].affected = Cardinality(OpenUnder(form[a].version))]
  /\ UNCHANGED <<rows, publication, out, doomed>>

Begin(r, p) ==
  /\ publication[r] = None
  /\ publication' = [publication EXCEPT ![r] = p]
  /\ UNCHANGED <<rows, form, out, doomed>>

\* update: the version of the form is the current one.
BeginPublish(r, a) ==
  /\ form[a].version = published
  /\ published < MaxVersion
  /\ Begin(r, [kind |-> "publish", version |-> published + 1, moved |-> OpenUnder(published),
                created |-> None])

\* The acceptance of a radar candidate, or a row of an import.
BeginCreate(r, o) ==
  /\ ~Exists(o)
  /\ \A s \in Requests : publication[s] # None => publication[s].created # o
  /\ Begin(r, [kind |-> "create", version |-> published, moved |-> {}, created |-> o])

Commit(r) ==
  /\ publication[r] # None
  /\ Snapshot!Commit(r)
  /\ LET p == publication[r]
     IN  IF p.kind = "publish"
         THEN /\ published' = p.version
              /\ processVersion' = [o \in Opportunities |->
                                      IF o \in p.moved THEN p.version ELSE processVersion[o]]
         ELSE /\ processVersion' = [processVersion EXCEPT ![p.created] = p.version]
              /\ UNCHANGED published
  /\ publication' = [publication EXCEPT ![r] = None]
  /\ UNCHANGED <<closed, reopened, form>>

Abort(r) ==
  /\ publication[r] # None
  /\ Snapshot!Rollback(r)
  /\ publication' = [publication EXCEPT ![r] = None]
  /\ UNCHANGED <<rows, form>>

Close(o) ==
  /\ Exists(o) /\ o \notin closed
  /\ closed' = closed \cup {o}
  /\ UNCHANGED <<published, processVersion, reopened, form, publication>>
  /\ StatusWritten(o)

\* A task of a closed opportunity is completed.
Reopen(o) ==
  /\ o \in closed
  /\ closed' = closed \ {o}
  /\ reopened' = reopened \cup {o}
  /\ UNCHANGED <<published, processVersion, form, publication>>
  /\ StatusWritten(o)

Next ==
  \/ \E a \in Administrators : GetDefinition(a) \/ GetAffected(a)
  \/ \E r \in Requests :
       \/ \E a \in Administrators : BeginPublish(r, a)
       \/ \E o \in Opportunities : BeginCreate(r, o)
       \/ Commit(r) \/ Abort(r)
  \/ \E o \in Opportunities : Close(o) \/ Reopen(o)

Spec == Init /\ [][Next]_vars

-------------------------------------------------------------------------------
(* Properties *)

\* docs/requirements-baseline.md: publication moves the open opportunities to the new
\* definition.  However it meets creations and closings, one that was never closed is
\* under the latest definition, and its SLA is measured by the thresholds in force.
OpenUnderLatest ==
  \A o \in Opportunities \ (closed \cup reopened) :
    Exists(o) => processVersion[o] = published
=============================================================================
