------------------------ MODULE AccessAdministration ------------------------
(***************************************************************************)
(* Users and their roles (access-administration.service.ts): an            *)
(* administrator registers users and changes their role and status.  Over  *)
(* PostgreSQL both are serializable transactions, update with the user's   *)
(* row locked; whether somebody else is an administrator is a search of    *)
(* the other users.                                                        *)
(*                                                                         *)
(* Roles other than admin, and permissions, are alike here.  The guard of  *)
(* the API lets the actor in before the transaction begins, and the actor  *)
(* may be anything by then.                                                *)
(***************************************************************************)
EXTENDS Naturals

CONSTANTS
  Users,
  Founders,    \* administrators from the seed
  Requests,    \* bound: transactions at once
  MaxVersion,  \* bound: versions of a user
  None

\* What a transaction is about to write, and whether it searches for other administrators,
\* and adds one or takes one away.
Commands ==
  [user : Users, admin : BOOLEAN, active : BOOLEAN,
   searches : BOOLEAN, joins : BOOLEAN, leaves : BOOLEAN]

FoundersAssumption == Founders \subseteq Users /\ Founders # {} /\ None \notin Commands
VersionAssumption == MaxVersion \in Nat \ {0}

VARIABLES
  known,      \* registered users
  admin,      \* those with role:admin
  active,
  userVersion,
  admitted,   \* whom the guard has let in for each request, or None
  command,    \* what each transaction is about to write, as its snapshot has it, or None
  out,        \* as in SerializableSnapshot
  doomed

account == <<known, admin, active, userVersion>>
vars == <<account, admitted, command, out, doomed>>

Administrators == known \cap admin \cap active

TypeOK ==
  /\ known \subseteq Users /\ admin \subseteq known /\ active \subseteq known
  /\ userVersion \in [Users -> 0 .. MaxVersion]
  /\ admitted \in [Requests -> Users \cup {None}]
  /\ command \in [Requests -> Commands \cup {None}]
  /\ out \cup doomed \subseteq {r \in Requests : command[r] # None}

Init ==
  /\ known = Founders /\ admin = Founders /\ active = Founders
  /\ userVersion = [u \in Users |-> IF u \in Founders THEN 1 ELSE 0]
  /\ admitted = [r \in Requests |-> None] /\ command = admitted
  /\ out = {} /\ doomed = {}

Row(u) == <<"user", u>>

\* The search for other active administrators finds users who join or leave them.
Others == <<"administrators">>

Demotes(u, toAdmin, toActive) == u \in Administrators /\ ~(toAdmin /\ toActive)

Footprint(c) ==
  [reads |-> {Row(c.user)} \cup (IF c.searches THEN {Others} ELSE {}),
   writes |-> {Row(c.user)} \cup (IF c.joins \/ c.leaves THEN {Others} ELSE {}),
   rows |-> {Row(c.user)}]

Snapshot ==
  INSTANCE SerializableSnapshot WITH
    Transactions <- Requests,
    footprint <- [r \in Requests |->
                    IF command[r] = None THEN [reads |-> {}, writes |-> {}, rows |-> {}]
                                         ELSE Footprint(command[r])]

\* The guard asks for system.admin, which every administrator has and others may be given.
Admit(r, actor) ==
  /\ admitted[r] = None /\ command[r] = None
  /\ actor \in known \cap active
  /\ admitted' = [admitted EXCEPT ![r] = actor]
  /\ UNCHANGED <<account, command, out, doomed>>

Begin(r, c) ==
  /\ admitted[r] # None
  /\ admitted' = [admitted EXCEPT ![r] = None]
  /\ command' = [command EXCEPT ![r] = c]
  /\ UNCHANGED <<account, out, doomed>>

\* createPostgres
BeginCreate(r, u, isAdmin) ==
  /\ u \notin known
  /\ Begin(r, [user |-> u, admin |-> isAdmin, active |-> TRUE,
               searches |-> FALSE, joins |-> isAdmin, leaves |-> FALSE])

AnotherAdministrator(u) == Administrators \ {u} # {}

\* updatePostgres: nobody changes their own access, and the last administrator stays.
BeginUpdate(r, u, toAdmin, toActive) ==
  /\ u \in known
  /\ userVersion[u] < MaxVersion
  /\ admitted[r] = u => (u \in admin <=> toAdmin) /\ (u \in active <=> toActive)
  /\ Demotes(u, toAdmin, toActive) => AnotherAdministrator(u)
  /\ Begin(r, [user |-> u, admin |-> toAdmin, active |-> toActive,
               searches |-> Demotes(u, toAdmin, toActive),
               joins |-> u \notin Administrators /\ toAdmin /\ toActive,
               leaves |-> Demotes(u, toAdmin, toActive)])

Set(S, u, member) == IF member THEN S \cup {u} ELSE S \ {u}

Commit(r) ==
  /\ command[r] # None
  /\ Snapshot!Commit(r)
  /\ LET c == command[r]
     IN  /\ known' = known \cup {c.user}
         /\ admin' = Set(admin, c.user, c.admin)
         /\ active' = Set(active, c.user, c.active)
         /\ userVersion' = [userVersion EXCEPT ![c.user] = @ + 1]
  /\ command' = [command EXCEPT ![r] = None]
  /\ UNCHANGED admitted

Abort(r) ==
  /\ command[r] # None
  /\ Snapshot!Rollback(r)
  /\ command' = [command EXCEPT ![r] = None]
  /\ UNCHANGED <<account, admitted>>

\* The command is refused, or the process dies.
Refuse(r) ==
  /\ admitted[r] # None
  /\ admitted' = [admitted EXCEPT ![r] = None]
  /\ UNCHANGED <<account, command, out, doomed>>

Next ==
  \E r \in Requests :
    \/ \E actor \in Users : Admit(r, actor)
    \/ \E u \in Users, isAdmin \in BOOLEAN : BeginCreate(r, u, isAdmin)
    \/ \E u \in Users, toAdmin, toActive \in BOOLEAN : BeginUpdate(r, u, toAdmin, toActive)
    \/ Commit(r) \/ Abort(r) \/ Refuse(r)

Spec == Init /\ [][Next]_vars

-------------------------------------------------------------------------------
(* Properties *)

\* Somebody can always administer access: however administrators take the role from each
\* other at the same moment, each seeing the other, one of them stays.
AdministratorRemains == Administrators # {}

Twin == INSTANCE AccessTwin

\* Transactions that overlap create and change users as requests in memory would, one
\* after the other.
ImplementsTwin == Twin!Spec
=============================================================================
