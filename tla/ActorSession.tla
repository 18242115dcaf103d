----------------------------- MODULE ActorSession -----------------------------
(***************************************************************************)
(* Who acts in a request (auth/local-auth.ts, auth/access-control.ts,      *)
(* persistence/persistence-actor.service.ts), with AUTH_MODE               *)
(* local_password: the token is verified, then the guard reads the user's  *)
(* role and permissions, then the transaction reads the user again.        *)
(* Administrators change users meanwhile, the API restarts.                *)
(*                                                                         *)
(* Tokens are kept nowhere; of the tokens of a user the last one expires   *)
(* last.  One permission stands for all; the limit on attempts to log in   *)
(* is left out, and so are the other modes, where somebody else has        *)
(* verified the subject.                                                   *)
(***************************************************************************)
EXTENDS Naturals

CONSTANTS
  Users,
  Local,            \* the user of LOCAL_ADMIN_EMAIL
  TeamOf,           \* of these and other users, or None
  Organizations,
  OwnerOf,          \* of each organization
  DealOwner,        \* of the opportunity of each organization, or None
  Requests,
  None,
  Ttl,              \* LOCAL_AUTH_TTL_SECONDS
  MaxTime, MaxBoots \* bounds

Roles == {"admin", "team_lead", "partner_manager"}

SessionAssumption ==
  /\ None \notin Roles
  /\ Local \in Users /\ Users \subseteq DOMAIN TeamOf /\ None \notin DOMAIN TeamOf
  /\ OwnerOf \in [Organizations -> DOMAIN TeamOf]
  /\ DealOwner \in [Organizations -> DOMAIN TeamOf \cup {None}]
  /\ Ttl \in Nat \ {0} /\ MaxTime \in Nat /\ MaxBoots \in Nat

VARIABLES
  time,
  boots,      \* starts of the API so far
  role,       \* of each user, None if not registered
  active,
  granted,    \* those with the permission
  password,   \* those with a passwordHash
  token,      \* of each user, when the last one expires, or None
  request,    \* under way, or None
  held        \* history: roles and permissions of its user since the request began

userRow == <<role, active, granted>>
vars == <<time, boots, userRow, password, token, request, held>>

Registered == {u \in Users : role[u] # None}

TypeOK ==
  /\ time \in 0 .. MaxTime /\ boots \in 0 .. MaxBoots
  /\ role \in [Users -> Roles \cup {None}]
  /\ active \cup granted \cup password \subseteq Registered
  /\ token \in [Users -> 0 .. MaxTime + Ttl \cup {None}]
  /\ \A r \in Requests : request[r] = None \/
       /\ request[r].at \in {"received", "verified", "admitted", "acting"}
       /\ request[r].user \in Users

Rights(u) == [role |-> role[u], granted |-> u \in granted]

Init ==
  /\ time = 0 /\ boots = 0
  /\ role \in [Users -> {"team_lead", "partner_manager", None}]
  /\ active = Registered /\ granted \in {{}, Registered} /\ password = {}
  /\ token = [u \in Users |-> None]
  /\ request = [r \in Requests |-> None] /\ held = [r \in Requests |-> {}]

-------------------------------------------------------------------------------
(* LocalAdminBootstrapService *)

\* A user who is registered gets the password and keeps role and status; one who is not is
\* created without it.  Requests that were under way are lost.
Boot ==
  /\ boots < MaxBoots /\ boots' = boots + 1
  /\ password' = IF Local \in Registered THEN password \cup {Local} ELSE password
  /\ role' = IF Local \in Registered THEN role ELSE [role EXCEPT ![Local] = "admin"]
  /\ active' = IF Local \in Registered THEN active ELSE active \cup {Local}
  /\ request' = [r \in Requests |-> None] /\ held' = [r \in Requests |-> {}]
  /\ UNCHANGED <<time, granted, token>>

\* verify and signLocalSessionToken
Login(u) ==
  /\ boots > 0 /\ u \in active \cap password
  /\ token' = [token EXCEPT ![u] = time + Ttl]
  /\ UNCHANGED <<time, boots, userRow, password, request, held>>

Tick ==
  /\ time < MaxTime /\ time' = time + 1
  /\ UNCHANGED <<boots, userRow, password, token, request, held>>

\* An administrator updates a user, see AccessAdministration.
Administer(u, newRole, isActive, isGranted) ==
  LET Member(S, is) == IF is THEN S \cup {u} ELSE S \ {u} IN
  /\ u \in Registered
  /\ role' = [role EXCEPT ![u] = newRole]
  /\ active' = Member(active, isActive) /\ granted' = Member(granted, isGranted)
  /\ held' = [r \in Requests |->
       IF request[r] # None /\ request[r].user = u THEN held[r] \cup {Rights(u)'} ELSE held[r]]
  /\ UNCHANGED <<time, boots, password, token, request>>

-------------------------------------------------------------------------------
(* A request *)

Receive(r, u) ==
  /\ boots > 0 /\ request[r] = None /\ token[u] # None
  /\ request' = [request EXCEPT ![r] = [at |-> "received", user |-> u, since |-> time,
                                        rights |-> None, mode |-> None]]
  /\ held' = [held EXCEPT ![r] = {Rights(u)}]
  /\ UNCHANGED <<time, boots, userRow, password, token>>

Steps(r, from, to) ==
  /\ request[r] # None /\ request[r].at = from
  /\ request' = [request EXCEPT ![r] = to]
  /\ UNCHANGED <<time, boots, userRow, password, token, held>>

\* verifyLocalSessionToken
Verify(r) ==
  /\ request[r] # None
  /\ time < token[request[r].user]
  /\ Steps(r, "received", [request[r] EXCEPT !.at = "verified"])

ScopeFor(r) == CASE r = "admin" -> "all" [] r = "team_lead" -> "team" [] OTHER -> "own"

May(rights) == rights.role = "admin" \/ rights.granted

\* resolve reads the user with the permissions.
Resolve(u) == Rights(u)

\* canActivate, for a handler that asks for the permission.
Guard(r) ==
  /\ request[r] # None
  /\ LET u == request[r].user
         rights == Resolve(u)
     IN  /\ u \in active /\ May(rights)
         /\ Steps(r, "verified", [request[r] EXCEPT !.at = "admitted", !.rights = rights,
                                                    !.mode = ScopeFor(rights.role)])

\* current: the role and the mode are the session's, the team is the user's.
Act(r) ==
  /\ request[r] # None
  /\ request[r].user \in active
  /\ request[r].mode = "team" => TeamOf[request[r].user] # None
  /\ Steps(r, "admitted", [request[r] EXCEPT !.at = "acting"])

\* The answer, or any refusal.
Answer(r) ==
  /\ request[r] # None
  /\ request' = [request EXCEPT ![r] = None] /\ held' = [held EXCEPT ![r] = {}]
  /\ UNCHANGED <<time, boots, userRow, password, token>>

Next ==
  \/ Boot \/ Tick
  \/ \E u \in Users : Login(u)
  \/ \E u \in Users, newRole \in Roles, isActive, isGranted \in BOOLEAN :
       Administer(u, newRole, isActive, isGranted)
  \/ \E r \in Requests : Verify(r) \/ Guard(r) \/ Act(r) \/ Answer(r) \/ \E u \in Users : Receive(r, u)

Spec == Init /\ [][Next]_vars

-------------------------------------------------------------------------------
(* What u sees with mode: of an owner, an opportunity, an organization, a contact. *)

SeesOf(mode, u, owner) ==
  CASE mode = "all" -> TRUE
    [] mode = "team" -> TeamOf[owner] = TeamOf[u]
    [] OTHER -> owner = u

SeesDeal(mode, u, org) == DealOwner[org] # None /\ SeesOf(mode, u, DealOwner[org])

SeesOrganization(mode, u, org) == SeesOf(mode, u, OwnerOf[org]) \/ SeesDeal(mode, u, org)

\* A contact by the organizations it is linked to.
SeesContact(mode, u, linked) ==
  mode = "all" \/ \E org \in linked : SeesOrganization(mode, u, org)

-------------------------------------------------------------------------------
(* Properties *)

Acting == {r \in Requests : request[r] # None /\ request[r].at = "acting"}

\* Although user and rights are read apart while administrators change them, a request acts
\* by a role and a permission that its user had together while it ran.
ActsByRightsHeld == \A r \in Acting : request[r].rights \in held[r] /\ May(request[r].rights)

\* Whoever acts has logged in less than the term of a session before the request came.
ActsInTerm == \A r \in Acting : request[r].since < token[request[r].user]

\* Whoever may work on an opportunity sees its organization and its contacts, and nobody
\* sees less than with a narrower scope.
ScopesNest ==
  \A r \in Acting, org \in Organizations :
    LET u == request[r].user
        mode == request[r].mode
    IN  /\ SeesDeal(mode, u, org) => SeesOrganization(mode, u, org)
        /\ SeesOrganization("own", u, org) => SeesOrganization(mode, u, org)
        /\ SeesDeal(mode, u, org) => SeesContact(mode, u, {org})

\* The user of LOCAL_ADMIN_EMAIL can log in from the second start on, unless deactivated.
BootstrapEnds == boots >= 2 => Local \in password
===============================================================================
