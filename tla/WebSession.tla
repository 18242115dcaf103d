------------------------------- MODULE WebSession -------------------------------
(***************************************************************************)
(* The corporate session in the web client (lib/api.ts, auth-bridge.ts,    *)
(* AuthenticationBoundary.tsx): requests that overlap share the token they *)
(* wait for, and one that is refused refreshes it and is sent once more.   *)
(* The corporate shell that gives the tokens, and the server, are outside. *)
(***************************************************************************)
EXTENDS Integers, Sequences, FiniteSets

CONSTANTS
  Calls,       \* requests of the page
  MaxToken, MaxPromise, MaxSync,  \* bounds
  None

SessionAssumption ==
  {MaxToken, MaxPromise, MaxSync} \subseteq Nat /\ MaxToken # 0 /\ None \notin Nat

VARIABLES
  issued,       \* the tokens that the shell gave are 1 .. issued
  accepted,     \* of them, those the server accepts
  signedIn,     \* whether the shell has a session
  token,        \* apiAccessToken: None or the token that requests are sent with
  promises,     \* of getAccessToken: [forced, since, settled]
  inFlight,     \* inFlightAccessToken: None or one of the promises
  call,         \* of every request: None or [at, promise, first, second]
  screen,       \* "checking", "ready" or "required"
  syncs         \* calls of synchronize that wait, each with the tokens issued when it began

vars == <<issued, accepted, signedIn, token, promises, inFlight, call, screen, syncs>>

-------------------------------------------------------------------------------
\* What the shell may answer: None without a session, or a new token, or, unless that was
\* asked for, one that it had since it was asked.  Nobody has a new token before.
Tokens(forced, since) ==
  {t \in 1 .. issued + 1 : /\ IF forced THEN t > issued ELSE t >= since
                           /\ t <= MaxToken /\ (t > issued => signedIn)}
  \cup IF signedIn THEN {} ELSE {None}

\* A token the shell had not given is accepted from now on.
Give(t) ==
  IF t = issued + 1 THEN issued' = t /\ accepted' = accepted \cup {t}
                    ELSE UNCHANGED <<issued, accepted>>

Waiting(n) == {r \in Calls : /\ call[r] # None /\ call[r].at \in {"getting", "refreshing"}
                             /\ call[r].promise = n}

TypeOK ==
  /\ issued \in 0 .. MaxToken /\ accepted \subseteq 1 .. issued /\ token \in 1 .. issued \cup {None}
  /\ inFlight # None => inFlight \in DOMAIN promises /\ ~promises[inFlight].settled
  /\ screen \in {"checking", "ready", "required"}
  /\ \A r \in Calls : call[r] # None =>
       /\ call[r].at \in {"getting", "sent", "refreshing", "resent",
                          "answered", "refused", "failed"}
       /\ call[r].at \in {"getting", "refreshing"} => ~promises[call[r].promise].settled

Init ==
  /\ issued = 1 /\ accepted = {1} /\ signedIn = TRUE /\ token = 1
  /\ promises = <<>> /\ inFlight = None /\ call = [r \in Calls |-> None]
  /\ screen = "ready" /\ syncs = {}

-------------------------------------------------------------------------------
(* authenticatedFetch *)

\* resolveApiAccessToken: a request joins the promise in flight unless it needs a refresh
\* and that one is none.
Resolve(r, forced, next) ==
  LET joins == inFlight # None /\ (forced => promises[inFlight].forced)
      n == IF joins THEN inFlight ELSE Len(promises) + 1
  IN  /\ n <= MaxPromise
      /\ promises' = IF joins THEN promises
                     ELSE Append(promises, [forced |-> forced, since |-> issued, settled |-> FALSE])
      /\ inFlight' = n
      /\ call' = [call EXCEPT ![r] = [next EXCEPT !.promise = n]]

Request(r) ==
  /\ screen = "ready" /\ call[r] = None
  /\ Resolve(r, FALSE, [at |-> "getting", promise |-> None, first |-> None, second |-> None])
  /\ UNCHANGED <<issued, accepted, signedIn, token, screen, syncs>>

\* Only the promise that is still in flight makes way for another.
Settled(n) ==
  /\ promises' = [promises EXCEPT ![n].settled = TRUE]
  /\ inFlight' = IF inFlight = n THEN None ELSE inFlight

\* Every request that waited is sent with the token; a refresh that brings none asks the
\* user to sign in.
Fulfil(n, t) ==
  LET Sent(c) == CASE c.at = "getting" -> [c EXCEPT !.at = "sent", !.first = t]
                   [] c.at = "refreshing" /\ t # None -> [c EXCEPT !.at = "resent", !.second = t]
                   [] OTHER -> [c EXCEPT !.at = "refused"]
  IN
  /\ ~promises[n].settled /\ t \in Tokens(promises[n].forced, promises[n].since)
  /\ Give(t) /\ Settled(n) /\ token' = t
  /\ call' = [r \in Calls |-> IF r \in Waiting(n) THEN Sent(call[r]) ELSE call[r]]
  /\ screen' = IF t = None /\ \E r \in Waiting(n) : call[r].at = "refreshing" THEN "required"
               ELSE screen
  /\ UNCHANGED <<signedIn, syncs>>

\* The shell throws: so do the requests, and nobody is asked to sign in.
Reject(n) ==
  /\ ~promises[n].settled /\ Settled(n)
  /\ call' = [r \in Calls |-> IF r \in Waiting(n) THEN [call[r] EXCEPT !.at = "failed"]
                              ELSE call[r]]
  /\ UNCHANGED <<issued, accepted, signedIn, token, screen, syncs>>

AuthenticationRequired == token' = None /\ screen' = "required"

\* The answer of the server: other than 401, 401 to the first sending, or to the second.
Answered(r) ==
  LET c == call[r]
      sent == IF c.at = "sent" THEN c.first ELSE c.second
  IN
  /\ c # None /\ c.at \in {"sent", "resent"}
  /\ \/ /\ sent \in accepted
        /\ call' = [call EXCEPT ![r].at = "answered"]
        /\ UNCHANGED <<token, promises, inFlight, screen>>
     \/ /\ sent \notin accepted /\ c.at = "sent"
        /\ Resolve(r, TRUE, [c EXCEPT !.at = "refreshing"])
        /\ UNCHANGED <<token, screen>>
     \/ /\ sent \notin accepted /\ c.at = "resent"
        /\ call' = [call EXCEPT ![r].at = "refused"]
        /\ AuthenticationRequired /\ UNCHANGED <<promises, inFlight>>
  /\ UNCHANGED <<issued, accepted, signedIn, syncs>>

-------------------------------------------------------------------------------
(* AuthenticationBoundary *)

\* login, the shell's own change of the session, and "check again"
Synchronize ==
  /\ Cardinality(syncs) < MaxSync /\ issued \notin syncs
  /\ syncs' = syncs \cup {issued} /\ screen' = "checking"
  /\ UNCHANGED <<issued, accepted, signedIn, token, promises, inFlight, call>>

Synchronized(since, t) ==
  /\ since \in syncs /\ t \in Tokens(FALSE, since)
  /\ Give(t) /\ token' = t /\ screen' = (IF t = None THEN "required" ELSE "ready")
  /\ syncs' = syncs \ {since}
  /\ UNCHANGED <<signedIn, promises, inFlight, call>>

Logout ==
  /\ screen = "ready" /\ AuthenticationRequired /\ signedIn' = FALSE /\ accepted' = {}
  /\ UNCHANGED <<issued, promises, inFlight, call, syncs>>

\* Outside: a token expires, or the session ends or begins.
Expire(t) ==
  /\ t \in accepted /\ accepted' = accepted \ {t}
  /\ UNCHANGED <<issued, signedIn, token, promises, inFlight, call, screen, syncs>>

SignIn(is) ==
  /\ signedIn # is /\ signedIn' = is /\ accepted' = IF is THEN accepted ELSE {}
  /\ UNCHANGED <<issued, token, promises, inFlight, call, screen, syncs>>

Next ==
  \/ \E r \in Calls : Request(r) \/ Answered(r)
  \/ \E n \in DOMAIN promises :
       Reject(n) \/ \E t \in 1 .. MaxToken \cup {None} : Fulfil(n, t)
  \/ Synchronize \/ Logout
  \/ \E since \in syncs, t \in 1 .. MaxToken \cup {None} : Synchronized(since, t)
  \/ (\E t \in 1 .. MaxToken : Expire(t)) \/ \E is \in BOOLEAN : SignIn(is)

Spec == Init /\ [][Next]_vars

-------------------------------------------------------------------------------
\* docs/requirements-baseline.md:47: requests that are refused together refresh the token
\* once.  Two refreshes never run at a time, also when an older answer of the shell comes in
\* while one runs: a shell that rotates its refresh tokens would end the session.
OneRefresh == Cardinality({n \in DOMAIN promises : promises[n].forced /\ ~promises[n].settled}) <= 1

\* docs/runbooks/access-control.md:30: a request is sent again with a token that was issued
\* after the first was refused, whatever promise it joined, and then no more.
RetryIsNewer ==
  \A r \in Calls : (call[r] # None /\ call[r].second # None) =>
    /\ call[r].at \in {"resent", "answered", "refused"}
    /\ call[r].first # None => call[r].second > call[r].first
===============================================================================
