------------------------------ MODULE EmbedCheck ------------------------------
(***************************************************************************)
(* A check of a placement (monitoring/l0-embed-checker.ts) and the HTTP    *)
(* client it reads with (safe-http-client.ts, network-guard.ts): the page, *)
(* then the player that the page embeds, each by a chain of redirects of   *)
(* which every host is resolved anew.  Names, servers and what they answer *)
(* are outside, and may change between any two steps.                      *)
(***************************************************************************)
EXTENDS Integers, Sequences

CONSTANTS
  Page,          \* the URL of the placement
  Urls,
  Refused,       \* of them, those not of HTTP, with credentials, or of a host never to be fetched
  Public,        \* addresses that may be fetched
  Private,       \* addresses that may not
  Documented,    \* of Urls, the documented embed URLs of RUTUBE
  Frames,        \* what pages embed: sequences of sources of their iframes
  Statuses,      \* that servers may answer
  MaxRedirects,  \* DEFAULT_MAX_REDIRECTS
  None

\* Of the checks that are not healthy.
Codes == {"PAGE_HTTP_BLOCKED", "PAGE_HTTP_ERROR", "RUTUBE_IFRAME_NOT_FOUND", "EMBED_HTTP_BLOCKED",
          "EMBED_HTTP_ERROR", "NETWORK_TARGET_BLOCKED", "RESPONSE_TOO_LARGE", "NETWORK_ERROR"}

Landings == [status : Statuses, embed : Documented]

EmbedAssumption ==
  /\ Page \in Urls /\ Refused \subseteq Urls /\ Documented \subseteq Urls \ Refused
  /\ Public \cap Private = {} /\ Statuses \subseteq 100 .. 599
  /\ Frames \subseteq Seq(Urls) /\ MaxRedirects \in Nat
  /\ None \notin Urls \cup Statuses /\ None \notin Codes /\ None \notin Landings

VARIABLES
  fetch,        \* None or the get that runs: [what, url, hops, address]
  page,         \* None or the page that was read: [status, embed]
  observation,  \* None or the verdict
  told          \* history: the final answers of servers, [what, status, embed]

vars == <<fetch, page, observation, told>>

-------------------------------------------------------------------------------
(* Pages *)

IsSuccessful(status) == status \in 200 .. 299

IsRefusal(status) == status \in {403, 429}

\* The first iframe of the page whose source is a documented embed URL.
FindDocumentedRutubeEmbed(sources) ==
  LET embeds == {i \in DOMAIN sources : sources[i] \in Documented}
  IN  IF embeds = {} THEN None ELSE sources[CHOOSE i \in embeds : \A j \in embeds : i <= j]

\* parseAllowedUrl and isBlockedHostname, before the name is resolved.
IsAllowed(url) == url \in Urls \ Refused

Result(result, pageStatus, embedStatus, embed, code) ==
  [result |-> result, pageStatus |-> pageStatus, embedStatus |-> embedStatus,
   playerFound |-> embed # None, embed |-> embed, code |-> code]

TypeOK ==
  /\ fetch # None => /\ fetch.what \in {"page", "embed"} /\ fetch.url \in Urls
                     /\ fetch.hops \in 0 .. MaxRedirects
                     /\ fetch.address \in Public \cup {None, "hung"}
                     /\ (fetch.what = "embed") <=> (page # None)
  /\ observation # None => /\ observation.result \in {"healthy", "failed", "blocked", "unknown"}
                           /\ observation.code \in Codes \cup {None}
                           /\ (observation.code = None) <=> (observation.result = "healthy")

Init ==
  /\ fetch = [what |-> "page", url |-> Page, hops |-> 0, address |-> None]
  /\ page = None /\ observation = None /\ told = <<>>

-------------------------------------------------------------------------------
(* check *)

Conclude(verdict) == observation' = verdict /\ fetch' = None

\* Whatever a get throws ends the check without the page, even if it was read.
Throw(result, code) ==
  /\ Conclude(Result(result, None, None, None, code))
  /\ UNCHANGED <<page, told>>

\* Every address of the host must be one to fetch; the connection is to the first of them.
Resolve(addresses) ==
  /\ fetch # None /\ fetch.address = None
  /\ \/ IsAllowed(fetch.url) /\ addresses # {} /\ addresses \subseteq Public
          /\ \E first \in addresses : fetch' = [fetch EXCEPT !.address = first]
          /\ UNCHANGED <<page, observation, told>>
     \/ (~IsAllowed(fetch.url) \/ addresses = {} \/ addresses \cap Private # {})
          /\ Throw("blocked", "NETWORK_TARGET_BLOCKED")

Unresolved ==
  /\ fetch # None /\ fetch.address = None /\ IsAllowed(fetch.url)
  /\ Throw("unknown", "NETWORK_ERROR")

Connected == fetch # None /\ fetch.address \in Public

\* Node tells the end of the time as an AbortError, so that it is no TimeoutError here.
Unanswered == Connected /\ Throw("unknown", "NETWORK_ERROR")

TooLarge == Connected /\ Throw("unknown", "RESPONSE_TOO_LARGE")

\* A connection that closes within the body settles nothing, and the timeout finds the
\* request closed.
Cut == Connected /\ fetch' = [fetch EXCEPT !.address = "hung"] /\ UNCHANGED <<page, observation, told>>

Redirected(location) ==
  /\ Connected
  /\ IF fetch.hops = MaxRedirects THEN Throw("unknown", "NETWORK_ERROR")
     ELSE /\ fetch' = [fetch EXCEPT !.url = location, !.hops = @ + 1, !.address = None]
          /\ UNCHANGED <<page, observation, told>>

ReadPage(status, sources) ==
  LET embed == FindDocumentedRutubeEmbed(sources) IN
  /\ Connected /\ fetch.what = "page"
  /\ told' = Append(told, [what |-> "page", status |-> status, embed |-> embed])
  /\ CASE IsRefusal(status) ->
            Conclude(Result("blocked", status, None, None, "PAGE_HTTP_BLOCKED")) /\ UNCHANGED page
       [] ~IsRefusal(status) /\ ~IsSuccessful(status) ->
            Conclude(Result("failed", status, None, None, "PAGE_HTTP_ERROR")) /\ UNCHANGED page
       [] IsSuccessful(status) /\ embed = None ->
            Conclude(Result("failed", status, None, None, "RUTUBE_IFRAME_NOT_FOUND")) /\ UNCHANGED page
       [] OTHER ->
            /\ page' = [status |-> status, embed |-> embed]
            /\ fetch' = [what |-> "embed", url |-> embed, hops |-> 0, address |-> None]
            /\ UNCHANGED observation

ReadEmbed(status) ==
  LET tell(result, code) == Conclude(Result(result, page.status, status, page.embed, code)) IN
  /\ Connected /\ fetch.what = "embed"
  /\ told' = Append(told, [what |-> "embed", status |-> status, embed |-> None])
  /\ CASE IsRefusal(status)    -> tell("blocked", "EMBED_HTTP_BLOCKED")
       [] IsSuccessful(status) -> tell("healthy", None)
       [] OTHER                -> tell("failed", "EMBED_HTTP_ERROR")
  /\ UNCHANGED page

Next ==
  \/ \E addresses \in SUBSET (Public \cup Private) : Resolve(addresses)
  \/ Unresolved \/ Unanswered \/ TooLarge \/ Cut
  \/ \E location \in Urls : Redirected(location)
  \* A redirect without a location is an answer as any other.
  \/ \E status \in Statuses : (\E sources \in Frames : ReadPage(status, sources)) \/ ReadEmbed(status)

Spec == Init /\ [][Next]_vars

-------------------------------------------------------------------------------
\* ADR-0007: only what servers answered counts against a placement.  Refusals, addresses that
\* may not be fetched, names that are not resolved, and time that is over are no failure,
\* wherever in the two chains of redirects they happen.
FailureIsProven ==
  (observation # None /\ observation.result = "failed") =>
    LET last == told[Len(told)] IN
    /\ told # <<>> /\ ~IsRefusal(last.status)
    /\ \/ ~IsSuccessful(last.status)
       \/ last.what = "page" /\ last.embed = None

\* ADR-0007: a placement is healthy when the page was read, embeds a documented player and
\* the URL of the player is available, in this order and in one check.
HealthIsSeen ==
  (observation # None /\ observation.result = "healthy") =>
    /\ Len(told) = 2 /\ told[1].what = "page" /\ told[2].what = "embed"
    /\ IsSuccessful(told[1].status) /\ IsSuccessful(told[2].status)
    /\ observation.embed = told[1].embed /\ observation.embed # None

\* The statuses a health check keeps are those the servers answered; a check that ends
\* otherwise keeps none, so that it is not taken for the answer of a server.
StatusesWereAnswered ==
  observation # None =>
    \/ observation.pageStatus = None /\ observation.embedStatus = None
    \/ /\ Len(told) \in {1, 2} /\ observation.pageStatus = told[1].status
       /\ observation.embedStatus = IF Len(told) = 2 THEN told[2].status ELSE None
===============================================================================
