----------------------------- MODULE RadarSourcing -----------------------------
(***************************************************************************)
(* The worker that finds candidates by itself (sourcing/, and              *)
(* workers/radar-sourcing-worker.ts): a cycle goes through the seeds of    *)
(* the operator and the links of partners' home pages, and creates a       *)
(* candidate of each host that nobody tracks.                              *)
(*                                                                         *)
(* The look-up, the creation and the request of an inspection are three    *)
(* transactions; cycles of two processes may overlap each other and the    *)
(* managers.  An entry is a host and the form of its address, or None if   *)
(* the Radar would reject it.  What a creation writes is in                *)
(* RadarCandidates; partners and candidates are never deleted.             *)
(***************************************************************************)
EXTENDS Integers, Sequences, FiniteSets, Functions

CONSTANTS
  Workers,
  Hosts,
  Inline, InFile,   \* entries of RADAR_SOURCING_SEED_URLS and of the seed file
  LinksOf,          \* hosts the home page of each host links to, each once, in their order
  Excluded,         \* hosts that are no media of the country, or too big
  MaxNew,           \* RADAR_SOURCING_MAX_NEW
  MaxSites,         \* MAX_SITES_PER_CYCLE
  MaxDomains,       \* MAX_DOMAINS_PER_SITE
  None

Entries == Range(Inline) \cup Range(InFile)

SourcingAssumption ==
  /\ {MaxNew, MaxSites, MaxDomains} \subseteq Nat \ {0}
  /\ IsFiniteSet(Hosts) /\ LinksOf \in [Hosts -> Seq(Hosts)]
  /\ Excluded \subseteq Hosts /\ None \notin Hosts \cup {"link"}
  /\ {Inline, InFile} \subseteq Seq(Entries)
  /\ \A entry \in Entries : entry.host \in Hosts \cup {None} /\ entry.address # None

VARIABLES
  found,      \* number of candidates of each host that cycles created
  entered,    \* hosts that managers entered
  rejected,   \* hosts whose candidates were rejected
  partners,   \* hosts of organizations, newest first
  keys,       \* idempotency_record "sourcing:<host>" of radar.create: None or the address
  asked,      \* hosts whose inspection was requested by a cycle
  cycle       \* of each worker: None or its cycle

vars == <<found, entered, rejected, partners, keys, asked, cycle>>

TypeOK ==
  /\ found \in [Hosts -> Nat]
  /\ entered \cup rejected \cup asked \subseteq Hosts
  /\ Range(partners) \subseteq Hosts
  /\ \A w \in Workers : cycle[w] # None =>
       /\ cycle[w].step \in {"fetch", "take", "look", "create", "request", "done"}
       /\ cycle[w].source \in 1 .. 3 /\ cycle[w].made \in 0 .. MaxNew

CandidateHosts == {h \in Hosts : found[h] > 0} \cup entered

-------------------------------------------------------------------------------
(* What a cycle looks at *)

\* A candidate in any status, or the domain of an organization.
IsKnownDomain(h) == h \in CandidateHosts \/ h \in Range(partners)

ListExpansionRoots == SubSeq(partners, 1, IF Len(partners) < MaxSites THEN Len(partners) ELSE MaxSites)

\* A page tells of no more than MaxDomains others, its first, itself excepted.
ExtractExternalMediaDomains(root) ==
  LET media == {i \in DOMAIN LinksOf[root] : LinksOf[root][i] \notin Excluded \cup {root}}
  IN {LinksOf[root][i] : i \in {j \in media : Cardinality({k \in media : k < j}) < MaxDomains}}

\* Roots are not found again; a host that two of them link to is found once.
FetchCandidates(roots, answering) ==
  UNION {ExtractExternalMediaDomains(root) : root \in answering} \ roots

Linked(h) == [host |-> h, address |-> "link"]

Init ==
  /\ found = [h \in Hosts |-> 0] /\ entered = {} /\ rejected = {} /\ asked = {}
  /\ partners = <<>>
  /\ keys = [h \in Hosts |-> None]
  /\ cycle = [w \in Workers |-> None]

-------------------------------------------------------------------------------
(* Managers *)

Enter(h) ==
  /\ h \notin entered /\ entered' = entered \cup {h}
  /\ UNCHANGED <<found, rejected, partners, keys, asked, cycle>>

Accept(h) ==
  /\ h \in CandidateHosts \ rejected /\ h \notin Range(partners)
  /\ partners' = <<h>> \o partners
  /\ UNCHANGED <<found, entered, rejected, keys, asked, cycle>>

Reject(h) ==
  /\ h \in CandidateHosts \ rejected /\ h \notin Range(partners)
  /\ rejected' = rejected \cup {h}
  /\ UNCHANGED <<found, entered, partners, keys, asked, cycle>>

\* A day after, when no cycle is between a look-up and a creation.
KeyExpires(h) ==
  /\ keys[h] # None /\ keys' = [keys EXCEPT ![h] = None]
  /\ \A w \in Workers : cycle[w] # None => cycle[w].step \notin {"create", "request"}
  /\ UNCHANGED <<found, entered, rejected, partners, asked, cycle>>

-------------------------------------------------------------------------------
(* runCycle *)

At(w, step) == cycle[w] # None /\ cycle[w].step = step
Host(w) == Head(cycle[w].queue).host

\* The entry is done with.
Skip(w, changes) ==
  cycle' = [cycle EXCEPT ![w] = [changes EXCEPT !.step = "take", !.queue = Tail(@)]]

Start(w) ==
  /\ cycle[w] = None
  /\ cycle' = [cycle EXCEPT ![w] =
       [step |-> "fetch", source |-> 1, queue |-> <<>>, seen |-> {}, made |-> 0, failed |-> {}]]
  /\ UNCHANGED <<found, entered, rejected, partners, keys, asked>>

Fetched(w, entries) ==
  /\ cycle' = [cycle EXCEPT ![w].step = "take", ![w].queue = entries]
  /\ UNCHANGED <<found, entered, rejected, partners, keys, asked>>

\* A file that cannot be read is left out.
FetchSeeds(w) ==
  /\ At(w, "fetch") /\ cycle[w].source = 1
  /\ \E file \in {<<>>, InFile} : Fetched(w, Inline \o file)

\* So are home pages that do not answer; the order of the pages and of their links is any.
FetchLinks(w) ==
  /\ At(w, "fetch") /\ cycle[w].source = 2
  /\ \E answering \in SUBSET Range(ListExpansionRoots) :
       LET told == FetchCandidates(Range(ListExpansionRoots), answering) IN
       \E hosts \in Injection(1 .. Cardinality(told), told) :
         Fetched(w, [i \in DOMAIN hosts |-> Linked(hosts[i])])

\* An entry that the Radar would reject, or a host the cycle has seen.
TakeNothing(w) ==
  /\ At(w, "take") /\ cycle[w].made < MaxNew /\ cycle[w].queue # <<>>
  /\ Host(w) \in cycle[w].seen \cup {None}
  /\ Skip(w, cycle[w])
  /\ UNCHANGED <<found, entered, rejected, partners, keys, asked>>

Take(w) ==
  /\ At(w, "take") /\ cycle[w].made < MaxNew /\ cycle[w].queue # <<>>
  /\ Host(w) \notin cycle[w].seen \cup {None}
  /\ cycle' = [cycle EXCEPT ![w].step = "look", ![w].seen = @ \cup {Host(w)}]
  /\ UNCHANGED <<found, entered, rejected, partners, keys, asked>>

Look(w) ==
  /\ At(w, "look")
  /\ IF IsKnownDomain(Host(w)) THEN Skip(w, cycle[w])
     ELSE cycle' = [cycle EXCEPT ![w].step = "create"]
  /\ UNCHANGED <<found, entered, rejected, partners, keys, asked>>

Failed(w) == Skip(w, [cycle[w] EXCEPT !.failed = @ \cup {Host(w)}])

\* sourcing:<host>
KeyOf(h) == keys[h]

\* radar.create: a candidate, the answer of the one that used the key, or a conflict of
\* its content with that one's.
Create(w) ==
  LET entry == Head(cycle[w].queue) IN
  /\ At(w, "create")
  /\ IF KeyOf(entry.host) = None THEN
       /\ found' = [found EXCEPT ![entry.host] = @ + 1]
       /\ keys' = [keys EXCEPT ![entry.host] = entry.address]
       /\ cycle' = [cycle EXCEPT ![w].step = "request"]
     ELSE
       /\ UNCHANGED <<found, keys>>
       /\ IF KeyOf(entry.host) = entry.address
          THEN cycle' = [cycle EXCEPT ![w].step = "request"]
          ELSE Failed(w)
  /\ UNCHANGED <<entered, rejected, partners, asked>>

\* radar.requestInspection: the candidate may have been decided on in between.
Request(w) ==
  /\ At(w, "request")
  /\ Host(w) \notin rejected \cup Range(partners)
  /\ asked' = asked \cup {Host(w)}
  /\ Skip(w, [cycle[w] EXCEPT !.made = @ + 1])
  /\ UNCHANGED <<found, entered, rejected, partners, keys>>

\* Either transaction fails: the cycle goes on.
Fail(w) ==
  /\ At(w, "create") \/ At(w, "request")
  /\ Failed(w)
  /\ UNCHANGED <<found, entered, rejected, partners, keys, asked>>

\* The next source, unless there is none or enough was found.
IsOver(w) == cycle[w].source = 2 \/ cycle[w].made >= MaxNew

EndSource(w) ==
  /\ At(w, "take") /\ (cycle[w].queue = <<>> \/ cycle[w].made >= MaxNew)
  /\ cycle' = IF IsOver(w) THEN [cycle EXCEPT ![w].step = "done"]
              ELSE [cycle EXCEPT ![w].step = "fetch", ![w].source = 2]
  /\ UNCHANGED <<found, entered, rejected, partners, keys, asked>>

\* The source, or the look-up of roots, fails: the cycle goes on with the next.
SourceFails(w) ==
  /\ At(w, "fetch") /\ cycle[w].source = 2
  /\ cycle' = [cycle EXCEPT ![w].step = "done"]
  /\ UNCHANGED <<found, entered, rejected, partners, keys, asked>>

\* The cycle is over, or its process dies.
Leave(w) ==
  /\ cycle[w] # None /\ cycle' = [cycle EXCEPT ![w] = None]
  /\ UNCHANGED <<found, entered, rejected, partners, keys, asked>>

Next ==
  \/ \E h \in Hosts : Enter(h) \/ Accept(h) \/ Reject(h) \/ KeyExpires(h)
  \/ \E w \in Workers :
       \/ Start(w) \/ FetchSeeds(w) \/ FetchLinks(w) \/ SourceFails(w)
       \/ TakeNothing(w) \/ Take(w) \/ Look(w) \/ Create(w) \/ Request(w) \/ Fail(w)
       \/ EndSource(w) \/ Leave(w)

Spec == Init /\ [][Next]_vars

-------------------------------------------------------------------------------
\* runbooks/radar.md: a host that is a candidate's in any status is passed over: however
\* cycles overlap each other and decisions, they create one candidate of a host.
OneCandidatePerHost == \A h \in Hosts : found[h] <= 1

\* runbooks/radar.md: a cycle that was not full leaves none of the seeds untracked but those
\* whose creation or inspection request failed.
NothingIsPassedOver ==
  \A w \in Workers : (At(w, "done") /\ cycle[w].made < MaxNew) =>
    \A entry \in Range(Inline) :
      entry.host = None \/ entry.host \in cycle[w].failed \/ IsKnownDomain(entry.host)
===============================================================================
