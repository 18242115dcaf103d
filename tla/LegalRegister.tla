----------------------------- MODULE LegalRegister -----------------------------
(***************************************************************************)
(* The legal entity behind a site (monitoring/legal-entity-enrichment.ts): *)
(* the number that the site shows is looked up in the register of the tax  *)
(* service, which answers a token and then, asked up to three times, rows; *)
(* a register that names no head leaves the question to DaData, if there   *)
(* is a key.  Both services are outside.                                   *)
(***************************************************************************)
EXTENDS Integers, Sequences, Functions

CONSTANTS
  Number,     \* the number of the legal entity that the site shows
  OfPerson,   \* whether it is that of an individual, of 12 digits
  Keyed,      \* whether there is a key of DaData
  Leads,      \* that the pages told: sequences of [name, mailbox]
  Rows,       \* that the register answers: sequences of [number, individual, head, title, region]
  Persons,    \* that services name
  Regions,
  MaxPolls,   \* 3
  None

NoHead == "unreadable"  \* a head that is not told as <role>: <name>

RegisterAssumption ==
  /\ OfPerson \in BOOLEAN /\ Keyed \in BOOLEAN /\ MaxPolls \in Nat \ {0}
  /\ \A rows \in Rows : \A i \in DOMAIN rows :
       /\ rows[i].head \in Persons \cup {None, NoHead} /\ rows[i].individual \in BOOLEAN
       /\ rows[i].title \in Persons \cup {None} /\ rows[i].region \in Regions \cup {None}
  /\ None \notin Persons \cup Regions

VARIABLES
  leads,     \* of the research before
  request,   \* the request that runs: "token", "rows", "director", or None
  polls,     \* rows were asked for so often
  card,      \* None or the entity of the register: [region]
  result,    \* None or the enriched research: [leads, card, region]
  told       \* history: the rows that the register told, and the person that DaData named

vars == <<leads, request, polls, card, result, told>>

-------------------------------------------------------------------------------
(* Rows of the register *)

\* The row of the number, or else the first.
RowOf(rows) ==
  LET own == SelectSeq(rows, LAMBDA row : row.number = Number)
  IN  IF own = <<>> THEN Head(rows) ELSE Head(own)

\* The head of an organization; of an individual without one, the name of the row, if it
\* is one of three words.
DirectorOf(row) ==
  CASE row.head \in Persons -> row.head
    [] row.head = None /\ (row.individual \/ OfPerson) -> row.title
    [] OTHER -> None

\* The director in front, with what the services know, and no second lead of that name.
WithDirector(known, director) ==
  IF director = None THEN known
  ELSE <<[name |-> director, mailbox |-> None]>>
       \o SelectSeq(known, LAMBDA lead : lead.name # director)

Enriched(entity, director) ==
  [leads |-> WithDirector(leads, director), card |-> entity,
   region |-> IF entity = None THEN None ELSE entity.region]

TypeOK ==
  /\ leads \in Leads /\ request \in {"token", "rows", "director", None} /\ polls \in 0 .. MaxPolls
  /\ card # None => card.region \in Regions \cup {None}
  /\ (result = None) <=> (request # None)
  /\ result # None => /\ result.region \in Regions \cup {None}
                      /\ \A i \in DOMAIN result.leads :
                           result.leads[i].name \in Persons \/ result.leads[i] \in Range(leads)

Init ==
  /\ leads \in Leads /\ request = "token" /\ polls = 0 /\ card = None /\ result = None
  /\ told = [rows |-> <<>>, person |-> None]

-------------------------------------------------------------------------------
(* enrichResearchWithLegalEntity *)

Finish(entity, director) == result' = Enriched(entity, director) /\ request' = None

\* The register is done with: DaData is asked when it told no head and there is a key.
LeaveRegister(entity, director) ==
  /\ card' = entity
  /\ IF director = None /\ Keyed THEN request' = "director" /\ UNCHANGED result
     ELSE Finish(entity, director)

TokenTold ==
  /\ request = "token" /\ request' = "rows"
  /\ UNCHANGED <<leads, polls, card, result, told>>

RowsTold(rows) ==
  /\ request = "rows" /\ polls' = polls + 1
  /\ IF rows # <<>>
     THEN /\ LeaveRegister([region |-> RowOf(rows).region], DirectorOf(RowOf(rows)))
          /\ told' = [told EXCEPT !.rows = rows]
     ELSE /\ IF polls' = MaxPolls THEN LeaveRegister(None, None)
             ELSE UNCHANGED <<request, card, result>>
          /\ UNCHANGED told
  /\ UNCHANGED leads

\* No token, or an error of the request, a status other than 2xx, an answer that is not
\* JSON, or the end of its time: the register told nothing, whatever was asked before.
RegisterFails ==
  /\ request \in {"token", "rows"} /\ LeaveRegister(None, None)
  /\ polls' = IF request = "rows" THEN polls + 1 ELSE polls
  /\ UNCHANGED <<leads, told>>

\* DaData names a person, or nobody, or fails.
DirectorTold(person) ==
  /\ request = "director" /\ Finish(card, person)
  /\ told' = [told EXCEPT !.person = person]
  /\ UNCHANGED <<leads, polls, card>>

Next ==
  \/ TokenTold \/ RegisterFails
  \/ \E rows \in Rows : RowsTold(rows)
  \/ \E person \in Persons \cup {None} : DirectorTold(person)

Spec == Init /\ [][Next]_vars

-------------------------------------------------------------------------------
\* legal-entity-enrichment.ts:13: whatever fails, the enrichment breaks no inspection.  The
\* leads of other people stay, in their order (the director's own lead goes, with its
\* mailbox), and nobody is named whom no service named.
LeadsAreKept ==
  result # None =>
    \/ result.leads = leads
    \/ LET director == Head(result.leads).name
           others(list) == SelectSeq(list, LAMBDA lead : lead.name # director)
       IN  /\ Tail(result.leads) = others(leads) /\ others(result.leads) = others(leads)
           /\ \/ director = told.person
              \/ \E i \in DOMAIN told.rows : director \in {told.rows[i].head, told.rows[i].title}

\* legal-entity-enrichment.ts:326: the head in the register goes before that of DaData, and
\* neither the head nor the region is that of another entity when the number is in the rows.
\* A later request that fails takes nothing from what the register told.
RegisterGoesFirst ==
  (result # None /\ told.rows # <<>>) =>
    LET own == SelectSeq(told.rows, LAMBDA row : row.number = Number)
    IN  /\ result.card # None
        /\ own # <<>> => result.region \in {own[i].region : i \in DOMAIN own}
        /\ (own # <<>> /\ own[1].head \in Persons) =>
             result.leads[1].name = own[1].head /\ told.person = None
===============================================================================
