----------------------------- MODULE OverlapProofs -----------------------------
(***************************************************************************)
(* Proofs about the components of OfficeParts that read in parts, cut, or  *)
(* answer again what others write; and about the office as a whole: a step *)
(* of one component leaves the others alone, so an invariant of a          *)
(* component is one of the office, and what the components promise the     *)
(* office does.                                                            *)
(***************************************************************************)
EXTENDS OfficeProofs, PartsProofs

-------------------------------------------------------------------------------
(* PartnerRegistry: what was read of an organization is what it still is, or  *)
(* the organization changed.                                                  *)

RegistryNow ==
  [opportunities |-> Registry!OpportunitiesNow, tasks |-> [o \in Listed |-> TRUE],
   placements |-> Registry!PlacementsNow, alerts |-> alert]

QuietIsRead ==
  /\ loaded.opportunities # None =>
       \A o \in Listed : OrganizationOf[o] \notin changed =>
         loaded.opportunities[o] = Registry!OpportunitiesNow[o]
  /\ loaded.tasks # None =>
       \A o \in Listed : OrganizationOf[o] \notin changed => loaded.tasks[o] = TRUE
  /\ loaded.placements # None =>
       \A org \in Placed \ changed : loaded.placements[org] = Registry!PlacementsNow[org]
  /\ loaded.alerts # None => \A org \in Placed \ changed : loaded.alerts[org] = alert[org]

\* A failed placement, or an alert, is trouble; a placement that has not failed has no alert.
TroubleIsRead ==
  /\ loaded.placements # None =>
       \A org \in Placed :
         org \in (IF loaded.placements[org].health = "failed" THEN troubled ELSE calm)
  /\ loaded.alerts # None => \A org \in Placed : loaded.alerts[org] => org \in troubled

QuietIsListed ==
  \A org \in Registry!Organizations \ changed :
    /\ \A r \in listing : r.organization = org => r = Registry!RowNow(org)
    /\ query.file /\ query.integration \in {None, Registry!RowNow(org).integration} =>
         Registry!RowNow(org) \in listing

TroubleIsListed ==
  \A r \in listing : r.organization \in (IF r.integration = "issue" THEN troubled ELSE calm)

RegistryInv ==
  /\ Registry!TypeOK
  /\ \A org \in Placed : alert[org] => health[org] = "failed"
  /\ pc # "idle" =>
       Registry!InTrouble \subseteq troubled /\ Registry!Organizations \ Registry!InTrouble \subseteq calm
  /\ pc # "reading" => loaded = Registry!NothingRead
  /\ QuietIsRead /\ TroubleIsRead
  /\ pc \in {"auditing", "answering"} => QuietIsListed /\ TroubleIsListed
  /\ Registry!ExportIsAudited

LEMMA RegistryConstants ==
  /\ DOMAIN OrganizationOf = Listed /\ ScoreOf \in [Listed -> Int] /\ IsFiniteSet(Listed)
  /\ \A o, p \in Listed : ScoreOf[o] = ScoreOf[p] => o = p
  /\ Placed \subseteq Registry!Organizations /\ Changing \subseteq Listed
  /\ PageLimit \in Nat \ {0} /\ MaxTask \in Nat \ {0}
<1>1. Registry!RegistryAssumption
  BY PartsAssumption DEF PartsAssumption
<1> QED
  BY <1>1 DEF Registry!RegistryAssumption, Registry!IsFiniteSet, IsFiniteSet

LEMMA RegistryInitially == Registry!Init => RegistryInv
BY RegistryConstants
   DEF RegistryInv, Registry!Init, Registry!TypeOK, Registry!NothingRead, QuietIsRead,
       TroubleIsRead, Registry!ExportIsAudited

\* The highest score is that of an opportunity of the organization.
LEMMA PrimaryIsOfOrganization ==
  ASSUME NEW org \in Registry!Organizations
  PROVE  Registry!Primary(org) \in Listed /\ OrganizationOf[Registry!Primary(org)] = org
<1> DEFINE S == {o \in Listed : OrganizationOf[o] = org}
           R == {pair \in S \X S : ScoreOf[pair[1]] > ScoreOf[pair[2]]}
<1>1. IsFiniteSet(S) /\ S # {}
  BY RegistryConstants, FS_Subset DEF Registry!Organizations
<1>2. \A e, f \in S : <<e, f>> \in R <=> ScoreOf[e] > ScoreOf[f]
  OBVIOUS
<1>3. \A e \in S : ScoreOf[e] \in Int
  BY RegistryConstants
<1>4. \E e \in S : \A f \in S : <<f, e>> \notin R
  <2>1. \A e \in S : <<e, e>> \notin R
    BY <1>2, <1>3
  <2>2. \A e, f, g \in S : <<e, f>> \in R /\ <<f, g>> \in R => <<e, g>> \in R
    <3> HIDE DEF R, S
    <3> QED
      BY <1>2, <1>3
  <2> HIDE DEF R, S
  <2> QED
    BY <1>1, <2>1, <2>2, HasMinimal
<1>5. PICK e \in S : \A f \in S : ScoreOf[f] <= ScoreOf[e]
  <2> HIDE DEF R, S
  <2>1. PICK e \in S : \A f \in S : <<f, e>> \notin R
    BY <1>4
  <2>2. \A f \in S : ScoreOf[f] <= ScoreOf[e]
    <3> TAKE f \in S
    <3>1. ~ (ScoreOf[f] > ScoreOf[e])
      BY <1>2, <2>1
    <3> QED
      BY <1>3, <3>1
  <2> QED
    BY <2>2
<1>6. \E o \in Listed :
        /\ OrganizationOf[o] = org
        /\ \A p \in Listed : OrganizationOf[p] = org => ScoreOf[p] <= ScoreOf[o]
  BY <1>5
<1> QED
  BY <1>6 DEF Registry!Primary

\* Rows that are put together from the same are the same.
LEMMA SameRow ==
  ASSUME NEW l, NEW m, NEW org \in Registry!Organizations,
         \A o \in Listed : OrganizationOf[o] = org =>
           l.opportunities[o] = m.opportunities[o] /\ l.tasks[o] = m.tasks[o],
         org \in Placed => l.placements[org] = m.placements[org] /\ l.alerts[org] = m.alerts[org]
  PROVE  Registry!MapPartner(l, org) = Registry!MapPartner(m, org)
<1>1. Registry!IntegrationStatus(l.opportunities, l.placements, l.alerts, org)
        = Registry!IntegrationStatus(m.opportunities, m.placements, m.alerts, org)
  BY DEF Registry!IntegrationStatus, Registry!Issue
<1> QED
  BY <1>1, PrimaryIsOfOrganization DEF Registry!MapPartner

LEMMA RowIsNow ==
  ASSUME NEW org PROVE Registry!RowNow(org) = Registry!MapPartner(RegistryNow, org)
BY DEF Registry!RowNow, RegistryNow

\* What others change is in the history of the request.
LEMMA ChangesAreSeen ==
  ASSUME RegistryInv, NEW org \in Registry!Organizations, Registry!Changes(org),
         stage' \in [Listed -> {"S2", "S7"}], nextTask' \in [Listed -> 1 .. MaxTask],
         business' \in [Placed -> {"planned", "active"}],
         health' \in [Placed -> {"healthy", "failed"}], alert' \in [Placed -> BOOLEAN],
         \A p \in Placed : alert'[p] => health'[p] = "failed",
         \A o \in Listed : OrganizationOf[o] # org => stage'[o] = stage[o] /\ nextTask'[o] = nextTask[o],
         \A p \in Placed \ {org} :
           business'[p] = business[p] /\ health'[p] = health[p] /\ alert'[p] = alert[p]
  PROVE  RegistryInv'
<1> USE DEF Registry!Changes, Registry!request
<1>1. /\ pc' = pc /\ loaded' = loaded /\ listing' = listing /\ query' = query /\ audits' = audits
      /\ permitted' = permitted
  OBVIOUS
<1>2. pc # "idle" => /\ changed' = changed \cup {org}
                     /\ troubled' = troubled \cup Registry!InTrouble'
                     /\ calm' = calm \cup (Registry!Organizations \ Registry!InTrouble')
  OBVIOUS
<1>3. Registry!InTrouble' \subseteq Registry!Organizations
  BY RegistryConstants DEF Registry!InTrouble
<1>4. Registry!TypeOK'
  BY <1>1, <1>2, <1>3, RegistryConstants DEF RegistryInv, Registry!TypeOK
<1>5. pc = "idle" \/ (changed \subseteq changed' /\ org \in changed' /\ troubled \subseteq troubled' /\ calm \subseteq calm')
  BY <1>2
<1>6. \A o \in Listed : OrganizationOf[o] # org =>
        Registry!OpportunitiesNow'[o] = Registry!OpportunitiesNow[o]
  BY DEF Registry!OpportunitiesNow
<1>7. \A p \in Placed \ {org} : Registry!PlacementsNow'[p] = Registry!PlacementsNow[p]
  BY DEF Registry!PlacementsNow
<1>8. pc = "idle" => loaded = Registry!NothingRead
  BY DEF RegistryInv
<1>9. QuietIsRead'
  BY <1>1, <1>5, <1>6, <1>7, <1>8 DEF RegistryInv, QuietIsRead, Registry!NothingRead
<1>10. TroubleIsRead'
  BY <1>1, <1>5, <1>8 DEF RegistryInv, TroubleIsRead, Registry!NothingRead
<1>11. \A other \in Registry!Organizations \ {org} : Registry!RowNow(other)' = Registry!RowNow(other)
  <2> SUFFICES ASSUME NEW other \in Registry!Organizations \ {org}
               PROVE  Registry!RowNow(other)' = Registry!RowNow(other)
    OBVIOUS
  <2>1. \A o \in Listed : OrganizationOf[o] = other =>
          /\ RegistryNow'.opportunities[o] = RegistryNow.opportunities[o]
          /\ RegistryNow'.tasks[o] = RegistryNow.tasks[o]
    BY <1>6 DEF RegistryNow
  <2>2. other \in Placed => /\ RegistryNow'.placements[other] = RegistryNow.placements[other]
                            /\ RegistryNow'.alerts[other] = RegistryNow.alerts[other]
    BY <1>7 DEF RegistryNow
  <2>3. Registry!MapPartner(RegistryNow', other) = Registry!MapPartner(RegistryNow, other)
    BY <2>1, <2>2, SameRow
  <2> QED
    BY <2>3 DEF Registry!RowNow, RegistryNow
<1>12. pc \in {"auditing", "answering"} => QuietIsListed'
  BY <1>1, <1>5, <1>11 DEF RegistryInv, QuietIsListed
<1>13. pc \in {"auditing", "answering"} => TroubleIsListed'
  BY <1>1, <1>5 DEF RegistryInv, TroubleIsListed
<1>14. pc' # "idle" => /\ Registry!InTrouble' \subseteq troubled'
                       /\ Registry!Organizations \ Registry!InTrouble' \subseteq calm'
  BY <1>1, <1>2
<1>15. Registry!ExportIsAudited'
  BY <1>1 DEF RegistryInv, Registry!ExportIsAudited
<1>16. pc' # "reading" => loaded' = Registry!NothingRead
  BY <1>1 DEF RegistryInv
<1> QED
  BY <1>1, <1>4, <1>9, <1>10, <1>12, <1>13, <1>14, <1>15, <1>16 DEF RegistryInv

\* A query that is sent reads what is, and what is read so far stays.
LEMMA ReadsKeepRegistry ==
  ASSUME RegistryInv,
         \/ Registry!ReadOpportunities \/ Registry!ReadTasks \/ Registry!ReadPlacements
         \/ Registry!ReadAlerts
  PROVE  RegistryInv'
<1> USE DEF Registry!Reads, Registry!facts
<1>1. /\ UNCHANGED <<stage, nextTask, business, health, alert, permitted, pc, query, listing, audits>>
      /\ UNCHANGED <<changed, troubled, calm>> /\ pc = "reading"
  BY DEF Registry!ReadOpportunities, Registry!ReadTasks, Registry!ReadPlacements,
     Registry!ReadAlerts
<1>2. DOMAIN loaded = DOMAIN Registry!NothingRead
  BY DEF RegistryInv, Registry!TypeOK
<1>3. DOMAIN loaded' = DOMAIN Registry!NothingRead
  BY <1>2 DEF Registry!ReadOpportunities, Registry!ReadTasks, Registry!ReadPlacements,
     Registry!ReadAlerts
<1>4. /\ Registry!OpportunitiesNow' = Registry!OpportunitiesNow
      /\ Registry!PlacementsNow' = Registry!PlacementsNow /\ Registry!InTrouble' = Registry!InTrouble
  BY <1>1 DEF Registry!OpportunitiesNow, Registry!PlacementsNow, Registry!InTrouble
<1>5. \A org \in Placed : Registry!PlacementsNow[org].health = health[org]
  BY DEF Registry!PlacementsNow
<1>6. \A o \in Listed : Registry!OpportunitiesNow[o].next = nextTask[o]
  BY DEF Registry!OpportunitiesNow
<1>7. Registry!InTrouble \subseteq troubled /\ Registry!Organizations \ Registry!InTrouble \subseteq calm
  BY <1>1 DEF RegistryInv
<1>8. QuietIsRead' /\ TroubleIsRead'
  <2>1. CASE Registry!ReadOpportunities
    BY <1>1, <1>2, <1>4, <2>1
       DEF Registry!ReadOpportunities, Registry!NothingRead, RegistryInv, QuietIsRead, TroubleIsRead
  <2>2. CASE Registry!ReadTasks
    BY <1>1, <1>2, <1>4, <1>6, <2>2
       DEF Registry!ReadTasks, Registry!NothingRead, RegistryInv, QuietIsRead, TroubleIsRead
  <2>3. CASE Registry!ReadPlacements
    <3>1. \A org \in Placed :
            org \in (IF health[org] = "failed" THEN troubled ELSE calm)
      BY <1>7, RegistryConstants DEF RegistryInv, Registry!InTrouble
    <3> QED
      BY <1>1, <1>2, <1>4, <1>5, <2>3, <3>1
         DEF Registry!ReadPlacements, Registry!NothingRead, RegistryInv, QuietIsRead, TroubleIsRead
  <2>4. CASE Registry!ReadAlerts
    <3>1. \A org \in Placed : alert[org] => org \in troubled
      BY <1>7 DEF Registry!InTrouble
    <3> QED
      BY <1>1, <1>2, <1>4, <2>4, <3>1
         DEF Registry!ReadAlerts, Registry!NothingRead, RegistryInv, QuietIsRead, TroubleIsRead
  <2> QED
    BY <2>1, <2>2, <2>3, <2>4
<1>9. Registry!TypeOK'
  BY <1>1, <1>3 DEF RegistryInv, Registry!TypeOK, Registry!NothingRead
<1> QED
  BY <1>1, <1>4, <1>7, <1>8, <1>9 DEF RegistryInv, Registry!ExportIsAudited

\* A row that is put together from queries of different moments.
LEMMA LoadKeepsRegistry ==
  ASSUME RegistryInv, Registry!Load
  PROVE  RegistryInv'
<1> USE DEF Registry!facts
<1>1. /\ UNCHANGED <<stage, nextTask, business, health, alert, permitted, query, audits>>
      /\ UNCHANGED <<changed, troubled, calm>> /\ pc = "reading"
      /\ pc' = IF query.file THEN "auditing" ELSE "answering"
      /\ loaded' = Registry!NothingRead
      /\ \A kind \in DOMAIN loaded : loaded[kind] # None
      /\ listing' = IF query.file THEN Registry!Matching ELSE Registry!Page(Registry!Matching)
  BY DEF Registry!Load
<1>2. listing' \subseteq Registry!Matching
  BY <1>1 DEF Registry!Page
<1>3. /\ loaded.opportunities # None /\ loaded.tasks # None
      /\ loaded.placements # None /\ loaded.alerts # None
  BY <1>1 DEF RegistryInv, Registry!TypeOK, Registry!NothingRead
<1>4. \A org : Registry!MapPartner(loaded, org).organization = org
  BY DEF Registry!MapPartner
<1>5. \A org \in Registry!Organizations \ changed :
        Registry!MapPartner(loaded, org) = Registry!RowNow(org)
  <2> SUFFICES ASSUME NEW org \in Registry!Organizations \ changed
               PROVE  Registry!MapPartner(loaded, org) = Registry!RowNow(org)
    OBVIOUS
  <2>1. \A o \in Listed : OrganizationOf[o] = org =>
          /\ loaded.opportunities[o] = RegistryNow.opportunities[o]
          /\ loaded.tasks[o] = RegistryNow.tasks[o]
    BY <1>3 DEF RegistryInv, QuietIsRead, RegistryNow
  <2>2. org \in Placed => /\ loaded.placements[org] = RegistryNow.placements[org]
                          /\ loaded.alerts[org] = RegistryNow.alerts[org]
    BY <1>3 DEF RegistryInv, QuietIsRead, RegistryNow
  <2> QED
    BY <2>1, <2>2, SameRow, RowIsNow
<1>6. \A org : Registry!RowNow(org)' = Registry!RowNow(org)
  BY <1>1 DEF Registry!RowNow, Registry!OpportunitiesNow, Registry!PlacementsNow
<1>7. QuietIsListed'
  <2> SUFFICES ASSUME NEW org \in Registry!Organizations \ changed
               PROVE  /\ \A r \in listing' : r.organization = org => r = Registry!RowNow(org)
                      /\ query.file /\ query.integration \in {None, Registry!RowNow(org).integration}
                           => Registry!RowNow(org) \in listing'
    BY <1>1, <1>6 DEF QuietIsListed
  <2>1. \A r \in Registry!Matching : r.organization = org => r = Registry!RowNow(org)
    BY <1>4, <1>5 DEF Registry!Matching
  <2>2. query.integration \in {None, Registry!RowNow(org).integration} =>
          Registry!RowNow(org) \in Registry!Matching
    BY <1>5 DEF Registry!Matching
  <2> QED
    BY <1>1, <1>2, <2>1, <2>2
<1>8. TroubleIsListed'
  <2> SUFFICES ASSUME NEW org \in Registry!Organizations
               PROVE  org \in (IF Registry!MapPartner(loaded, org).integration = "issue"
                               THEN troubled ELSE calm)
    BY <1>1, <1>2, <1>4 DEF TroubleIsListed, Registry!Matching
  <2>1. Registry!MapPartner(loaded, org).integration = "issue"
          <=> Registry!Issue(loaded.placements, loaded.alerts, org)
    BY DEF Registry!MapPartner, Registry!IntegrationStatus
  <2>2. org \in Placed => org \in (IF loaded.placements[org].health = "failed" THEN troubled ELSE calm)
    BY <1>3 DEF RegistryInv, TroubleIsRead
  <2>3. org \in Placed /\ loaded.alerts[org] => org \in troubled
    BY <1>3 DEF RegistryInv, TroubleIsRead
  <2>4. org \notin Placed => org \in calm
    BY <1>1 DEF RegistryInv, Registry!InTrouble
  <2> QED
    BY <2>1, <2>2, <2>3, <2>4 DEF Registry!Issue
<1>9. Registry!TypeOK'
  BY <1>1 DEF RegistryInv, Registry!TypeOK, Registry!NothingRead
<1>10. Registry!InTrouble' = Registry!InTrouble
  BY <1>1 DEF Registry!InTrouble
<1>11. QuietIsRead' /\ TroubleIsRead'
  BY <1>1 DEF QuietIsRead, TroubleIsRead, Registry!NothingRead
<1>12. Registry!ExportIsAudited'
  BY <1>1 DEF Registry!ExportIsAudited
<1> QED
  BY <1>1, <1>7, <1>8, <1>9, <1>10, <1>11, <1>12 DEF RegistryInv

LEMMA OthersKeepRegistry ==
  ASSUME RegistryInv
  PROVE  /\ \A o \in Changing : Registry!Transition(o) \/ Registry!CompleteTask(o) => RegistryInv'
         /\ \A org \in Placed : Registry!Launch(org) => RegistryInv'
         /\ \A org \in Placed, healthy \in BOOLEAN : Registry!Check(org, healthy) => RegistryInv'
<1> USE DEF RegistryInv, Registry!TypeOK
<1>1. ASSUME NEW o \in Changing, Registry!Transition(o) \/ Registry!CompleteTask(o)
      PROVE  RegistryInv'
  <2>1. o \in Listed /\ OrganizationOf[o] \in Registry!Organizations
    BY RegistryConstants DEF Registry!Organizations
  <2>2. /\ stage' \in [Listed -> {"S2", "S7"}] /\ nextTask' \in [Listed -> 1 .. MaxTask]
        /\ \A p \in Listed \ {o} : stage'[p] = stage[p] /\ nextTask'[p] = nextTask[p]
        /\ UNCHANGED <<business, health, alert>> /\ Registry!Changes(OrganizationOf[o])
    BY <1>1, <2>1, RegistryConstants DEF Registry!Transition, Registry!CompleteTask
  <2> HIDE DEF RegistryInv, Registry!TypeOK
  <2>3. /\ business' \in [Placed -> {"planned", "active"}]
        /\ health' \in [Placed -> {"healthy", "failed"}] /\ alert' \in [Placed -> BOOLEAN]
        /\ \A p \in Placed : alert'[p] => health'[p] = "failed"
    BY <2>2 DEF RegistryInv, Registry!TypeOK
  <2> QED
    BY <2>1, <2>2, <2>3, ChangesAreSeen
<1>2. ASSUME NEW org \in Placed, Registry!Launch(org) PROVE RegistryInv'
  <2>1. org \in Registry!Organizations
    BY RegistryConstants
  <2>2. /\ business' \in [Placed -> {"planned", "active"}]
        /\ \A p \in Placed \ {org} : business'[p] = business[p]
        /\ UNCHANGED <<stage, nextTask, health, alert>> /\ Registry!Changes(org)
    BY <1>2 DEF Registry!Launch
  <2> QED
    BY <2>1, <2>2, ChangesAreSeen
<1>3. ASSUME NEW org \in Placed, NEW healthy \in BOOLEAN, Registry!Check(org, healthy)
      PROVE  RegistryInv'
  <2>1. org \in Registry!Organizations
    BY RegistryConstants
  <2>2. /\ health' \in [Placed -> {"healthy", "failed"}] /\ alert' \in [Placed -> BOOLEAN]
        /\ \A p \in Placed \ {org} : health'[p] = health[p] /\ alert'[p] = alert[p]
        /\ alert'[org] => health'[org] = "failed"
        /\ UNCHANGED <<stage, nextTask, business>> /\ Registry!Changes(org)
    BY <1>3 DEF Registry!Check
  <2> QED
    BY <2>1, <2>2, ChangesAreSeen
<1> QED
  BY <1>1, <1>2, <1>3

LEMMA RegistryInductive == RegistryInv /\ [Registry!Next]_(Registry!vars) => RegistryInv'
<1> SUFFICES ASSUME RegistryInv, [Registry!Next]_(Registry!vars) PROVE RegistryInv'
  OBVIOUS
<1> DEFINE Same == UNCHANGED <<stage, nextTask, business, health, alert>>
<1>a. Same => /\ Registry!InTrouble' = Registry!InTrouble
              /\ Registry!OpportunitiesNow' = Registry!OpportunitiesNow
              /\ Registry!PlacementsNow' = Registry!PlacementsNow
              /\ \A org : Registry!RowNow(org)' = Registry!RowNow(org)
  BY DEF Registry!InTrouble, Registry!OpportunitiesNow, Registry!PlacementsNow, Registry!RowNow
<1>1. CASE \E o \in Changing : Registry!Transition(o) \/ Registry!CompleteTask(o)
  BY <1>1, OthersKeepRegistry
<1>2. CASE \E org \in Placed :
             Registry!Launch(org) \/ \E healthy \in BOOLEAN : Registry!Check(org, healthy)
  BY <1>2, OthersKeepRegistry
<1>3. CASE \E f \in BOOLEAN, integration \in {None, "issue", "planned"} : Registry!Begin(f, integration)
  <2>1. /\ Same /\ UNCHANGED <<permitted, loaded, listing, audits>> /\ pc = "idle" /\ pc' = "reading"
        /\ changed' = {} /\ troubled' = Registry!InTrouble
        /\ calm' = Registry!Organizations \ Registry!InTrouble
    BY <1>3 DEF Registry!Begin, Registry!facts
  <2>2. Registry!TypeOK'
    BY <2>1, RegistryConstants DEF RegistryInv, Registry!TypeOK, Registry!InTrouble
  <2>3. QuietIsRead' /\ TroubleIsRead'
    BY <2>1 DEF RegistryInv, QuietIsRead, TroubleIsRead, Registry!NothingRead
  <2> QED
    BY <2>1, <2>2, <2>3, <1>a DEF RegistryInv, Registry!ExportIsAudited
<1>4. CASE \/ Registry!ReadOpportunities \/ Registry!ReadTasks
           \/ Registry!ReadPlacements \/ Registry!ReadAlerts
  BY <1>4, ReadsKeepRegistry
<1>5. CASE Registry!Load
  BY <1>5, LoadKeepsRegistry
<1>6. CASE Registry!Audit
  <2>1. /\ Same /\ UNCHANGED <<permitted, query, loaded, listing, changed, troubled, calm>>
        /\ pc = "auditing" /\ pc' = "answering" /\ audits' = audits \cup {Registry!Cardinality(listing)}
    BY <1>6 DEF Registry!Audit, Registry!facts
  <2>2. Registry!TypeOK'
    BY <2>1 DEF RegistryInv, Registry!TypeOK
  <2>3. QuietIsRead' /\ TroubleIsRead' /\ QuietIsListed' /\ TroubleIsListed'
    BY <2>1, <1>a DEF RegistryInv, QuietIsRead, TroubleIsRead, QuietIsListed, TroubleIsListed
  <2> QED
    BY <2>1, <2>2, <2>3, <1>a DEF RegistryInv, Registry!ExportIsAudited
<1>7. CASE Registry!Over
  <2>1. /\ Same /\ UNCHANGED permitted /\ pc' = "idle" /\ loaded' = Registry!NothingRead
        /\ changed' = {} /\ troubled' = {} /\ calm' = {}
    BY <1>7 DEF Registry!Over, Registry!facts
  <2>2. Registry!TypeOK'
    BY <2>1 DEF RegistryInv, Registry!TypeOK, Registry!NothingRead
  <2>3. QuietIsRead' /\ TroubleIsRead'
    BY <2>1 DEF QuietIsRead, TroubleIsRead, Registry!NothingRead
  <2> QED
    BY <2>1, <2>2, <2>3 DEF RegistryInv, Registry!ExportIsAudited
<1>8. CASE Registry!Revoke \/ UNCHANGED Registry!vars
  <2>1. Same /\ UNCHANGED <<pc, query, loaded, listing, audits, changed, troubled, calm>>
    BY <1>8 DEF Registry!Revoke, Registry!facts, Registry!request, Registry!vars
  <2>2. Registry!TypeOK'
    BY <2>1 DEF RegistryInv, Registry!TypeOK
  <2>3. QuietIsRead' /\ TroubleIsRead'
    BY <2>1, <1>a DEF RegistryInv, QuietIsRead, TroubleIsRead
  <2>4. pc' \in {"auditing", "answering"} => QuietIsListed' /\ TroubleIsListed'
    BY <2>1, <1>a DEF RegistryInv, QuietIsListed, TroubleIsListed
  <2> QED
    BY <2>1, <2>2, <2>3, <2>4, <1>a DEF RegistryInv, Registry!ExportIsAudited
<1> QED
  BY <1>1, <1>2, <1>3, <1>4, <1>5, <1>6, <1>7, <1>8 DEF Registry!Next

\* However rows are read while others write, a listing tells the trouble of placements and what
\* did not change, and a file is in the audit before it is answered (PartnerRegistry).
THEOREM RegistryReadsAreComplete ==
  Registry!Spec => [](Registry!IssueIsReal /\ Registry!QuietRowIsExact /\ Registry!ExportIsAudited)
<1>1. RegistryInv =>
        Registry!IssueIsReal /\ Registry!QuietRowIsExact /\ Registry!ExportIsAudited
  BY DEF RegistryInv, Registry!IssueIsReal, Registry!QuietRowIsExact, QuietIsListed, TroubleIsListed
<1> QED
  BY <1>1, RegistryInitially, RegistryInductive, PTL DEF Registry!Spec

-------------------------------------------------------------------------------
(* TodayQueue: what a command did stays done, whatever is read and answered   *)
(* after it.                                                                  *)

\* A task that a command was applied to.
Applied(op, cmd) ==
  /\ todo[op.task] # None
  /\ IF op.kind = "complete" THEN todo[op.task].completed # None ELSE todo[op.task].due >= cmd.due

\* An answer to a completion: the task is not in the queue, and counted if it is of the day.
Tells(op, answer) ==
  /\ \A entry \in answer.list : entry.task # op.task
  /\ answer.day = todo[op.task].completed => op.task \in answer.counts.completed

\* A transaction under way has read its task.
InTransaction(s) ==
  /\ kept[s.op] = None
  /\ s.version \in Nat /\ s.was \in Queue!Dues
  /\ s.version <= todo[s.op.task].version
  /\ s.version = todo[s.op.task].version => s.was = todo[s.op.task].due
  /\ s.command.kind = "reschedule" => s.command.due > s.was
  /\ s.list = {}

Serves(s) ==
  /\ s.op.kind = s.command.kind /\ todo[s.op.task] # None
  /\ s.step = "transaction" => InTransaction(s)
  /\ s.step # "transaction" => kept[s.op] # None /\ Applied(s.op, s.command)
  /\ s.step \in {"listing", "counting"} => s.day # None
  /\ s.step \in {"rendered", "kept"} => s.answer # None
  /\ s.answer # None =>
       s.step # "transaction" /\ (s.op.kind = "complete" => Tells(s.op, s.answer))
  /\ \A entry \in s.list : entry.task = s.op.task =>
       s.op.kind = "reschedule" /\ entry.due >= s.command.due

Keeps(op) ==
  /\ kept[op].command.kind = op.kind /\ Applied(op, kept[op].command)
  /\ kept[op].answer # None => op.kind = "complete" /\ Tells(op, kept[op].answer)

\* What was sent.
Posts(op) ==
  \A answer \in posted[op] : kept[op] # None /\ op.kind = "complete" /\ Tells(op, answer)

Told(e) ==
  /\ todo[e.task] # None /\ e.version <= todo[e.task].version /\ e.to <= todo[e.task].due

QueueInv ==
  /\ Queue!TypeOK
  /\ \A r \in Requests : serving[r] # None => Serves(serving[r])
  /\ \A q, r \in Requests :
       (/\ serving[q] # None /\ serving[r] # None
        /\ serving[q].step = "transaction" /\ serving[r].step = "transaction"
        /\ serving[q].op = serving[r].op) => q = r
  /\ \A op \in Queue!Operations : kept[op] # None => Keeps(op)
  /\ \A op \in Queue!Operations : Posts(op)
  /\ \A e \in trail : Told(e)
  /\ Queue!TrailIsAChain

LEMMA QueueConstants ==
  /\ MaxTask \in Nat \ {0} /\ MaxDue \in Nat \ {0} /\ LastDay \in Nat \ {0}
  /\ Acted \subseteq Queue!Tasks
  /\ \A cmd \in QueueCommands :
       \/ cmd.kind = "complete" /\ cmd.next = "close"
       \/ cmd.kind = "complete" /\ cmd.next \in {"task", "waiting"} /\ cmd.due \in Queue!Dues
       \/ cmd.kind = "reschedule" /\ cmd.due \in Queue!Dues
  /\ None \notin Nat /\ None \notin Queue!TaskRows /\ None \notin Queue!Records
  /\ None \notin Queue!Answers
<1>1. Queue!QueueAssumption
  BY PartsAssumption DEF PartsAssumption
<1> QED
  BY <1>1 DEF Queue!QueueAssumption

LEMMA QueueTyped ==
  ASSUME Queue!TypeOK
  PROVE  /\ \A t \in Queue!Tasks : todo[t] # None => todo[t] \in Queue!TaskRows
         /\ \A op \in Queue!Operations : kept[op] # None => kept[op] \in Queue!Records
         /\ \A r \in Requests : serving[r] # None => serving[r] \in Queue!Services
         /\ \A op \in Queue!Operations : posted[op] \subseteq Queue!Answers
BY DEF Queue!TypeOK

LEMMA NewTaskIsRow ==
  ASSUME NEW days \in Queue!Dues, NEW waits \in BOOLEAN
  PROVE  Queue!NewTask(days, Queue!NextPriority(waits), waits) \in Queue!TaskRows
BY DEF Queue!NewTask, Queue!TaskRows

LEMMA QueueInitially == Queue!Init => QueueInv
<1> SUFFICES ASSUME Queue!Init PROVE QueueInv
  OBVIOUS
<1>1. Queue!TypeOK
  <2>1. 1 \in Queue!Dues /\ 1 \in Queue!Days
    BY QueueConstants DEF Queue!Dues, Queue!Days
  <2>2. Queue!NewTask(1, Queue!NextPriority(FALSE), FALSE) \in Queue!TaskRows
    BY <2>1, NewTaskIsRow
  <2> QED
    BY <2>1, <2>2 DEF Queue!Init, Queue!TypeOK
<1> QED
  BY <1>1 DEF QueueInv, Queue!Init, Queue!TrailIsAChain, Posts

-------------------------------------------------------------------------------

\* What commands leave of the tasks: nothing that was done is undone.
TasksGo ==
  \A t \in Queue!Tasks : todo[t] # None =>
    /\ todo'[t] # None /\ todo'[t].due >= todo[t].due /\ todo'[t].version >= todo[t].version
    /\ todo'[t].version = todo[t].version => todo'[t] = todo[t]
    /\ todo[t].completed # None => todo'[t].completed = todo[t].completed

LEMMA AppliedStays ==
  ASSUME QueueInv, TasksGo, NEW op \in Queue!Operations, NEW cmd \in QueueCommands,
         cmd.kind = op.kind, Applied(op, cmd), todo' \in [Queue!Tasks -> Queue!TaskRows \cup {None}]
  PROVE  Applied(op, cmd)'
<1>1. op.task \in Queue!Tasks
  BY QueueConstants DEF Queue!Operations
<1>2. todo[op.task] # None /\ todo[op.task] \in Queue!TaskRows
  BY <1>1, QueueTyped DEF QueueInv, Applied
<1>3. todo'[op.task] # None /\ todo'[op.task] \in Queue!TaskRows
  BY <1>1, <1>2 DEF TasksGo
<1>4. op.kind # "complete" => cmd.due \in Nat
  BY QueueConstants DEF Queue!Dues
<1>5. todo[op.task].due \in Nat /\ todo'[op.task].due \in Nat
  BY <1>2, <1>3, QueueConstants DEF Queue!TaskRows, Queue!Dues
<1>6. CASE op.kind = "complete"
  BY <1>1, <1>2, <1>3, <1>6 DEF TasksGo, Applied
<1>7. CASE op.kind # "complete"
  <2>1. todo[op.task].due >= cmd.due /\ todo'[op.task].due >= todo[op.task].due
    BY <1>1, <1>2, <1>7 DEF TasksGo, Applied
  <2>2. todo'[op.task].due >= cmd.due
    BY <2>1, <1>4, <1>5, <1>7
  <2> QED
    BY <2>2, <1>3, <1>7 DEF Applied
<1> QED
  BY <1>6, <1>7

LEMMA TellsStays ==
  ASSUME QueueInv, TasksGo, NEW op \in Queue!Operations, NEW answer, op.kind = "complete",
         Tells(op, answer), todo[op.task] # None, todo[op.task].completed # None
  PROVE  Tells(op, answer)'
<1>1. op.task \in Queue!Tasks
  BY QueueConstants DEF Queue!Operations
<1> QED
  BY <1>1 DEF TasksGo, Tells

LEMMA ToldStays ==
  ASSUME QueueInv, TasksGo, todo' \in [Queue!Tasks -> Queue!TaskRows \cup {None}], NEW e \in trail
  PROVE  Told(e)'
<1>1. e.task \in Queue!Tasks /\ e.version \in Nat /\ e.to \in Nat
  BY QueueConstants DEF QueueInv, Queue!TypeOK, Queue!Reschedulings, Queue!Dues
<1>2. Told(e)
  BY DEF QueueInv
<1>3. todo[e.task] \in Queue!TaskRows
  BY <1>1, <1>2, QueueTyped DEF QueueInv, Told
<1>4. todo'[e.task] # None /\ todo'[e.task] \in Queue!TaskRows
  BY <1>1, <1>2 DEF TasksGo, Told
<1>5. /\ todo[e.task].due \in Nat /\ todo'[e.task].due \in Nat
      /\ todo[e.task].version \in Nat /\ todo'[e.task].version \in Nat
  BY <1>3, <1>4, QueueConstants DEF Queue!TaskRows, Queue!Dues
<1>6. todo'[e.task].due >= todo[e.task].due /\ todo'[e.task].version >= todo[e.task].version
  BY <1>1, <1>2 DEF TasksGo, Told
<1>7. e.version <= todo'[e.task].version /\ e.to <= todo'[e.task].due
  BY <1>1, <1>2, <1>5, <1>6 DEF Told
<1> QED
  BY <1>4, <1>7 DEF Told

\* The requests other than the one that commits, or all.
LEMMA ServesStays ==
  ASSUME QueueInv, TasksGo, todo' \in [Queue!Tasks -> Queue!TaskRows \cup {None}],
         NEW r \in Requests, serving[r] # None, kept'[serving[r].op] = kept[serving[r].op]
                                                \/ (serving[r].step # "transaction"
                                                    /\ kept'[serving[r].op] # None),
         serving'[r] = serving[r]
  PROVE  Serves(serving[r])'
<1> DEFINE s == serving[r]
           t == s.op.task
<1>1. s \in Queue!Services /\ Serves(s) /\ s.op \in Queue!Operations /\ s.command \in QueueCommands
  BY QueueTyped DEF QueueInv, Queue!Services
<1>2. t \in Queue!Tasks /\ todo[t] # None /\ s.command.kind = s.op.kind
  BY <1>1, QueueConstants DEF Queue!Operations, Serves
<1>3. todo[t] \in Queue!TaskRows /\ todo'[t] # None /\ todo'[t] \in Queue!TaskRows
  BY <1>2, QueueTyped DEF QueueInv, TasksGo
<1>4. s.step # "transaction" => Applied(s.op, s.command)'
  <2>1. s.step # "transaction" => Applied(s.op, s.command)
    BY <1>1 DEF Serves
  <2> QED
    BY <2>1, <1>1, <1>2, AppliedStays
<1>5. ASSUME s.step = "transaction"
      PROVE  /\ kept'[s.op] = None
             /\ s.version \in Nat /\ s.was \in Queue!Dues
             /\ s.version <= todo'[t].version
             /\ s.version = todo'[t].version => s.was = todo'[t].due
             /\ s.command.kind = "reschedule" => s.command.due > s.was
             /\ s.list = {}
  <2>1. InTransaction(s)
    BY <1>1, <1>5 DEF Serves
  <2>2. todo[t].version \in Nat /\ todo'[t].version \in Nat
    BY <1>3 DEF Queue!TaskRows
  <2>3. todo'[t].version >= todo[t].version /\ (todo'[t].version = todo[t].version => todo'[t] = todo[t])
    BY <1>2 DEF TasksGo
  <2>4. s.version \in Nat /\ s.version <= todo[t].version
    BY <2>1 DEF InTransaction
  <2>5. s.version <= todo'[t].version /\ (s.version = todo'[t].version => s.version = todo[t].version
                                                                          /\ todo'[t] = todo[t])
    BY <2>2, <2>3, <2>4
  <2>6. kept'[s.op] = None
    BY <1>5, <2>1 DEF InTransaction
  <2> QED
    BY <2>1, <2>5, <2>6 DEF InTransaction
<1>6. s.step # "transaction" => kept'[s.op] # None
  BY <1>1 DEF Serves
<1>8. s.answer # None => s.step # "transaction" /\ (s.op.kind = "complete" => Tells(s.op, s.answer)')
  <2> SUFFICES ASSUME s.answer # None, s.op.kind = "complete" PROVE Tells(s.op, s.answer)'
    BY <1>1 DEF Serves
  <2>1. s.step # "transaction" /\ Tells(s.op, s.answer) /\ Applied(s.op, s.command)
    BY <1>1 DEF Serves
  <2>2. todo[s.op.task].completed # None
    BY <2>1 DEF Applied
  <2>3. PICK op, answer : op = s.op /\ answer = s.answer
    OBVIOUS
  <2>4. Tells(op, answer)'
    BY <1>1, <1>2, <2>1, <2>2, <2>3, TellsStays
  <2> QED
    BY <2>3, <2>4 DEF Tells
<1> HIDE DEF s
<1>7. s' = s
  BY DEF s
<1> QED
  BY <1>1, <1>2, <1>3, <1>4, <1>5, <1>6, <1>7, <1>8 DEF s, Serves, InTransaction, Tells

\* A commit that did what it was asked to.
LEMMA CommittedIsKept ==
  ASSUME QueueInv, TasksGo, todo' \in [Queue!Tasks -> Queue!TaskRows \cup {None}],
         NEW r \in Requests, serving[r] # None, serving[r].step = "transaction",
         Queue!Committed(r), UNCHANGED <<day, posted, overlapped>>,
         NEW op, NEW cmd, op = serving[r].op, cmd = serving[r].command, Applied(op, cmd)',
         trail' \subseteq Queue!Reschedulings, \A e \in trail' : Told(e)', Queue!TrailIsAChain'
  PROVE  QueueInv'
<1> DEFINE s == serving[r]
<1>1. /\ s \in Queue!Services /\ Serves(s) /\ op \in Queue!Operations /\ cmd \in QueueCommands
      /\ s.op = op /\ s.command = cmd
  BY QueueTyped DEF QueueInv, Queue!Services
<1>2. /\ serving \in [Requests -> Queue!Services \cup {None}]
      /\ kept \in [Queue!Operations -> Queue!Records \cup {None}]
      /\ posted \in [Queue!Operations -> SUBSET Queue!Answers]
  BY DEF QueueInv, Queue!TypeOK
<1>3. kept[op] = None /\ s.list = {} /\ s.answer = None
  BY <1>1 DEF Serves, InTransaction
<1>4. PICK record : record = [command |-> cmd, answer |-> None]
  OBVIOUS
<1>5. record \in Queue!Records /\ record # None
  BY <1>1, <1>4, QueueConstants DEF Queue!Records
<1>6. kept' = [kept EXCEPT ![op] = record]
  BY <1>4 DEF Queue!Committed
<1>7. PICK served2 : served2 = [s EXCEPT !.step = "committed", !.version = None, !.was = None]
  OBVIOUS
<1>8. /\ served2 \in Queue!Services /\ served2.op = op /\ served2.command = cmd
      /\ served2.step = "committed" /\ served2.list = {} /\ served2.answer = None
  BY <1>1, <1>3, <1>7 DEF Queue!Services
<1>9. serving' = [serving EXCEPT ![r] = served2]
  BY <1>2, <1>7 DEF Queue!Committed
<1>10. Queue!TypeOK'
  BY <1>2, <1>5, <1>6, <1>8, <1>9 DEF QueueInv, Queue!TypeOK
<1>11. Serves(serving[r])'
  <2>1. op.kind = cmd.kind /\ op.task \in Queue!Tasks /\ todo[op.task] # None
    BY <1>1, QueueConstants DEF Serves, Queue!Operations
  <2>2. todo'[op.task] # None
    BY <2>1 DEF TasksGo
  <2>3. serving'[r] = served2 /\ kept'[op] # None
    BY <1>1, <1>2, <1>5, <1>6, <1>9
  <2> QED
    BY <1>8, <2>1, <2>2, <2>3 DEF Serves, Applied
<1>12. \A q \in Requests \ {r} : serving[q] # None => Serves(serving[q])'
  <2> SUFFICES ASSUME NEW q \in Requests \ {r}, serving[q] # None PROVE Serves(serving[q])'
    OBVIOUS
  <2>1. serving'[q] = serving[q] /\ serving[q] \in Queue!Services
    BY <1>2, <1>9
  <2>2. serving[q].step = "transaction" => serving[q].op # op
    BY DEF QueueInv
  <2>3. serving[q].op \in Queue!Operations
    BY <2>1 DEF Queue!Services
  <2>4. \/ kept'[serving[q].op] = kept[serving[q].op]
        \/ serving[q].step # "transaction" /\ kept'[serving[q].op] # None
    BY <1>2, <1>5, <1>6, <2>2, <2>3
  <2> QED
    BY <2>1, <2>4, ServesStays
<1>13. \A o \in Queue!Operations : kept'[o] # None => Keeps(o)'
  <2> SUFFICES ASSUME NEW o \in Queue!Operations, kept'[o] # None PROVE Keeps(o)'
    OBVIOUS
  <2>1. CASE o = op
    <3>1. kept'[o] = record
      BY <1>2, <1>6, <2>1
    <3>2. cmd.kind = op.kind
      BY <1>1 DEF Serves
    <3>3. Applied(o, kept[o].command)'
      BY <1>4, <2>1, <3>1 DEF Applied
    <3> QED
      BY <1>4, <2>1, <3>1, <3>2, <3>3 DEF Keeps
  <2>2. CASE o # op
    <3>1. kept'[o] = kept[o] /\ kept[o] # None /\ Keeps(o) /\ kept[o] \in Queue!Records
      BY <1>2, <1>6, <2>2 DEF QueueInv
    <3>2. kept[o].command \in QueueCommands /\ kept[o].command.kind = o.kind
      BY <3>1 DEF Queue!Records, Keeps
    <3>3. PICK theirs : theirs = kept[o].command
      OBVIOUS
    <3>4. Applied(o, theirs)'
      BY <3>1, <3>2, <3>3, AppliedStays DEF Keeps
    <3>5. Applied(o, kept[o].command)'
      BY <3>1, <3>3, <3>4 DEF Applied
    <3>6. PICK answer : answer = kept[o].answer
      OBVIOUS
    <3>7. answer # None => o.kind = "complete" /\ Tells(o, answer)'
      BY <3>1, <3>6, TellsStays DEF Keeps, Applied
    <3>8. kept'[o].answer # None => o.kind = "complete" /\ Tells(o, kept[o].answer)'
      BY <3>1, <3>6, <3>7 DEF Tells
    <3> QED
      BY <3>1, <3>2, <3>5, <3>8 DEF Keeps
  <2> QED
    BY <2>1, <2>2
<1>14. \A p, q \in Requests :
         (/\ serving'[p] # None /\ serving'[q] # None
          /\ serving'[p].step = "transaction" /\ serving'[q].step = "transaction"
          /\ serving'[p].op = serving'[q].op) => p = q
  BY <1>2, <1>8, <1>9 DEF QueueInv
<1>15. \A o \in Queue!Operations : Posts(o)'
  <2> SUFFICES ASSUME NEW o \in Queue!Operations, NEW answer \in posted[o]
               PROVE  kept'[o] # None /\ o.kind = "complete" /\ Tells(o, answer)'
    BY DEF Posts, Tells
  <2>1. kept[o] # None /\ o.kind = "complete" /\ Tells(o, answer) /\ Keeps(o)
    BY DEF QueueInv, Posts
  <2>2. kept'[o] = kept[o]
    BY <1>2, <1>3, <1>6, <2>1
  <2> QED
    BY <2>1, <2>2, TellsStays DEF Keeps, Applied
<1> QED
  BY <1>10, <1>11, <1>12, <1>13, <1>14, <1>15, <1>9, <1>2 DEF QueueInv

\* What a transaction that is still current knows.
LEMMA CurrentTransaction ==
  ASSUME QueueInv, NEW r \in Requests, serving[r] # None, serving[r].step = "transaction",
         Queue!Unchanged(r)
  PROVE  LET s == serving[r]
             t == s.op.task
         IN  /\ s \in Queue!Services /\ s.op \in Queue!Operations /\ s.op.kind = s.command.kind
             /\ s.command \in QueueCommands
             /\ t \in Acted /\ t \in Queue!Tasks /\ todo[t] \in Queue!TaskRows /\ todo[t] # None
             /\ todo[t].completed = None /\ s.version = todo[t].version /\ s.was = todo[t].due
             /\ (s.command.kind = "reschedule" => s.command.due > s.was)
<1> DEFINE s == serving[r]
<1>1. s \in Queue!Services /\ Serves(s)
  BY QueueTyped DEF QueueInv
<1>2. s.op \in Queue!Operations /\ s.command \in QueueCommands
  BY <1>1 DEF Queue!Services
<1>3. s.op.task \in Acted /\ s.op.task \in Queue!Tasks
  BY <1>2, QueueConstants DEF Queue!Operations
<1>4. /\ todo[s.op.task] # None /\ todo[s.op.task].completed = None
      /\ todo[s.op.task].version = s.version
  BY DEF Queue!Unchanged, Queue!Open
<1>5. todo[s.op.task] \in Queue!TaskRows
  BY <1>3, <1>4, QueueTyped DEF QueueInv
<1>6. InTransaction(s) /\ s.op.kind = s.command.kind
  BY <1>1 DEF Serves
<1> QED
  BY <1>1, <1>2, <1>3, <1>4, <1>5, <1>6 DEF InTransaction

LEMMA RescheduleKeepsQueue ==
  ASSUME QueueInv, NEW r \in Requests, Queue!CommitReschedule(r)
  PROVE  QueueInv'
<1> DEFINE s == serving[r]
           t == s.op.task
<1>a. PICK e : e = [task |-> t, version |-> s.version + 1, from |-> s.was, to |-> s.command.due,
                    day |-> day]
  OBVIOUS
<1>b. PICK row2 : row2 = [todo[t] EXCEPT !.due = s.command.due, !.version = @ + 1]
  OBVIOUS
<1>c. PICK op, cmd : op = s.op /\ cmd = s.command
  OBVIOUS
<1>1. /\ s # None /\ s.step = "transaction" /\ s.command.kind = "reschedule"
      /\ Queue!Unchanged(r) /\ Queue!Committed(r) /\ UNCHANGED <<day, posted, overlapped>>
      /\ todo' = [todo EXCEPT ![t].due = s.command.due, ![t].version = @ + 1]
      /\ trail' = trail \cup {e}
  BY <1>a DEF Queue!CommitReschedule
<1>2. /\ s \in Queue!Services /\ s.op \in Queue!Operations /\ s.op.kind = s.command.kind
      /\ s.command \in QueueCommands
      /\ t \in Acted /\ t \in Queue!Tasks /\ todo[t] \in Queue!TaskRows /\ todo[t] # None
      /\ todo[t].completed = None /\ s.version = todo[t].version /\ s.was = todo[t].due
      /\ s.command.due > s.was
  BY <1>1, CurrentTransaction
<1>3. s.command.due \in Queue!Dues
  BY <1>1, <1>2, QueueConstants
<1>4. todo \in [Queue!Tasks -> Queue!TaskRows \cup {None}] /\ day \in Queue!Days
      /\ trail \subseteq Queue!Reschedulings
  BY DEF QueueInv, Queue!TypeOK
<1>5. todo' = [u \in Queue!Tasks |-> IF u = t THEN row2 ELSE todo[u]]
  <2>1. todo' = [[todo EXCEPT ![t].due = s.command.due] EXCEPT ![t].version = @ + 1]
    BY <1>1
  <2>2. PICK mid : mid = [todo EXCEPT ![t] = [todo[t] EXCEPT !.due = s.command.due]]
    OBVIOUS
  <2>3. mid = [todo EXCEPT ![t].due = s.command.due]
    BY <1>2, <1>4, <2>2
  <2>4. todo' = [mid EXCEPT ![t] = [mid[t] EXCEPT !.version = @ + 1]]
    BY <2>1, <2>3
  <2>5. mid[t] = [todo[t] EXCEPT !.due = s.command.due]
    BY <1>2, <1>4, <2>2
  <2>6. todo' = [mid EXCEPT ![t] = row2]
    BY <1>2, <1>b, <2>4, <2>5
  <2>7. mid = [u \in Queue!Tasks |-> IF u = t THEN [todo[t] EXCEPT !.due = s.command.due] ELSE todo[u]]
    BY <1>4, <2>2
  <2> HIDE DEF t
  <2> QED
    BY <2>6, <2>7
<1>6. /\ row2 \in Queue!TaskRows /\ row2 # None /\ row2.due = s.command.due
      /\ row2.version = todo[t].version + 1 /\ row2.completed = None
  <2>1. todo[t].version + 1 \in Nat
    BY <1>2 DEF Queue!TaskRows
  <2>2. /\ row2.due = s.command.due /\ row2.completed = todo[t].completed
        /\ row2.version = todo[t].version + 1
        /\ row2.priority = todo[t].priority /\ row2.waiting = todo[t].waiting
        /\ row2 = [due |-> row2.due, version |-> row2.version, priority |-> row2.priority,
                   waiting |-> row2.waiting, completed |-> row2.completed]
    BY <1>2, <1>b DEF Queue!TaskRows
  <2>3. row2 \in Queue!TaskRows
    BY <1>2, <1>3, <2>1, <2>2 DEF Queue!TaskRows
  <2> QED
    BY <1>2, <2>2, <2>3, QueueConstants
<1>7. todo[t].version \in Nat /\ todo[t].due \in Queue!Dues
  BY <1>2 DEF Queue!TaskRows
<1>8. todo' \in [Queue!Tasks -> Queue!TaskRows \cup {None}]
  BY <1>4, <1>5, <1>6
<1>9. \A u \in Queue!Tasks : todo[u] # None => todo[u].due \in Nat /\ todo[u].version \in Nat
  BY QueueTyped, QueueConstants DEF QueueInv, Queue!TaskRows, Queue!Dues
<1>10. TasksGo
  <2> SUFFICES ASSUME NEW u \in Queue!Tasks, todo[u] # None
               PROVE  /\ todo'[u] # None /\ todo'[u].due >= todo[u].due
                      /\ todo'[u].version >= todo[u].version
                      /\ todo'[u].version = todo[u].version => todo'[u] = todo[u]
                      /\ todo[u].completed # None => todo'[u].completed = todo[u].completed
    BY DEF TasksGo
  <2>1. CASE u = t
    <3>1. todo'[u] = row2
      BY <1>4, <1>5, <2>1
    <3>2. row2.due >= todo[t].due /\ row2.version > todo[t].version
      BY <1>2, <1>3, <1>6, <1>7, QueueConstants DEF Queue!Dues
    <3> QED
      BY <1>2, <1>6, <1>7, <2>1, <3>1, <3>2
  <2>2. CASE u # t
    <3>1. todo'[u] = todo[u]
      BY <1>4, <1>5, <2>2
    <3> QED
      BY <1>9, <3>1
  <2> QED
    BY <2>1, <2>2
<1>11. e \in Queue!Reschedulings
  BY <1>a, <1>2, <1>3, <1>4, <1>7 DEF Queue!Reschedulings
<1>12. todo'[t] = row2
  BY <1>2, <1>4, <1>5
<1>13. \A o \in trail' : Told(o)'
  <2>1. \A o \in trail : Told(o)'
    BY <1>8, <1>10, ToldStays
  <2>2. e.task = t /\ e.version = row2.version /\ e.to = row2.due
    BY <1>a, <1>2, <1>6
  <2>3. row2.version \in Nat /\ row2.due \in Nat
    BY <1>6, QueueConstants DEF Queue!TaskRows, Queue!Dues
  <2>4. Told(e)'
    BY <1>6, <1>12, <2>2, <2>3 DEF Told
  <2> QED
    BY <1>1, <2>1, <2>4
<1>14. Queue!TrailIsAChain'
  <2>1. Queue!TrailIsAChain /\ \A o \in trail : Told(o)
    BY DEF QueueInv
  <2>2. e.task = t /\ e.version = todo[t].version + 1 /\ e.from = todo[t].due /\ e.from < e.to
    BY <1>a, <1>2
  <2>3. ASSUME NEW o \in trail, o.task = t PROVE o.version < e.version /\ o.to <= e.from
    <3>1. o.version <= todo[t].version /\ o.to <= todo[t].due /\ o.version \in Nat
      BY <1>4, <2>1, <2>3 DEF Told, Queue!Reschedulings
    <3> QED
      BY <1>7, <2>2, <3>1
  <2>4. \A o \in trail : o.version \in Nat /\ e.version \in Nat
    BY <1>4, <1>7, <2>2 DEF Queue!Reschedulings
  <2>5. ASSUME NEW x \in trail', NEW o \in trail', o # x, o.task = x.task, o.version <= x.version
        PROVE  o.to <= x.from
    <3>1. CASE x \in trail /\ o \in trail
      BY <2>1, <2>5, <3>1 DEF Queue!TrailIsAChain
    <3>2. CASE x = e /\ o \in trail
      BY <2>2, <2>3, <2>5, <3>2
    <3>3. CASE x \in trail /\ o = e
      BY <2>2, <2>3, <2>4, <2>5, <3>3
    <3> QED
      BY <1>1, <2>5, <3>1, <3>2, <3>3
  <2>6. \A x \in trail' : x.from < x.to
    BY <1>1, <2>1, <2>2 DEF Queue!TrailIsAChain
  <2> QED
    BY <2>5, <2>6 DEF Queue!TrailIsAChain
<1>15. Applied(op, cmd)'
  <2>1. todo'[op.task] # None /\ todo'[op.task].due >= cmd.due
    BY <1>3, <1>6, <1>12, <1>c, QueueConstants DEF Queue!Dues
  <2>2. op.kind # "complete"
    BY <1>1, <1>2, <1>c
  <2> QED
    BY <2>1, <2>2 DEF Applied
<1>16. trail' \subseteq Queue!Reschedulings
  BY <1>1, <1>4, <1>11
<1> QED
  BY <1>1, <1>8, <1>10, <1>13, <1>14, <1>15, <1>16, <1>c, CommittedIsKept

\* The next task is entered under an id of its own.
LEMMA CompletionKeepsQueue ==
  ASSUME QueueInv, NEW r \in Requests, Queue!CommitCompletion(r)
  PROVE  QueueInv'
<1> DEFINE s == serving[r]
           t == s.op.task
           done == [todo EXCEPT ![t].completed = day, ![t].version = @ + 1]
<1>a. PICK row2 : row2 = [todo[t] EXCEPT !.completed = day, !.version = @ + 1]
  OBVIOUS
<1>b. PICK op, cmd : op = s.op /\ cmd = s.command
  OBVIOUS
<1>1. /\ s # None /\ s.step = "transaction" /\ cmd.kind = "complete"
      /\ Queue!Unchanged(r) /\ Queue!Committed(r) /\ UNCHANGED <<day, trail, posted, overlapped>>
  BY <1>b DEF Queue!CommitCompletion
<1>2. /\ s \in Queue!Services /\ op \in Queue!Operations /\ op.kind = cmd.kind /\ op.task = t
      /\ cmd \in QueueCommands
      /\ t \in Queue!Tasks /\ todo[t] \in Queue!TaskRows /\ todo[t] # None
      /\ todo[t].completed = None
  BY <1>1, <1>b, CurrentTransaction
<1>3. todo \in [Queue!Tasks -> Queue!TaskRows \cup {None}] /\ day \in Queue!Days /\ day # None
  BY QueueConstants DEF QueueInv, Queue!TypeOK, Queue!Days
<1>4. /\ row2 \in Queue!TaskRows /\ row2 # None /\ row2.due = todo[t].due
      /\ row2.version = todo[t].version + 1 /\ row2.completed = day
  <2>1. todo[t].version + 1 \in Nat
    BY <1>2 DEF Queue!TaskRows
  <2>2. /\ row2.due = todo[t].due /\ row2.completed = day /\ row2.version = todo[t].version + 1
        /\ row2.priority = todo[t].priority /\ row2.waiting = todo[t].waiting
        /\ row2 = [due |-> row2.due, version |-> row2.version, priority |-> row2.priority,
                   waiting |-> row2.waiting, completed |-> row2.completed]
    BY <1>2, <1>a DEF Queue!TaskRows
  <2>3. row2 \in Queue!TaskRows
    BY <1>2, <1>3, <2>1, <2>2 DEF Queue!TaskRows
  <2> QED
    BY <2>2, <2>3, QueueConstants
<1>5. done = [u \in Queue!Tasks |-> IF u = t THEN row2 ELSE todo[u]]
  <2>1. done = [[todo EXCEPT ![t].completed = day] EXCEPT ![t].version = @ + 1]
    OBVIOUS
  <2>2. PICK mid : mid = [todo EXCEPT ![t] = [todo[t] EXCEPT !.completed = day]]
    OBVIOUS
  <2>3. mid = [todo EXCEPT ![t].completed = day]
    BY <1>2, <1>3, <2>2
  <2>4. done = [mid EXCEPT ![t] = [mid[t] EXCEPT !.version = @ + 1]]
    BY <2>1, <2>3
  <2>5. mid[t] = [todo[t] EXCEPT !.completed = day]
    BY <1>2, <1>3, <2>2
  <2>6. done = [mid EXCEPT ![t] = row2]
    BY <1>2, <1>a, <2>4, <2>5
  <2>7. mid = [u \in Queue!Tasks |-> IF u = t THEN [todo[t] EXCEPT !.completed = day] ELSE todo[u]]
    BY <1>3, <2>2
  <2> HIDE DEF done
  <2> QED
    BY <2>6, <2>7
<1>6. /\ todo' \in [Queue!Tasks -> Queue!TaskRows \cup {None}] /\ todo'[t] = row2
      /\ \A u \in Queue!Tasks \ {t} : todo[u] # None => todo'[u] = todo[u]
  <2>1. CASE cmd.next = "close"
    <3>1. todo' = done
      BY <1>b, <2>1 DEF Queue!CommitCompletion
    <3> HIDE DEF done
    <3> QED
      BY <1>2, <1>3, <1>4, <1>5, <3>1
  <2>2. CASE cmd.next # "close"
    <3>1. PICK n \in Queue!Tasks :
            /\ todo[n] = None
            /\ todo' = [done EXCEPT ![n] =
                 Queue!NewTask(cmd.due, Queue!NextPriority(cmd.next = "waiting"), cmd.next = "waiting")]
      BY <1>b, <2>2 DEF Queue!CommitCompletion
    <3>2. cmd.due \in Queue!Dues
      BY <1>1, <1>2, <2>2, QueueConstants
    <3>3. PICK new : new = Queue!NewTask(cmd.due, Queue!NextPriority(cmd.next = "waiting"), cmd.next = "waiting")
      OBVIOUS
    <3>4. new \in Queue!TaskRows
      BY <3>2, <3>3, NewTaskIsRow
    <3>5. todo' = [done EXCEPT ![n] = new]
      BY <3>1, <3>3
    <3>6. n # t
      BY <1>2, <3>1
    <3> HIDE DEF done
    <3>7. todo' = [u \in Queue!Tasks |-> IF u = n THEN new ELSE IF u = t THEN row2 ELSE todo[u]]
      BY <1>5, <3>5
    <3> QED
      BY <1>2, <1>3, <1>4, <3>1, <3>4, <3>6, <3>7
  <2> QED
    BY <2>1, <2>2
<1>7. TasksGo
  <2> SUFFICES ASSUME NEW u \in Queue!Tasks, todo[u] # None
               PROVE  /\ todo'[u] # None /\ todo'[u].due >= todo[u].due
                      /\ todo'[u].version >= todo[u].version
                      /\ todo'[u].version = todo[u].version => todo'[u] = todo[u]
                      /\ todo[u].completed # None => todo'[u].completed = todo[u].completed
    BY DEF TasksGo
  <2>1. todo[u].due \in Nat /\ todo[u].version \in Nat
    BY QueueTyped, QueueConstants DEF QueueInv, Queue!TaskRows, Queue!Dues
  <2>2. CASE u = t
    BY <1>2, <1>4, <1>6, <2>1, <2>2
  <2>3. CASE u # t
    BY <1>6, <2>1, <2>3
  <2> QED
    BY <2>2, <2>3
<1>8. Applied(op, cmd)'
  BY <1>1, <1>2, <1>3, <1>4, <1>6 DEF Applied
<1>9. \A e \in trail' : Told(e)'
  BY <1>1, <1>6, <1>7, ToldStays
<1>10. trail' \subseteq Queue!Reschedulings /\ Queue!TrailIsAChain'
  BY <1>1 DEF QueueInv, Queue!TypeOK, Queue!TrailIsAChain
<1> QED
  BY <1>1, <1>6, <1>7, <1>8, <1>9, <1>10, <1>b, CommittedIsKept

\* Steps that leave tasks, records and the trail alone.
LEMMA RestKeepsQueue ==
  ASSUME QueueInv, UNCHANGED <<todo, kept, trail>>,
         day' \in Queue!Days, posted' \in [Queue!Operations -> SUBSET Queue!Answers],
         overlapped' \subseteq Queue!Operations,
         serving' \in [Requests -> Queue!Services \cup {None}],
         \A r \in Requests :
           serving'[r] # serving[r] /\ serving'[r] # None =>
               /\ Serves(serving[r])'
               /\ serving'[r].step = "transaction" =>
                    \A q \in Requests \ {r} :
                      serving'[q] = serving[q]
                      /\ (serving[q] # None => serving[q].step # "transaction"
                                               \/ serving[q].op # serving'[r].op),
         \A op \in Queue!Operations : \A answer \in posted'[op] :
           kept[op] # None /\ op.kind = "complete" /\ Tells(op, answer)
  PROVE  QueueInv'
<1>1. Queue!TypeOK'
  BY DEF QueueInv, Queue!TypeOK
<1>2. ASSUME NEW r \in Requests, serving'[r] # None PROVE Serves(serving[r])'
  <2>1. CASE serving'[r] = serving[r]
    <3>1. Serves(serving[r])
      BY <1>2, <2>1 DEF QueueInv
    <3> QED
      BY <2>1, <3>1 DEF Serves, InTransaction, Applied, Tells
  <2> QED
    BY <1>2, <2>1
<1>3. ASSUME NEW q \in Requests, NEW r \in Requests, serving'[q] # None, serving'[r] # None,
             serving'[q].step = "transaction", serving'[r].step = "transaction",
             serving'[q].op = serving'[r].op, q # r
      PROVE  FALSE
  BY <1>3 DEF QueueInv
<1>4. \A op \in Queue!Operations : kept'[op] # None => Keeps(op)'
  BY DEF QueueInv, Keeps, Applied, Tells
<1>5. \A e \in trail' : Told(e)'
  BY DEF QueueInv, Told
<1>6. Queue!TrailIsAChain'
  BY DEF QueueInv, Queue!TrailIsAChain
<1>7. \A op \in Queue!Operations : Posts(op)'
  BY DEF Posts, Tells
<1> QED
  BY <1>1, <1>2, <1>3, <1>4, <1>5, <1>6, <1>7 DEF QueueInv

\* What is read and answered after a commit.
LEMMA KeptAnswersKeepQueue ==
  ASSUME QueueInv, NEW r \in Requests, Queue!Keep(r)
  PROVE  QueueInv'
<1> DEFINE s == serving[r]
<1>a. PICK op : op = s.op
  OBVIOUS
<1>b. PICK answer : answer = s.answer
  OBVIOUS
<1>c. PICK s2 : s2 = [s EXCEPT !.step = "kept"]
  OBVIOUS
<1>1. /\ s # None /\ s.step = "rendered" /\ op.kind = "complete"
      /\ UNCHANGED <<day, todo, trail, posted, overlapped>>
      /\ serving' = [serving EXCEPT ![r].step = "kept"]
      /\ kept' = [kept EXCEPT ![op].answer = answer]
  BY <1>a, <1>b DEF Queue!Keep
<1>2. s \in Queue!Services /\ Serves(s) /\ op \in Queue!Operations
  BY <1>1, <1>a, QueueTyped DEF QueueInv, Queue!Services
<1>4. /\ serving \in [Requests -> Queue!Services \cup {None}]
      /\ kept \in [Queue!Operations -> Queue!Records \cup {None}]
  BY DEF QueueInv, Queue!TypeOK
<1>5. answer \in Queue!Answers /\ answer # None /\ Tells(op, answer)
  BY <1>1, <1>2, <1>a, <1>b, QueueConstants DEF Queue!Services, Serves
<1>6. kept[op] # None /\ kept[op] \in Queue!Records /\ Applied(op, s.command) /\ todo[op.task] # None
  BY <1>1, <1>2, <1>a, QueueTyped DEF QueueInv, Serves
<1>8. PICK record : record = [kept[op] EXCEPT !.answer = answer]
  OBVIOUS
<1>9. record \in Queue!Records /\ record # None /\ record.answer = answer
      /\ record.command = kept[op].command
  BY <1>5, <1>6, <1>8, QueueConstants DEF Queue!Records
<1>10. kept' = [o \in Queue!Operations |-> IF o = op THEN record ELSE kept[o]]
  BY <1>1, <1>2, <1>4, <1>8
<1>11. /\ s2 \in Queue!Services /\ s2.op = op /\ s2.command = s.command /\ s2.step = "kept"
       /\ s2.list = s.list /\ s2.answer = answer
  BY <1>2, <1>a, <1>b, <1>c DEF Queue!Services
<1>12. serving' = [q \in Requests |-> IF q = r THEN s2 ELSE serving[q]]
  BY <1>1, <1>4, <1>c
<1>13. Queue!TypeOK'
  <2>1. kept' \in [Queue!Operations -> Queue!Records \cup {None}]
    BY <1>4, <1>9, <1>10
  <2>2. serving' \in [Requests -> Queue!Services \cup {None}]
    BY <1>4, <1>11, <1>12
  <2> QED
    BY <1>1, <2>1, <2>2 DEF QueueInv, Queue!TypeOK
<1>3. Serves(serving[r])'
  <2>1. serving'[r] = s2 /\ kept'[op] # None
    BY <1>2, <1>9, <1>10, <1>12
  <2>2. Applied(op, s.command)' /\ Tells(op, answer)'
    BY <1>1, <1>5, <1>6 DEF Applied, Tells
  <2>3. op.kind = s.command.kind /\ todo'[op.task] # None /\ todo'[op.task].completed # None
    BY <1>1, <1>2, <1>6, <1>a DEF Serves, Applied
  <2>4. \A entry \in s.list : entry.task # op.task
    BY <1>1, <1>2, <1>a DEF Serves
  <2> QED
    BY <1>1, <1>5, <1>11, <2>1, <2>2, <2>3, <2>4 DEF Serves, Applied, Tells
<1>14. ASSUME NEW q \in Requests \ {r}, serving'[q] # None PROVE Serves(serving[q])'
  <2>1. serving'[q] = serving[q] /\ Serves(serving[q]) /\ serving[q] \in Queue!Services
    BY <1>12, <1>14, QueueTyped DEF QueueInv
  <2>2. serving[q].op \in Queue!Operations
    BY <2>1 DEF Queue!Services
  <2>3. serving[q].step = "transaction" => kept[serving[q].op] = None
    BY <2>1 DEF Serves, InTransaction
  <2>4. serving[q].step = "transaction" => serving[q].op # op
    BY <1>6, <2>3
  <2>5. \/ kept'[serving[q].op] = kept[serving[q].op]
        \/ serving[q].step # "transaction" /\ kept'[serving[q].op] # None
    <3>1. CASE serving[q].op = op
      BY <1>9, <1>10, <2>2, <2>4, <3>1
    <3>2. CASE serving[q].op # op
      BY <1>10, <2>2, <3>2
    <3> QED
      BY <3>1, <3>2
  <2>6. TasksGo
    BY <1>1, QueueTyped, QueueConstants DEF TasksGo, QueueInv, Queue!TaskRows, Queue!Dues
  <2>7. todo' \in [Queue!Tasks -> Queue!TaskRows \cup {None}]
    BY <1>13 DEF Queue!TypeOK
  <2> QED
    BY <1>14, <2>1, <2>5, <2>6, <2>7, ServesStays
<1>15. ASSUME NEW o \in Queue!Operations, kept'[o] # None PROVE Keeps(o)'
  <2>1. CASE o = op
    <3>1. kept'[o] = record /\ Keeps(o)
      BY <1>6, <1>10, <2>1 DEF QueueInv
    <3>2. record.command.kind = o.kind /\ Applied(o, record.command)
      BY <1>9, <2>1, <3>1 DEF Keeps
    <3> QED
      BY <1>1, <1>5, <1>9, <2>1, <3>1, <3>2 DEF Keeps, Applied, Tells
  <2>2. CASE o # op
    <3>1. kept'[o] = kept[o]
      BY <1>10, <2>2
    <3>2. Keeps(o)
      BY <1>15, <3>1 DEF QueueInv
    <3> QED
      BY <1>1, <3>1, <3>2 DEF Keeps, Applied, Tells
  <2> QED
    BY <2>1, <2>2
<1>16. \A o \in Queue!Operations : Posts(o)'
  <2>1. \A o \in Queue!Operations : kept[o] # None => kept'[o] # None
    BY <1>9, <1>10
  <2> QED
    BY <1>1, <2>1 DEF QueueInv, Posts, Tells
<1>17. \A p, q \in Requests :
         (/\ serving'[p] # None /\ serving'[q] # None
          /\ serving'[p].step = "transaction" /\ serving'[q].step = "transaction"
          /\ serving'[p].op = serving'[q].op) => p = q
  BY <1>11, <1>12 DEF QueueInv
<1>18. (\A e \in trail' : Told(e)') /\ Queue!TrailIsAChain'
  BY <1>1 DEF QueueInv, Told, Queue!TrailIsAChain
<1> QED
  BY <1>3, <1>13, <1>14, <1>15, <1>16, <1>17, <1>18 DEF QueueInv

LEMMA BeginKeepsQueue ==
  ASSUME QueueInv, NEW r \in Requests, NEW cmd \in QueueCommands, NEW t \in Acted, NEW key \in Keys,
         Queue!Begin(r, cmd, t, key) \/ Queue!BeginReplay(r, cmd, t, key)
  PROVE  QueueInv'
<1>1. PICK op : op = Queue!Operation(cmd, t, key)
  OBVIOUS
<1>2. op \in Queue!Operations /\ op.kind = cmd.kind /\ op.task = t /\ t \in Queue!Tasks
  BY <1>1, QueueConstants DEF Queue!Operation, Queue!Operations
<1>3. serving[r] = None /\ UNCHANGED <<day, todo, kept, trail, posted, overlapped>>
  BY DEF Queue!Begin, Queue!BeginReplay
<1>4. /\ serving \in [Requests -> Queue!Services \cup {None}] /\ day \in Queue!Days
      /\ posted \in [Queue!Operations -> SUBSET Queue!Answers] /\ overlapped \subseteq Queue!Operations
      /\ \A o \in Queue!Operations : \A answer \in posted[o] :
           kept[o] # None /\ o.kind = "complete" /\ Tells(o, answer)
  BY DEF QueueInv, Queue!TypeOK, Posts
<1>5. CASE Queue!Begin(r, cmd, t, key)
  <2>1. PICK s2 : s2 = [step |-> "transaction", command |-> cmd, op |-> op,
                        version |-> todo[t].version, was |-> todo[t].due, day |-> None, list |-> {}, answer |-> None]
    OBVIOUS
  <2>2. /\ serving' = [serving EXCEPT ![r] = s2] /\ ~Queue!KeyIsHeld(op) /\ kept[op] = None
        /\ todo[t] # None /\ (cmd.kind = "reschedule" => cmd.due > todo[t].due)
    BY <1>1, <1>5, <2>1 DEF Queue!Begin, Queue!Serve, Queue!Open
  <2>3. todo[t] \in Queue!TaskRows
    BY <1>2, <2>2, QueueTyped DEF QueueInv
  <2>4. todo[t].version \in Nat /\ todo[t].due \in Queue!Dues
    BY <2>3 DEF Queue!TaskRows
  <2>5. s2 \in Queue!Services
    BY <1>2, <2>1, <2>4 DEF Queue!Services
  <2>6. serving'[r] = s2 /\ \A q \in Requests \ {r} : serving'[q] = serving[q]
    BY <1>4, <2>2
  <2>7. serving' \in [Requests -> Queue!Services \cup {None}]
    BY <1>4, <2>2, <2>5
  <2>8. Serves(serving[r])'
    BY <1>2, <1>3, <2>1, <2>2, <2>4, <2>6 DEF Serves, InTransaction
  <2>9. \A q \in Requests : serving[q] # None =>
          serving[q].step # "transaction" \/ serving[q].op # op
    BY <2>2 DEF Queue!KeyIsHeld
  <2>10. s2.op = op
    BY <2>1
  <2> QED
    BY <1>3, <1>4, <2>6, <2>7, <2>8, <2>9, <2>10, RestKeepsQueue DEF QueueInv
<1>6. CASE Queue!BeginReplay(r, cmd, t, key)
  <2>1. PICK s2 : s2 = [step |-> "committed", command |-> cmd, op |-> op,
                        version |-> None, was |-> None, day |-> None, list |-> {}, answer |-> None]
    OBVIOUS
  <2>2. /\ serving' = [serving EXCEPT ![r] = s2] /\ kept[op] # None /\ kept[op].command = cmd
    BY <1>1, <1>6, <2>1 DEF Queue!BeginReplay, Queue!Serve
  <2>3. Applied(op, cmd)
    BY <1>2, <2>2 DEF QueueInv, Keeps
  <2>5. s2 \in Queue!Services
    BY <1>2, <2>1 DEF Queue!Services
  <2>6. serving'[r] = s2 /\ \A q \in Requests \ {r} : serving'[q] = serving[q]
    BY <1>4, <2>2
  <2>7. serving' \in [Requests -> Queue!Services \cup {None}]
    BY <1>4, <2>2, <2>5
  <2>8. Serves(serving[r])'
    BY <1>2, <1>3, <2>1, <2>2, <2>3, <2>6 DEF Serves, Applied
  <2>9. s2.step # "transaction"
    BY <2>1
  <2> QED
    BY <1>3, <1>4, <2>6, <2>7, <2>8, <2>9, RestKeepsQueue DEF QueueInv
<1> QED
  BY <1>5, <1>6

LEMMA QueueInductive == QueueInv /\ [Queue!Next]_(Queue!vars) => QueueInv'
<1> SUFFICES ASSUME QueueInv, [Queue!Next]_(Queue!vars) PROVE QueueInv'
  OBVIOUS
<1>a. /\ serving \in [Requests -> Queue!Services \cup {None}] /\ day \in Queue!Days
      /\ posted \in [Queue!Operations -> SUBSET Queue!Answers] /\ overlapped \subseteq Queue!Operations
      /\ trail \subseteq Queue!Reschedulings
  BY DEF QueueInv, Queue!TypeOK
<1>b. \A op \in Queue!Operations : \A answer \in posted[op] :
        kept[op] # None /\ op.kind = "complete" /\ Tells(op, answer)
  BY DEF QueueInv, Posts
<1>1. CASE \E r \in Requests, cmd \in QueueCommands, t \in Acted, key \in Keys :
             Queue!Begin(r, cmd, t, key) \/ Queue!BeginReplay(r, cmd, t, key)
  BY <1>1, BeginKeepsQueue
<1>2. CASE \E r \in Requests :
             Queue!CommitCompletion(r) \/ Queue!CommitReschedule(r) \/ Queue!Keep(r)
  BY <1>2, CompletionKeepsQueue, RescheduleKeepsQueue, KeptAnswersKeepQueue
<1>3. ASSUME NEW r \in Requests, Queue!Conflict(r) \/ Queue!Die(r) PROVE QueueInv'
  <2>1. serving' = [serving EXCEPT ![r] = None] /\ UNCHANGED <<day, todo, kept, trail, posted, overlapped>>
    BY <1>3 DEF Queue!Conflict, Queue!Die
  <2>2. serving' \in [Requests -> Queue!Services \cup {None}]
    BY <1>a, <2>1
  <2>3. \A q \in Requests : serving'[q] # serving[q] => serving'[q] = None
    BY <1>a, <2>1
  <2> QED
    BY <1>a, <1>b, <2>1, <2>2, <2>3, RestKeepsQueue
<1>4. ASSUME NEW r \in Requests, Queue!Repeat(r) \/ Queue!Respond(r) PROVE QueueInv'
  <2>1. PICK op : op = serving[r].op
    OBVIOUS
  <2>c. PICK answer : answer = IF serving[r].step = "committed" THEN kept[op].answer
                               ELSE serving[r].answer
    OBVIOUS
  <2>2. /\ serving' = [serving EXCEPT ![r] = None]
        /\ UNCHANGED <<day, todo, kept, trail, overlapped>> /\ serving[r] # None
        /\ \/ serving[r].step = "committed" /\ kept[op].answer # None
           \/ serving[r].step \in {"rendered", "kept"}
        /\ posted' = IF op.kind = "complete" THEN [posted EXCEPT ![op] = @ \cup {answer}] ELSE posted
    <3>1. CASE Queue!Repeat(r)
      BY <2>1, <2>c, <3>1 DEF Queue!Repeat, Queue!Send
    <3>2. CASE Queue!Respond(r)
      BY <2>1, <2>c, <3>2 DEF Queue!Respond, Queue!Send
    <3> QED
      BY <1>4, <3>1, <3>2
  <2>3. serving[r] \in Queue!Services /\ Serves(serving[r])
    BY <2>2, QueueTyped DEF QueueInv
  <2>4. op \in Queue!Operations /\ kept[op] # None
    BY <2>1, <2>2, <2>3 DEF Queue!Services, Serves
  <2>5. kept[op] \in Queue!Records /\ Keeps(op)
    BY <2>4, QueueTyped DEF QueueInv
  <2>6. answer \in Queue!Answers /\ (op.kind = "complete" => Tells(op, answer))
    <3>1. CASE serving[r].step = "committed"
      BY <2>2, <2>5, <2>c, <3>1 DEF Queue!Records, Keeps
    <3>2. CASE serving[r].step # "committed"
      BY <2>1, <2>2, <2>3, <2>c, <3>2 DEF Queue!Services, Serves
    <3> QED
      BY <3>1, <3>2
  <2>7. serving' \in [Requests -> Queue!Services \cup {None}]
    BY <1>a, <2>2
  <2>8. \A q \in Requests : serving'[q] # serving[q] => serving'[q] = None
    BY <1>a, <2>2
  <2>9. posted' \in [Queue!Operations -> SUBSET Queue!Answers]
    BY <1>a, <2>2, <2>6
  <2>10. \A o \in Queue!Operations : \A x \in posted'[o] :
           kept[o] # None /\ o.kind = "complete" /\ Tells(o, x)
    BY <1>a, <1>b, <2>2, <2>4, <2>6
  <2>11. day' \in Queue!Days /\ overlapped' \subseteq Queue!Operations
    BY <1>a, <2>2
  <2> QED
    BY <2>2, <2>7, <2>8, <2>9, <2>10, <2>11, RestKeepsQueue
<1>5. ASSUME NEW r \in Requests, Queue!BeginToday(r) \/ Queue!ReadList(r) PROVE QueueInv'
  <2>1. PICK s2 : s2 = IF serving[r].step = "committed"
                       THEN [serving[r] EXCEPT !.step = "listing", !.day = day]
                       ELSE [serving[r] EXCEPT !.step = "counting", !.list = Queue!ListAsOf(serving[r].day)]
    OBVIOUS
  <2>2. /\ serving[r] # None /\ serving[r].step \in {"committed", "listing"}
        /\ UNCHANGED <<day, todo, kept, trail, posted>>
        /\ overlapped' \subseteq overlapped \cup {serving[r].op}
    BY <1>5 DEF Queue!BeginToday, Queue!ReadList
  <2>3. serving[r] \in Queue!Services /\ Serves(serving[r])
    BY <2>2, QueueTyped DEF QueueInv
  <2>4. serving' = [serving EXCEPT ![r] = s2]
    <3>1. CASE Queue!BeginToday(r)
      BY <1>a, <2>1, <3>1 DEF Queue!BeginToday
    <3>2. CASE Queue!ReadList(r)
      BY <1>a, <2>1, <3>2 DEF Queue!ReadList
    <3> QED
      BY <1>5, <3>1, <3>2
  <2>5. serving[r].op.task \in Queue!Tasks /\ kept[serving[r].op] # None
        /\ Applied(serving[r].op, serving[r].command)
    BY <2>2, <2>3, QueueConstants DEF Serves, Queue!Services, Queue!Operations
  <2>6. \A entry \in Queue!ListAsOf(serving[r].day) :
          /\ entry \in Queue!Entries /\ todo[entry.task].completed = None
          /\ entry.due = todo[entry.task].due
    <3> SUFFICES ASSUME NEW t \in Queue!Tasks, Queue!Open(t)
                 PROVE  LET entry == [task |-> t, due |-> todo[t].due,
                                      group |-> Queue!Group(t, serving[r].day)]
                        IN  /\ entry \in Queue!Entries /\ todo[entry.task].completed = None
                            /\ entry.due = todo[entry.task].due
      BY DEF Queue!ListAsOf
    <3>1. todo[t] \in Queue!TaskRows /\ todo[t].completed = None
      BY QueueTyped DEF Queue!Open, QueueInv
    <3>2. Queue!Group(t, serving[r].day) \in {"waiting", "critical", "today", "later"}
      BY DEF Queue!Group
    <3> QED
      BY <3>1, <3>2 DEF Queue!TaskRows, Queue!Entries
  <2>7. /\ s2 \in Queue!Services /\ s2.op = serving[r].op /\ s2.command = serving[r].command
        /\ s2.step \in {"listing", "counting"} /\ s2.day # None
        /\ s2.list = serving[r].list \/ s2.list = Queue!ListAsOf(serving[r].day)
        /\ s2.answer = serving[r].answer
    <3>1. CASE serving[r].step = "committed"
      <4>1. s2 = [serving[r] EXCEPT !.step = "listing", !.day = day]
        BY <2>1, <3>1
      <4>2. day # None
        BY <1>a, QueueConstants DEF Queue!Days
      <4> QED
        BY <1>a, <2>3, <4>1, <4>2 DEF Queue!Services
    <3>2. CASE serving[r].step = "listing"
      <4>1. s2 = [serving[r] EXCEPT !.step = "counting", !.list = Queue!ListAsOf(serving[r].day)]
        BY <2>1, <3>2
      <4>2. Queue!ListAsOf(serving[r].day) \in SUBSET Queue!Entries
        BY <2>6
      <4>3. serving[r].day # None
        BY <2>3, <3>2 DEF Serves
      <4> QED
        BY <2>3, <4>1, <4>2, <4>3 DEF Queue!Services
    <3> QED
      BY <2>2, <3>1, <3>2
  <2>8. \A entry \in s2.list : entry.task = s2.op.task =>
          s2.op.kind = "reschedule" /\ entry.due >= s2.command.due
    <3>1. serving[r].op.kind \in {"complete", "reschedule"}
      BY <2>3 DEF Queue!Services, Queue!Operations
    <3> QED
      BY <2>3, <2>5, <2>6, <2>7, <3>1 DEF Serves, Applied
  <2>9. serving'[r] = s2 /\ \A q \in Requests \ {r} : serving'[q] = serving[q]
    BY <1>a, <2>4
  <2>10. serving' \in [Requests -> Queue!Services \cup {None}]
    BY <1>a, <2>4, <2>7
  <2>11. Serves(serving[r])'
    BY <2>2, <2>3, <2>5, <2>7, <2>8, <2>9 DEF Serves, Applied, Tells
  <2>12. \A q \in Requests : serving'[q] # serving[q] =>
           q = r /\ Serves(serving[q])' /\ serving'[q].step # "transaction"
    BY <2>7, <2>9, <2>11
  <2>13. day' \in Queue!Days /\ posted' = posted /\ overlapped' \subseteq Queue!Operations
    BY <1>a, <2>2, <2>3 DEF Queue!Services
  <2> QED
    BY <1>a, <1>b, <2>2, <2>10, <2>12, <2>13, RestKeepsQueue
<1>7. ASSUME NEW r \in Requests, Queue!ReadCounts(r) PROVE QueueInv'
  <2>1. PICK answer : answer = [day |-> serving[r].day, list |-> serving[r].list,
                                counts |-> Queue!CountsOf(serving[r].day)]
    OBVIOUS
  <2>c. PICK s2 : s2 = [serving[r] EXCEPT !.step = "rendered", !.answer = answer]
    OBVIOUS
  <2>2. /\ serving[r] # None /\ serving[r].step = "counting"
        /\ UNCHANGED <<day, todo, kept, trail, posted, overlapped>>
        /\ serving' = [serving EXCEPT ![r] = s2]
    <3>1. serving' = [serving EXCEPT ![r].step = "rendered", ![r].answer = answer]
      BY <1>7, <2>1 DEF Queue!ReadCounts
    <3>2. serving' = [[serving EXCEPT ![r].step = "rendered"] EXCEPT ![r].answer = answer]
      BY <3>1
    <3> QED
      BY <1>7, <1>a, <2>c, <3>2 DEF Queue!ReadCounts
  <2>3. serving[r] \in Queue!Services /\ Serves(serving[r])
    BY <2>2, QueueTyped DEF QueueInv
  <2>4. /\ serving[r].op \in Queue!Operations /\ serving[r].op.task \in Queue!Tasks
        /\ kept[serving[r].op] # None /\ Applied(serving[r].op, serving[r].command)
        /\ serving[r].day \in Queue!Days
    BY <2>2, <2>3, QueueConstants DEF Serves, Queue!Services, Queue!Operations
  <2>5. answer \in Queue!Answers /\ answer # None
    <3>1. Queue!CompletedOn(serving[r].day) \subseteq Queue!Tasks
      BY DEF Queue!CompletedOn
    <3>2. Queue!RescheduledOn(serving[r].day) \subseteq Queue!Reschedulings
      BY <1>a DEF Queue!RescheduledOn
    <3>3. serving[r].list \subseteq Queue!Entries
      BY <2>3 DEF Queue!Services
    <3> QED
      BY <2>1, <2>4, <3>1, <3>2, <3>3, QueueConstants DEF Queue!Answers, Queue!CountsOf
  <2>6. serving[r].op.kind = "complete" => Tells(serving[r].op, answer)
    <3>1. serving[r].op.kind = "complete" => \A entry \in answer.list : entry.task # serving[r].op.task
      BY <2>1, <2>3 DEF Serves
    <3>2. answer.day = todo[serving[r].op.task].completed
            => serving[r].op.task \in answer.counts.completed
      BY <2>1, <2>4 DEF Queue!CountsOf, Queue!CompletedOn, Applied
    <3> QED
      BY <3>1, <3>2 DEF Tells
  <2>7. /\ s2 \in Queue!Services /\ s2.op = serving[r].op /\ s2.command = serving[r].command
        /\ s2.step = "rendered" /\ s2.list = serving[r].list /\ s2.answer = answer
    BY <2>3, <2>5, <2>c DEF Queue!Services
  <2>9. serving'[r] = s2 /\ \A q \in Requests \ {r} : serving'[q] = serving[q]
    BY <1>a, <2>2
  <2>10. serving' \in [Requests -> Queue!Services \cup {None}]
    BY <1>a, <2>2, <2>7
  <2>11. Serves(serving[r])'
    BY <2>2, <2>3, <2>4, <2>5, <2>6, <2>7, <2>9 DEF Serves, Applied, Tells
  <2>12. \A q \in Requests : serving'[q] # serving[q] =>
           q = r /\ Serves(serving[q])' /\ serving'[q].step # "transaction"
    BY <2>7, <2>9, <2>11
  <2>13. day' \in Queue!Days /\ posted' = posted /\ overlapped' \subseteq Queue!Operations
    BY <1>a, <2>2
  <2> QED
    BY <1>a, <1>b, <2>2, <2>10, <2>12, <2>13, RestKeepsQueue
<1>6. CASE Queue!Midnight \/ UNCHANGED Queue!vars
  <2>1. UNCHANGED <<todo, kept, trail, serving, posted, overlapped>>
    BY <1>6 DEF Queue!Midnight, Queue!vars
  <2>2. day' \in Queue!Days
    BY <1>6, <1>a, QueueConstants DEF Queue!Midnight, Queue!vars, Queue!Days
  <2> QED
    BY <1>a, <1>b, <2>1, <2>2, RestKeepsQueue
<1> QED
  BY <1>1, <1>2, <1>3, <1>4, <1>5, <1>6, <1>7 DEF Queue!Next

\* Who renders an answer to a completion, whose record has none when it begins.
Renders(s) ==
  s # None /\ s.step \in {"listing", "counting", "rendered"} /\ s.op.kind = "complete"

Finds(s) ==
  /\ Renders(s) /\ s.op \notin overlapped => kept[s.op].answer = None /\ posted[s.op] = {}
  /\ s # None /\ s.step = "kept" =>
       /\ kept[s.op].answer # None
       /\ s.op \notin overlapped => s.answer = kept[s.op].answer

\* What was sent of an operation is what is kept of it, unless two rendered it at once.
Repeats(op) ==
  /\ kept[op] = None \/ kept[op].answer = None => posted[op] = {}
  /\ op \notin overlapped => \A answer \in posted[op] : kept[op].answer = answer

ReplayInv ==
  /\ QueueInv
  /\ \A q, r \in Requests :
       Renders(serving[q]) /\ Renders(serving[r]) /\ serving[q].op = serving[r].op /\ q # r =>
         serving[q].op \in overlapped
  /\ \A r \in Requests : Finds(serving[r])
  /\ \A op \in Queue!Operations : Repeats(op)

LEMMA ReplayInitially == Queue!Init => ReplayInv
BY QueueInitially DEF ReplayInv, Queue!Init, Renders, Finds, Repeats

\* Steps that leave records, what was sent and who overlapped alone.
LEMMA RestKeepsReplays ==
  ASSUME ReplayInv, QueueInv', UNCHANGED <<kept, posted, overlapped>>,
         \A r \in Requests : serving'[r] # serving[r] =>
           \/ serving'[r] = None \/ serving'[r].step \in {"transaction", "committed"}
           \/ /\ serving[r] # None /\ serving[r].step \in {"listing", "counting"}
              /\ serving'[r].step \in {"counting", "rendered"} /\ serving'[r].op = serving[r].op
  PROVE  ReplayInv'
<1>1. \A r \in Requests : Renders(serving'[r]) =>
        Renders(serving[r]) /\ serving'[r].op = serving[r].op
  BY DEF Renders
<1>2. \A r \in Requests : serving'[r] # None /\ serving'[r].step = "kept" => serving'[r] = serving[r]
  OBVIOUS
<1>3. \A q, r \in Requests :
        Renders(serving'[q]) /\ Renders(serving'[r]) /\ serving'[q].op = serving'[r].op /\ q # r =>
          serving'[q].op \in overlapped'
  BY <1>1 DEF ReplayInv
<1>4. \A r \in Requests : Finds(serving[r])'
  BY <1>1, <1>2 DEF ReplayInv, Finds, Renders
<1>5. \A op \in Queue!Operations : Repeats(op)'
  BY DEF ReplayInv, Repeats
<1> QED
  BY <1>3, <1>4, <1>5 DEF ReplayInv, Renders

LEMMA QueueServes ==
  ASSUME QueueInv, NEW r \in Requests, serving[r] # None
  PROVE  /\ serving[r].op \in Queue!Operations /\ serving[r].op.kind \in {"complete", "reschedule"}
         /\ serving[r].step = "transaction" => kept[serving[r].op] = None
         /\ serving[r].step # "transaction" => kept[serving[r].op] # None
<1>1. serving[r] \in Queue!Services /\ Serves(serving[r])
  BY QueueTyped DEF QueueInv
<1> QED
  BY <1>1 DEF Queue!Services, Queue!Operations, Serves, InTransaction

\* A record that is new has no answer.
LEMMA CommitKeepsReplays ==
  ASSUME ReplayInv, QueueInv', NEW r \in Requests, serving[r] # None, serving[r].step = "transaction",
         Queue!Committed(r), UNCHANGED <<posted, overlapped>>
  PROVE  ReplayInv'
<1> DEFINE op == serving[r].op
<1>1. PICK record : record = [command |-> serving[r].command, answer |-> None]
  OBVIOUS
<1>2. /\ kept' = [kept EXCEPT ![op] = record] /\ record.answer = None
      /\ op \in Queue!Operations /\ kept[op] = None
  BY <1>1, QueueServes DEF ReplayInv, Queue!Committed
<1>3. PICK s2 : s2 = [serving[r] EXCEPT !.step = "committed", !.version = None, !.was = None]
  OBVIOUS
<1>4. serving[r] \in Queue!Services
  BY QueueTyped DEF ReplayInv, QueueInv
<1>5. serving' = [serving EXCEPT ![r] = s2] /\ s2.step = "committed"
  BY <1>3, <1>4 DEF Queue!Committed, ReplayInv, QueueInv, Queue!TypeOK, Queue!Services
<1>6. /\ serving \in [Requests -> Queue!Services \cup {None}]
      /\ kept \in [Queue!Operations -> Queue!Records \cup {None}]
  BY DEF ReplayInv, QueueInv, Queue!TypeOK
<1>7. serving'[r] = s2 /\ \A q \in Requests \ {r} : serving'[q] = serving[q]
  BY <1>5, <1>6
<1>8. kept'[op] = record /\ \A o \in Queue!Operations \ {op} : kept'[o] = kept[o]
  BY <1>2, <1>6
<1> HIDE DEF op
<1>9. \A q \in Requests : serving[q] # None /\ serving[q].step # "transaction" =>
        serving[q].op \in Queue!Operations \ {op}
  BY <1>2, QueueServes DEF ReplayInv
<1>10. \A q, p \in Requests :
         Renders(serving'[q]) /\ Renders(serving'[p]) /\ serving'[q].op = serving'[p].op /\ q # p =>
           serving'[q].op \in overlapped'
  BY <1>5, <1>7 DEF ReplayInv, Renders
<1>11. ASSUME NEW q \in Requests PROVE Finds(serving[q])'
  <2>1. CASE q = r
    BY <1>5, <1>7, <2>1 DEF Finds, Renders
  <2>2. CASE q # r
    <3>1. serving'[q] = serving[q] /\ Finds(serving[q])
      BY <1>7, <2>2 DEF ReplayInv
    <3>2. CASE serving[q] = None \/ serving[q].step = "transaction"
      BY <3>1, <3>2 DEF Finds, Renders
    <3>3. CASE serving[q] # None /\ serving[q].step # "transaction"
      <4>1. kept'[serving[q].op] = kept[serving[q].op]
        BY <1>8, <1>9, <3>3
      <4> QED
        BY <3>1, <4>1 DEF Finds, Renders
    <3> QED
      BY <3>2, <3>3
  <2> QED
    BY <2>1, <2>2
<1>12. ASSUME NEW o \in Queue!Operations PROVE Repeats(o)'
  <2>1. CASE o = op
    BY <1>2, <1>8, <2>1 DEF ReplayInv, Repeats
  <2>2. CASE o # op
    BY <1>8, <2>2 DEF ReplayInv, Repeats
  <2> QED
    BY <2>1, <2>2
<1> QED
  BY <1>10, <1>11, <1>12 DEF ReplayInv, Renders

\* Who begins to render while another does overlaps with it.
LEMMA BeginTodayKeepsReplays ==
  ASSUME ReplayInv, QueueInv', NEW r \in Requests, Queue!BeginToday(r)
  PROVE  ReplayInv'
<1> DEFINE op == serving[r].op
<1>1. PICK s2 : s2 = [serving[r] EXCEPT !.step = "listing", !.day = day]
  OBVIOUS
<1>2. /\ serving[r] # None /\ serving[r].step = "committed" /\ kept[op].answer = None
      /\ UNCHANGED <<kept, posted>>
      /\ overlapped' = IF op.kind = "complete" /\ Queue!Rendering(op) THEN overlapped \cup {op}
                       ELSE overlapped
  BY DEF Queue!BeginToday
<1>3. op \in Queue!Operations /\ serving[r] \in Queue!Services
  BY <1>2, QueueServes, QueueTyped DEF ReplayInv, QueueInv
<1>4. serving \in [Requests -> Queue!Services \cup {None}]
  BY DEF ReplayInv, QueueInv, Queue!TypeOK
<1>5. serving' = [serving EXCEPT ![r] = s2] /\ s2.step = "listing" /\ s2.op = op
  BY <1>1, <1>3, <1>4 DEF Queue!BeginToday, Queue!Services
<1>6. serving'[r] = s2 /\ \A q \in Requests \ {r} : serving'[q] = serving[q]
  BY <1>4, <1>5
<1> HIDE DEF op
<1>7. \A q \in Requests \ {r} : Renders(serving[q]) /\ serving[q].op = op => op \in overlapped'
  BY <1>2 DEF Renders, Queue!Rendering
<1>8. ASSUME NEW p \in Requests, NEW q \in Requests, Renders(serving'[p]), Renders(serving'[q]),
             serving'[p].op = serving'[q].op, p # q
      PROVE  serving'[p].op \in overlapped'
  <2>1. CASE p = r
    BY <1>5, <1>6, <1>7, <1>8, <2>1
  <2>2. CASE q = r
    BY <1>5, <1>6, <1>7, <1>8, <2>2
  <2>3. CASE p # r /\ q # r
    BY <1>2, <1>6, <1>8, <2>3 DEF ReplayInv
  <2> QED
    BY <2>1, <2>2, <2>3
<1>9. ASSUME NEW q \in Requests PROVE Finds(serving[q])'
  <2>1. CASE q = r
    <3>1. posted[op] = {}
      BY <1>2, <1>3 DEF ReplayInv, Repeats
    <3> QED
      BY <1>2, <1>5, <1>6, <2>1, <3>1 DEF Finds, Renders
  <2>2. CASE q # r
    BY <1>2, <1>6, <2>2 DEF ReplayInv, Finds, Renders
  <2> QED
    BY <2>1, <2>2
<1>10. \A o \in Queue!Operations : Repeats(o)'
  BY <1>2 DEF ReplayInv, Repeats
<1> QED
  BY <1>8, <1>9, <1>10 DEF ReplayInv, Renders

\* Who renders alone finds nothing kept, and nobody who is about to send anything else.
LEMMA KeepKeepsReplays ==
  ASSUME ReplayInv, QueueInv', NEW r \in Requests, Queue!Keep(r)
  PROVE  ReplayInv'
<1> DEFINE op == serving[r].op
<1>1. PICK s2, record : s2 = [serving[r] EXCEPT !.step = "kept"]
                        /\ record = [kept[op] EXCEPT !.answer = serving[r].answer]
  OBVIOUS
<1>2. /\ serving[r] # None /\ serving[r].step = "rendered" /\ op.kind = "complete"
      /\ UNCHANGED <<posted, overlapped>>
  BY DEF Queue!Keep
<1>3. /\ op \in Queue!Operations /\ serving[r] \in Queue!Services /\ Serves(serving[r])
      /\ kept[op] # None /\ kept[op] \in Queue!Records
  BY <1>2, QueueServes, QueueTyped DEF ReplayInv, QueueInv
<1>4. /\ serving \in [Requests -> Queue!Services \cup {None}]
      /\ kept \in [Queue!Operations -> Queue!Records \cup {None}]
  BY DEF ReplayInv, QueueInv, Queue!TypeOK
<1>5. /\ serving' = [serving EXCEPT ![r] = s2] /\ s2.step = "kept" /\ s2.op = op
      /\ s2.answer = serving[r].answer
      /\ kept' = [kept EXCEPT ![op] = record] /\ record.answer = serving[r].answer
      /\ serving[r].answer # None
  BY <1>1, <1>2, <1>3, <1>4 DEF Queue!Keep, Queue!Services, Queue!Records, Serves
<1>a. record # None
  <2>1. record \in Queue!Records
    BY <1>1, <1>3 DEF Queue!Records, Queue!Services
  <2> QED
    BY <2>1, QueueConstants
<1>6. serving'[r] = s2 /\ \A q \in Requests \ {r} : serving'[q] = serving[q]
  BY <1>4, <1>5
<1>7. kept'[op] = record /\ \A o \in Queue!Operations \ {op} : kept'[o] = kept[o]
  BY <1>3, <1>4, <1>5
<1>8. op \notin overlapped => kept[op].answer = None /\ posted[op] = {}
  BY <1>2 DEF ReplayInv, Finds, Renders
<1> HIDE DEF op
<1>9. \A p, q \in Requests :
        Renders(serving'[p]) /\ Renders(serving'[q]) /\ serving'[p].op = serving'[q].op /\ p # q =>
          serving'[p].op \in overlapped'
  BY <1>2, <1>5, <1>6 DEF ReplayInv, Renders
<1>10. ASSUME NEW q \in Requests PROVE Finds(serving[q])'
  <2>1. CASE q = r
    BY <1>5, <1>6, <1>7, <2>1 DEF Finds, Renders
  <2>2. CASE q # r /\ serving[q] # None /\ serving[q].op = op
    <3>1. Renders(serving[q]) => op \in overlapped
      BY <1>2, <2>2 DEF ReplayInv, Renders, op
    <3>2. serving[q].step = "kept" => op \in overlapped
      BY <1>8, <2>2 DEF ReplayInv, Finds
    <3> QED
      BY <1>2, <1>5, <1>6, <1>7, <2>2, <3>1, <3>2 DEF Finds, Renders
  <2>3. CASE q # r /\ (serving[q] = None \/ serving[q].op # op)
    <3>1. serving[q] # None => kept'[serving[q].op] = kept[serving[q].op]
      BY <1>7, <2>3, QueueServes DEF ReplayInv
    <3> QED
      BY <1>2, <1>6, <2>3, <3>1 DEF ReplayInv, Finds, Renders
  <2> QED
    BY <2>1, <2>2, <2>3
<1>11. ASSUME NEW o \in Queue!Operations PROVE Repeats(o)'
  <2>1. CASE o = op
    BY <1>2, <1>5, <1>7, <1>8, <1>a, <2>1 DEF Repeats
  <2>2. CASE o # op
    BY <1>2, <1>7, <2>2 DEF ReplayInv, Repeats
  <2> QED
    BY <2>1, <2>2
<1> QED
  BY <1>9, <1>10, <1>11 DEF ReplayInv, Renders

\* What is sent is what is kept.
LEMMA SendKeepsReplays ==
  ASSUME ReplayInv, QueueInv', NEW r \in Requests, Queue!Repeat(r) \/ Queue!Respond(r)
  PROVE  ReplayInv'
<1> DEFINE op == serving[r].op
<1>1. PICK answer : answer = IF serving[r].step = "committed" THEN kept[op].answer
                             ELSE serving[r].answer
  OBVIOUS
<1>2. /\ serving' = [serving EXCEPT ![r] = None] /\ UNCHANGED <<kept, overlapped>>
      /\ serving[r] # None
      /\ \/ serving[r].step = "committed" /\ kept[op].answer # None
         \/ serving[r].step = (IF op.kind = "complete" THEN "kept" ELSE "rendered")
      /\ posted' = IF op.kind = "complete" THEN [posted EXCEPT ![op] = @ \cup {answer}] ELSE posted
  <2>1. CASE Queue!Repeat(r)
    BY <1>1, <2>1 DEF Queue!Repeat, Queue!Send
  <2>2. CASE Queue!Respond(r)
    BY <1>1, <2>2 DEF Queue!Respond, Queue!Send
  <2> QED
    BY <2>1, <2>2
<1>3. op \in Queue!Operations /\ kept[op] # None
  <2>1. serving[r].step # "transaction"
    BY <1>2
  <2> QED
    BY <1>2, <2>1, QueueServes DEF ReplayInv
<1>4. /\ serving \in [Requests -> Queue!Services \cup {None}]
      /\ posted \in [Queue!Operations -> SUBSET Queue!Answers]
  BY DEF ReplayInv, QueueInv, Queue!TypeOK
<1>5. op.kind = "complete" =>
        kept[op].answer # None /\ (op \notin overlapped => answer = kept[op].answer)
  BY <1>1, <1>2 DEF ReplayInv, Finds
<1>6. serving'[r] = None /\ \A q \in Requests \ {r} : serving'[q] = serving[q]
  BY <1>2, <1>4
<1> HIDE DEF op
<1>7. /\ \A o \in Queue!Operations : o # op \/ op.kind # "complete" => posted'[o] = posted[o]
      /\ op.kind = "complete" => posted'[op] = posted[op] \cup {answer}
  BY <1>2, <1>3, <1>4
<1>8. \A p, q \in Requests :
        Renders(serving'[p]) /\ Renders(serving'[q]) /\ serving'[p].op = serving'[q].op /\ p # q =>
          serving'[p].op \in overlapped'
  BY <1>2, <1>6 DEF ReplayInv, Renders
<1>9. ASSUME NEW q \in Requests PROVE Finds(serving[q])'
  <2>1. CASE q = r
    BY <1>6, <2>1 DEF Finds, Renders
  <2>2. CASE q # r /\ Renders(serving[q]) /\ serving[q].op \notin overlapped
    <3>1. kept[serving[q].op].answer = None /\ posted[serving[q].op] = {}
      BY <2>2 DEF ReplayInv, Finds
    <3>2. serving[q].op # op \/ op.kind # "complete"
      BY <1>5, <3>1
    <3>3. serving[q].op \in Queue!Operations
      BY <2>2, QueueServes DEF ReplayInv, Renders
    <3> QED
      BY <1>2, <1>6, <1>7, <2>2, <3>1, <3>2, <3>3 DEF Finds, Renders
  <2>3. CASE q # r /\ ~ (Renders(serving[q]) /\ serving[q].op \notin overlapped)
    BY <1>2, <1>6, <2>3 DEF ReplayInv, Finds, Renders
  <2> QED
    BY <2>1, <2>2, <2>3
<1>10. ASSUME NEW o \in Queue!Operations PROVE Repeats(o)'
  <2>1. Repeats(o)
    BY DEF ReplayInv
  <2>2. CASE o = op /\ op.kind = "complete"
    BY <1>2, <1>3, <1>5, <1>7, <2>1, <2>2 DEF Repeats
  <2>3. CASE o # op \/ op.kind # "complete"
    BY <1>2, <1>7, <2>1, <2>3 DEF Repeats
  <2> QED
    BY <2>2, <2>3
<1> QED
  BY <1>8, <1>9, <1>10 DEF ReplayInv, Renders

LEMMA ReplayInductive == ReplayInv /\ [Queue!Next]_(Queue!vars) => ReplayInv'
<1> SUFFICES ASSUME ReplayInv, [Queue!Next]_(Queue!vars) PROVE ReplayInv'
  OBVIOUS
<1>1. QueueInv'
  BY QueueInductive DEF ReplayInv
<1>a. serving \in [Requests -> Queue!Services \cup {None}]
  BY DEF ReplayInv, QueueInv, Queue!TypeOK
<1>2. ASSUME NEW r \in Requests, NEW cmd \in QueueCommands, NEW t \in Acted, NEW key \in Keys,
             Queue!Begin(r, cmd, t, key) \/ Queue!BeginReplay(r, cmd, t, key)
      PROVE  ReplayInv'
  <2>1. UNCHANGED <<kept, posted, overlapped>>
    BY <1>2 DEF Queue!Begin, Queue!BeginReplay
  <2>2. \A q \in Requests : serving'[q] # serving[q] => serving'[q].step \in {"transaction", "committed"}
    BY <1>2, <1>a DEF Queue!Begin, Queue!BeginReplay, Queue!Serve
  <2> QED
    BY <1>1, <2>1, <2>2, RestKeepsReplays
<1>3. ASSUME NEW r \in Requests, Queue!CommitCompletion(r) \/ Queue!CommitReschedule(r)
      PROVE  ReplayInv'
  <2>1. /\ serving[r] # None /\ serving[r].step = "transaction" /\ Queue!Committed(r)
        /\ UNCHANGED <<posted, overlapped>>
    BY <1>3 DEF Queue!CommitCompletion, Queue!CommitReschedule
  <2> QED
    BY <1>1, <2>1, CommitKeepsReplays
<1>4. ASSUME NEW r \in Requests, Queue!Conflict(r) \/ Queue!Die(r) PROVE ReplayInv'
  <2>1. serving' = [serving EXCEPT ![r] = None] /\ UNCHANGED <<kept, posted, overlapped>>
    BY <1>4 DEF Queue!Conflict, Queue!Die
  <2>2. \A q \in Requests : serving'[q] # serving[q] => serving'[q] = None
    BY <1>a, <2>1
  <2> QED
    BY <1>1, <2>1, <2>2, RestKeepsReplays
<1>5. ASSUME NEW r \in Requests, Queue!ReadList(r) \/ Queue!ReadCounts(r) PROVE ReplayInv'
  <2>1. /\ serving[r] # None /\ serving[r].step \in {"listing", "counting"}
        /\ UNCHANGED <<kept, posted, overlapped>>
    BY <1>5 DEF Queue!ReadList, Queue!ReadCounts
  <2>2. serving[r] \in Queue!Services
    BY <1>a, <2>1
  <2>3. /\ \A q \in Requests \ {r} : serving'[q] = serving[q]
        /\ serving'[r].step \in {"counting", "rendered"} /\ serving'[r].op = serving[r].op
    <3>1. CASE Queue!ReadList(r)
      BY <1>a, <2>2, <3>1 DEF Queue!ReadList, Queue!Services
    <3>2. CASE Queue!ReadCounts(r)
      BY <1>a, <2>2, <3>2 DEF Queue!ReadCounts, Queue!Services
    <3> QED
      BY <1>5, <3>1, <3>2
  <2> QED
    BY <1>1, <2>1, <2>3, RestKeepsReplays
<1>6. ASSUME NEW r \in Requests,
             Queue!BeginToday(r) \/ Queue!Keep(r) \/ Queue!Repeat(r) \/ Queue!Respond(r)
      PROVE  ReplayInv'
  BY <1>1, <1>6, BeginTodayKeepsReplays, KeepKeepsReplays, SendKeepsReplays
<1>7. CASE Queue!Midnight \/ UNCHANGED Queue!vars
  BY <1>1, <1>7, RestKeepsReplays DEF Queue!Midnight, Queue!vars
<1> QED
  BY <1>2, <1>3, <1>4, <1>5, <1>6, <1>7 DEF Queue!Next

\* Whatever it overlaps with, every answer to a command tells its outcome; a completion that was
\* answered is answered so again, unless two requests of its key rendered answers at once; and
\* the audit of reschedulings is a chain (TodayQueue).
THEOREM QueueAnswersAreTrue ==
  Queue!Spec => [](Queue!AnswersTellOutcome /\ Queue!ReplayRepeats /\ Queue!TrailIsAChain)
<1>1. ReplayInv => Queue!AnswersTellOutcome /\ Queue!ReplayRepeats /\ Queue!TrailIsAChain
  <2> SUFFICES ASSUME ReplayInv PROVE Queue!AnswersTellOutcome /\ Queue!ReplayRepeats
    BY DEF ReplayInv, QueueInv
  <2>1. Queue!ReplayRepeats
    BY DEF ReplayInv, Repeats, Queue!ReplayRepeats
  <2>2. \A r \in Requests : serving[r] # None =>
          \A entry \in serving[r].list : entry.task = serving[r].op.task =>
            serving[r].op.kind = "reschedule" /\ entry.due >= serving[r].command.due
    BY DEF ReplayInv, QueueInv, Serves
  <2>3. \A op \in Queue!Operations : \A answer \in posted[op] : Tells(op, answer)
    BY DEF ReplayInv, QueueInv, Posts
  <2> QED
    BY <2>1, <2>2, <2>3 DEF Queue!AnswersTellOutcome, Tells
<1> QED
  BY <1>1, ReplayInitially, ReplayInductive, PTL DEF Queue!Spec

-------------------------------------------------------------------------------
(* WeeklyPayload: what is first of what is first.                             *)

PayloadInv ==
  /\ Payload!TypeOK
  /\ \A h \in history : h.day <= today
  /\ \A o \in Reported : escalated[o] # None =>
       marker[o] \in Payload!Day /\ marker[o] < escalated[o] /\ escalated[o] <= today

LEMMA PayloadConstants ==
  /\ Reported \subseteq Nat /\ IsFiniteSet(Reported)
  /\ WeekDays \in Nat \ {0} /\ Top \in Nat \ {0} /\ Weeks \in Nat
  /\ Stall \in Nat /\ HighStall \in Nat /\ HighOverdue \in Nat /\ MaxDay \in Nat
  /\ DigestSize \in Nat /\ DigestSize >= 3 /\ None \notin Nat
<1>1. Payload!PayloadAssumption
  BY PartsAssumption DEF PartsAssumption
<1> QED
  BY <1>1 DEF Payload!PayloadAssumption, Payload!IsFiniteSet, IsFiniteSet

LEMMA PayloadInitially == Payload!Init => PayloadInv
BY PayloadConstants DEF PayloadInv, Payload!Init, Payload!TypeOK, Payload!Day, Payload!Known

LEMMA PayloadInductive == PayloadInv /\ [Payload!Next]_(Payload!vars) => PayloadInv'
<1> SUFFICES ASSUME PayloadInv, [Payload!Next]_(Payload!vars) PROVE PayloadInv'
  OBVIOUS
<1> USE PayloadConstants DEF PayloadInv, Payload!TypeOK, Payload!Day, Payload!Known
<1>1. ASSUME NEW o \in Reported, NEW n \in Payload!Day \cup {None}, NEW lost \in BOOLEAN,
             Payload!Discover(o, n, lost)
      PROVE  PayloadInv'
  <2>1. n \in Payload!Day \cup {None, MaxDay + 1}
    OBVIOUS
  <2>2. /\ born' = [born EXCEPT ![o] = today] /\ due' = [due EXCEPT ![o] = n]
        /\ ended' \subseteq ended \cup {o} /\ UNCHANGED <<today, history, marker, escalated>>
    BY <1>1 DEF Payload!Discover
  <2>3. ended' \subseteq Payload!Known'
    <3>1. \A p \in Payload!Known \cup {o} : born'[p] # None
      BY <2>2
    <3> QED
      BY <2>2, <3>1
  <2>4. Payload!TypeOK'
    BY <2>1, <2>2, <2>3
  <2> QED
    BY <2>2, <2>4
<1>2. ASSUME NEW o \in Reported, Payload!Close(o) PROVE PayloadInv'
  BY <1>2 DEF Payload!Close, Payload!Working
<1>7. ASSUME NEW o \in Reported, Payload!FollowUp(o) PROVE PayloadInv'
  BY <1>7 DEF Payload!FollowUp
<1>3. ASSUME NEW o \in Reported, NEW s \in Stages, Payload!Move(o, s) PROVE PayloadInv'
  BY <1>3 DEF Payload!Move, Payload!Working
<1>8. ASSUME NEW o \in Reported, Payload!Resolve(o) PROVE PayloadInv'
  BY <1>8 DEF Payload!Resolve
<1>4. ASSUME NEW o \in Reported, NEW activity \in Payload!Day, Payload!Escalate(o, activity)
      PROVE  PayloadInv'
  <2>1. /\ marker' = [marker EXCEPT ![o] = activity] /\ escalated' = [escalated EXCEPT ![o] = today]
        /\ activity < today /\ UNCHANGED <<today, born, ended, due, history>>
    BY <1>4 DEF Payload!Escalate
  <2>2. Payload!TypeOK'
    BY <2>1
  <2>3. \A p \in Reported : escalated'[p] # None =>
          marker'[p] \in Payload!Day /\ marker'[p] < escalated'[p] /\ escalated'[p] <= today'
    <3> SUFFICES ASSUME NEW p \in Reported, escalated'[p] # None
                 PROVE  marker'[p] \in Payload!Day /\ marker'[p] < escalated'[p]
                        /\ escalated'[p] <= today'
      OBVIOUS
    <3>1. CASE p = o
      BY <2>1, <3>1
    <3>2. CASE p # o
      BY <2>1, <3>2
    <3> QED
      BY <3>1, <3>2
  <2> QED
    BY <2>1, <2>2, <2>3
<1>5. CASE Payload!Tomorrow
  BY <1>5 DEF Payload!Tomorrow
<1>6. CASE UNCHANGED Payload!vars
  BY <1>6 DEF Payload!vars
<1> QED
  BY <1>1, <1>2, <1>3, <1>4, <1>5, <1>6, <1>7, <1>8 DEF Payload!Next

-------------------------------------------------------------------------------
(* The order of exceptions *)

Exception ==
  [code : {"sla-escalation", "stage-stall", "overdue-task", "missing-next-action"},
   opportunity : Nat, age : Int, severity : {"high", "medium"}]

LEMMA PayloadCardinality == \A S : Payload!Cardinality(S) = Cardinality(S)
BY DEF Payload!Cardinality, Cardinality

LEMMA BeforeIsAnOrder ==
  /\ \A e \in Exception : ~Payload!Before(e, e)
  /\ \A e, f, g \in Exception : Payload!Before(e, f) /\ Payload!Before(f, g) => Payload!Before(e, g)
<1>1. \A e \in Exception : /\ Payload!SeverityIndex(e) \in Nat /\ Payload!CodeIndex(e) \in Nat
                           /\ e.age \in Int /\ e.opportunity \in Nat
  BY DEF Exception, Payload!SeverityIndex, Payload!CodeIndex
<1>2. \A e \in Exception : ~Payload!Before(e, e)
  BY <1>1 DEF Payload!Before
<1>3. ASSUME NEW e \in Exception, NEW f \in Exception, NEW g \in Exception,
             Payload!Before(e, f), Payload!Before(f, g)
      PROVE  Payload!Before(e, g)
  BY <1>1, <1>3 DEF Payload!Before
<1> QED
  BY <1>2, <1>3

\* What comes before e of S.
Ahead(S, e) == {f \in S : Payload!Before(f, e)}

LEMMA FirstAre ==
  ASSUME NEW n, NEW S
  PROVE  Payload!First(n, S) = {e \in S : Cardinality(Ahead(S, e)) < n}
BY PayloadCardinality DEF Payload!First, Ahead

LEMMA AheadIsFinite ==
  ASSUME NEW S, IsFiniteSet(S), NEW e
  PROVE  IsFiniteSet(Ahead(S, e)) /\ Cardinality(Ahead(S, e)) \in Nat
<1>1. Ahead(S, e) \subseteq S
  BY DEF Ahead
<1> QED
  BY <1>1, FS_Subset, FS_CardinalityType

\* A list of which a part was cut before: who is cut from the part has enough before him.
LEMMA FirstOfFirst ==
  ASSUME NEW n \in Nat, NEW A, NEW B, A \subseteq Exception, B \subseteq Exception,
         IsFiniteSet(A), IsFiniteSet(B)
  PROVE  Payload!First(n, A \cup Payload!First(n, B)) = Payload!First(n, A \cup B)
<1> DEFINE F == Payload!First(n, B)
           C == A \cup F
           U == A \cup B
<1>1. F \subseteq B /\ C \subseteq U
  BY FirstAre
<1>2. IsFiniteSet(U) /\ IsFiniteSet(C)
  BY <1>1, FS_Union, FS_Subset
<1>3. ASSUME NEW e \in Payload!First(n, U) PROVE e \in Payload!First(n, C)
  <2>1. e \in U /\ Cardinality(Ahead(U, e)) < n
    BY <1>3, FirstAre
  <2>2. Ahead(B, e) \subseteq Ahead(U, e) /\ Ahead(C, e) \subseteq Ahead(U, e)
    BY <1>1 DEF Ahead
  <2>3. /\ Cardinality(Ahead(B, e)) <= Cardinality(Ahead(U, e))
        /\ Cardinality(Ahead(C, e)) <= Cardinality(Ahead(U, e))
    BY <1>2, <2>2, AheadIsFinite, FS_Subset
  <2>4. Cardinality(Ahead(B, e)) \in Nat /\ Cardinality(Ahead(C, e)) \in Nat
        /\ Cardinality(Ahead(U, e)) \in Nat
    BY <1>2, AheadIsFinite
  <2>5. Cardinality(Ahead(B, e)) < n /\ Cardinality(Ahead(C, e)) < n
    BY <2>1, <2>3, <2>4
  <2>6. e \in C
    BY <2>1, <2>5, FirstAre
  <2> QED
    BY <2>5, <2>6, FirstAre
<1>4. ASSUME NEW e \in Payload!First(n, C), e \notin Payload!First(n, U) PROVE FALSE
  <2>1. e \in C /\ e \in U /\ Cardinality(Ahead(C, e)) < n
    BY <1>1, <1>4, FirstAre
  <2>2. ~ (Cardinality(Ahead(U, e)) < n)
    BY <1>4, <2>1, FirstAre
  <2> DEFINE X == {f \in B \ F : Payload!Before(f, e)}
             R == {pair \in X \X X : Payload!Before(pair[1], pair[2])}
  <2>3. X # {}
    <3>1. Ahead(U, e) # Ahead(C, e)
      BY <2>1, <2>2
    <3>2. Ahead(C, e) \subseteq Ahead(U, e)
      BY <1>1 DEF Ahead
    <3> QED
      BY <3>1, <3>2 DEF Ahead
  <2>4. IsFiniteSet(X)
    BY FS_Subset
  <2>5. X \subseteq Exception /\ \A f, g \in X : <<f, g>> \in R <=> Payload!Before(f, g)
    OBVIOUS
  <2>6. \E f \in X : \A g \in X : <<g, f>> \notin R
    <3> HIDE DEF X, R
    <3>1. \A f \in X : <<f, f>> \notin R
      BY <2>5, BeforeIsAnOrder
    <3>2. \A f, g, h \in X : <<f, g>> \in R /\ <<g, h>> \in R => <<f, h>> \in R
      BY <2>5, BeforeIsAnOrder
    <3> QED
      BY <2>3, <2>4, <3>1, <3>2, HasMinimal
  <2>7. PICK f \in X : \A g \in X : ~Payload!Before(g, f)
    BY <2>5, <2>6
  <2>8. f \in B /\ f \notin F /\ Payload!Before(f, e)
    OBVIOUS
  <2>9. Ahead(B, f) \subseteq Ahead(C, e)
    <3> SUFFICES ASSUME NEW g \in B, Payload!Before(g, f) PROVE g \in F /\ Payload!Before(g, e)
      BY DEF Ahead
    <3>1. g \in Exception /\ f \in Exception /\ e \in Exception
      BY <2>1, <2>8
    <3>2. Payload!Before(g, e)
      BY <2>8, <3>1, BeforeIsAnOrder
    <3>3. g \notin X
      BY <2>7
    <3> QED
      BY <3>2, <3>3
  <2>10. /\ Cardinality(Ahead(B, f)) <= Cardinality(Ahead(C, e))
         /\ Cardinality(Ahead(B, f)) \in Nat /\ Cardinality(Ahead(C, e)) \in Nat
    BY <1>2, <2>9, AheadIsFinite, FS_Subset
  <2>11. Cardinality(Ahead(B, f)) < n
    BY <2>1, <2>10
  <2> QED
    BY <2>8, <2>11, FirstAre
<1>5. Payload!First(n, C) \subseteq U
  BY <1>1, FirstAre
<1> QED
  BY <1>3, <1>4, <1>5

\* The last stage that was entered by a moment, or the creation.
LEMMA EnteredIsADay ==
  ASSUME PayloadInv, NEW asOf \in Nat, NEW o \in Payload!Loaded(asOf)
  PROVE  Payload!Entered(o, asOf) \in Nat /\ Payload!Entered(o, asOf) <= asOf
<1> DEFINE days == {born[o]} \cup {h.day : h \in {x \in history : x.opportunity = o /\ x.day <= asOf}}
           R == {pair \in days \X days : pair[1] > pair[2]}
<1>1. days \subseteq 0 .. MaxDay /\ \A d \in days : d <= asOf
  <2>1. o \in Reported /\ born[o] # None /\ born[o] <= asOf
    BY DEF Payload!Loaded, Payload!Known
  <2>2. born[o] \in 0 .. MaxDay
    BY <2>1 DEF PayloadInv, Payload!TypeOK, Payload!Day
  <2>3. \A h \in history : h.day \in 0 .. MaxDay
    BY DEF PayloadInv, Payload!TypeOK, Payload!Day
  <2> QED
    BY <2>1, <2>2, <2>3
<1>2. IsFiniteSet(days) /\ days # {}
  <2>1. IsFiniteSet(0 .. MaxDay)
    BY PayloadConstants, FS_Interval
  <2>2. born[o] \in days
    OBVIOUS
  <2> HIDE DEF days
  <2> QED
    BY <1>1, <2>1, <2>2, FS_Subset
<1>3. \A d, e \in days : <<d, e>> \in R <=> d > e
  OBVIOUS
<1>4. \A d \in days : d \in Nat
  BY <1>1, PayloadConstants
<1>5. \E d \in days : \A e \in days : <<e, d>> \notin R
  <2> HIDE DEF days, R
  <2>1. \A d \in days : <<d, d>> \notin R
    BY <1>3, <1>4
  <2>2. \A d, e, g \in days : <<d, e>> \in R /\ <<e, g>> \in R => <<d, g>> \in R
    BY <1>3, <1>4
  <2> QED
    BY <1>2, <2>1, <2>2, HasMinimal
<1>6. \E d \in days : \A e \in days : e <= d
  <2> HIDE DEF days, R
  <2>1. PICK d \in days : \A e \in days : <<e, d>> \notin R
    BY <1>5
  <2>2. \A e \in days : e <= d
    <3> TAKE e \in days
    <3>1. ~ (e > d)
      BY <1>3, <2>1
    <3> QED
      BY <1>4, <3>1
  <2> QED
    BY <2>2
<1>7. Payload!Entered(o, asOf) \in days
  BY <1>6 DEF Payload!Entered
<1> HIDE DEF days
<1> QED
  BY <1>1, <1>4, <1>7

LEMMA ImageIsFinite ==
  ASSUME NEW S, IsFiniteSet(S), NEW f
  PROVE  IsFiniteSet({f[x] : x \in S})
<1> DEFINE g == [x \in S |-> f[x]]
           T == {f[x] : x \in S}
<1>1. g \in Surjection(S, T)
  BY DEF Surjection
<1> HIDE DEF g, T
<1>2. IsFiniteSet(T)
  BY <1>1, FS_Surjection
<1> QED
  BY <1>2 DEF T

\* The exceptions that there are, whatever is told of them.
LEMMA TroublesAreExceptions ==
  ASSUME PayloadInv, NEW asOf \in 0 .. today
  PROVE  /\ Payload!OverdueTasks(asOf) \subseteq Exception /\ IsFiniteSet(Payload!OverdueTasks(asOf))
         /\ Payload!MissingNextAction(asOf) \subseteq Exception
         /\ IsFiniteSet(Payload!MissingNextAction(asOf))
         /\ Payload!SlaEscalations(asOf) \subseteq Exception
         /\ IsFiniteSet(Payload!SlaEscalations(asOf))
         /\ \A S \in SUBSET Payload!Active(asOf) :
              Payload!StallsOf(S, asOf) \subseteq Exception /\ IsFiniteSet(Payload!StallsOf(S, asOf))
         /\ \A e \in Payload!OverdueTasks(asOf) \cup Payload!MissingNextAction(asOf)
                     \cup Payload!SlaEscalations(asOf) : e.age \in Nat
         /\ \A S \in SUBSET Payload!Active(asOf) : \A e \in Payload!StallsOf(S, asOf) : e.age \in Nat
<1>1. /\ asOf \in Nat /\ Payload!Loaded(asOf) \subseteq Reported
      /\ Payload!Active(asOf) \subseteq Payload!Loaded(asOf)
      /\ Payload!Incidents(asOf) \subseteq Reported /\ Reported \subseteq Nat
  BY PayloadConstants
     DEF PayloadInv, Payload!TypeOK, Payload!Day, Payload!Loaded, Payload!Active, Payload!Known,
         Payload!Incidents
<1>2. \A T \in SUBSET Reported : IsFiniteSet(T)
  BY PayloadConstants, FS_Subset
<1>3. \A o \in Nat, age \in Nat : age \in Int
  OBVIOUS
<1>4. \A o \in Payload!Loaded(asOf) : asOf - Payload!Entered(o, asOf) \in Nat
  <2> TAKE o \in Payload!Loaded(asOf)
  <2>1. Payload!Entered(o, asOf) \in Nat /\ Payload!Entered(o, asOf) <= asOf
    BY <1>1, EnteredIsADay
  <2> QED
    BY <1>1, <2>1
<1>5. /\ Payload!OverdueTasks(asOf) \subseteq Exception
      /\ \A e \in Payload!OverdueTasks(asOf) : e.age \in Nat
  <2>1. due \in [Reported -> 0 .. MaxDay \cup {None, MaxDay + 1}]
    BY DEF PayloadInv, Payload!TypeOK, Payload!Day
  <2>2. ASSUME NEW o \in Payload!Loaded(asOf), due[o] # None, due[o] < asOf
        PROVE  o \in Nat /\ asOf - due[o] \in Nat
    <3>1. o \in Reported /\ o \in Nat
      BY <1>1
    <3>2. due[o] \in Nat
      BY <2>1, <2>2, <3>1, PayloadConstants
    <3> QED
      BY <1>1, <2>2, <3>1, <3>2
  <2> QED
    BY <1>3, <2>2 DEF Payload!OverdueTasks, Payload!Trouble, Exception
<1>6. /\ Payload!MissingNextAction(asOf) \subseteq Exception
      /\ \A e \in Payload!MissingNextAction(asOf) : e.age \in Nat
  <2>1. \A o \in Payload!Active(asOf) : o \in Nat /\ asOf - Payload!Entered(o, asOf) \in Nat
    BY <1>1, <1>4
  <2> QED
    BY <1>3, <2>1 DEF Payload!MissingNextAction, Payload!Trouble, Exception
<1>7. /\ Payload!SlaEscalations(asOf) \subseteq Exception
      /\ \A e \in Payload!SlaEscalations(asOf) : e.age \in Nat
  <2>1. \A o \in Payload!Incidents(asOf) : o \in Nat /\ asOf - marker[o] \in Nat
    <3> TAKE o \in Payload!Incidents(asOf)
    <3>1. o \in Reported /\ escalated[o] # None /\ escalated[o] <= asOf
      BY <1>1 DEF Payload!Incidents
    <3>2. marker[o] \in Nat /\ escalated[o] \in Nat /\ marker[o] < escalated[o]
      BY <3>1, PayloadConstants DEF PayloadInv, Payload!TypeOK, Payload!Day
    <3> QED
      BY <1>1, <3>1, <3>2
  <2> QED
    BY <1>3, <2>1 DEF Payload!SlaEscalations, Payload!Trouble, Exception
<1>8. \A S \in SUBSET Payload!Active(asOf) :
        Payload!StallsOf(S, asOf) \subseteq Exception /\ \A e \in Payload!StallsOf(S, asOf) : e.age \in Nat
  <2> TAKE S \in SUBSET Payload!Active(asOf)
  <2>1. \A o \in S : o \in Nat /\ asOf - Payload!Entered(o, asOf) \in Nat
    BY <1>1, <1>4
  <2> QED
    BY <1>3, <2>1 DEF Payload!StallsOf, Payload!Trouble, Exception
<1>9. IsFiniteSet(Payload!OverdueTasks(asOf))
  <2> DEFINE f == [o \in Reported |->
                    Payload!Trouble("overdue-task", o, asOf - due[o], asOf - due[o] >= HighOverdue)]
             S == {x \in Payload!Loaded(asOf) : due[x] # None /\ due[x] < asOf}
  <2>1. Payload!OverdueTasks(asOf) = {f[o] : o \in S}
    BY <1>1 DEF Payload!OverdueTasks
  <2>2. IsFiniteSet(S)
    BY <1>1, <1>2
  <2> HIDE DEF f, S
  <2> QED
    BY <2>1, <2>2, ImageIsFinite
<1>10. IsFiniteSet(Payload!MissingNextAction(asOf))
  <2> DEFINE f == [o \in Reported |->
                    Payload!Trouble("missing-next-action", o, asOf - Payload!Entered(o, asOf), TRUE)]
             S == {x \in Payload!Active(asOf) : due[x] = None}
  <2>1. Payload!MissingNextAction(asOf) = {f[o] : o \in S}
    BY <1>1 DEF Payload!MissingNextAction
  <2>2. IsFiniteSet(S)
    BY <1>1, <1>2
  <2> HIDE DEF f, S
  <2> QED
    BY <2>1, <2>2, ImageIsFinite
<1>11. IsFiniteSet(Payload!SlaEscalations(asOf))
  <2> DEFINE f == [o \in Reported |-> Payload!Trouble("sla-escalation", o, asOf - marker[o], TRUE)]
  <2>1. Payload!SlaEscalations(asOf) = {f[o] : o \in Payload!Incidents(asOf)}
    BY <1>1 DEF Payload!SlaEscalations
  <2>2. IsFiniteSet(Payload!Incidents(asOf))
    BY <1>1, <1>2
  <2> HIDE DEF f
  <2> QED
    BY <2>1, <2>2, ImageIsFinite
<1>12. \A S \in SUBSET Payload!Active(asOf) : IsFiniteSet(Payload!StallsOf(S, asOf))
  <2> TAKE S \in SUBSET Payload!Active(asOf)
  <2> DEFINE f == [o \in Reported |->
                    Payload!Trouble("stage-stall", o, asOf - Payload!Entered(o, asOf),
                                    asOf - Payload!Entered(o, asOf) >= HighStall)]
             T == {x \in S : asOf - Payload!Entered(x, asOf) >= Stall}
  <2>1. Payload!StallsOf(S, asOf) = {f[o] : o \in T}
    BY <1>1 DEF Payload!StallsOf
  <2>2. IsFiniteSet(T)
    BY <1>1, <1>2
  <2> HIDE DEF f, T
  <2> QED
    BY <2>1, <2>2, ImageIsFinite
<1> QED
  BY <1>5, <1>6, <1>7, <1>8, <1>9, <1>10, <1>11, <1>12

LEMMA WorstOfAll == PayloadInv => Payload!WorstAreTold
<1> SUFFICES ASSUME PayloadInv, NEW asOf \in 0 .. today
             PROVE  Payload!Exceptions(asOf) =
                      Payload!First(Top, Payload!OverdueTasks(asOf) \cup Payload!MissingNextAction(asOf)
                        \cup Payload!SlaEscalations(asOf)
                        \cup Payload!StallsOf(Payload!Active(asOf) \ Payload!Incidents(asOf), asOf))
  BY DEF Payload!WorstAreTold, Payload!Moments, Payload!Troubles
<1> DEFINE A == Payload!OverdueTasks(asOf) \cup Payload!MissingNextAction(asOf)
           E == Payload!SlaEscalations(asOf)
           L == Payload!StallsOf(Payload!Active(asOf) \ Payload!Incidents(asOf), asOf)
<1>1. /\ A \subseteq Exception /\ IsFiniteSet(A) /\ E \subseteq Exception /\ IsFiniteSet(E)
      /\ L \subseteq Exception /\ IsFiniteSet(L) /\ Top \in Nat
  BY TroublesAreExceptions, PayloadConstants, FS_Union
<1>2. E \cup L \subseteq Exception /\ IsFiniteSet(E \cup L)
  BY <1>1, FS_Union
<1>3. Payload!TopStalls(asOf) = Payload!First(Top, E \cup Payload!First(Top, L))
  BY DEF Payload!TopStalls, Payload!StageStalls
<1>4. Payload!Exceptions(asOf) = Payload!First(Top, A \cup Payload!TopStalls(asOf))
  BY DEF Payload!Exceptions
<1> HIDE DEF A, E, L
<1>5. Payload!TopStalls(asOf) = Payload!First(Top, E \cup L)
  BY <1>1, <1>3, FirstOfFirst
<1>6. Payload!Exceptions(asOf) = Payload!First(Top, A \cup (E \cup L))
  <2> DEFINE B == E \cup L
  <2>1. B \subseteq Exception /\ IsFiniteSet(B)
    BY <1>2
  <2>2. Payload!Exceptions(asOf) = Payload!First(Top, A \cup Payload!First(Top, B))
    BY <1>4, <1>5
  <2> HIDE DEF B
  <2>3. Payload!First(Top, A \cup Payload!First(Top, B)) = Payload!First(Top, A \cup B)
    BY <1>1, <2>1, FirstOfFirst
  <2> QED
    BY <2>2, <2>3 DEF B
<1>7. A \cup (E \cup L) = A \cup E \cup L
  OBVIOUS
<1> QED
  BY <1>6, <1>7 DEF A, E, L

LEMMA WeeksReachBack == PayloadInv => Payload!WeeksAreWhole
<1> SUFFICES ASSUME PayloadInv, NEW asOf \in 0 .. today, NEW s \in Stages, NEW k \in 0 .. Weeks,
                    NEW start \in 0 .. asOf
             PROVE  Payload!WeekValue(start, asOf, s, k) =
                      Payload!Entries({h \in history : h.day <= asOf}, s, start - k * WeekDays,
                                      start - (k - 1) * WeekDays - 1)
  BY DEF Payload!WeeksAreWhole, Payload!Moments
<1> DEFINE from == start - k * WeekDays
           to == start - (k - 1) * WeekDays - 1
<1>1. start \in Nat /\ WeekDays \in Nat /\ Weeks \in Nat
  BY PayloadConstants DEF PayloadInv, Payload!TypeOK, Payload!Day
<1>2. from \in Int /\ start - Weeks * WeekDays <= from
  <2>1. k \in Nat /\ k <= Weeks
    BY <1>1
  <2>2. k * WeekDays <= Weeks * WeekDays /\ k * WeekDays \in Nat /\ Weeks * WeekDays \in Nat
    BY <1>1, <2>1
  <2> HIDE DEF from
  <2>3. \A a, b \in Nat : a <= b => start - a \in Int /\ start - b <= start - a
    BY <1>1
  <2> QED
    BY <2>2, <2>3 DEF from
<1>3. \A h \in history : h.day \in Int
  BY PayloadConstants DEF PayloadInv, Payload!TypeOK, Payload!Day
<1> HIDE DEF from, to
<1>4. {x \in Payload!StageEvents(start, asOf) : x.stage = s /\ from <= x.day /\ x.day <= to}
        = {x \in {h \in history : h.day <= asOf} : x.stage = s /\ from <= x.day /\ x.day <= to}
  <2>1. \A h \in history : from <= h.day => Payload!HistoryStart(start) <= h.day
    BY <1>1, <1>2, <1>3 DEF Payload!HistoryStart
  <2> QED
    BY <2>1 DEF Payload!StageEvents
<1> QED
  BY <1>4 DEF Payload!WeekValue, Payload!Entries, from, to

\* A list that is cut to one or more is empty only if there is nothing to tell.
LEMMA FirstIsSome ==
  ASSUME NEW n \in Nat \ {0}, NEW S, S \subseteq Exception, IsFiniteSet(S), S # {}
  PROVE  Payload!First(n, S) # {}
<1> DEFINE R == {pair \in S \X S : Payload!Before(pair[1], pair[2])}
<1>1. \A e, f \in S : <<e, f>> \in R <=> Payload!Before(e, f)
  OBVIOUS
<1> HIDE DEF R
<1>2. \A e \in S : <<e, e>> \notin R
  BY <1>1, BeforeIsAnOrder
<1>3. \A e, f, g \in S : <<e, f>> \in R /\ <<f, g>> \in R => <<e, g>> \in R
  BY <1>1, BeforeIsAnOrder
<1>4. PICK e \in S : \A f \in S : <<f, e>> \notin R
  BY <1>2, <1>3, HasMinimal
<1>5. Ahead(S, e) = {}
  BY <1>1, <1>4 DEF Ahead
<1>6. Cardinality(Ahead(S, e)) = 0
  BY <1>5, FS_EmptySet
<1> QED
  BY <1>4, <1>6, FirstAre

\* Each kind of trouble is told as a decision, though all of the kind may be cut.
LEMMA TroublesAreDecided ==
  ASSUME PayloadInv, NEW asOf \in 0 .. today, NEW e \in Payload!Troubles(asOf)
  PROVE  Payload!DecisionOn(e.code) \in Payload!Decisions(asOf)
<1> DEFINE L == Payload!StallsOf(Payload!Active(asOf) \ Payload!Incidents(asOf), asOf)
           E == Payload!SlaEscalations(asOf)
<1>1. CASE e \in Payload!OverdueTasks(asOf)
  <2>1. e.code = "overdue-task"
    BY <1>1 DEF Payload!OverdueTasks, Payload!Trouble
  <2> QED
    BY <1>1, <2>1 DEF Payload!DecisionOn, Payload!Decisions
<1>2. CASE e \in Payload!MissingNextAction(asOf)
  <2>1. e.code = "missing-next-action"
    BY <1>2 DEF Payload!MissingNextAction, Payload!Trouble
  <2> QED
    BY <1>2, <2>1 DEF Payload!DecisionOn, Payload!Decisions
<1>3. CASE e \in E \cup L
  <2>1. e.code \in {"sla-escalation", "stage-stall"}
    BY <1>3 DEF Payload!SlaEscalations, Payload!StallsOf, Payload!Trouble
  <2>2. /\ E \subseteq Exception /\ IsFiniteSet(E) /\ L \subseteq Exception /\ IsFiniteSet(L)
        /\ Top \in Nat \ {0}
    BY TroublesAreExceptions, PayloadConstants
  <2>3. Payload!TopStalls(asOf) = Payload!First(Top, E \cup Payload!First(Top, L))
    BY DEF Payload!TopStalls, Payload!StageStalls
  <2> HIDE DEF E, L
  <2>4. Payload!TopStalls(asOf) = Payload!First(Top, E \cup L)
    BY <2>2, <2>3, FirstOfFirst
  <2>5. E \cup L \subseteq Exception /\ IsFiniteSet(E \cup L) /\ E \cup L # {}
    BY <1>3, <2>2, FS_Union
  <2>6. Payload!TopStalls(asOf) # {}
    BY <2>2, <2>4, <2>5, FirstIsSome
  <2> QED
    BY <2>1, <2>6 DEF Payload!DecisionOn, Payload!Decisions
<1> QED
  BY <1>1, <1>2, <1>3 DEF Payload!Troubles

LEMMA DigestsAreAccepted == PayloadInv => Payload!DigestTellsTrouble
<1> SUFFICES ASSUME PayloadInv, NEW asOf \in 0 .. today
             PROVE  /\ \A e \in Payload!Troubles(asOf) :
                         Payload!DecisionOn(e.code) \in Payload!Decisions(asOf)
                    /\ \A e \in Payload!Exceptions(asOf) \ Payload!DigestRisks(asOf),
                          f \in Payload!DigestRisks(asOf) : e.severity = "high" => f.severity = "high"
                    /\ \A e \in Payload!Exceptions(asOf) : Payload!Accepted(e)
  BY DEF Payload!DigestTellsTrouble, Payload!Moments
<1> DEFINE Told2 == Payload!Exceptions(asOf)
           room == DigestSize - Payload!Cardinality(Payload!Decisions(asOf))
<1>1. /\ Told2 \subseteq Payload!OverdueTasks(asOf) \cup Payload!MissingNextAction(asOf)
                         \cup Payload!TopStalls(asOf)
      /\ Payload!TopStalls(asOf) \subseteq Payload!SlaEscalations(asOf)
           \cup Payload!StallsOf(Payload!Active(asOf) \ Payload!Incidents(asOf), asOf)
  BY FirstAre DEF Payload!Exceptions, Payload!TopStalls, Payload!StageStalls
<1>2. /\ Told2 \subseteq Exception /\ \A e \in Told2 : e.age \in Nat
  BY <1>1, TroublesAreExceptions
<1>3. IsFiniteSet(Told2)
  <2> DEFINE L == Payload!StallsOf(Payload!Active(asOf) \ Payload!Incidents(asOf), asOf)
             A == Payload!OverdueTasks(asOf) \cup Payload!MissingNextAction(asOf)
             E == Payload!SlaEscalations(asOf)
  <2>1. IsFiniteSet(A) /\ IsFiniteSet(E) /\ IsFiniteSet(L)
    BY TroublesAreExceptions, FS_Union
  <2>2. Told2 \subseteq A \cup (E \cup L)
    BY <1>1
  <2> HIDE DEF Told2, A, E, L
  <2> QED
    BY <2>1, <2>2, FS_Union, FS_Subset
<1>4. \A e \in Payload!Troubles(asOf) : Payload!DecisionOn(e.code) \in Payload!Decisions(asOf)
  BY TroublesAreDecided
<1>5. room \in Int
  <2>1. Payload!Decisions(asOf) \subseteq {"resolve-overdue"} \cup {"assign-next-action"} \cup {"review-stalls"}
    BY DEF Payload!Decisions
  <2>2. IsFiniteSet({"resolve-overdue"} \cup {"assign-next-action"} \cup {"review-stalls"})
    BY FS_Singleton, FS_Union
  <2>3. Cardinality(Payload!Decisions(asOf)) \in Nat
    BY <2>1, <2>2, FS_Subset, FS_CardinalityType
  <2> QED
    BY <2>3, PayloadCardinality, PayloadConstants
<1>6. Payload!DigestRisks(asOf) = {e \in Told2 : Cardinality(Ahead(Told2, e)) < room}
  BY FirstAre DEF Payload!DigestRisks
<1> HIDE DEF Told2, room
<1>7. ASSUME NEW e \in Told2 \ Payload!DigestRisks(asOf), e.severity = "high",
             NEW f \in Payload!DigestRisks(asOf)
      PROVE  f.severity = "high"
  <2> SUFFICES ASSUME f.severity # "high" PROVE FALSE
    OBVIOUS
  <2>1. f \in Told2 /\ e \in Exception /\ f \in Exception
    BY <1>2, <1>6
  <2>2. Payload!Before(e, f)
    BY <1>7, <2>1 DEF Payload!Before, Payload!SeverityIndex
  <2>3. Ahead(Told2, e) \subseteq Ahead(Told2, f)
    BY <1>2, <2>1, <2>2, BeforeIsAnOrder DEF Ahead
  <2>4. /\ Cardinality(Ahead(Told2, e)) <= Cardinality(Ahead(Told2, f))
        /\ Cardinality(Ahead(Told2, e)) \in Nat /\ Cardinality(Ahead(Told2, f)) \in Nat
    BY <1>3, <2>3, AheadIsFinite, FS_Subset
  <2>5. Cardinality(Ahead(Told2, f)) < room /\ ~ (Cardinality(Ahead(Told2, e)) < room)
    BY <1>6
  <2> QED
    BY <1>5, <2>4, <2>5
<1>8. \A e \in Told2 : Payload!Accepted(e)
  BY <1>2 DEF Payload!Accepted, Exception
<1> QED
  BY <1>4, <1>7, <1>8 DEF Told2

\* However the lists of a weekly report are cut, put together and cut again, they tell the worst
\* there is, its weeks are whole, and its digest has a decision on each kind of trouble there is
\* (WeeklyPayload).
THEOREM ReportsTellTheWorst ==
  Payload!Spec => [](Payload!WorstAreTold /\ Payload!WeeksAreWhole /\ Payload!DigestTellsTrouble)
BY PayloadInitially, PayloadInductive, WorstOfAll, WeeksReachBack, DigestsAreAccepted, PTL
   DEF Payload!Spec

-------------------------------------------------------------------------------
(* The office *)

LEMMA OfficeScores == Spec => Scores!Spec
<1>1. Init => Scores!Init
  BY DEF Init
<1>2. [Next]_vars => [Scores!Next]_(Scores!vars)
  BY DEF Next, vars, office, scores, Scores!vars, Scores!row
<1> QED
  BY <1>1, <1>2, PTL DEF Spec, Scores!Spec

\* A decision records the score that its manager saw, in the office.
THEOREM DecisionsAreInformed == Spec => []DecidedScoreWasSeen
<1>1. Scores!DecidedScoreWasSeen => DecidedScoreWasSeen
  BY DEF DecidedScoreWasSeen
<1> QED
  BY <1>1, OfficeScores, DecisionsRecordWhatWasSeen, PTL

LEMMA OfficeWeb == Spec => Web!Spec
<1>1. Init => Web!Init
  BY DEF Init
<1>2. [Next]_vars => [Web!Next]_(Web!vars)
  BY DEF Next, vars, screens, web, forms, Web!vars
<1> QED
  BY <1>1, <1>2, PTL DEF Spec, Web!Spec

LEMMA OfficeEditor == Spec => Editor!Spec
<1>1. Init => Editor!Init
  BY DEF Init
<1>2. [Next]_vars => [Editor!Next]_(Editor!vars)
  BY DEF Next, vars, screens, web, editor, Editor!vars, Editor!server, Editor!client
<1> QED
  BY <1>1, <1>2, PTL DEF Spec, Editor!Spec

\* In the office, a form that is sent again is applied once, and no form overwrites an edit
\* that it did not show but those of contacts and placements.
THEOREM FormsAreSent == Spec => []FormsAreSafe
<1>1. Web!AppliedOnce /\ (page \notin {"contact", "placement"} => Editor!EditsAreKept)
        => FormsAreSafe
  BY DEF FormsAreSafe
<1> QED
  BY <1>1, OfficeWeb, FormsAreAppliedOnce, OfficeEditor, FormsKeepEdits, PTL

LEMMA OfficeSession == Spec => Session!Spec
<1>1. Init => Session!Init
  BY DEF Init
<1>2. [Next]_vars => [Session!Next]_(Session!vars)
  BY DEF Next, vars, reads, session, Session!vars, Session!userRow
<1> QED
  BY <1>1, <1>2, PTL DEF Spec, Session!Spec

LEMMA OfficeRenderer == Spec => Renderer!Spec
<1>1. Init => Renderer!Init
  BY DEF Init
<1>2. [Next]_vars => [Renderer!Next]_(Renderer!vars)
  BY DEF Next, vars, services, browsing, Renderer!vars
<1> QED
  BY <1>1, <1>2, PTL DEF Spec, Renderer!Spec

LEMMA OfficeTokens == Spec => Tokens!Spec
<1>1. Init => Tokens!Init
  BY DEF Init
<1>2. [Next]_vars => [Tokens!Next]_(Tokens!vars)
  BY DEF Next, vars, screens, web, tokens, Tokens!vars
<1> QED
  BY <1>1, <1>2, PTL DEF Spec, Tokens!Spec

LEMMA OfficeSite == Spec => Site!Spec
<1>1. Init => Site!Init
  BY DEF Init
<1>2. [Next]_vars => [Site!Next]_(Site!vars)
  BY DEF Next, vars, screens, inspections, Site!vars
<1> QED
  BY <1>1, <1>2, PTL DEF Spec, Site!Spec

LEMMA OfficeTraffic == Spec => Traffic!Spec
<1>1. Init => Traffic!Init
  BY DEF Init
<1>2. [Next]_vars => [Traffic!Next]_(Traffic!vars)
  BY DEF Next, vars, services, estimates, Traffic!vars
<1> QED
  BY <1>1, <1>2, PTL DEF Spec, Traffic!Spec

LEMMA OfficeEmbed == Spec => Embed!Spec
<1>1. Init => Embed!Init
  BY DEF Init
<1>2. [Next]_vars => [Embed!Next]_(Embed!vars)
  BY DEF Next, vars, services, checks, Embed!vars
<1> QED
  BY <1>1, <1>2, PTL DEF Spec, Embed!Spec

\* In the office, inspections judge what they read, estimates are fresh, and checks of
\* placements conclude from the answers of servers.
THEOREM InspectionsAreSound == Spec => []InspectionIsSound
<1>1. SiteIsSound /\ EstimatesAreSound /\ VerdictIsTold => InspectionIsSound
  BY DEF InspectionIsSound, SiteIsSound, EstimatesAreSound, VerdictIsTold
<1> QED
  BY <1>1, OfficeSite, InspectionsStaySound, OfficeTraffic, EstimatesStaySound,
     OfficeEmbed, VerdictsAreTold, PTL

-------------------------------------------------------------------------------
(* The office *)

LEMMA OfficeSourcing == Spec => Sourcing!Spec
<1>1. Init => Sourcing!Init
  BY DEF Init
<1>2. [Next]_vars => [Sourcing!Next]_(Sourcing!vars)
  BY DEF Next, vars, services, cycles, Sourcing!vars
<1> QED
  BY <1>1, <1>2, PTL DEF Spec, Sourcing!Spec

\* Candidates, users, settings and weekly reports share the database's record of conflicts: each
\* is what it is alone while the office is about it.
SharedInv ==
  /\ part = "candidates" => CandidatesInv
  /\ part = "access" => AccessInv
  /\ part = "settings" => SettingsInv
  /\ part = "weekly" => WeeklyInv

LEMMA OfficeShared == Spec => []SharedInv
<1>1. Init => SharedInv
  BY CandidatesInitially, AccessInitially, SettingsInitially, WeeklyInitially DEF Init, SharedInv
<1>2. SharedInv /\ [Next]_vars => SharedInv'
  <2> SUFFICES ASSUME SharedInv, [Next]_vars PROVE SharedInv'
    OBVIOUS
  <2>1. part' = part
    BY DEF Next, vars
  <2>2. part = "candidates" => [Cand!Next]_(Cand!vars)
    BY DEF Next, vars, office, serializable, candidates, conflicts, Cand!vars, Cand!rows
  <2>3. part = "access" => [Access!Next]_(Access!vars)
    BY DEF Next, vars, office, serializable, accounts, conflicts, Access!vars, Access!account
  <2>4. part = "settings" => [Settings!Next]_(Settings!vars)
    BY DEF Next, vars, office, serializable, settings, conflicts, Settings!vars, Settings!rows
  <2>5. part = "weekly" => [Weekly!Next]_(Weekly!vars)
    BY DEF Next, vars, office, serializable, weekly, conflicts, Weekly!vars, Weekly!tables
  <2>6. part = "candidates" => CandidatesInv'
    BY <2>2, CandidatesInductive DEF SharedInv
  <2>7. part = "access" => AccessInv'
    BY <2>3, AccessInductive DEF SharedInv
  <2>8. part = "settings" => SettingsInv'
    BY <2>4, SettingsInductive DEF SharedInv
  <2>9. part = "weekly" => WeeklyInv'
    BY <2>5, WeeklyInductive DEF SharedInv
  <2> QED
    BY <2>1, <2>6, <2>7, <2>8, <2>9 DEF SharedInv
<1> QED
  BY <1>1, <1>2, PTL DEF Spec

\* Whatever overlaps in the office, it keeps what the components promise of it.
THEOREM OverlapsStaySafe == Spec => []OverlapsAreSafe
<1>1. SharedInv => /\ part = "candidates" => Cand!Canonical
                   /\ part = "access" => Access!AdministratorRemains
                   /\ part = "settings" => Settings!OpenUnderLatest
  BY PathsAreFound, LatestIsThere DEF SharedInv, AccessInv
<1>2. SharedInv /\ SessionKeeps /\ RendersAreSafe
        /\ (Sourcing!OneCandidatePerHost /\ Sourcing!NothingIsPassedOver)
        /\ (Tokens!OneRefresh /\ Tokens!RetryIsNewer)
          => OverlapsAreSafe
  <2> SUFFICES ASSUME SharedInv, SessionKeeps, RendersAreSafe,
                      Sourcing!OneCandidatePerHost, Sourcing!NothingIsPassedOver,
                      Tokens!OneRefresh, Tokens!RetryIsNewer
               PROVE OverlapsAreSafe
    OBVIOUS
  <2>1. /\ Session!ActsByRightsHeld /\ Session!ActsInTerm
        /\ Session!ScopesNest /\ Session!BootstrapEnds
    BY DEF SessionKeeps
  <2>2. Renderer!OneBrowser /\ Renderer!NoContextIsLeft /\ Renderer!EveryPageIsAnswered
    BY DEF RendersAreSafe
  <2> QED
    BY <1>1, <2>1, <2>2 DEF OverlapsAreSafe
<1> QED
  BY <1>2, OfficeShared, OfficeSession, RequestsActByRights, OfficeRenderer, RendersShareABrowser,
     OfficeSourcing, CyclesFindEachHostOnce, OfficeTokens, OneRefreshAtATime, PTL

\* Imports share nothing with the rest.
LEMMA OfficeImports == Spec => Import!Spec
<1>1. Init => Import!Init
  BY DEF Init
<1>2. [Next]_vars => [Import!Next]_(Import!vars)
  BY DEF Next, vars, office, imports, Import!vars, Import!tables
<1> QED
  BY <1>1, <1>2, PTL DEF Spec, Import!Spec

\* Whatever overlaps in the office, imports, changes of users and weekly reports end as those of
\* the services in memory, one after the other.
THEOREM TwinsAreImplemented == Spec => ImplementsTwins
<1>1. Init => Import!Twin!Init /\ Access!Twin!Init /\ Weekly!Twin!Init
  BY DEF Init, Import!Init, Import!Twin!Init, Import!Organizations, Access!Init, Access!Twin!Init,
     Weekly!Init, Weekly!Twin!Init
<1>2. ImportInv /\ [Next]_vars => [part = "import" => Import!Twin!Next]_(Import!Twin!vars)
  <2>1. [Next]_vars => [Import!Next]_(Import!vars)
    BY DEF Next, vars, office, imports, Import!vars, Import!tables
  <2> QED
    BY <2>1, ImportStepIsTwins
<1>3. SharedInv /\ [Next]_vars => [part = "access" => Access!Twin!Next]_(Access!Twin!vars)
  <2>1. part = "access" /\ [Next]_vars => [Access!Next]_(Access!vars)
    BY DEF Next, vars, office, serializable, accounts, conflicts, Access!vars, Access!account
  <2> QED
    BY <2>1, AccessStepIsTwins DEF SharedInv
<1>4. SharedInv /\ [Next]_vars => [part = "weekly" => Weekly!Twin!Next]_reports
  <2>1. part = "weekly" /\ [Next]_vars => [Weekly!Next]_(Weekly!vars)
    BY DEF Next, vars, office, serializable, weekly, conflicts, Weekly!vars, Weekly!tables
  <2> QED
    BY <2>1, WeeklyStepIsTwins DEF SharedInv
<1> QED
  BY <1>1, <1>2, <1>3, <1>4, OfficeShared, OfficeImports, ImportsStaySound, PTL
     DEF Spec, ImplementsTwins

\* Nor do reports, listings and the queue of the day.
LEMMA OfficePayload == Spec => Payload!Spec
<1>1. Init => Payload!Init
  BY DEF Init
<1>2. [Next]_vars => [Payload!Next]_(Payload!vars)
  BY DEF Next, vars, reads, payload, Payload!vars
<1> QED
  BY <1>1, <1>2, PTL DEF Spec, Payload!Spec

LEMMA OfficeRegistry == Spec => Registry!Spec
<1>1. Init => Registry!Init
  BY DEF Init
<1>2. [Next]_vars => [Registry!Next]_(Registry!vars)
  BY DEF Next, vars, reads, registry, Registry!vars, Registry!facts, Registry!request
<1> QED
  BY <1>1, <1>2, PTL DEF Spec, Registry!Spec

LEMMA OfficeQueue == Spec => Queue!Spec
<1>1. Init => Queue!Init
  BY DEF Init
<1>2. [Next]_vars => [Queue!Next]_(Queue!vars)
  BY DEF Next, vars, reads, tasks, Queue!vars
<1> QED
  BY <1>1, <1>2, PTL DEF Spec, Queue!Spec

\* What ReadsAreComplete says of the weekly report, of the registry and of the queue of the day
\* holds for every value of the constants.  What it says of files, of the register of legal
\* entities and of the dossier of a site is about folds over sequences: an induction over data,
\* which stays with TLC.
THEOREM ReadsStayComplete == Spec => [](part \notin {"csv", "legal", "site"} => ReadsAreComplete)
<1> DEFINE P == Payload!WorstAreTold /\ Payload!WeeksAreWhole /\ Payload!DigestTellsTrouble
           R == Registry!IssueIsReal /\ Registry!QuietRowIsExact /\ Registry!ExportIsAudited
           Q == Queue!AnswersTellOutcome /\ Queue!ReplayRepeats /\ Queue!TrailIsAChain
<1>1. P /\ R /\ Q => (part \notin {"csv", "legal", "site"} => ReadsAreComplete)
  <2>1. ASSUME P, R, Q, part # "csv", part # "legal", part # "site" PROVE ReadsAreComplete
    BY <2>1, Zenon DEF ReadsAreComplete
  <2> QED
    BY <2>1
<1> QED
  BY <1>1, OfficePayload, OfficeRegistry, OfficeQueue, ReportsTellTheWorst,
     RegistryReadsAreComplete, QueueAnswersAreTrue, PTL

-------------------------------------------------------------------------------
(* Types: what each component's invariant says beyond what it promises.        *)

SharedSets ==
  /\ part = "candidates" => CandidateSets
  /\ part = "access" => AccountSets
  /\ part = "settings" => SettingSets
  /\ part = "weekly" => WeeklySets

LEMMA OfficeSets == Spec => [](SharedInv /\ SharedSets)
<1>1. Init => SharedSets
  BY CandidateSetsInitially, AccountSetsInitially, SettingSetsInitially, WeeklySetsInitially
  DEF Init, SharedSets
<1>2. SharedInv /\ SharedSets /\ [Next]_vars => SharedSets'
  <2> SUFFICES ASSUME SharedInv, SharedSets, [Next]_vars PROVE SharedSets'
    OBVIOUS
  <2>1. part' = part
    BY DEF Next, vars
  <2>2. part = "candidates" => [Cand!Next]_(Cand!vars)
    BY DEF Next, vars, office, serializable, candidates, conflicts, Cand!vars, Cand!rows
  <2>3. part = "access" => [Access!Next]_(Access!vars)
    BY DEF Next, vars, office, serializable, accounts, conflicts, Access!vars, Access!account
  <2>4. part = "settings" => [Settings!Next]_(Settings!vars)
    BY DEF Next, vars, office, serializable, settings, conflicts, Settings!vars, Settings!rows
  <2>5. part = "weekly" => [Weekly!Next]_(Weekly!vars)
    BY DEF Next, vars, office, serializable, weekly, conflicts, Weekly!vars, Weekly!tables
  <2>6. part = "candidates" => CandidateSets'
    BY <2>2, CandidateSetsStay DEF SharedInv, SharedSets
  <2>7. part = "access" => AccountSets'
    BY <2>3, AccountSetsStay DEF SharedInv, SharedSets
  <2>8. part = "settings" => SettingSets'
    BY <2>4, SettingSetsStay DEF SharedInv, SharedSets
  <2>9. part = "weekly" => WeeklySets'
    BY <2>5, WeeklySetsStay DEF SharedInv, SharedSets
  <2> QED
    BY <2>1, <2>6, <2>7, <2>8, <2>9 DEF SharedSets
<1> QED
  BY <1>1, <1>2, OfficeShared, PTL DEF Spec

\* The invariants of the registry, the queue of the day and the weekly report's rows have it.
LEMMA ReadsAreTyped == Registry!Spec /\ Queue!Spec /\ Payload!Spec
                         => [](Registry!TypeOK /\ Queue!TypeOK /\ Payload!TypeOK)
<1>1. RegistryInv /\ QueueInv /\ PayloadInv => Registry!TypeOK /\ Queue!TypeOK /\ Payload!TypeOK
  BY DEF RegistryInv, QueueInv, PayloadInv
<1>2. Registry!Spec => []RegistryInv
  BY RegistryInitially, RegistryInductive, PTL DEF Registry!Spec
<1>3. Queue!Spec => []QueueInv
  BY QueueInitially, QueueInductive, PTL DEF Queue!Spec
<1>4. Payload!Spec => []PayloadInv
  BY PayloadInitially, PayloadInductive, PTL DEF Payload!Spec
<1> QED
  BY <1>1, <1>2, <1>3, <1>4, PTL

\* Whatever the office is about, its variables stay in their types: versions and counters
\* within their bounds, rows of what there is, answers of the kinds the code gives, no request
\* without its command.  The types of scores, of estimates of traffic, of files and of the
\* register of legal entities rest on sums and on selections from sequences: inductions over
\* data, which stay with TLC.
THEOREM TypesStayRight == Spec => [](part \notin {"score", "traffic", "csv", "legal"} => TypeOK)
<1>1. SharedInv /\ SharedSets => /\ part = "candidates" => Cand!TypeOK
                                 /\ part = "access" => Access!TypeOK
                                 /\ part = "settings" => Settings!TypeOK
                                 /\ part = "weekly" => Weekly!TypeOK
  BY CandidatesAreTyped, AccountsAreTyped, SettingsAreTyped, WeeklyIsTyped
  DEF SharedInv, SharedSets
<1> DEFINE Database == /\ part = "candidates" => Cand!TypeOK
                       /\ part = "access" => Access!TypeOK
                       /\ part = "settings" => Settings!TypeOK
                       /\ part = "weekly" => Weekly!TypeOK
           Reads == Registry!TypeOK /\ Queue!TypeOK /\ Payload!TypeOK
           Interface == Web!TypeOK /\ Editor!TypeOK /\ Tokens!TypeOK /\ Session!TypeOK
           Services == Site!TypeOK /\ Sourcing!TypeOK /\ Embed!TypeOK /\ Renderer!TypeOK
<1>2. Database /\ Reads /\ Interface /\ Services /\ Import!TypeOK
        => (part \notin {"score", "traffic", "csv", "legal"} => TypeOK)
  <2>1. ASSUME Database, Reads, Interface, Services, Import!TypeOK,
               part # "score", part # "traffic", part # "csv", part # "legal"
        PROVE  TypeOK
    BY <2>1, Zenon DEF TypeOK
  <2> QED
    BY <2>1
<1>3. Spec => []Database
  BY <1>1, OfficeSets, PTL
<1>4. Spec => []Reads
  BY ReadsAreTyped, OfficeRegistry, OfficeQueue, OfficePayload, PTL
<1>5. Spec => []Interface
  BY OfficeWeb, WebTypesOK, OfficeEditor, EditorTypesOK, OfficeTokens, TokenTypesOK,
     OfficeSession, SessionTypesOK, PTL
<1>6. Spec => []Services
  BY OfficeSite, SiteTypesOK, OfficeSourcing, SourcingTypesOK, OfficeEmbed, EmbedTypesOK,
     OfficeRenderer, RendererTypesOK, PTL
<1>7. Spec => []Import!TypeOK
  BY OfficeImports, ImportTypes, PTL
<1> HIDE DEF Database, Reads, Interface, Services
<1> QED
  BY <1>2, <1>3, <1>4, <1>5, <1>6, <1>7, PTL
===============================================================================
