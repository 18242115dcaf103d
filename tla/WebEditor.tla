------------------------------- MODULE WebEditor -------------------------------
(***************************************************************************)
(* Rows of a page of the web client, the form in which one of them is      *)
(* edited, and others who edit the same rows.  The server refuses a        *)
(* command whose version is not the row's.  Lists and single rows arrive   *)
(* late, in any order, and while a form is open.                           *)
(*                                                                         *)
(* A row is its version.  A form remembers what it was filled with; what   *)
(* version it sends depends on the page: "users" (AccessManagementPage),   *)
(* "settings" (SlaSettingsPage, one row), "candidate" (RadarPage),         *)
(* "contact" (ContactRegistry), "placement" (PlacementPage and its         *)
(* dialog) and "stage" (App and StageTransitionDialog).  Idempotency keys  *)
(* are WebMutation's.                                                      *)
(***************************************************************************)
EXTENDS Naturals, FiniteSets

CONSTANTS
  Pages,       \* those that are opened
  Items,       \* rows
  None,
  MaxVersion,  \* bound: versions of a row
  MaxFetch     \* bound: lists and single rows that are fetched

EditorAssumption ==
  /\ Pages \subseteq {"users", "settings", "candidate", "contact", "placement", "stage"}
  /\ 1 \in Items /\ MaxVersion \in Nat \ {0} /\ MaxFetch \in Nat
  /\ None \notin [Items -> 1 .. MaxVersion]

VARIABLES
  page,
  row,       \* version of each row at the server
  list,      \* what the page shows, or None before the first list
  selected,
  draft,     \* the form: its row and the version it was filled with, or None
  fetches,   \* lists that are awaited, with their answers
  fetched,   \* number of both so far
  save,      \* the command whose answer is awaited, or None
  single,    \* the single row that is awaited: of a check or an inspection, or None
  unseen     \* history: a command has overwritten what its form did not show

server == <<page, row, unseen>>
client == <<list, selected, draft>>
vars == <<server, client, fetches, fetched, save, single>>

Versions == 1 .. MaxVersion

TypeOK ==
  /\ page \in Pages /\ row \in [Items -> Versions] /\ unseen \in BOOLEAN
  /\ list = None \/ list \in [Items -> Versions]
  /\ selected \in Items
  /\ draft = None \/ draft \in [item : Items, base : Versions]
  /\ draft # None => list # None
  /\ fetched \in 0 .. MaxFetch /\ Cardinality(fetches) <= fetched

Init ==
  /\ page \in Pages /\ row = [i \in Items |-> 1] /\ unseen = FALSE
  /\ list = None /\ selected = 1 /\ draft = None
  /\ fetches = {} /\ fetched = 0 /\ save = None /\ single = None

\* Forms that are part of the page, and are filled again with whatever it shows.
Inline == page \in {"users", "settings", "candidate"}

\* Forms in a dialog in front of the page.
Modal == page \in {"placement", "stage"}

-------------------------------------------------------------------------------
(* What is shown *)

\* Mutant: the form stays as it is when newer rows are shown.
KeepDraft(rows, item) ==
  IF draft = None /\ Inline THEN [item |-> item, base |-> rows[item]] ELSE draft

\* selectUser, applySettings and the effect on a candidate's version fill the form again; an
\* open form of a contact or a dialog stays as it is.
Refill(rows, item) == IF Inline THEN [item |-> item, base |-> rows[item]] ELSE draft

Shows(rows, item) ==
  /\ list' = rows /\ selected' = item
  /\ draft' = Refill(rows, item)

\* load and its variants, by a filter, a poll, a retry, or a command for another row.
Fetch ==
  /\ fetched < MaxFetch
  /\ fetched' = fetched + 1
  /\ fetches' = fetches \cup {[number |-> fetched + 1, rows |-> None]}
  /\ UNCHANGED <<server, client, save, single>>

Read(f) ==
  /\ f \in fetches /\ f.rows = None
  /\ fetches' = (fetches \ {f}) \cup {[f EXCEPT !.rows = row]}
  /\ UNCHANGED <<server, client, fetched, save, single>>

Show(f) ==
  /\ f \in fetches /\ f.rows # None
  /\ fetches' = fetches \ {f}
  /\ Shows(f.rows, selected)
  /\ UNCHANGED <<server, fetched, save, single>>

\* Aborted, or failed.
Drop(f) ==
  /\ f \in fetches
  /\ fetches' = fetches \ {f}
  /\ UNCHANGED <<server, client, fetched, save, single>>

\* runCheck and inspect: their answers hold one row.
RequestRow(item) ==
  /\ page \in {"candidate", "placement"} /\ list # None /\ single = None
  /\ page = "placement" => draft = None
  /\ fetched < MaxFetch /\ fetched' = fetched + 1
  /\ single' = [item |-> item, version |-> None]
  /\ UNCHANGED <<server, client, fetches, save>>

AnswerRow ==
  /\ single # None /\ single.version = None
  /\ single' = [single EXCEPT !.version = row[single.item]]
  /\ UNCHANGED <<server, client, fetches, fetched, save>>

\* updateCandidate selects the candidate.
ReplaceRow ==
  /\ single # None /\ single.version # None
  /\ Shows([list EXCEPT ![single.item] = single.version],
           IF page = "candidate" THEN single.item ELSE selected)
  /\ single' = None
  /\ UNCHANGED <<server, fetches, fetched, save>>

-------------------------------------------------------------------------------
(* The form *)

\* Another contact closes the form of the one that was selected.
Select(item) ==
  /\ list # None /\ item # selected
  /\ page # "settings" /\ (Modal => draft = None)
  /\ selected' = item
  /\ draft' = IF Inline THEN [item |-> item, base |-> list[item]] ELSE None
  /\ UNCHANGED <<server, list, fetches, fetched, save, single>>

Open ==
  /\ list # None /\ draft = None /\ save = None
  /\ draft' = [item |-> selected, base |-> list[selected]]
  /\ UNCHANGED <<server, list, selected, fetches, fetched, save, single>>

Cancel ==
  /\ ~Inline /\ draft # None /\ (Modal => save = None)
  /\ draft' = None
  /\ UNCHANGED <<server, list, selected, fetches, fetched, save, single>>

\* StageTransitionDialog has the task as it was when it was opened; the other forms take the
\* version of the row the page shows now.
SentVersion == IF page = "stage" THEN draft.base ELSE list[draft.item]

Submit ==
  /\ draft # None /\ save = None
  /\ save' = [item |-> draft.item, base |-> draft.base, version |-> SentVersion,
              rows |-> list, answer |-> "awaited"]
  /\ UNCHANGED <<server, client, fetches, fetched, single>>

Accept ==
  /\ save # None /\ save.answer = "awaited"
  /\ save.version = row[save.item] /\ row[save.item] < MaxVersion
  /\ row' = [row EXCEPT ![save.item] = @ + 1]
  /\ unseen' = (unseen \/ save.base # save.version)
  /\ save' = [save EXCEPT !.answer = "saved", !.version = @ + 1]
  /\ UNCHANGED <<page, client, fetches, fetched, single>>

Conflict ==
  /\ save # None /\ save.answer = "awaited"
  /\ save.version # row[save.item]
  /\ save' = [save EXCEPT !.answer = "conflict"]
  /\ UNCHANGED <<server, client, fetches, fetched, single>>

Replaced(rows) == [rows EXCEPT ![save.item] = save.version]

\* save of AccessManagementPage puts the row into the list it had when it was called.
UserSaved == Shows(Replaced(save.rows), save.item)

SettingsSaved == Shows(Replaced(list), save.item)

\* updateCandidate
CandidateSaved == Shows(Replaced(list), save.item)

\* replaceContact, and the form is closed.
ContactSaved == list' = Replaced(list) /\ selected' = save.item /\ draft' = None

PlacementSaved == list' = Replaced(list) /\ draft' = None /\ UNCHANGED selected

StageMoved == list' = Replaced(list) /\ draft' = None /\ UNCHANGED selected

Saved ==
  /\ save # None /\ save.answer = "saved"
  /\ CASE page = "users" -> UserSaved
       [] page = "settings" -> SettingsSaved
       [] page = "candidate" -> CandidateSaved
       [] page = "contact" -> ContactSaved
       [] page = "placement" -> PlacementSaved
       [] page = "stage" -> StageMoved
  /\ save' = None
  /\ UNCHANGED <<server, fetches, fetched, single>>

\* ContactRegistry shows the error; the others reload, a dialog is closed.
Conflicted ==
  /\ save # None /\ save.answer = "conflict"
  /\ draft' = IF Modal THEN None ELSE draft
  /\ IF page # "contact" /\ fetched < MaxFetch
       THEN /\ fetched' = fetched + 1
            /\ fetches' = fetches \cup {[number |-> fetched + 1, rows |-> None]}
       ELSE UNCHANGED <<fetches, fetched>>
  /\ save' = None
  /\ UNCHANGED <<server, list, selected, single>>

\* No answer comes, whether the command was applied or not.
Unanswered ==
  /\ save # None /\ save' = None
  /\ UNCHANGED <<server, client, fetches, fetched, single>>

OthersEdit(item) ==
  /\ row[item] < MaxVersion
  /\ row' = [row EXCEPT ![item] = @ + 1]
  /\ UNCHANGED <<page, unseen, client, fetches, fetched, save, single>>

Next ==
  \/ Fetch \/ \E f \in fetches : Read(f) \/ Show(f) \/ Drop(f)
  \/ \E item \in Items : RequestRow(item) \/ Select(item) \/ OthersEdit(item)
  \/ AnswerRow \/ ReplaceRow
  \/ Open \/ Cancel \/ Submit \/ Accept \/ Conflict \/ Saved \/ Conflicted \/ Unanswered

Spec == Init /\ [][Next]_vars

-------------------------------------------------------------------------------
(* Properties *)

\* docs/adr/0009-contact-registry-lifecycle.md:13, and the notice of every page that a row
\* has been changed by somebody else: a form never overwrites an edit that it did not show.
EditsAreKept == ~unseen
===============================================================================
