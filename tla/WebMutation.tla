------------------------------ MODULE WebMutation ------------------------------
(***************************************************************************)
(* A form of the web client whose command must not be applied twice: its   *)
(* key, the answers that get lost or come late, and the user who sends it  *)
(* again (apps/web/src/lib/idempotency.ts and the pages that use it).      *)
(*                                                                         *)
(* Four kinds of form: "task" and "stage" keep one key with the command it *)
(* is of (mutationKey) and differ in whether they may be closed while the  *)
(* answer is awaited; "radar" keeps a key for each command; "merge" takes  *)
(* one key when it opens.  A command is its content; the server is the     *)
(* idempotency gateway, see PlacementMonitor, and a key does not expire    *)
(* while a form is open.                                                   *)
(***************************************************************************)
EXTENDS Naturals, FiniteSets, Functions

CONSTANTS
  None,
  Contents,     \* what may be typed into the form
  MaxIntent,    \* bound: openings and edits
  MaxRequest    \* bound: requests, which number the keys too

WebAssumption == MaxIntent \in Nat /\ MaxRequest \in Nat

VARIABLES
  form,         \* the kind
  shown,        \* whether it is open
  content,
  intent,       \* history: number of the user's intention, another after each edit
  keys,         \* keys of the commands sent
  waiting,      \* the request whose answer is awaited: busy
  error,        \* a failure is shown
  sent,         \* number of requests sent
  travelling,   \* requests on the way to the server
  records,      \* of the server, by key
  answers,      \* on the way back
  applied       \* history: how often each intention was applied

vars == <<form, shown, content, intent, keys, waiting, error, sent, travelling, records, answers,
          applied>>

Form == {"task", "stage", "radar", "merge"}

Request == [number : 1..MaxRequest, key : 1..MaxRequest, content : Contents, intent : 1..MaxIntent]

TypeOK ==
  /\ form \in Form /\ shown \in BOOLEAN /\ error \in BOOLEAN
  /\ content \in Contents \cup {None} /\ intent \in 0..MaxIntent
  /\ waiting \in Request \cup {None} /\ travelling \subseteq Request
  /\ DOMAIN records \subseteq 1..MaxRequest
  /\ applied \in [1..MaxIntent -> Nat]
  /\ form \in {"task", "stage"} => Cardinality(DOMAIN keys) <= 1

Init ==
  /\ form \in Form
  /\ shown = FALSE /\ content = None /\ intent = 0
  /\ keys = <<>> /\ waiting = None /\ error = FALSE
  /\ sent = 0 /\ travelling = {} /\ records = <<>> /\ answers = {}
  /\ applied = [i \in 1..MaxIntent |-> 0]

network == <<sent, travelling, records, answers, applied>>

\* map with one more key.
Added(map, key, value) == [k \in DOMAIN map \cup {key} |-> IF k = key THEN value ELSE map[k]]

-------------------------------------------------------------------------------
(* The user *)

\* createIdempotencyKey: nobody else has it.
FreshKey == sent + 1

\* openMergeContact takes the key that its command will have, whatever it is.
OpeningKeys == IF form = "merge" THEN [c \in Contents |-> FreshKey] ELSE <<>>

Open ==
  /\ ~shown /\ intent < MaxIntent /\ sent < MaxRequest
  /\ shown' = TRUE /\ intent' = intent + 1 /\ error' = FALSE
  /\ content' \in Contents
  /\ keys' = IF form = "radar" THEN keys ELSE OpeningKeys
  /\ UNCHANGED <<form, waiting, network>>

Edit ==
  /\ shown /\ waiting = None /\ intent < MaxIntent
  /\ content' \in Contents \ {content}
  /\ intent' = intent + 1
  /\ UNCHANGED <<form, shown, keys, waiting, error, network>>

\* mutationKey: the key of the same command, otherwise a new one, which replaces it.
MutationKey ==
  IF content \in DOMAIN keys THEN keys ELSE [c \in {content} |-> FreshKey]

\* The page of the radar has a Map of keys by scope and command.
ScopedKey ==
  IF content \in DOMAIN keys THEN keys ELSE Added(keys, content, FreshKey)

KeysToSend == IF form = "radar" THEN ScopedKey ELSE MutationKey

Submit ==
  /\ shown /\ waiting = None /\ sent < MaxRequest
  /\ keys' = KeysToSend
  /\ sent' = sent + 1
  /\ waiting' = [number |-> sent + 1, key |-> keys'[content], content |-> content,
                 intent |-> intent]
  /\ travelling' = travelling \cup {waiting'}
  /\ error' = FALSE
  /\ UNCHANGED <<form, shown, content, intent, records, answers, applied>>

Close == shown' = FALSE /\ content' = None

\* cancelCompletion and cancelContact do not ask whether an answer is awaited.
Cancel ==
  /\ shown /\ (form = "task" \/ waiting = None)
  /\ Close /\ error' = FALSE
  /\ keys' = IF form = "radar" THEN keys ELSE <<>>
  /\ UNCHANGED <<form, intent, waiting, network>>

-------------------------------------------------------------------------------
(* The answer *)

Answer(result) == [request |-> waiting, result |-> result]

\* The form is closed, whichever is open, and its key forgotten.
Accepted ==
  /\ Answer("accepted") \in answers
  /\ Close /\ error' = FALSE
  /\ keys' = IF form = "radar" THEN Restrict(keys, DOMAIN keys \ {waiting.content}) ELSE <<>>
  /\ answers' = answers \ {Answer("accepted")} /\ waiting' = None
  /\ UNCHANGED <<form, intent, sent, travelling, records, applied>>

\* Mutant: the key goes with the failure.
DropKeys == keys' = <<>>

\* The key outlives the failure.
KeepKeys == keys' = keys

Refused ==
  /\ Answer("refused") \in answers
  /\ error' = shown
  /\ KeepKeys
  /\ answers' = answers \ {Answer("refused")} /\ waiting' = None
  /\ UNCHANGED <<form, shown, content, intent, sent, travelling, records, applied>>

\* A stage that has changed: the form is closed and the page read again.
Conflict ==
  /\ form = "stage" /\ Answer("refused") \in answers
  /\ Close /\ error' = FALSE /\ keys' = <<>>
  /\ answers' = answers \ {Answer("refused")} /\ waiting' = None
  /\ UNCHANGED <<form, intent, sent, travelling, records, applied>>

\* The connection breaks: the request may be lost, or arrive later.
Disconnected ==
  /\ waiting # None
  /\ error' = shown
  /\ KeepKeys
  /\ travelling' \in {travelling, travelling \ {waiting}}
  /\ answers' = {} /\ waiting' = None
  /\ UNCHANGED <<form, shown, content, intent, sent, records, applied>>

-------------------------------------------------------------------------------
(* The server *)

\* An answer nobody awaits is dropped.
Reply(request, result) ==
  answers' = answers \cup IF request = waiting THEN {[request |-> request, result |-> result]} ELSE {}

Arrives(request) ==
  /\ request \in travelling
  /\ travelling' = travelling \ {request}
  /\ \/ /\ request.key \notin DOMAIN records
        /\ records' = Added(records, request.key, [request |-> request, done |-> FALSE])
        /\ UNCHANGED answers
     \/ /\ request.key \in DOMAIN records
        /\ LET record == records[request.key]
           IN  IF record.done /\ record.request.content = request.content
               THEN Reply(request, "accepted") ELSE Reply(request, "refused")
        /\ UNCHANGED records
  /\ UNCHANGED <<form, shown, content, intent, keys, waiting, error, sent, applied>>

Applies(key) ==
  /\ key \in DOMAIN records /\ ~records[key].done
  /\ records' = [records EXCEPT ![key].done = TRUE]
  /\ applied' = [applied EXCEPT ![records[key].request.intent] = @ + 1]
  /\ Reply(records[key].request, "accepted")
  /\ UNCHANGED <<form, shown, content, intent, keys, waiting, error, sent, travelling>>

\* The business transaction fails, or the process dies and releases the key.
Rejects(key) ==
  /\ key \in DOMAIN records /\ ~records[key].done
  /\ records' = Restrict(records, DOMAIN records \ {key})
  /\ Reply(records[key].request, "refused")
  /\ UNCHANGED <<form, shown, content, intent, keys, waiting, error, sent, travelling, applied>>

Next ==
  \/ Open \/ Edit \/ Submit \/ Cancel
  \/ Accepted \/ Refused \/ Conflict \/ Disconnected
  \/ \E request \in travelling : Arrives(request)
  \/ \E key \in DOMAIN records : Applies(key) \/ Rejects(key)

Spec == Init /\ [][Next]_vars

-------------------------------------------------------------------------------
(* Properties *)

\* lib/idempotency.ts: whoever sends an unchanged form again, because the answer failed or
\* got lost, has it applied once, even if the first request arrives after the second.
AppliedOnce == \A i \in 1..MaxIntent : applied[i] <= 1
===============================================================================
