----------------------------- MODULE OfficeProofs -----------------------------
(***************************************************************************)
(* Proofs about the components that Office adds to its parts, those that   *)
(* work on pages, lists and files from outside: an inductive invariant of  *)
(* each, and from it what the component promises.                          *)
(***************************************************************************)
EXTENDS Office, Integers, Sequences, FiniteSetTheorems, SequenceTheorems, WellFoundedInduction,
        TLAPS

-------------------------------------------------------------------------------
(* PageRenderer: one browser, no context left open, an answer for each page.  *)

BrowserStates == {"launching", "running", "closing", "gone", "unavailable"}

RenderTyped ==
  /\ browsers \in Seq(BrowserStates) /\ closings \in Nat
  /\ contexts \subseteq Nat \X Requests
  /\ calls \in [Requests -> Renderer!Calls \cup {None}]
  /\ renderings \in [Requests -> Renderer!Answers \cup {None}]

\* The browser that is shared is that of the last launch, and no other is on.
BrowserIsShared ==
  /\ browserPromise = None => Len(browsers) = closings
  /\ browserPromise # None => browserPromise = Len(browsers) /\ Len(browsers) = closings + 1
  /\ \A n \in DOMAIN browsers : browsers[n] \in {"launching", "running"} =>
       browserPromise # None /\ n = browserPromise

ContextsAreUsed ==
  \A c \in contexts :
    /\ calls[c[2]] # None /\ renderings[c[2]] = None
    /\ calls[c[2]].page # None /\ calls[c[2]].browser = c[1]

Budget(urls) == IF Len(urls) < MaxPages THEN Len(urls) ELSE MaxPages

\* Results and what is left to do are together the first pages of the list.
Progress(results, rest, urls) ==
  /\ Len(results) + Len(rest) = Budget(urls)
  /\ \A i \in 1 .. Len(results) : results[i].url = urls[i]
  /\ \A i \in 1 .. Len(rest) : rest[i] = urls[Len(results) + i]

AnswerTells(c, answer, states) ==
  \/ answer.thrown /\ states[c.browser] = "gone" /\ c.todo # <<>>
  \/ ~answer.thrown /\ answer.results = <<>> /\ states[c.browser] = "unavailable"
  \/ ~answer.thrown /\ answer.results # <<>> /\ c.todo = <<>> /\ answer.results = c.results

CallInv(c, answer, states) ==
  /\ c.browser \in DOMAIN states
  /\ c.page # None => c.todo # <<>> /\ c.page = Head(c.todo)
  /\ answer = None => c.todo # <<>>
  /\ \E urls \in Lists : Progress(c.results, c.todo, urls)
  /\ answer # None => AnswerTells(c, answer, states)

RendererInv ==
  /\ RenderTyped /\ BrowserIsShared /\ ContextsAreUsed
  /\ \A r \in Requests : calls[r] # None => CallInv(calls[r], renderings[r], browsers)

LEMMA RendererConstants ==
  /\ Lists \subseteq Seq(Renderer!Pages) /\ MaxPages \in Nat \ {0}
  /\ None \notin Renderer!Pages /\ None \notin Nat
  /\ None \notin Renderer!Answers /\ None \notin Renderer!Calls
BY OfficeAssumption DEF OfficeAssumption, Renderer!RendererAssumption

\* Browsers that are gone, or never came, stay so: answers stay true.
LEMMA AnswersStay ==
  ASSUME NEW c, NEW answer, NEW states, NEW states2, CallInv(c, answer, states),
         \A n \in DOMAIN states : n \in DOMAIN states2 /\
           (states[n] \in {"gone", "unavailable"} => states2[n] = states[n])
  PROVE  CallInv(c, answer, states2)
BY DEF CallInv, AnswerTells

\* Launches, the end of a browser and its closing, that leave the calls alone.
LEMMA BrowserSteps ==
  ASSUME RendererInv, UNCHANGED <<calls, renderings>>, browsers' \in Seq(BrowserStates),
         closings' \in Nat, contexts' \subseteq contexts, BrowserIsShared',
         \A n \in DOMAIN browsers : n \in DOMAIN browsers' /\
           (browsers[n] \in {"gone", "unavailable"} => browsers'[n] = browsers[n])
  PROVE  RendererInv'
<1>1. RenderTyped'
  BY DEF RendererInv, RenderTyped
<1>2. ContextsAreUsed'
  BY DEF RendererInv, ContextsAreUsed
<1>3. ASSUME NEW r \in Requests, calls[r] # None
      PROVE  CallInv(calls[r], renderings[r], browsers')
  <2>1. CallInv(calls[r], renderings[r], browsers)
    BY <1>3 DEF RendererInv
  <2> QED
    BY <2>1, AnswersStay
<1>4. \A r \in Requests : calls'[r] # None => CallInv(calls'[r], renderings'[r], browsers')
  BY <1>3
<1> QED
  BY <1>1, <1>2, <1>4 DEF RendererInv

LEMMA RendererLaunch ==
  ASSUME RendererInv, NEW launch \in DOMAIN browsers,
         NEW outcome \in {"running", "unavailable"}, Renderer!Launch(launch, outcome)
  PROVE  RendererInv'
<1>1. /\ browsers[launch] = "launching" /\ browsers' = [browsers EXCEPT ![launch] = outcome]
      /\ UNCHANGED <<browserPromise, contexts, calls, renderings, closings>>
  BY DEF Renderer!Launch
<1>2. browsers \in Seq(BrowserStates) /\ closings \in Nat
  BY DEF RendererInv, RenderTyped
<1>3. browsers' \in Seq(BrowserStates) /\ Len(browsers') = Len(browsers)
      /\ DOMAIN browsers' = DOMAIN browsers
  BY <1>1, <1>2 DEF BrowserStates
<1>4. BrowserIsShared'
  BY <1>1, <1>2, <1>3 DEF RendererInv, BrowserIsShared
<1> QED
  BY <1>1, <1>2, <1>3, <1>4, BrowserSteps

LEMMA RendererGone ==
  ASSUME RendererInv, NEW launch \in DOMAIN browsers, Renderer!Gone(launch)
  PROVE  RendererInv'
<1>1. /\ browsers[launch] \in {"running", "closing"}
      /\ browsers' = [browsers EXCEPT ![launch] = "gone"]
      /\ UNCHANGED <<browserPromise, calls, renderings, closings>> /\ contexts' \subseteq contexts
  BY DEF Renderer!Gone, Renderer!Alive
<1>2. browsers \in Seq(BrowserStates) /\ closings \in Nat
  BY DEF RendererInv, RenderTyped
<1>3. browsers' \in Seq(BrowserStates) /\ Len(browsers') = Len(browsers)
      /\ DOMAIN browsers' = DOMAIN browsers
  BY <1>1, <1>2 DEF BrowserStates
<1>4. BrowserIsShared'
  BY <1>1, <1>2, <1>3 DEF RendererInv, BrowserIsShared
<1> QED
  BY <1>1, <1>2, <1>3, <1>4, BrowserSteps

LEMMA RendererClose == ASSUME RendererInv, Renderer!Close PROVE RendererInv'
<1> DEFINE state == IF browsers[browserPromise] = "running" THEN "closing"
                                                           ELSE browsers[browserPromise]
<1>1. /\ browserPromise # None /\ browsers[browserPromise] # "launching"
      /\ browserPromise' = None /\ closings' = closings + 1
      /\ browsers' = [browsers EXCEPT ![browserPromise] = state]
      /\ UNCHANGED <<contexts, calls, renderings>>
  BY DEF Renderer!Close
<1>2. browsers \in Seq(BrowserStates) /\ closings \in Nat
  BY DEF RendererInv, RenderTyped
<1>3. browserPromise = Len(browsers) /\ Len(browsers) = closings + 1
  BY <1>1 DEF RendererInv, BrowserIsShared
<1>4. browserPromise \in DOMAIN browsers
  BY <1>2, <1>3
<1>5. browsers[browserPromise] \in BrowserStates
  BY <1>2, <1>4
<1>6. state \in {"closing", "gone", "unavailable"}
      /\ (browsers[browserPromise] \in {"gone", "unavailable"} => state = browsers[browserPromise])
  BY <1>1, <1>5 DEF BrowserStates
<1> HIDE DEF state
<1>7. browsers' \in Seq(BrowserStates) /\ Len(browsers') = Len(browsers)
      /\ DOMAIN browsers' = DOMAIN browsers
  BY <1>1, <1>2, <1>4, <1>6 DEF BrowserStates
<1>8. BrowserIsShared'
  BY <1>1, <1>2, <1>3, <1>4, <1>6, <1>7 DEF RendererInv, BrowserIsShared
<1> QED
  BY <1>1, <1>2, <1>6, <1>7, <1>8, BrowserSteps

\* A step of one call.
LEMMA CallSteps ==
  ASSUME RendererInv, NEW r \in Requests, NEW next \in Renderer!Calls,
         NEW answer \in Renderer!Answers \cup {None},
         calls' = [calls EXCEPT ![r] = next], renderings' = [renderings EXCEPT ![r] = answer],
         CallInv(next, answer, browsers'), UNCHANGED <<browsers, browserPromise, closings>>,
         contexts' \subseteq Nat \X Requests,
         \A c \in contexts' : c[2] # r => c \in contexts,
         \A c \in contexts' : c[2] = r =>
           answer = None /\ next.page # None /\ next.browser = c[1]
  PROVE  RendererInv'
<1>1. RenderTyped'
  BY DEF RendererInv, RenderTyped
<1>2. BrowserIsShared'
  BY DEF RendererInv, BrowserIsShared
<1>3. ContextsAreUsed'
  <2> SUFFICES ASSUME NEW c \in contexts'
               PROVE  /\ calls'[c[2]] # None /\ renderings'[c[2]] = None
                      /\ calls'[c[2]].page # None /\ calls'[c[2]].browser = c[1]
    BY DEF ContextsAreUsed
  <2>1. c[2] \in Requests
    OBVIOUS
  <2>2. CASE c[2] = r
    BY <2>1, <2>2, RendererConstants DEF RendererInv, RenderTyped
  <2>3. CASE c[2] # r
    BY <2>1, <2>3 DEF RendererInv, RenderTyped, ContextsAreUsed
  <2> QED
    BY <2>2, <2>3
<1>4. \A s \in Requests : calls'[s] # None => CallInv(calls'[s], renderings'[s], browsers')
  BY DEF RendererInv, RenderTyped
<1> QED
  BY <1>1, <1>2, <1>3, <1>4 DEF RendererInv

LEMMA RendererRender ==
  ASSUME RendererInv, NEW r \in Requests, NEW urls \in Lists, Renderer!Render(r, urls)
  PROVE  RendererInv'
<1> DEFINE targets == SubSeq(urls, 1, Budget(urls))
<1>1. urls \in Seq(Renderer!Pages) /\ Len(urls) \in Nat
  BY RendererConstants
<1>2. Budget(urls) \in Nat /\ Budget(urls) <= Len(urls)
  BY <1>1, RendererConstants DEF Budget
<1>3. /\ targets \in Seq(Renderer!Pages) /\ Len(targets) = Budget(urls)
      /\ \A i \in 1 .. Len(targets) : targets[i] = urls[i]
  BY <1>1, <1>2
<1>4. /\ calls[r] = None /\ renderings[r] = None
      /\ UNCHANGED <<contexts, closings>>
      /\ CASE targets = <<>> ->
                 /\ renderings' = [renderings EXCEPT ![r] = Renderer!Answered(<<>>)]
                 /\ UNCHANGED <<browserPromise, browsers, calls>>
           [] targets # <<>> /\ browserPromise # None ->
                 Renderer!Call(r, targets, browserPromise) /\ UNCHANGED <<browserPromise, browsers, renderings>>
           [] OTHER ->
                 /\ browsers' = Append(browsers, "launching")
                 /\ browserPromise' = Len(browsers')
                 /\ Renderer!Call(r, targets, Len(browsers')) /\ UNCHANGED renderings
  BY DEF Renderer!Render, Budget
<1> DEFINE new(launch) == [browser |-> launch, todo |-> targets, page |-> None,
                           verdicts |-> Renderer!Unasked, results |-> <<>>]
<1>5. ASSUME NEW launch \in Nat PROVE new(launch) \in Renderer!Calls
  BY <1>3, RendererConstants DEF Renderer!Calls, Renderer!Unasked, Renderer!Results
<1>6. ASSUME NEW launch \in Nat, NEW states, launch \in DOMAIN states, targets # <<>>
      PROVE  CallInv(new(launch), None, states)
  <2>1. Progress(<<>>, targets, urls)
    BY <1>2, <1>3 DEF Progress
  <2> QED
    BY <1>6, <2>1 DEF CallInv
<1> HIDE DEF targets
<1>7. browsers \in Seq(BrowserStates) /\ closings \in Nat
  BY DEF RendererInv, RenderTyped
<1>8. \A c \in contexts : c[2] # r /\ c[2] \in Requests
  BY <1>4 DEF RendererInv, RenderTyped, ContextsAreUsed
<1>9. CASE targets = <<>>
  <2>1. /\ renderings' = [renderings EXCEPT ![r] = Renderer!Answered(<<>>)]
        /\ UNCHANGED <<browserPromise, browsers, calls>>
    BY <1>4, <1>9
  <2>2. Renderer!Answered(<<>>) \in Renderer!Answers
    BY DEF Renderer!Answered, Renderer!Answers, Renderer!Results
  <2>3. RenderTyped'
    BY <1>4, <2>1, <2>2 DEF RendererInv, RenderTyped
  <2>4. BrowserIsShared'
    BY <1>4, <2>1 DEF RendererInv, BrowserIsShared
  <2>5. ContextsAreUsed'
    BY <1>4, <1>8, <2>1 DEF RendererInv, ContextsAreUsed, RenderTyped
  <2>6. \A s \in Requests : calls'[s] # None => CallInv(calls'[s], renderings'[s], browsers')
    BY <1>4, <2>1 DEF RendererInv, RenderTyped
  <2> QED
    BY <2>3, <2>4, <2>5, <2>6 DEF RendererInv
<1>10. CASE targets # <<>> /\ browserPromise # None
  <2>1. /\ calls' = [calls EXCEPT ![r] = new(browserPromise)]
        /\ UNCHANGED <<browserPromise, browsers, renderings, contexts, closings>>
    BY <1>4, <1>10 DEF Renderer!Call
  <2>2. browserPromise \in Nat /\ browserPromise \in DOMAIN browsers
    BY <1>7, <1>10 DEF RendererInv, BrowserIsShared
  <2>3. new(browserPromise) \in Renderer!Calls /\ CallInv(new(browserPromise), None, browsers')
    BY <1>5, <1>6, <1>10, <2>1, <2>2
  <2> HIDE DEF new
  <2>4. renderings' = [renderings EXCEPT ![r] = None]
    BY <1>4, <2>1 DEF RendererInv, RenderTyped
  <2>5. contexts' \subseteq Nat \X Requests /\ contexts' = contexts
    BY <2>1 DEF RendererInv, RenderTyped
  <2> QED
    BY <1>8, <2>1, <2>3, <2>4, <2>5, CallSteps
<1>11. CASE targets # <<>> /\ browserPromise = None
  <2> DEFINE last == Len(browsers) + 1
  <2>1. /\ browsers' = Append(browsers, "launching") /\ browserPromise' = Len(browsers')
        /\ calls' = [calls EXCEPT ![r] = new(Len(browsers'))]
        /\ UNCHANGED <<renderings, contexts, closings>>
    BY <1>4, <1>11 DEF Renderer!Call
  <2>2. /\ browsers' \in Seq(BrowserStates) /\ Len(browsers') = last
        /\ DOMAIN browsers' = 1 .. last
        /\ \A n \in DOMAIN browsers : n \in DOMAIN browsers' /\ browsers'[n] = browsers[n]
    BY <1>7, <2>1 DEF BrowserStates
  <2>3. new(last) \in Renderer!Calls /\ CallInv(new(last), None, browsers')
    <3>1. last \in Nat /\ last \in 1 .. last
      BY <1>7
    <3> QED
      BY <1>5, <1>6, <1>11, <2>2, <3>1
  <2>4. calls' = [calls EXCEPT ![r] = new(last)]
    BY <2>1, <2>2
  <2> HIDE DEF new
  <2>5. RenderTyped'
    BY <2>1, <2>2, <2>3, <2>4 DEF RendererInv, RenderTyped
  <2>6. BrowserIsShared'
    <3>1. Len(browsers) = closings
      BY <1>11 DEF RendererInv, BrowserIsShared
    <3>2. browserPromise' = Len(browsers') /\ Len(browsers') = closings' + 1 /\ browserPromise' # None
      BY <1>7, <2>1, <2>2, <3>1, RendererConstants
    <3>3. ASSUME NEW n \in DOMAIN browsers', browsers'[n] \in {"launching", "running"}
          PROVE  n = browserPromise'
      <4>1. CASE n \in DOMAIN browsers
        BY <1>11, <2>2, <3>3, <4>1 DEF RendererInv, BrowserIsShared
      <4>2. CASE n \notin DOMAIN browsers
        BY <1>7, <2>1, <2>2, <4>2
      <4> QED
        BY <4>1, <4>2
    <3> QED
      BY <3>2, <3>3, RendererConstants DEF BrowserIsShared
  <2>7. ContextsAreUsed'
    BY <1>8, <2>1, <2>4 DEF RendererInv, ContextsAreUsed, RenderTyped
  <2>8. ASSUME NEW s \in Requests, calls'[s] # None
        PROVE  CallInv(calls'[s], renderings'[s], browsers')
    <3>1. CASE s = r
      <4>1. calls'[s] = new(last) /\ renderings'[s] = None
        BY <1>4, <2>1, <2>4, <3>1 DEF RendererInv, RenderTyped
      <4> QED
        BY <4>1, <2>3
    <3>2. CASE s # r
      <4>1. calls'[s] = calls[s] /\ renderings'[s] = renderings[s]
        BY <2>1, <2>4, <3>2 DEF RendererInv, RenderTyped
      <4>2. CallInv(calls[s], renderings[s], browsers)
        BY <2>8, <4>1 DEF RendererInv
      <4> QED
        BY <2>2, <4>1, <4>2, AnswersStay
    <3> QED
      BY <3>1, <3>2
  <2> QED
    BY <2>5, <2>6, <2>7, <2>8 DEF RendererInv
<1> QED
  BY <1>9, <1>10, <1>11

\* What a call that goes on has promised so far.
LEMMA CallOf ==
  ASSUME RendererInv, NEW r \in Requests, Renderer!Rendering(r)
  PROVE  /\ calls[r] \in Renderer!Calls /\ renderings[r] = None
         /\ CallInv(calls[r], None, browsers)
         /\ calls[r].todo \in Seq(Renderer!Pages) /\ calls[r].todo # <<>>
         /\ calls[r].browser \in DOMAIN browsers
BY DEF RendererInv, RenderTyped, Renderer!Rendering, CallInv, Renderer!Calls

LEMMA RendererNewContext ==
  ASSUME RendererInv, NEW r \in Requests, Renderer!NewContext(r) PROVE RendererInv'
<1> DEFINE c == calls[r]
           next == [c EXCEPT !.page = Head(c.todo), !.verdicts = Renderer!Unasked]
<1>1. /\ Renderer!Rendering(r) /\ c.page = None
      /\ UNCHANGED <<browserPromise, browsers, closings>>
      /\ CASE browsers[c.browser] = "unavailable" ->
                 /\ renderings' = [renderings EXCEPT ![r] = Renderer!Answered(<<>>)]
                 /\ UNCHANGED <<contexts, calls>>
           [] browsers[c.browser] = "gone" ->
                 /\ renderings' = [renderings EXCEPT ![r] = Renderer!Thrown]
                 /\ UNCHANGED <<contexts, calls>>
           [] OTHER ->
                 /\ contexts' = contexts \cup {<<c.browser, r>>}
                 /\ calls' = [calls EXCEPT ![r].page = Head(c.todo), ![r].verdicts = Renderer!Unasked]
                 /\ UNCHANGED renderings
  BY DEF Renderer!NewContext, Renderer!Answer
<1>2. /\ c \in Renderer!Calls /\ renderings[r] = None /\ CallInv(c, None, browsers)
      /\ c.todo \in Seq(Renderer!Pages) /\ c.todo # <<>> /\ c.browser \in DOMAIN browsers
  BY <1>1, CallOf
<1>3. /\ browsers \in Seq(BrowserStates) /\ calls \in [Requests -> Renderer!Calls \cup {None}]
      /\ renderings \in [Requests -> Renderer!Answers \cup {None}] /\ contexts \subseteq Nat \X Requests
  BY DEF RendererInv, RenderTyped
<1>4. \A d \in contexts : d[2] = r => FALSE
  BY <1>1 DEF RendererInv, ContextsAreUsed
<1>5. ASSUME NEW answer \in Renderer!Answers, renderings' = [renderings EXCEPT ![r] = answer],
             UNCHANGED <<contexts, calls>>, AnswerTells(c, answer, browsers)
      PROVE  RendererInv'
  <2>1. CallInv(c, answer, browsers)
    BY <1>2, <1>5, RendererConstants DEF CallInv
  <2>2. calls' = [calls EXCEPT ![r] = c]
    BY <1>3, <1>5
  <2> HIDE DEF c
  <2> QED
    BY <1>1, <1>2, <1>3, <1>4, <1>5, <2>1, <2>2, CallSteps
<1>6. CASE browsers[c.browser] = "unavailable"
  <2>1. /\ renderings' = [renderings EXCEPT ![r] = Renderer!Answered(<<>>)]
        /\ UNCHANGED <<contexts, calls>>
    BY <1>1, <1>6
  <2>2. /\ Renderer!Answered(<<>>) \in Renderer!Answers
        /\ AnswerTells(c, Renderer!Answered(<<>>), browsers)
    BY <1>6 DEF Renderer!Answered, Renderer!Answers, Renderer!Results, AnswerTells
  <2> QED
    BY <1>5, <2>1, <2>2
<1>7. CASE browsers[c.browser] = "gone"
  <2>1. /\ renderings' = [renderings EXCEPT ![r] = Renderer!Thrown]
        /\ UNCHANGED <<contexts, calls>>
    BY <1>1, <1>7
  <2>2. /\ Renderer!Thrown \in Renderer!Answers
        /\ AnswerTells(c, Renderer!Thrown, browsers)
    BY <1>2, <1>7 DEF Renderer!Thrown, Renderer!Answers, Renderer!Results, AnswerTells
  <2> QED
    BY <1>5, <2>1, <2>2
<1>8. CASE browsers[c.browser] \notin {"gone", "unavailable"}
  <2>1. /\ contexts' = contexts \cup {<<c.browser, r>>}
        /\ calls' = [calls EXCEPT ![r].page = Head(c.todo), ![r].verdicts = Renderer!Unasked]
        /\ UNCHANGED renderings
    BY <1>1, <1>8
  <2>2. calls' = [calls EXCEPT ![r] = next]
    BY <1>2, <1>3, <2>1 DEF Renderer!Calls
  <2>3. Head(c.todo) \in Renderer!Pages
    BY <1>2
  <2>4. Renderer!Unasked \in [RenderedHosts -> {None, "continue", "abort"}]
    BY DEF Renderer!Unasked
  <2>5. next \in Renderer!Calls
    BY <1>2, <2>3, <2>4 DEF Renderer!Calls
  <2>6. /\ next.browser = c.browser /\ next.todo = c.todo /\ next.page = Head(c.todo)
        /\ next.results = c.results
    BY <1>2 DEF Renderer!Calls
  <2> HIDE DEF next
  <2>7. CallInv(next, None, browsers)
    BY <1>2, <2>6 DEF CallInv
  <2>8. next.page # None
    BY <2>3, <2>6, RendererConstants
  <2>9. c.browser \in Nat
    BY <1>2 DEF Renderer!Calls
  <2>10. renderings' = [renderings EXCEPT ![r] = None]
    BY <1>2, <1>3, <2>1
  <2>11. /\ \A d \in contexts' : d[2] # r => d \in contexts
         /\ \A d \in contexts' : d[2] = r => None = None /\ next.page # None /\ next.browser = d[1]
    BY <1>4, <2>1, <2>6, <2>8
  <2>12. contexts' \subseteq Nat \X Requests
    BY <1>3, <2>1, <2>9
  <2>13. CallInv(next, None, browsers') /\ UNCHANGED <<browsers, browserPromise, closings>>
    BY <1>1, <2>7
  <2> HIDE DEF c
  <2>14. PICK answer \in Renderer!Answers \cup {None} : answer = None
    OBVIOUS
  <2>15. /\ renderings' = [renderings EXCEPT ![r] = answer] /\ CallInv(next, answer, browsers')
         /\ \A d \in contexts' : d[2] = r => answer = None /\ next.page # None /\ next.browser = d[1]
    BY <2>10, <2>11, <2>13, <2>14
  <2> QED
    BY <2>2, <2>5, <2>11, <2>12, <2>13, <2>15, CallSteps
<1> QED
  BY <1>6, <1>7, <1>8

LEMMA RendererVet ==
  ASSUME RendererInv, NEW r \in Requests, NEW h \in RenderedHosts, NEW resolved \in BOOLEAN,
         Renderer!VetRequest(r, h, resolved)
  PROVE  RendererInv'
<1> DEFINE c == calls[r]
           judged == IF resolved /\ h \notin Blocked THEN "continue" ELSE "abort"
           next == [c EXCEPT !.verdicts = [c.verdicts EXCEPT ![h] = judged]]
<1>1. /\ Renderer!Rendering(r) /\ c.page # None
      /\ calls' = [calls EXCEPT ![r].verdicts[h] = judged]
      /\ UNCHANGED <<browserPromise, browsers, contexts, renderings, closings>>
  BY DEF Renderer!VetRequest
<1>2. c \in Renderer!Calls /\ renderings[r] = None /\ CallInv(c, None, browsers)
  BY <1>1, CallOf
<1>3. /\ calls \in [Requests -> Renderer!Calls \cup {None}]
      /\ renderings \in [Requests -> Renderer!Answers \cup {None}] /\ contexts \subseteq Nat \X Requests
  BY DEF RendererInv, RenderTyped
<1>4. calls' = [calls EXCEPT ![r] = next]
  BY <1>1, <1>2, <1>3 DEF Renderer!Calls
<1>5. next \in Renderer!Calls
  BY <1>2 DEF Renderer!Calls
<1>6. /\ next.browser = c.browser /\ next.todo = c.todo /\ next.page = c.page
      /\ next.results = c.results
  BY <1>2 DEF Renderer!Calls
<1> HIDE DEF next
<1>7. CallInv(next, None, browsers)
  BY <1>2, <1>6 DEF CallInv
<1>8. renderings' = [renderings EXCEPT ![r] = None]
  BY <1>1, <1>2, <1>3
<1>9. /\ \A d \in contexts' : d[2] # r => d \in contexts
      /\ \A d \in contexts' : d[2] = r => None = None /\ next.page # None /\ next.browser = d[1]
      /\ contexts' \subseteq Nat \X Requests
  BY <1>1, <1>3, <1>6 DEF RendererInv, ContextsAreUsed
<1>10. CallInv(next, None, browsers') /\ UNCHANGED <<browsers, browserPromise, closings>>
  BY <1>1, <1>7
<1> HIDE DEF c
<1>11. PICK answer \in Renderer!Answers \cup {None} : answer = None
  OBVIOUS
<1>12. /\ renderings' = [renderings EXCEPT ![r] = answer] /\ CallInv(next, answer, browsers')
       /\ \A d \in contexts' : d[2] = r => answer = None /\ next.page # None /\ next.browser = d[1]
  BY <1>8, <1>9, <1>10, <1>11
<1> QED
  BY <1>4, <1>5, <1>9, <1>10, <1>12, CallSteps

\* A page that is finished goes from the head of what is left to the end of the results.
LEMMA PageIsDone ==
  ASSUME NEW c \in Renderer!Calls, NEW urls \in Lists, NEW ok \in BOOLEAN,
         c.todo # <<>>, c.page = Head(c.todo), Progress(c.results, c.todo, urls)
  PROVE  Progress(Append(c.results, Renderer!Result(c.page, ok)), Tail(c.todo), urls)
<1> DEFINE result == Renderer!Result(c.page, ok)
           m == Len(c.results)
           n == Len(c.todo)
<1>1. /\ c.results \in Renderer!Results /\ c.todo \in Seq(Renderer!Pages)
  BY DEF Renderer!Calls
<1>2. c.page \in Renderer!Pages /\ c.page = c.todo[1]
  BY <1>1
<1>3. result \in [url : Renderer!Pages, ok : BOOLEAN] /\ result.url = c.page
  BY <1>2 DEF Renderer!Result
<1> HIDE DEF result
<1>4. /\ Len(Append(c.results, result)) = m + 1
      /\ \A i \in 1 .. m : Append(c.results, result)[i] = c.results[i]
      /\ Append(c.results, result)[m + 1] = result
      /\ m \in Nat
  BY <1>1, <1>3 DEF Renderer!Results
<1>5. /\ Len(Tail(c.todo)) = n - 1 /\ n \in Nat \ {0}
      /\ \A i \in 1 .. n - 1 : Tail(c.todo)[i] = c.todo[i + 1]
  BY <1>1
<1>p. /\ m + n = Budget(urls)
      /\ \A i \in 1 .. m : c.results[i].url = urls[i]
      /\ \A i \in 1 .. n : c.todo[i] = urls[m + i]
  BY DEF Progress
<1> HIDE DEF m, n
<1>6. c.todo[1] = urls[m + 1]
  BY <1>4, <1>5, <1>p
<1>7. m + 1 + (n - 1) = Budget(urls)
  <2>1. m + 1 + (n - 1) = m + n
    BY <1>4, <1>5
  <2> QED
    BY <2>1, <1>p
<1>8. \A i \in 1 .. m + 1 : Append(c.results, result)[i].url = urls[i]
  <2> SUFFICES ASSUME NEW i \in 1 .. m + 1 PROVE Append(c.results, result)[i].url = urls[i]
    OBVIOUS
  <2>1. CASE i = m + 1
    BY <1>2, <1>3, <1>4, <1>6, <2>1
  <2>2. CASE i \in 1 .. m
    BY <1>4, <1>p, <2>2
  <2> QED
    BY <1>4, <2>1, <2>2
<1>9. \A i \in 1 .. n - 1 : Tail(c.todo)[i] = urls[m + 1 + i]
  <2> SUFFICES ASSUME NEW i \in 1 .. n - 1 PROVE Tail(c.todo)[i] = urls[m + 1 + i]
    OBVIOUS
  <2>1. i + 1 \in 1 .. n /\ m + (i + 1) = m + 1 + i
    <3>1. m \in Nat /\ n \in Nat
      BY <1>4, <1>5
    <3> QED
      BY <3>1
  <2>2. c.todo[i + 1] = urls[m + (i + 1)]
    BY <1>p, <2>1
  <2> QED
    BY <1>5, <2>1, <2>2
<1>10. Progress(Append(c.results, result), Tail(c.todo), urls)
  BY <1>4, <1>5, <1>7, <1>8, <1>9 DEF Progress
<1> QED
  BY <1>10 DEF result

LEMMA RendererFinish ==
  ASSUME RendererInv, NEW r \in Requests, NEW ok \in BOOLEAN, Renderer!FinishPage(r, ok)
  PROVE  RendererInv'
<1> DEFINE c == calls[r]
           results == Append(c.results, Renderer!Result(c.page, ok))
           next == [c EXCEPT !.page = None, !.todo = Tail(c.todo), !.results = results]
           answer == IF Len(c.todo) = 1 THEN Renderer!Answered(results) ELSE None
<1>1. /\ Renderer!Rendering(r) /\ c.page # None
      /\ contexts' = contexts \ {<<c.browser, r>>}
      /\ calls' = [calls EXCEPT ![r].page = None, ![r].todo = Tail(@), ![r].results = results]
      /\ IF Len(c.todo) = 1 THEN renderings' = [renderings EXCEPT ![r] = Renderer!Answered(results)]
                            ELSE UNCHANGED renderings
      /\ UNCHANGED <<browserPromise, browsers, closings>>
  BY DEF Renderer!FinishPage, Renderer!Answer
<1>2. /\ c \in Renderer!Calls /\ renderings[r] = None /\ CallInv(c, None, browsers)
      /\ c.todo \in Seq(Renderer!Pages) /\ c.todo # <<>> /\ c.browser \in DOMAIN browsers
  BY <1>1, CallOf
<1>3. /\ calls \in [Requests -> Renderer!Calls \cup {None}]
      /\ renderings \in [Requests -> Renderer!Answers \cup {None}] /\ contexts \subseteq Nat \X Requests
  BY DEF RendererInv, RenderTyped
<1>4. c.page = Head(c.todo) /\ c.page \in Renderer!Pages
  BY <1>1, <1>2 DEF CallInv
<1>5. results \in Renderer!Results /\ results # <<>>
  <2>1. Renderer!Result(c.page, ok) \in [url : Renderer!Pages, ok : BOOLEAN]
    BY <1>4 DEF Renderer!Result
  <2>2. c.results \in Renderer!Results
    BY <1>2 DEF Renderer!Calls
  <2> QED
    BY <2>1, <2>2 DEF Renderer!Results
<1>6. Tail(c.todo) \in Seq(Renderer!Pages)
  BY <1>2
<1>7. PICK urls \in Lists : Progress(c.results, c.todo, urls)
  BY <1>2 DEF CallInv
<1>8. Progress(results, Tail(c.todo), urls)
  BY <1>1, <1>2, <1>4, <1>7, PageIsDone
<1> HIDE DEF results
<1>9. calls' = [calls EXCEPT ![r] = next]
  BY <1>1, <1>2, <1>3 DEF Renderer!Calls
<1>10. next \in Renderer!Calls
  BY <1>2, <1>5, <1>6 DEF Renderer!Calls
<1>11. /\ next.browser = c.browser /\ next.todo = Tail(c.todo) /\ next.page = None
       /\ next.results = results
  BY <1>2 DEF Renderer!Calls
<1> HIDE DEF next
<1>12. answer \in Renderer!Answers \cup {None}
  BY <1>5 DEF Renderer!Answered, Renderer!Answers
<1>13. renderings' = [renderings EXCEPT ![r] = answer]
  BY <1>1, <1>2, <1>3
<1>14. CallInv(next, answer, browsers)
  <2>0. Len(c.todo) \in Nat /\ (Tail(c.todo) = <<>> <=> Len(c.todo) = 1)
    <3> DEFINE rest == Tail(c.todo)
    <3>1. Len(rest) = Len(c.todo) - 1 /\ Len(c.todo) \in Nat
      BY <1>2
    <3>2. (rest # <<>> => Len(rest) \in Nat \ {0}) /\ Len(<<>>) = 0
      BY <1>6, EmptySeq
    <3> HIDE DEF rest
    <3>3. ASSUME rest = <<>> PROVE Len(c.todo) = 1
      <4>1. Len(rest) = 0
        BY <3>2, <3>3
      <4> QED
        BY <3>1, <4>1
    <3>4. ASSUME rest # <<>> PROVE Len(c.todo) # 1
      <4>1. Len(rest) # 0
        BY <3>2, <3>4
      <4> QED
        BY <3>1, <4>1
    <3> QED
      BY <3>1, <3>3, <3>4 DEF rest
  <2>1. answer = None => Tail(c.todo) # <<>>
    <3>1. Renderer!Answered(results) \in Renderer!Answers
      BY <1>5 DEF Renderer!Answered, Renderer!Answers
    <3> QED
      BY <2>0, <3>1, RendererConstants
  <2>2. answer # None => AnswerTells(next, answer, browsers)
    BY <1>5, <1>11, <2>0 DEF AnswerTells, Renderer!Answered
  <2> QED
    BY <1>2, <1>8, <1>11, <2>1, <2>2 DEF CallInv
<1> HIDE DEF answer
<1>15. contexts' \subseteq Nat \X Requests
       /\ \A d \in contexts' : d \in contexts /\ d[2] # r
  <2>1. \A d \in contexts : d[2] = r => d = <<c.browser, r>>
    <3> SUFFICES ASSUME NEW d \in contexts, d[2] = r PROVE d = <<c.browser, r>>
      OBVIOUS
    <3>1. d \in Nat \X Requests /\ c.browser = d[1]
      BY <1>3 DEF RendererInv, ContextsAreUsed
    <3> QED
      BY <3>1
  <2> QED
    BY <1>1, <1>3, <2>1
<1> QED
  BY <1>1, <1>9, <1>10, <1>12, <1>13, <1>14, <1>15, CallSteps

LEMMA RendererInductive == RendererInv /\ [Renderer!Next]_(Renderer!vars) => RendererInv'
<1> SUFFICES ASSUME RendererInv, [Renderer!Next]_(Renderer!vars) PROVE RendererInv'
  OBVIOUS
<1>1. CASE UNCHANGED Renderer!vars
  BY <1>1 DEF Renderer!vars, RendererInv, RenderTyped, BrowserIsShared, ContextsAreUsed
<1>2. CASE Renderer!Next
  BY <1>2, RendererRender, RendererNewContext, RendererVet, RendererFinish, RendererLaunch,
     RendererGone, RendererClose DEF Renderer!Next
<1> QED
  BY <1>1, <1>2

RendersAreSafe == Renderer!OneBrowser /\ Renderer!NoContextIsLeft /\ Renderer!EveryPageIsAnswered

LEMMA RendererCardinality == \A S : Renderer!Cardinality(S) = Cardinality(S)
BY DEF Renderer!Cardinality, Cardinality

\* Renders that overlap share one browser, which only its closing replaces; no context stays
\* open but that of the page which is rendered; and a render answers for each of its pages,
\* in their order, unless its browser is gone or never came.
THEOREM RendersShareABrowser == Renderer!Spec => []RendersAreSafe
<1>1. Renderer!Init => RendererInv
  BY DEF Renderer!Init, RendererInv, RenderTyped, BrowserIsShared, ContextsAreUsed
<1>2. RendererInv => RendersAreSafe
  <2> SUFFICES ASSUME RendererInv PROVE RendersAreSafe
    OBVIOUS
  <2>1. Renderer!OneBrowser
    <3> DEFINE on == {n \in DOMAIN browsers : browsers[n] \in {"launching", "running"}}
    <3>1. on \subseteq {browserPromise}
      BY DEF RendererInv, BrowserIsShared
    <3>2. IsFiniteSet({browserPromise}) /\ Cardinality({browserPromise}) = 1
      BY FS_Singleton
    <3>3. Cardinality(on) <= 1
      BY <3>1, <3>2, FS_Subset
    <3>4. Len(browsers) <= 1 + closings
      BY DEF RendererInv, RenderTyped, BrowserIsShared
    <3> QED
      BY <3>3, <3>4, RendererCardinality DEF Renderer!OneBrowser
  <2>2. Renderer!NoContextIsLeft
    BY DEF RendererInv, ContextsAreUsed, Renderer!NoContextIsLeft, Renderer!Rendering
  <2>3. Renderer!EveryPageIsAnswered
    <3> SUFFICES ASSUME NEW r \in Requests, renderings[r] # None, calls[r] # None
                 PROVE  LET c == calls[r]
                            results == renderings[r].results
                        IN  CASE renderings[r].thrown -> browsers[c.browser] = "gone" /\ c.todo # <<>>
                              [] ~renderings[r].thrown /\ results = <<>> ->
                                   browsers[c.browser] = "unavailable"
                              [] OTHER ->
                                   /\ c.todo = <<>> /\ Len(results) <= MaxPages
                                   /\ \E urls \in Lists :
                                        /\ Len(results) <= Len(urls)
                                        /\ \A i \in DOMAIN results : results[i].url = urls[i]
      BY DEF Renderer!EveryPageIsAnswered
    <3> DEFINE c == calls[r]
               results == renderings[r].results
    <3>1. CallInv(c, renderings[r], browsers) /\ c \in Renderer!Calls
          /\ renderings[r] \in Renderer!Answers
      BY DEF RendererInv, RenderTyped
    <3>2. AnswerTells(c, renderings[r], browsers)
      BY <3>1 DEF CallInv
    <3>3. CASE ~renderings[r].thrown /\ results # <<>>
      <4>1. c.todo = <<>> /\ results = c.results
        BY <3>2, <3>3 DEF AnswerTells
      <4>2. PICK urls \in Lists : Progress(c.results, c.todo, urls)
        BY <3>1 DEF CallInv
      <4>3. results \in Renderer!Results /\ Len(results) \in Nat
            /\ DOMAIN results = 1 .. Len(results)
        BY <3>1 DEF Renderer!Answers, Renderer!Results
      <4> HIDE DEF results
      <4>4. urls \in Seq(Renderer!Pages)
        BY RendererConstants
      <4>5. Len(results) <= Len(urls) /\ Len(results) <= MaxPages
        BY <4>1, <4>2, <4>3, <4>4, RendererConstants DEF Progress, Budget
      <4>6. \A i \in 1 .. Len(results) : results[i].url = urls[i]
        BY <4>1, <4>2, <4>3 DEF Progress
      <4> QED
        BY <3>3, <4>1, <4>3, <4>5, <4>6 DEF results
    <3> QED
      BY <3>2, <3>3 DEF AnswerTells
  <2> QED
    BY <2>1, <2>2, <2>3 DEF RendersAreSafe
<1> QED
  BY <1>1, <1>2, RendererInductive, PTL DEF Renderer!Spec

LEMMA LaunchesAreFew ==
  RendererInv /\ Len(browsers) <= MaxLaunches /\ [Renderer!Next]_(Renderer!vars)
    => Len(browsers') <= MaxLaunches
<1> SUFFICES ASSUME RendererInv, Len(browsers) <= MaxLaunches, [Renderer!Next]_(Renderer!vars)
             PROVE  Len(browsers') <= MaxLaunches
  OBVIOUS
<1>1. browsers \in Seq(BrowserStates) /\ MaxLaunches \in Nat
  BY OfficeAssumption DEF OfficeAssumption, Renderer!RendererAssumption, RendererInv, RenderTyped
<1>2. ASSUME NEW r \in Requests, NEW urls \in Lists, Renderer!Render(r, urls), UNCHANGED browsers
      PROVE  Len(browsers') <= MaxLaunches
  BY <1>2
<1>3. ASSUME NEW r \in Requests, NEW urls \in Lists, Renderer!Render(r, urls), browsers' # browsers
      PROVE  Len(browsers') <= MaxLaunches
  <2>1. Len(browsers) < MaxLaunches /\ browsers' = Append(browsers, "launching")
    BY <1>3 DEF Renderer!Render
  <2>2. Len(browsers') = Len(browsers) + 1 /\ Len(browsers) \in Nat
    BY <1>1, <2>1 DEF BrowserStates
  <2> QED
    BY <1>1, <2>1, <2>2
<1>4. ASSUME NEW n, NEW state, browsers' = [browsers EXCEPT ![n] = state]
      PROVE  Len(browsers') <= MaxLaunches
  <2>1. Len(browsers') = Len(browsers)
    BY <1>1, <1>4
  <2> QED
    BY <2>1
<1>5. CASE UNCHANGED browsers
  BY <1>5
<1>6. CASE browsers' # browsers
  <2>1. CASE Renderer!Close
    <3>1. PICK state : browsers' = [browsers EXCEPT ![browserPromise] = state]
      BY <2>1 DEF Renderer!Close
    <3> QED
      BY <3>1, <1>4
  <2>2. ASSUME NEW launch \in DOMAIN browsers,
               \/ \E outcome \in {"running", "unavailable"} : Renderer!Launch(launch, outcome)
               \/ Renderer!Gone(launch)
        PROVE  Len(browsers') <= MaxLaunches
    <3>1. PICK state : browsers' = [browsers EXCEPT ![launch] = state]
      BY <2>2 DEF Renderer!Launch, Renderer!Gone
    <3> QED
      BY <3>1, <1>4
  <2> QED
    BY <1>3, <1>6, <2>1, <2>2
    DEF Renderer!Next, Renderer!vars, Renderer!NewContext, Renderer!VetRequest, Renderer!FinishPage
<1> QED
  BY <1>5, <1>6

LEMMA RendererIsTyped == RendererInv /\ Len(browsers) <= MaxLaunches => Renderer!TypeOK
<1> SUFFICES ASSUME RendererInv, Len(browsers) <= MaxLaunches PROVE Renderer!TypeOK
  OBVIOUS
<1>1. /\ browsers \in Seq(BrowserStates) /\ closings \in Nat
      /\ contexts \subseteq Nat \X Requests
      /\ calls \in [Requests -> Renderer!Calls \cup {None}]
      /\ renderings \in [Requests -> Renderer!Answers \cup {None}]
  BY DEF RendererInv, RenderTyped
<1>2. DOMAIN browsers = 1 .. Len(browsers) /\ Len(browsers) \in Nat
      /\ \A n \in DOMAIN browsers : browsers[n] \in BrowserStates
  BY <1>1
<1>3. browserPromise \in (DOMAIN browsers) \cup {None}
  <2>1. browserPromise # None => browserPromise = Len(browsers) /\ Len(browsers) = closings + 1
    BY DEF RendererInv, BrowserIsShared
  <2> DEFINE n == Len(browsers)
  <2>2. n \in Nat /\ DOMAIN browsers = 1 .. n
    BY <1>2
  <2>3. browserPromise # None => browserPromise = n /\ n = closings + 1
    BY <2>1
  <2> HIDE DEF n
  <2>4. n = closings + 1 => n \in 1 .. n
    BY <1>1, <2>2
  <2> QED
    BY <2>2, <2>3, <2>4
<1>4. ASSUME NEW r \in Requests, calls[r] # None
      PROVE  /\ calls[r].browser \in DOMAIN browsers
             /\ Len(calls[r].results) + Len(calls[r].todo) <= MaxPages
  <2>1. CallInv(calls[r], renderings[r], browsers)
    BY <1>4 DEF RendererInv
  <2>2. PICK urls \in Lists : Len(calls[r].results) + Len(calls[r].todo) = Budget(urls)
    BY <2>1 DEF CallInv, Progress
  <2>3. Budget(urls) <= MaxPages
    BY RendererConstants DEF Budget
  <2> QED
    BY <2>1, <2>2, <2>3 DEF CallInv
<1>5. contexts \subseteq (DOMAIN browsers) \X Requests
  <2> SUFFICES ASSUME NEW c \in contexts PROVE c \in (DOMAIN browsers) \X Requests
    OBVIOUS
  <2>1. c \in Nat \X Requests /\ calls[c[2]] # None /\ calls[c[2]].browser = c[1]
    BY <1>1 DEF RendererInv, ContextsAreUsed
  <2>2. c[1] \in DOMAIN browsers
    BY <1>4, <2>1
  <2> QED
    BY <2>1, <2>2
<1> QED
  BY <1>1, <1>2, <1>3, <1>4, <1>5 DEF Renderer!TypeOK, BrowserStates

LEMMA RendererTypesOK == Renderer!Spec => []Renderer!TypeOK
<1>1. Renderer!Init => RendererInv /\ Len(browsers) <= MaxLaunches
  BY OfficeAssumption
  DEF OfficeAssumption, Renderer!RendererAssumption, Renderer!Init, RendererInv, RenderTyped,
      BrowserIsShared, ContextsAreUsed
<1>2. RendererInv /\ Len(browsers) <= MaxLaunches /\ [Renderer!Next]_(Renderer!vars)
        => RendererInv' /\ (Len(browsers) <= MaxLaunches)'
  BY RendererInductive, LaunchesAreFew
<1> QED
  BY <1>1, <1>2, RendererIsTyped, PTL DEF Renderer!Spec

-------------------------------------------------------------------------------
(* EmbedCheck: a verdict is what servers answered, in the order of the check. *)

\* What was answered so far: nothing until the page is read, then the page, which is there
\* and embeds a player.
AnswersSoFar ==
  fetch # None =>
    /\ DOMAIN fetch = {"what", "url", "hops", "address"} /\ verdict = None
    /\ \/ fetch.what = "page" /\ told = <<>>
       \/ /\ fetch.what = "embed" /\ Embed!IsSuccessful(landing.status) /\ landing.embed # None
          /\ told = <<[what |-> "page", status |-> landing.status, embed |-> landing.embed]>>

VerdictIsTold == Embed!FailureIsProven /\ Embed!HealthIsSeen /\ Embed!StatusesWereAnswered

EmbedInv == AnswersSoFar /\ VerdictIsTold

\* An end of the check without an answer of a server counts neither for nor against it.
LEMMA EmbedThrow ==
  ASSUME EmbedInv, NEW result \in {"blocked", "unknown"}, NEW code,
         Embed!Throw(result, code)
  PROVE  EmbedInv'
<1>1. fetch' = None /\ verdict' = Embed!Result(result, None, None, None, code)
  BY DEF Embed!Throw, Embed!Conclude
<1>2. verdict'.result = result /\ verdict'.pageStatus = None /\ verdict'.embedStatus = None
  BY <1>1 DEF Embed!Result
<1>3. VerdictIsTold'
  BY <1>2 DEF VerdictIsTold, Embed!FailureIsProven, Embed!HealthIsSeen, Embed!StatusesWereAnswered
<1> QED
  BY <1>1, <1>3 DEF EmbedInv, AnswersSoFar

\* A get that goes on, to another address or another URL.
LEMMA EmbedGoesOn ==
  ASSUME EmbedInv, fetch # None, DOMAIN fetch' = DOMAIN fetch, fetch'.what = fetch.what,
         UNCHANGED <<landing, verdict, told>>
  PROVE  EmbedInv'
BY DEF EmbedInv, AnswersSoFar, VerdictIsTold, Embed!FailureIsProven, Embed!HealthIsSeen,
       Embed!StatusesWereAnswered, Embed!IsSuccessful, Embed!IsRefusal

LEMMA EmbedResolve ==
  ASSUME EmbedInv, NEW addresses, Embed!Resolve(addresses)
  PROVE  EmbedInv'
<1>1. CASE /\ \E first \in addresses : fetch' = [fetch EXCEPT !.address = first]
           /\ UNCHANGED <<landing, verdict, told>>
  <2>1. fetch # None /\ DOMAIN fetch = {"what", "url", "hops", "address"}
    BY DEF Embed!Resolve, EmbedInv, AnswersSoFar
  <2> QED
    BY <1>1, <2>1, EmbedGoesOn
<1>2. CASE Embed!Throw("blocked", "NETWORK_TARGET_BLOCKED")
  BY <1>2, EmbedThrow
<1> QED
  BY <1>1, <1>2 DEF Embed!Resolve

LEMMA EmbedCut == ASSUME EmbedInv, Embed!Cut PROVE EmbedInv'
<1>1. fetch # None /\ DOMAIN fetch = {"what", "url", "hops", "address"}
  BY DEF Embed!Cut, Embed!Connected, EmbedInv, AnswersSoFar
<1> QED
  BY <1>1, EmbedGoesOn DEF Embed!Cut

LEMMA EmbedRedirected ==
  ASSUME EmbedInv, NEW location, Embed!Redirected(location)
  PROVE  EmbedInv'
<1>1. fetch # None /\ DOMAIN fetch = {"what", "url", "hops", "address"}
  BY DEF Embed!Redirected, Embed!Connected, EmbedInv, AnswersSoFar
<1>2. CASE fetch.hops = MaxRedirects
  BY <1>2, EmbedThrow DEF Embed!Redirected
<1>3. CASE fetch.hops # MaxRedirects
  BY <1>1, <1>3, EmbedGoesOn DEF Embed!Redirected
<1> QED
  BY <1>2, <1>3

LEMMA EmbedReadPage ==
  ASSUME EmbedInv, NEW httpStatus, NEW sources, Embed!ReadPage(httpStatus, sources)
  PROVE  EmbedInv'
<1> DEFINE embed == Embed!FindDocumentedRutubeEmbed(sources)
           answer == [what |-> "page", status |-> httpStatus, embed |-> embed]
<1>1. told = <<>> /\ verdict = None
  BY DEF Embed!ReadPage, Embed!Connected, EmbedInv, AnswersSoFar
<1>2. told' = <<answer>>
  BY <1>1 DEF Embed!ReadPage
<1>3. told' # <<>> /\ Len(told') = 1 /\ told'[1] = answer
  BY <1>2
<1> HIDE DEF embed
<1>4. CASE Embed!IsRefusal(httpStatus)
  <2>0. Embed!IsSuccessful(httpStatus) = FALSE /\ Embed!IsRefusal(httpStatus) = TRUE
    BY <1>4 DEF Embed!IsRefusal, Embed!IsSuccessful
  <2>1. fetch' = None /\ verdict' = Embed!Result("blocked", httpStatus, None, None, "PAGE_HTTP_BLOCKED")
    BY <2>0 DEF Embed!ReadPage, Embed!Conclude
  <2>2. VerdictIsTold'
    BY <1>3, <2>1 DEF VerdictIsTold, Embed!Result, Embed!FailureIsProven, Embed!HealthIsSeen,
                      Embed!StatusesWereAnswered
  <2> QED
    BY <2>1, <2>2 DEF EmbedInv, AnswersSoFar
<1>5. CASE ~Embed!IsRefusal(httpStatus) /\ (~Embed!IsSuccessful(httpStatus) \/ embed = None)
  <2>1. PICK code : fetch' = None /\ verdict' = Embed!Result("failed", httpStatus, None, None, code)
    BY <1>5 DEF Embed!ReadPage, Embed!Conclude, embed
  <2>2. VerdictIsTold'
    BY <1>3, <1>5, <2>1 DEF VerdictIsTold, Embed!Result, Embed!FailureIsProven, Embed!HealthIsSeen,
                            Embed!StatusesWereAnswered
  <2> QED
    BY <2>1, <2>2 DEF EmbedInv, AnswersSoFar
<1>6. CASE ~Embed!IsRefusal(httpStatus) /\ Embed!IsSuccessful(httpStatus) /\ embed # None
  <2>1. /\ landing' = [status |-> httpStatus, embed |-> embed] /\ verdict' = None
        /\ fetch' = [what |-> "embed", url |-> embed, hops |-> 0, address |-> None]
    BY <1>1, <1>6 DEF Embed!ReadPage, embed
  <2>2. VerdictIsTold'
    BY <2>1 DEF VerdictIsTold, Embed!FailureIsProven, Embed!HealthIsSeen, Embed!StatusesWereAnswered
  <2>3. AnswersSoFar'
    BY <1>2, <1>6, <2>1 DEF AnswersSoFar, Embed!IsSuccessful
  <2> QED
    BY <2>2, <2>3 DEF EmbedInv
<1> QED
  BY <1>4, <1>5, <1>6

LEMMA AppendToOne == ASSUME NEW x, NEW y PROVE Append(<<x>>, y) = <<x, y>>
<1> DEFINE S == {x, y}
<1>1. <<x>> \in Seq(S) /\ <<x, y>> \in Seq(S) /\ y \in S
  OBVIOUS
<1>2. /\ Append(<<x>>, y) \in Seq(S) /\ Len(Append(<<x>>, y)) = 2
      /\ Append(<<x>>, y)[1] = x /\ Append(<<x>>, y)[2] = y
  BY <1>1, AppendProperties
<1>3. \A i \in 1 .. Len(<<x, y>>) : Append(<<x>>, y)[i] = <<x, y>>[i]
  BY <1>2
<1> QED
  BY <1>1, <1>2, <1>3, SeqEqual

LEMMA EmbedReadEmbed ==
  ASSUME EmbedInv, NEW httpStatus, Embed!ReadEmbed(httpStatus)
  PROVE  EmbedInv'
<1> DEFINE given == [what |-> "page", status |-> landing.status, embed |-> landing.embed]
           answer == [what |-> "embed", status |-> httpStatus, embed |-> None]
<1>1. told = <<given>> /\ Embed!IsSuccessful(landing.status) /\ landing.embed # None
  BY DEF Embed!ReadEmbed, Embed!Connected, EmbedInv, AnswersSoFar
<1>2. told' = <<given, answer>>
  <2>1. told' = Append(told, answer)
    BY DEF Embed!ReadEmbed
  <2> QED
    BY <1>1, <2>1, AppendToOne
<1>3. told' # <<>> /\ Len(told') = 2 /\ told'[1] = given /\ told'[2] = answer
  BY <1>2
<1>4. PICK result, code :
        /\ fetch' = None
        /\ verdict' = Embed!Result(result, landing.status, httpStatus, landing.embed, code)
        /\ result = "failed" => ~Embed!IsRefusal(httpStatus) /\ ~Embed!IsSuccessful(httpStatus)
        /\ result = "healthy" => Embed!IsSuccessful(httpStatus)
  BY DEF Embed!ReadEmbed, Embed!Conclude
<1>5. Embed!FailureIsProven' /\ Embed!StatusesWereAnswered'
  BY <1>3, <1>4 DEF Embed!Result, Embed!FailureIsProven, Embed!StatusesWereAnswered
<1>6. Embed!HealthIsSeen'
  BY <1>1, <1>3, <1>4 DEF Embed!Result, Embed!HealthIsSeen, Embed!IsSuccessful
<1> QED
  BY <1>4, <1>5, <1>6 DEF EmbedInv, AnswersSoFar, VerdictIsTold

LEMMA EmbedInductive == EmbedInv /\ [Embed!Next]_(Embed!vars) => EmbedInv'
<1> SUFFICES ASSUME EmbedInv, [Embed!Next]_(Embed!vars) PROVE EmbedInv'
  OBVIOUS
<1>1. CASE Embed!Next
  <2>1. CASE Embed!Unresolved \/ Embed!Unanswered \/ Embed!TooLarge
    BY <2>1, EmbedThrow DEF Embed!Unresolved, Embed!Unanswered, Embed!TooLarge
  <2> QED
    BY <1>1, <2>1, EmbedResolve, EmbedCut, EmbedRedirected, EmbedReadPage, EmbedReadEmbed
    DEF Embed!Next
<1>2. CASE UNCHANGED Embed!vars
  BY <1>2 DEF Embed!vars, EmbedInv, AnswersSoFar, VerdictIsTold, Embed!FailureIsProven,
              Embed!HealthIsSeen, Embed!StatusesWereAnswered, Embed!IsSuccessful, Embed!IsRefusal
<1> QED
  BY <1>1, <1>2

\* ADR-0007: whatever redirects, refusals and failures there are on the way, a placement is
\* failed only by the answer of a server, healthy only by two good ones in order, and the
\* statuses kept are those answered.
THEOREM VerdictsAreTold == Embed!Spec => []VerdictIsTold
<1>1. Embed!Init => EmbedInv
  BY DEF Embed!Init, EmbedInv, AnswersSoFar, VerdictIsTold, Embed!FailureIsProven,
         Embed!HealthIsSeen, Embed!StatusesWereAnswered
<1>2. EmbedInv => VerdictIsTold
  BY DEF EmbedInv
<1> QED
  BY <1>1, <1>2, EmbedInductive, PTL DEF Embed!Spec

EmbedSets ==
  /\ fetch # None =>
       /\ fetch.url \in Urls /\ fetch.hops \in 0 .. MaxRedirects
       /\ fetch.address \in Public \cup {None, "hung"}
       /\ fetch.what = "page" => landing = None
       /\ fetch.what = "embed" => landing \in Embed!Landings
  /\ verdict # None =>
       /\ verdict.result \in {"healthy", "failed", "blocked", "unknown"}
       /\ verdict.code \in Embed!Codes \cup {None}
       /\ verdict.code = None <=> verdict.result = "healthy"

LEMMA EmbedConstants ==
  /\ FrontPage \in Urls /\ Documented \subseteq Urls /\ Frames \subseteq Seq(Urls)
  /\ MaxRedirects \in Nat /\ None \notin Embed!Codes /\ None \notin Embed!Landings
BY OfficeAssumption DEF OfficeAssumption, Embed!EmbedAssumption

\* The player of a page is the first of its frames that is documented.
LEMMA EmbedIsDocumented ==
  ASSUME NEW sources \in Seq(Urls)
  PROVE  Embed!FindDocumentedRutubeEmbed(sources) \in Documented \cup {None}
<1> DEFINE embeds == {i \in DOMAIN sources : sources[i] \in Documented}
<1>1. embeds \subseteq Nat
  OBVIOUS
<1>2. CASE embeds = {}
  BY <1>2 DEF Embed!FindDocumentedRutubeEmbed
<1>3. CASE embeds # {}
  <2> DEFINE Less == {p \in Nat \X Nat : p[1] < p[2]}
  <2>0. IsWellFoundedOn(Less, Nat)
    BY NatLessThanWellFounded DEF OpToRel
  <2>1. PICK i \in embeds : \A j \in embeds : ~(<<j, i>> \in Less)
    BY <1>1, <1>3, <2>0, WFMin
  <2>2. \A j \in embeds : i <= j
    <3> SUFFICES ASSUME NEW j \in embeds PROVE i <= j
      OBVIOUS
    <3>1. i \in Nat /\ j \in Nat /\ ~(<<j, i>> \in Less)
      BY <1>1, <2>1
    <3> HIDE DEF embeds
    <3> QED
      BY <3>1
  <2>3. (CHOOSE k \in embeds : \A j \in embeds : k <= j) \in embeds
    BY <2>2
  <2> QED
    BY <2>3 DEF Embed!FindDocumentedRutubeEmbed
<1> QED
  BY <1>2, <1>3

LEMMA EmbedSetsThrow ==
  ASSUME NEW result \in {"blocked", "unknown"}, NEW code \in Embed!Codes, Embed!Throw(result, code)
  PROVE  EmbedSets'
BY EmbedConstants DEF Embed!Throw, Embed!Conclude, Embed!Result, EmbedSets

LEMMA EmbedSetsReadPage ==
  ASSUME EmbedInv, EmbedSets, NEW httpStatus \in HttpStatuses, NEW sources \in Frames,
         Embed!ReadPage(httpStatus, sources)
  PROVE  EmbedSets'
<1> DEFINE embed == Embed!FindDocumentedRutubeEmbed(sources)
<1>1. embed \in Documented \cup {None}
  BY EmbedConstants, EmbedIsDocumented
<1> HIDE DEF embed
<1>2. CASE \E result \in {"blocked", "failed"}, code \in Embed!Codes :
             Embed!Conclude(Embed!Result(result, httpStatus, None, None, code))
  BY <1>2, EmbedConstants DEF Embed!Conclude, Embed!Result, EmbedSets
<1>3. CASE /\ embed # None /\ landing' = [status |-> httpStatus, embed |-> embed]
           /\ fetch' = [what |-> "embed", url |-> embed, hops |-> 0, address |-> None]
           /\ UNCHANGED verdict
  BY <1>1, <1>3, EmbedConstants DEF EmbedSets, Embed!Landings
<1>4. "PAGE_HTTP_BLOCKED" \in Embed!Codes /\ "PAGE_HTTP_ERROR" \in Embed!Codes
      /\ "RUTUBE_IFRAME_NOT_FOUND" \in Embed!Codes
  BY DEF Embed!Codes
<1>5. CASE Embed!IsRefusal(httpStatus)
  <2>1. Embed!IsSuccessful(httpStatus) = FALSE /\ Embed!IsRefusal(httpStatus) = TRUE
    BY <1>5 DEF Embed!IsRefusal, Embed!IsSuccessful
  <2>2. Embed!Conclude(Embed!Result("blocked", httpStatus, None, None, "PAGE_HTTP_BLOCKED"))
    BY <2>1 DEF Embed!ReadPage
  <2> QED
    BY <1>2, <1>4, <2>2
<1>6. CASE ~Embed!IsRefusal(httpStatus) /\ ~Embed!IsSuccessful(httpStatus)
  <2>1. Embed!Conclude(Embed!Result("failed", httpStatus, None, None, "PAGE_HTTP_ERROR"))
    BY <1>6 DEF Embed!ReadPage
  <2> QED
    BY <1>2, <1>4, <2>1
<1>7. CASE ~Embed!IsRefusal(httpStatus) /\ Embed!IsSuccessful(httpStatus) /\ embed = None
  <2>1. Embed!Conclude(Embed!Result("failed", httpStatus, None, None, "RUTUBE_IFRAME_NOT_FOUND"))
    BY <1>7 DEF Embed!ReadPage, embed
  <2> QED
    BY <1>2, <1>4, <2>1
<1>8. CASE ~Embed!IsRefusal(httpStatus) /\ Embed!IsSuccessful(httpStatus) /\ embed # None
  <2>1. /\ landing' = [status |-> httpStatus, embed |-> embed] /\ UNCHANGED verdict
        /\ fetch' = [what |-> "embed", url |-> embed, hops |-> 0, address |-> None]
    BY <1>8 DEF Embed!ReadPage, embed
  <2> QED
    BY <1>3, <1>8, <2>1
<1> QED
  BY <1>5, <1>6, <1>7, <1>8

LEMMA EmbedSetsReadEmbed ==
  ASSUME EmbedSets, NEW httpStatus, Embed!ReadEmbed(httpStatus)
  PROVE  EmbedSets'
<1>1. /\ "EMBED_HTTP_BLOCKED" \in Embed!Codes /\ "EMBED_HTTP_ERROR" \in Embed!Codes
      /\ None \notin Embed!Codes
  BY EmbedConstants DEF Embed!Codes
<1>2. PICK result \in {"blocked", "healthy", "failed"}, code \in Embed!Codes \cup {None} :
        /\ Embed!Conclude(Embed!Result(result, landing.status, httpStatus, landing.embed, code))
        /\ code = None <=> result = "healthy"
  <2>1. CASE Embed!IsRefusal(httpStatus)
    <3>1. Embed!IsSuccessful(httpStatus) = FALSE /\ Embed!IsRefusal(httpStatus) = TRUE
      BY <2>1 DEF Embed!IsRefusal, Embed!IsSuccessful
    <3>2. Embed!Conclude(Embed!Result("blocked", landing.status, httpStatus, landing.embed,
                                      "EMBED_HTTP_BLOCKED"))
      BY <3>1 DEF Embed!ReadEmbed
    <3> QED
      BY <1>1, <3>2
  <2>2. CASE ~Embed!IsRefusal(httpStatus) /\ Embed!IsSuccessful(httpStatus)
    <3>1. Embed!Conclude(Embed!Result("healthy", landing.status, httpStatus, landing.embed, None))
      BY <2>2 DEF Embed!ReadEmbed
    <3> QED
      BY <1>1, <3>1
  <2>3. CASE ~Embed!IsRefusal(httpStatus) /\ ~Embed!IsSuccessful(httpStatus)
    <3>1. Embed!Conclude(Embed!Result("failed", landing.status, httpStatus, landing.embed,
                                      "EMBED_HTTP_ERROR"))
      BY <2>3 DEF Embed!ReadEmbed
    <3> QED
      BY <1>1, <3>1
  <2> QED
    BY <2>1, <2>2, <2>3
<1> QED
  BY <1>2 DEF Embed!Conclude, Embed!Result, EmbedSets

LEMMA EmbedSetsStay == EmbedInv /\ EmbedSets /\ [Embed!Next]_(Embed!vars) => EmbedSets'
<1> SUFFICES ASSUME EmbedInv, EmbedSets, [Embed!Next]_(Embed!vars) PROVE EmbedSets'
  OBVIOUS
<1>1. fetch # None => DOMAIN fetch = {"what", "url", "hops", "address"}
  BY DEF EmbedInv, AnswersSoFar
<1>2. /\ "NETWORK_TARGET_BLOCKED" \in Embed!Codes /\ "RESPONSE_TOO_LARGE" \in Embed!Codes
      /\ "NETWORK_ERROR" \in Embed!Codes
  BY DEF Embed!Codes
<1>3. CASE UNCHANGED Embed!vars
  BY <1>3 DEF Embed!vars, EmbedSets
<1>4. ASSUME fetch # None, NEW url \in Urls, NEW hops \in 0 .. MaxRedirects,
             NEW address \in Public \cup {None, "hung"}, UNCHANGED <<landing, verdict>>,
             fetch'.what = fetch.what, fetch'.url = url, fetch'.hops = hops,
             fetch'.address = address
      PROVE  EmbedSets'
  BY <1>4 DEF EmbedSets
<1>5. ASSUME NEW addresses \in SUBSET (Public \cup Private), Embed!Resolve(addresses)
      PROVE  EmbedSets'
  <2>1. CASE Embed!Throw("blocked", "NETWORK_TARGET_BLOCKED")
    BY <1>2, <2>1, EmbedSetsThrow
  <2>2. CASE /\ addresses \subseteq Public
             /\ \E first \in addresses : fetch' = [fetch EXCEPT !.address = first]
             /\ UNCHANGED <<landing, verdict>>
    <3>1. PICK first \in Public : fetch' = [fetch EXCEPT !.address = first]
      BY <2>2
    <3>2. fetch # None
      BY <1>5 DEF Embed!Resolve
    <3>3. /\ fetch'.what = fetch.what /\ fetch'.url = fetch.url /\ fetch'.hops = fetch.hops
          /\ fetch'.address = first
      BY <1>1, <3>1, <3>2
    <3> QED
      BY <1>4, <2>2, <3>2, <3>3 DEF EmbedSets
  <2> QED
    BY <1>5, <2>1, <2>2 DEF Embed!Resolve
<1>6. CASE Embed!Cut
  <2>1. fetch # None /\ fetch' = [fetch EXCEPT !.address = "hung"] /\ UNCHANGED <<landing, verdict>>
    BY <1>6 DEF Embed!Cut, Embed!Connected
  <2>2. /\ fetch'.what = fetch.what /\ fetch'.url = fetch.url /\ fetch'.hops = fetch.hops
        /\ fetch'.address = "hung"
    BY <1>1, <2>1
  <2> QED
    BY <1>4, <2>1, <2>2 DEF EmbedSets
<1>7. ASSUME NEW location \in Urls, Embed!Redirected(location) PROVE EmbedSets'
  <2>1. CASE fetch.hops = MaxRedirects
    BY <1>2, <1>7, <2>1, EmbedSetsThrow DEF Embed!Redirected
  <2>2. CASE fetch.hops # MaxRedirects
    <3>1. /\ fetch # None /\ UNCHANGED <<landing, verdict>>
          /\ fetch' = [fetch EXCEPT !.url = location, !.hops = @ + 1, !.address = None]
      BY <1>7, <2>2 DEF Embed!Redirected, Embed!Connected
    <3>2. /\ fetch'.what = fetch.what /\ fetch'.url = location /\ fetch'.hops = fetch.hops + 1
          /\ fetch'.address = None
      BY <1>1, <3>1
    <3>3. fetch.hops + 1 \in 0 .. MaxRedirects
      BY <2>2, <3>1, EmbedConstants DEF EmbedSets
    <3> QED
      BY <1>4, <3>1, <3>2, <3>3
  <2> QED
    BY <2>1, <2>2
<1>8. CASE Embed!Unresolved \/ Embed!Unanswered \/ Embed!TooLarge
  BY <1>2, <1>8, EmbedSetsThrow DEF Embed!Unresolved, Embed!Unanswered, Embed!TooLarge
<1> QED
  BY <1>3, <1>5, <1>6, <1>7, <1>8, EmbedSetsReadPage, EmbedSetsReadEmbed DEF Embed!Next

LEMMA EmbedTypesOK == Embed!Spec => []Embed!TypeOK
<1>1. Embed!Init => EmbedInv /\ EmbedSets
  BY EmbedConstants
  DEF Embed!Init, EmbedInv, AnswersSoFar, VerdictIsTold, Embed!FailureIsProven,
      Embed!HealthIsSeen, Embed!StatusesWereAnswered, EmbedSets
<1>2. EmbedInv /\ EmbedSets => Embed!TypeOK
  <2> SUFFICES ASSUME EmbedInv, EmbedSets PROVE Embed!TypeOK
    OBVIOUS
  <2>1. fetch # None => fetch.what \in {"page", "embed"}
    BY DEF EmbedInv, AnswersSoFar
  <2> QED
    BY <2>1, EmbedConstants DEF EmbedSets, Embed!TypeOK
<1>3. EmbedInv /\ EmbedSets /\ [Embed!Next]_(Embed!vars) => EmbedInv' /\ EmbedSets'
  BY EmbedInductive, EmbedSetsStay
<1> QED
  BY <1>1, <1>2, <1>3, PTL DEF Embed!Spec

-------------------------------------------------------------------------------
(* TrafficEstimate: what is told of a rank is fresh, and lonely requests are apart. *)

RankOrNone == Ranks \cup {None}

TrafficCalls ==
  [step : {"waiting", "sent"}, host : RankedHosts, wake : Int, alone : BOOLEAN,
   gap : Int \cup {None}]

TrafficTyped ==
  /\ moment \in 0 .. MaxMoment /\ lastRequestAt \in Int
  /\ ranking \in [RankedHosts -> RankOrNone]
  /\ ranked \in [RankedHosts -> [0 .. MaxMoment -> SUBSET RankOrNone]]
  /\ cache \in [RankedHosts -> [at : Nat, rank : RankOrNone] \cup {None}]
  /\ call \in [Requests -> TrafficCalls \cup {None}]
  /\ DOMAIN estimate = Requests

\* A rank of the list that was there at a moment, new at a later one.
WasListed(h, rank, at, times, lists) == at \in 0 .. times /\ rank \in lists[h][at]

\* What an inspection is told, as EstimateIsFresh has it.
Fresh(e, times, lists) ==
  /\ e.host \in RankedHosts /\ e.at \in 0 .. times
  /\ \E t \in 0 .. times :
       e.at - Ttl < t /\ t <= e.at /\ WasListed(e.host, e.rank, t, times, lists)

RanksAreKept ==
  /\ \A h \in RankedHosts :
       /\ WasListed(h, ranking[h], moment, moment, ranked)
       /\ cache[h] # None => WasListed(h, cache[h].rank, cache[h].at, moment, ranked)
  /\ \A i \in Requests :
       provider = "tranco" /\ estimate[i] # None => Fresh(estimate[i], moment, ranked)

\* Nobody else asks beside a lonely request, so nobody moves the last one before it wakes.
LonelyIsApart ==
  \A i \in Requests : call[i] # None /\ call[i].alone =>
    /\ \A j \in Requests \ {i} : call[j] = None
    /\ call[i].step = "waiting" => call[i].wake >= lastRequestAt + Pause
    /\ call[i].step = "sent" => call[i].gap >= Pause

TrafficInv == TrafficTyped /\ RanksAreKept /\ LonelyIsApart

EstimatesAreSound == Traffic!EstimateIsFresh /\ Traffic!RequestsAreApart

LEMMA TrafficConstants ==
  /\ Ttl \in Nat \ {0} /\ Pause \in Nat \ {0} /\ MaxMoment \in Nat \ {0}
  /\ None \notin {"similarweb", "tranco"}
BY OfficeAssumption DEF OfficeAssumption, Traffic!TrafficAssumption

LEMMA LaterOfTwo ==
  ASSUME NEW m \in Int, NEW n \in Int
  PROVE  Traffic!Max({m, n}) \in Int /\ Traffic!Max({m, n}) >= n
<1>1. \E x \in {m, n} : \A y \in {m, n} : x >= y
  <2>1. CASE m >= n
    BY <2>1
  <2>2. CASE ~(m >= n)
    BY <2>2
  <2> QED
    BY <2>1, <2>2
<1> QED
  BY <1>1 DEF Traffic!Max

\* Lists are only added to, and later.
LEMMA HistoryGrows ==
  ASSUME NEW times \in Nat, NEW times2 \in Nat, times <= times2, NEW lists, NEW lists2,
         \A h \in RankedHosts : \A t \in 0 .. times : lists[h][t] \subseteq lists2[h][t]
  PROVE  /\ \A h \in RankedHosts : \A rank, at :
              WasListed(h, rank, at, times, lists) => WasListed(h, rank, at, times2, lists2)
         /\ \A e : Fresh(e, times, lists) => Fresh(e, times2, lists2)
<1>1. ASSUME NEW h \in RankedHosts, NEW rank, NEW at, WasListed(h, rank, at, times, lists)
      PROVE  WasListed(h, rank, at, times2, lists2)
  BY <1>1 DEF WasListed
<1>2. ASSUME NEW e, Fresh(e, times, lists)
      PROVE  Fresh(e, times2, lists2)
  <2>1. PICK t \in 0 .. times :
          e.at - Ttl < t /\ t <= e.at /\ WasListed(e.host, e.rank, t, times, lists)
    BY <1>2 DEF Fresh
  <2>2. e.host \in RankedHosts /\ e.at \in 0 .. times2 /\ t \in 0 .. times2
    BY <1>2 DEF Fresh
  <2>3. WasListed(e.host, e.rank, t, times2, lists2)
    BY <1>1, <2>1, <2>2
  <2> QED
    BY <2>1, <2>2, <2>3 DEF Fresh
<1> QED
  BY <1>1, <1>2

\* The clock and the lists, which leave the inspections alone.
LEMMA TrafficOutside ==
  ASSUME TrafficInv, UNCHANGED <<provider, cache, lastRequestAt, call, estimate>>,
         moment' \in 0 .. MaxMoment, moment <= moment',
         ranking' \in [RankedHosts -> RankOrNone],
         ranked' \in [RankedHosts -> [0 .. MaxMoment -> SUBSET RankOrNone]],
         \A h \in RankedHosts : /\ ranking'[h] \in ranked'[h][moment']
                                /\ \A t \in 0 .. moment : ranked[h][t] \subseteq ranked'[h][t]
  PROVE  TrafficInv'
<1>1. TrafficTyped'
  BY DEF TrafficInv, TrafficTyped
<1>2. /\ \A h \in RankedHosts : \A rank, at :
           WasListed(h, rank, at, moment, ranked) => WasListed(h, rank, at, moment', ranked')
      /\ \A e : Fresh(e, moment, ranked) => Fresh(e, moment', ranked')
  <2>1. moment \in Nat /\ moment' \in Nat
    BY TrafficConstants DEF TrafficInv, TrafficTyped
  <2> QED
    BY <2>1, HistoryGrows
<1>3. \A h \in RankedHosts : WasListed(h, ranking'[h], moment', moment', ranked')
  BY TrafficConstants DEF WasListed
<1>4. RanksAreKept'
  BY <1>2, <1>3 DEF TrafficInv, RanksAreKept
<1>5. LonelyIsApart'
  BY DEF TrafficInv, LonelyIsApart
<1> QED
  BY <1>1, <1>4, <1>5 DEF TrafficInv

LEMMA TrafficPass == ASSUME TrafficInv, Traffic!Pass PROVE TrafficInv'
<1>1. /\ moment' = moment + 1 /\ moment < MaxMoment
      /\ ranked' = [h \in RankedHosts |-> [ranked[h] EXCEPT ![moment + 1] = {ranking[h]}]]
      /\ UNCHANGED <<provider, ranking, cache, lastRequestAt, call, estimate>>
  BY DEF Traffic!Pass
<1>2. /\ moment \in 0 .. MaxMoment /\ ranking \in [RankedHosts -> RankOrNone]
      /\ ranked \in [RankedHosts -> [0 .. MaxMoment -> SUBSET RankOrNone]]
  BY DEF TrafficInv, TrafficTyped
<1>3. moment' \in 0 .. MaxMoment /\ moment <= moment'
  BY <1>1, <1>2, TrafficConstants
<1>4. ranked' \in [RankedHosts -> [0 .. MaxMoment -> SUBSET RankOrNone]]
  <2>1. ASSUME NEW h \in RankedHosts
        PROVE  [ranked[h] EXCEPT ![moment + 1] = {ranking[h]}]
                 \in [0 .. MaxMoment -> SUBSET RankOrNone]
    <3>1. ranked[h] \in [0 .. MaxMoment -> SUBSET RankOrNone] /\ ranking[h] \in RankOrNone
      BY <1>2
    <3> QED
      BY <3>1
  <2> QED
    BY <1>1, <2>1
<1>5. ASSUME NEW h \in RankedHosts
      PROVE  /\ ranking'[h] \in ranked'[h][moment']
             /\ \A t \in 0 .. moment : ranked[h][t] \subseteq ranked'[h][t]
  <2>1. ranked'[h] = [ranked[h] EXCEPT ![moment + 1] = {ranking[h]}]
    BY <1>1
  <2>2. ranked[h] \in [0 .. MaxMoment -> SUBSET RankOrNone]
    BY <1>2
  <2> QED
    BY <1>1, <1>2, <1>3, <2>1, <2>2
<1> QED
  BY <1>1, <1>2, <1>3, <1>4, <1>5, TrafficOutside

LEMMA TrafficPublish ==
  ASSUME TrafficInv, NEW h \in RankedHosts, NEW rank \in RankOrNone, Traffic!Publish(h, rank)
  PROVE  TrafficInv'
<1>1. /\ ranking' = [ranking EXCEPT ![h] = rank]
      /\ ranked' = [ranked EXCEPT ![h][moment] = @ \cup {rank}]
      /\ UNCHANGED <<provider, moment, cache, lastRequestAt, call, estimate>>
  BY DEF Traffic!Publish
<1>2. /\ moment \in 0 .. MaxMoment /\ ranking \in [RankedHosts -> RankOrNone]
      /\ ranked \in [RankedHosts -> [0 .. MaxMoment -> SUBSET RankOrNone]]
  BY DEF TrafficInv, TrafficTyped
<1>3. ranking' \in [RankedHosts -> RankOrNone]
  BY <1>1, <1>2
<1>4. ranked' \in [RankedHosts -> [0 .. MaxMoment -> SUBSET RankOrNone]]
  BY <1>1, <1>2
<1>5. ASSUME NEW g \in RankedHosts
      PROVE  /\ ranking'[g] \in ranked'[g][moment']
             /\ \A t \in 0 .. moment : ranked[g][t] \subseteq ranked'[g][t]
  <2>1. ranking[g] \in ranked[g][moment]
    BY DEF TrafficInv, RanksAreKept, WasListed
  <2>2. ranked[g] \in [0 .. MaxMoment -> SUBSET RankOrNone]
    BY <1>2
  <2>3. CASE g = h
    BY <1>1, <1>2, <2>2, <2>3
  <2>4. CASE g # h
    BY <1>1, <1>2, <2>1, <2>4
  <2> QED
    BY <2>3, <2>4
<1>6. moment' \in 0 .. MaxMoment /\ moment <= moment'
  BY <1>1, <1>2, TrafficConstants
<1> QED
  BY <1>1, <1>3, <1>4, <1>5, <1>6, TrafficOutside

\* An inspection that is told something, or nothing, and asks no more.
LEMMA TrafficTold ==
  ASSUME TrafficInv, NEW i \in Requests,
         UNCHANGED <<provider, moment, ranking, ranked, lastRequestAt>>,
         call' = [call EXCEPT ![i] = None], DOMAIN estimate' = Requests,
         \A j \in Requests \ {i} : estimate'[j] = estimate[j],
         provider = "tranco" /\ estimate'[i] # None => Fresh(estimate'[i], moment, ranked),
         cache' \in [RankedHosts -> [at : Nat, rank : RankOrNone] \cup {None}],
         \A h \in RankedHosts : cache'[h] # cache[h] =>
           WasListed(h, cache'[h].rank, cache'[h].at, moment, ranked)
  PROVE  TrafficInv'
<1>1. call \in [Requests -> TrafficCalls \cup {None}]
  BY DEF TrafficInv, TrafficTyped
<1>2. /\ call' \in [Requests -> TrafficCalls \cup {None}]
      /\ call'[i] = None /\ \A j \in Requests \ {i} : call'[j] = call[j]
  BY <1>1
<1>3. TrafficTyped'
  BY <1>2 DEF TrafficInv, TrafficTyped
<1>4. RanksAreKept'
  BY DEF TrafficInv, RanksAreKept
<1>5. LonelyIsApart'
  BY <1>2 DEF TrafficInv, LonelyIsApart
<1> QED
  BY <1>3, <1>4, <1>5 DEF TrafficInv

LEMMA TrafficTells ==
  ASSUME TrafficInv, NEW i \in Requests, NEW h \in RankedHosts, NEW rank, NEW range,
         Traffic!Tell(i, h, rank, range),
         UNCHANGED <<provider, moment, ranking, ranked, lastRequestAt>>,
         provider = "tranco" => \E t \in 0 .. moment :
           moment - Ttl < t /\ WasListed(h, rank, t, moment, ranked),
         cache' \in [RankedHosts -> [at : Nat, rank : RankOrNone] \cup {None}],
         \A g \in RankedHosts : cache'[g] # cache[g] =>
           WasListed(g, cache'[g].rank, cache'[g].at, moment, ranked)
  PROVE  TrafficInv'
<1> DEFINE e == [at |-> moment, host |-> h, rank |-> rank, range |-> range]
<1>1. estimate' = [estimate EXCEPT ![i] = e] /\ call' = [call EXCEPT ![i] = None]
  BY DEF Traffic!Tell
<1>2. DOMAIN estimate = Requests /\ moment \in Nat
  BY TrafficConstants DEF TrafficInv, TrafficTyped
<1>3. /\ DOMAIN estimate' = Requests /\ estimate'[i] = e
      /\ \A j \in Requests \ {i} : estimate'[j] = estimate[j]
  BY <1>1, <1>2
<1>4. provider = "tranco" => Fresh(e, moment, ranked)
  BY <1>2 DEF Fresh
<1> QED
  BY <1>1, <1>3, <1>4, TrafficTold

LEMMA TrafficKept ==
  ASSUME TrafficInv, NEW i \in Requests, NEW h \in RankedHosts, Traffic!AskKept(i, h)
  PROVE  TrafficInv'
<1>1. /\ Traffic!Tell(i, h, cache[h].rank, Traffic!RangeOfRank(cache[h].rank))
      /\ cache[h] # None /\ moment - cache[h].at < Ttl
      /\ UNCHANGED <<provider, moment, ranking, ranked, cache, lastRequestAt>>
  BY DEF Traffic!AskKept, Traffic!IsFresh
<1>2. WasListed(h, cache[h].rank, cache[h].at, moment, ranked)
  BY <1>1 DEF TrafficInv, RanksAreKept
<1>3. moment - Ttl < cache[h].at /\ cache[h].at \in 0 .. moment
  BY <1>1, <1>2, TrafficConstants DEF WasListed, TrafficInv, TrafficTyped
<1>4. cache' \in [RankedHosts -> [at : Nat, rank : RankOrNone] \cup {None}]
  BY <1>1 DEF TrafficInv, TrafficTyped
<1> QED
  BY <1>1, <1>2, <1>3, <1>4, TrafficTells

LEMMA TrafficAnswered ==
  ASSUME TrafficInv, NEW i \in Requests, Traffic!Answered(i)
  PROVE  TrafficInv'
<1> DEFINE h == call[i].host
           new == [at |-> moment, rank |-> ranking[h]]
<1>1. /\ call[i] # None /\ cache' = [cache EXCEPT ![h] = new]
      /\ Traffic!Tell(i, h, ranking[h], Traffic!RangeOfRank(ranking[h]))
      /\ UNCHANGED <<provider, moment, ranking, ranked, lastRequestAt>>
  BY DEF Traffic!Answered
<1>2. h \in RankedHosts /\ moment \in Nat /\ ranking[h] \in RankOrNone
  BY <1>1, TrafficConstants DEF TrafficInv, TrafficTyped, TrafficCalls
<1>3. WasListed(h, ranking[h], moment, moment, ranked)
  BY <1>2 DEF TrafficInv, RanksAreKept
<1>4. cache \in [RankedHosts -> [at : Nat, rank : RankOrNone] \cup {None}]
  BY DEF TrafficInv, TrafficTyped
<1>5. /\ cache' \in [RankedHosts -> [at : Nat, rank : RankOrNone] \cup {None}]
      /\ cache'[h] = new /\ \A g \in RankedHosts \ {h} : cache'[g] = cache[g]
  BY <1>1, <1>2, <1>4
<1>6. \A g \in RankedHosts : cache'[g] # cache[g] =>
        WasListed(g, cache'[g].rank, cache'[g].at, moment, ranked)
  BY <1>3, <1>5
<1>7. moment \in 0 .. moment /\ moment - Ttl < moment
  BY <1>2, TrafficConstants
<1> QED
  BY <1>1, <1>2, <1>3, <1>5, <1>6, <1>7, TrafficTells

\* Steps that change the requests only.
LEMMA TrafficRequests ==
  ASSUME TrafficInv, UNCHANGED <<provider, moment, ranking, ranked, cache, estimate>>,
         lastRequestAt' \in Int, call' \in [Requests -> TrafficCalls \cup {None}], LonelyIsApart'
  PROVE  TrafficInv'
<1>1. TrafficTyped'
  BY DEF TrafficInv, TrafficTyped
<1>2. RanksAreKept'
  BY DEF TrafficInv, RanksAreKept
<1> QED
  BY <1>1, <1>2 DEF TrafficInv

LEMMA TrafficAsk ==
  ASSUME TrafficInv, NEW i \in Requests, NEW h \in RankedHosts, Traffic!Ask(i, h)
  PROVE  TrafficInv'
<1> DEFINE alone == \A j \in Requests : call[j] = None
           wake == Traffic!Max({moment, lastRequestAt + Pause})
           new == [step |-> "waiting", host |-> h, wake |-> wake, alone |-> alone, gap |-> None]
           next(j) == IF j = i THEN new ELSE IF call[j] = None THEN None
                      ELSE [call[j] EXCEPT !.alone = FALSE]
<1>1. /\ call' = [j \in Requests |-> next(j)]
      /\ UNCHANGED <<provider, moment, ranking, ranked, cache, lastRequestAt, estimate>>
  BY DEF Traffic!Ask
<1>2. call \in [Requests -> TrafficCalls \cup {None}] /\ moment \in Int /\ lastRequestAt \in Int
  BY TrafficConstants DEF TrafficInv, TrafficTyped
<1>3. wake \in Int /\ wake >= lastRequestAt + Pause
  BY <1>2, LaterOfTwo, TrafficConstants
<1> HIDE DEF wake
<1>4. new \in TrafficCalls
  BY <1>3 DEF TrafficCalls
<1>5. ASSUME NEW j \in Requests, j # i, call[j] # None
      PROVE  next(j) \in TrafficCalls /\ next(j).alone = FALSE
  <2>1. call[j] \in TrafficCalls /\ next(j) = [call[j] EXCEPT !.alone = FALSE]
    BY <1>2, <1>5
  <2> QED
    BY <2>1 DEF TrafficCalls
<1>6. call' \in [Requests -> TrafficCalls \cup {None}]
  BY <1>1, <1>4, <1>5
<1>7. ASSUME NEW j \in Requests, call'[j] # None, call'[j].alone
      PROVE  /\ \A k \in Requests \ {j} : call'[k] = None
             /\ call'[j].step = "waiting" => call'[j].wake >= lastRequestAt' + Pause
             /\ call'[j].step = "sent" => call'[j].gap >= Pause
  <2>1. j = i
    BY <1>1, <1>5, <1>7
  <2>2. call'[j] = new /\ alone
    BY <1>1, <1>7, <2>1
  <2>3. \A k \in Requests \ {j} : call'[k] = None
    BY <1>1, <2>1, <2>2
  <2> QED
    BY <1>1, <1>3, <2>2, <2>3
<1>8. LonelyIsApart'
  BY <1>7 DEF LonelyIsApart
<1> QED
  BY <1>1, <1>2, <1>6, <1>8, TrafficRequests

LEMMA TrafficWake ==
  ASSUME TrafficInv, NEW i \in Requests, Traffic!Wake(i)
  PROVE  TrafficInv'
<1> DEFINE new == [call[i] EXCEPT !.step = "sent", !.gap = moment - lastRequestAt]
<1>1. /\ call[i] # None /\ call[i].step = "waiting" /\ moment >= call[i].wake
      /\ lastRequestAt' = moment
      /\ call' = [call EXCEPT ![i].step = "sent", ![i].gap = moment - lastRequestAt]
      /\ UNCHANGED <<provider, moment, ranking, ranked, cache, estimate>>
  BY DEF Traffic!Wake
<1>2. call \in [Requests -> TrafficCalls \cup {None}] /\ moment \in Int /\ lastRequestAt \in Int
  BY TrafficConstants DEF TrafficInv, TrafficTyped
<1>3. call[i] \in TrafficCalls
  BY <1>1, <1>2
<1>4. /\ new \in TrafficCalls /\ new.alone = call[i].alone /\ new.step = "sent"
      /\ new.gap = moment - lastRequestAt
  <2> DEFINE middle == [call[i] EXCEPT !.step = "sent"]
  <2>1. moment - lastRequestAt \in Int
    BY <1>2
  <2>2. middle \in TrafficCalls /\ middle.alone = call[i].alone /\ middle.step = "sent"
    BY <1>3 DEF TrafficCalls
  <2>3. new = [middle EXCEPT !.gap = moment - lastRequestAt]
    OBVIOUS
  <2> HIDE DEF middle, new
  <2> QED
    BY <2>1, <2>2, <2>3 DEF TrafficCalls
<1>5. call' = [call EXCEPT ![i] = new]
  BY <1>1, <1>2, <1>3 DEF TrafficCalls
<1> HIDE DEF new
<1>6. /\ call' \in [Requests -> TrafficCalls \cup {None}]
      /\ call'[i] = new /\ \A j \in Requests \ {i} : call'[j] = call[j]
  BY <1>2, <1>4, <1>5
<1>7. ASSUME NEW j \in Requests, call'[j] # None, call'[j].alone
      PROVE  /\ \A k \in Requests \ {j} : call'[k] = None
             /\ call'[j].step = "waiting" => call'[j].wake >= lastRequestAt' + Pause
             /\ call'[j].step = "sent" => call'[j].gap >= Pause
  <2>1. j = i
    <3> SUFFICES ASSUME j # i PROVE FALSE
      OBVIOUS
    <3>1. call[j] # None /\ call[j].alone
      BY <1>6, <1>7
    <3> QED
      BY <1>1, <3>1 DEF TrafficInv, LonelyIsApart
  <2>2. call[i].alone
    BY <1>4, <1>6, <1>7, <2>1
  <2>3. (\A k \in Requests \ {i} : call[k] = None) /\ call[i].wake >= lastRequestAt + Pause
    BY <1>1, <2>2 DEF TrafficInv, LonelyIsApart
  <2>4. moment - lastRequestAt >= Pause
    <3>1. call[i].wake \in Int
      BY <1>3 DEF TrafficCalls
    <3> QED
      BY <1>1, <1>2, <2>3, <3>1, TrafficConstants
  <2> QED
    BY <1>4, <1>6, <2>1, <2>3, <2>4
<1>8. LonelyIsApart'
  BY <1>7 DEF LonelyIsApart
<1> QED
  BY <1>1, <1>2, <1>6, <1>8, TrafficRequests

\* A failure is told to nobody, and not kept.
LEMMA TrafficUnanswered ==
  ASSUME TrafficInv, NEW i \in Requests, Traffic!Unanswered(i)
  PROVE  TrafficInv'
<1>1. /\ call' = [call EXCEPT ![i] = None]
      /\ UNCHANGED <<provider, moment, ranking, ranked, cache, lastRequestAt, estimate>>
  BY DEF Traffic!Unanswered, Traffic!KeepNoError
<1>2. call \in [Requests -> TrafficCalls \cup {None}] /\ lastRequestAt \in Int
  BY DEF TrafficInv, TrafficTyped
<1>3. /\ call' \in [Requests -> TrafficCalls \cup {None}]
      /\ call'[i] = None /\ \A j \in Requests \ {i} : call'[j] = call[j]
  BY <1>1, <1>2
<1>4. LonelyIsApart'
  BY <1>1, <1>3 DEF TrafficInv, LonelyIsApart
<1> QED
  BY <1>1, <1>2, <1>3, <1>4, TrafficRequests

LEMMA TrafficOther ==
  ASSUME TrafficInv, NEW i \in Requests, NEW h \in RankedHosts, NEW visits,
         Traffic!NotConfigured(i, h) \/ Traffic!Similarweb(i, h, visits)
  PROVE  TrafficInv'
<1>1. PICK range :
        /\ provider # "tranco" /\ Traffic!Tell(i, h, None, range)
        /\ UNCHANGED <<provider, moment, ranking, ranked, cache, lastRequestAt>>
  BY TrafficConstants DEF Traffic!NotConfigured, Traffic!Similarweb
<1>2. cache' \in [RankedHosts -> [at : Nat, rank : RankOrNone] \cup {None}]
  BY <1>1 DEF TrafficInv, TrafficTyped
<1> QED
  BY <1>1, <1>2, TrafficTells

LEMMA TrafficTake == ASSUME TrafficInv, NEW i \in Requests, Traffic!Take(i) PROVE TrafficInv'
<1>1. /\ estimate' = [estimate EXCEPT ![i] = None]
      /\ UNCHANGED <<provider, moment, ranking, ranked, cache, lastRequestAt, call>>
  BY DEF Traffic!Take
<1>2. DOMAIN estimate = Requests
  BY DEF TrafficInv, TrafficTyped
<1>3. /\ DOMAIN estimate' = Requests /\ estimate'[i] = None
      /\ \A j \in Requests \ {i} : estimate'[j] = estimate[j]
  BY <1>1, <1>2
<1>4. TrafficTyped'
  BY <1>1, <1>3 DEF TrafficInv, TrafficTyped
<1>5. RanksAreKept'
  BY <1>1, <1>3 DEF TrafficInv, RanksAreKept
<1>6. LonelyIsApart'
  BY <1>1 DEF TrafficInv, LonelyIsApart
<1> QED
  BY <1>4, <1>5, <1>6 DEF TrafficInv

LEMMA TrafficStarts == Traffic!Init => TrafficInv
<1> SUFFICES ASSUME Traffic!Init PROVE TrafficInv
  OBVIOUS
<1>1. /\ moment = 0 /\ lastRequestAt = -Pause /\ ranking \in [RankedHosts -> RankOrNone]
      /\ ranked = [h \in RankedHosts |->
                     [t \in 0 .. MaxMoment |-> IF t = 0 THEN {ranking[h]} ELSE {}]]
      /\ cache = [h \in RankedHosts |-> None]
      /\ call = [i \in Requests |-> None] /\ estimate = [i \in Requests |-> None]
  BY DEF Traffic!Init, RankOrNone
<1>2. TrafficTyped
  BY <1>1, TrafficConstants DEF TrafficTyped
<1>3. RanksAreKept
  BY <1>1, TrafficConstants DEF RanksAreKept, WasListed
<1>4. LonelyIsApart
  BY <1>1 DEF LonelyIsApart
<1> QED
  BY <1>2, <1>3, <1>4 DEF TrafficInv

\* The comments of TrancoTrafficProvider: a rank that is told was in a list published no
\* longer than Ttl before, however inspections share what is kept; and the requests of
\* inspections that do not overlap are a pause apart.
THEOREM EstimatesStaySound == Traffic!Spec => []EstimatesAreSound
<1>1. TrafficInv /\ [Traffic!Next]_(Traffic!vars) => TrafficInv'
  <2> SUFFICES ASSUME TrafficInv, [Traffic!Next]_(Traffic!vars) PROVE TrafficInv'
    OBVIOUS
  <2>1. CASE Traffic!Next
    BY <2>1, TrafficPass, TrafficPublish, TrafficOther, TrafficKept, TrafficAsk, TrafficWake,
       TrafficAnswered, TrafficUnanswered, TrafficTake DEF Traffic!Next, RankOrNone
  <2>2. CASE UNCHANGED Traffic!vars
    BY <2>2 DEF Traffic!vars, TrafficInv, TrafficTyped, RanksAreKept, LonelyIsApart
  <2> QED
    BY <2>1, <2>2
<1>2. TrafficInv => EstimatesAreSound
  <2> SUFFICES ASSUME TrafficInv PROVE EstimatesAreSound
    OBVIOUS
  <2>1. ASSUME NEW i \in Requests, provider = "tranco", estimate[i] # None
        PROVE  \E t \in 0 .. MaxMoment :
                 /\ estimate[i].at - Ttl < t /\ t <= estimate[i].at
                 /\ estimate[i].rank \in ranked[estimate[i].host][t]
    <3>1. Fresh(estimate[i], moment, ranked)
      BY <2>1 DEF TrafficInv, RanksAreKept
    <3>2. PICK t \in 0 .. moment :
            /\ estimate[i].at - Ttl < t /\ t <= estimate[i].at
            /\ WasListed(estimate[i].host, estimate[i].rank, t, moment, ranked)
      BY <3>1 DEF Fresh
    <3>3. t \in 0 .. MaxMoment
      BY TrafficConstants DEF TrafficInv, TrafficTyped
    <3> QED
      BY <3>2, <3>3 DEF WasListed
  <2>2. Traffic!RequestsAreApart
    BY DEF TrafficInv, LonelyIsApart, Traffic!RequestsAreApart
  <2> QED
    BY <2>1, <2>2 DEF EstimatesAreSound, Traffic!EstimateIsFresh
<1> QED
  BY <1>1, <1>2, TrafficStarts, PTL DEF Traffic!Spec

-------------------------------------------------------------------------------
(* SiteInspection: a page that was read is judged, politely. *)

Sitting == {"robots", "page", "sitemaps", "feeds", "linked", "enrich", "finalize", "done"}

\* The page is read by the step "page" or never, and judged if it was.
PageIsRead ==
  /\ phase \in Sitting
  /\ phase \in {"robots", "page"} => DOMAIN read = {} /\ requested = {}
  /\ phase \in {"sitemaps", "feeds"} => DOMAIN read = {FrontPage}
  /\ phase \in {"linked", "enrich", "finalize"} => FrontPage \in DOMAIN read
  /\ phase = "page" => FrontPage \notin disallowed

PagesAreFew ==
  /\ DOMAIN listed = {"sitemaps", "feeds", "chosen"}
  /\ listed.sitemaps \subseteq Links /\ listed.feeds \subseteq Links
  /\ listed.chosen \subseteq Links /\ Cardinality(listed.chosen) <= MaxLinked
  /\ pending \subseteq listed.chosen /\ DOMAIN read \subseteq {FrontPage} \cup listed.chosen
  /\ rendered \subseteq {FrontPage} \cup Links /\ Cardinality(rendered) <= MaxRendered

SiteInv ==
  /\ PageIsRead /\ PagesAreFew /\ Site!Judged /\ requested \cap disallowed = {}
  /\ legacy \in {None, "generic", "named"}

LEMMA SiteCardinality == \A S : Site!Cardinality(S) = Cardinality(S)
BY DEF Site!Cardinality, Cardinality

LEMMA SiteConstants ==
  /\ IsFiniteSet(Links) /\ Videos \subseteq Links /\ MaxLinked \in Nat /\ MaxRendered \in Nat
  /\ FrontPage \notin Links
BY OfficeAssumption
DEF OfficeAssumption, Site!InspectionAssumption, Site!IsFiniteSet, IsFiniteSet

LEMMA LimitedIsFew ==
  ASSUME NEW S, IsFiniteSet(S), NEW limit \in Nat, NEW T \in Site!Limited(S, limit)
  PROVE  T \subseteq S /\ IsFiniteSet(T) /\ Cardinality(T) \in Nat /\ Cardinality(T) <= limit
<1>1. T \subseteq S /\ Cardinality(T) = IF Cardinality(S) <= limit THEN Cardinality(S) ELSE limit
  BY SiteCardinality DEF Site!Limited
<1>2. IsFiniteSet(T) /\ Cardinality(T) \in Nat
  BY <1>1, FS_Subset, FS_CardinalityType
<1> QED
  BY <1>1, <1>2

\* A verdict without the page, before it was read.
LEMMA SiteObserved ==
  ASSUME SiteInv, phase \in {"robots", "page"}, NEW result \in {"blocked", "unknown"},
         NEW degree, NEW code, Site!Observed(result, degree, code),
         UNCHANGED <<rendered, legacy, read, listed, pending>>, requested' \cap disallowed' = {}
  PROVE  SiteInv'
<1>1. phase' = "done" /\ observation'.status = result
  BY DEF Site!Observed
<1>2. Site!Judged'
  BY <1>1 DEF SiteInv, PageIsRead, Site!Judged, Site!PageRead
<1>3. PageIsRead'
  BY <1>1 DEF PageIsRead, Sitting
<1>4. PagesAreFew'
  BY DEF SiteInv, PagesAreFew
<1> QED
  BY <1>2, <1>3, <1>4 DEF SiteInv

LEMMA SiteFailed ==
  ASSUME SiteInv, phase \in {"robots", "page"}, Site!Failed,
         UNCHANGED <<rendered, legacy, read, listed, pending>>, requested' \cap disallowed' = {}
  PROVE  SiteInv'
BY SiteObserved DEF Site!Failed

LEMMA SiteReadRobots == ASSUME SiteInv, Site!ReadRobots PROVE SiteInv'
<1>1. /\ phase = "robots" /\ requested = {}
      /\ UNCHANGED <<requested, rendered, legacy, listed, pending, read>>
  BY DEF Site!ReadRobots, SiteInv, PageIsRead
<1>2. CASE Site!Observed("blocked", "low", "ROBOTS_ACCESS_DENIED")
  BY <1>1, <1>2, SiteObserved
<1>3. CASE Site!Failed
  BY <1>1, <1>3, SiteFailed
<1>4. CASE Site!Observed("blocked", "high", "ROBOTS_DISALLOWED")
  BY <1>1, <1>4, SiteObserved
<1>5. CASE phase' = "page" /\ FrontPage \notin disallowed'
  <2>1. PageIsRead' /\ Site!Judged'
    BY <1>1, <1>5 DEF SiteInv, PageIsRead, Sitting, Site!Judged
  <2>2. PagesAreFew' /\ requested' \cap disallowed' = {}
    BY <1>1 DEF SiteInv, PagesAreFew
  <2> QED
    BY <1>1, <2>1, <2>2 DEF SiteInv
<1> QED
  BY <1>2, <1>3, <1>4, <1>5 DEF Site!ReadRobots

LEMMA SiteReadPage == ASSUME SiteInv, Site!ReadPage PROVE SiteInv'
<1>1. /\ phase = "page" /\ requested' = {FrontPage}
      /\ UNCHANGED <<disallowed, rendered, listed, pending>>
  BY DEF Site!ReadPage
<1>2. requested' \cap disallowed' = {}
  BY <1>1 DEF SiteInv, PageIsRead
<1>3. CASE Site!ReadHtml
  <2>1. DOMAIN read' = {FrontPage} /\ phase' \in {"sitemaps", "enrich"}
    BY <1>3 DEF Site!ReadHtml
  <2>2. PageIsRead' /\ Site!Judged'
    BY <2>1 DEF PageIsRead, Sitting, Site!Judged
  <2>3. PagesAreFew' /\ legacy' \in {None, "generic", "named"}
    BY <1>1, <1>3, <2>1 DEF SiteInv, PagesAreFew, Site!ReadHtml
  <2> QED
    BY <1>2, <2>2, <2>3 DEF SiteInv
<1>4. CASE UNCHANGED <<legacy, read>> /\ (\/ Site!Observed("blocked", "high", "PAGE_HTTP_BLOCKED")
                                     \/ Site!Observed("unknown", "low", "PAGE_HTTP_ERROR")
                                     \/ Site!Observed("unknown", "low", "PAGE_CONTENT_TYPE_UNSUPPORTED"))
  BY <1>1, <1>2, <1>4, SiteObserved
<1>5. CASE UNCHANGED <<legacy, read>> /\ Site!Failed
  BY <1>1, <1>2, <1>5, SiteFailed
<1> QED
  BY <1>3, <1>4, <1>5 DEF Site!ReadPage

LEMMA SiteReadSitemaps == ASSUME SiteInv, Site!ReadSitemaps PROVE SiteInv'
<1>1. /\ phase = "sitemaps" /\ phase' = "feeds"
      /\ UNCHANGED <<disallowed, rendered, legacy, pending, read>>
  BY DEF Site!ReadSitemaps
<1>2. PICK declared, below, urls :
        /\ requested' = requested \cup Site!Allowed(declared) \cup below
        /\ below \cap disallowed = {}
        /\ urls \subseteq Links /\ listed' = [listed EXCEPT !.sitemaps = urls]
  <2>1. PICK declared, children :
          LET below == IF Site!Allowed(declared) = {} THEN {} ELSE Site!Allowed(children)
          IN  /\ requested' = requested \cup Site!Allowed(declared) \cup below
              /\ \E urls \in IF Site!Allowed(declared) = {} THEN {{}} ELSE SUBSET Links :
                   listed' = [listed EXCEPT !.sitemaps = urls]
    BY DEF Site!ReadSitemaps
  <2> DEFINE below == IF Site!Allowed(declared) = {} THEN {} ELSE Site!Allowed(children)
  <2>2. PICK urls \in IF Site!Allowed(declared) = {} THEN {{}} ELSE SUBSET Links :
          listed' = [listed EXCEPT !.sitemaps = urls]
    BY <2>1
  <2>3. urls \subseteq Links /\ below \cap disallowed = {}
    BY <2>2 DEF Site!Allowed
  <2>4. requested' = requested \cup Site!Allowed(declared) \cup below
    BY <2>1
  <2> HIDE DEF below
  <2> QED
    BY <2>2, <2>3, <2>4
<1>3. requested' \cap disallowed' = {}
  BY <1>1, <1>2 DEF SiteInv, Site!Allowed
<1>4. PageIsRead' /\ Site!Judged'
  BY <1>1 DEF SiteInv, PageIsRead, Sitting, Site!Judged
<1>5. DOMAIN listed = {"sitemaps", "feeds", "chosen"}
  BY DEF SiteInv, PagesAreFew
<1>6. /\ DOMAIN listed' = DOMAIN listed /\ listed'.sitemaps = urls
      /\ listed'.feeds = listed.feeds /\ listed'.chosen = listed.chosen
  BY <1>2, <1>5
<1>7. PagesAreFew'
  BY <1>1, <1>2, <1>6 DEF SiteInv, PagesAreFew
<1> QED
  BY <1>1, <1>3, <1>4, <1>7 DEF SiteInv

LEMMA SiteReadFeeds == ASSUME SiteInv, Site!ReadFeeds PROVE SiteInv'
<1>1. /\ phase = "feeds" /\ phase' = "linked"
      /\ UNCHANGED <<disallowed, rendered, legacy, read>>
  BY DEF Site!ReadFeeds
<1>2. PICK declared, more, urls, chosen :
        /\ more \subseteq Links /\ urls \subseteq Links
        /\ chosen \in Site!Limited(more \cup listed.sitemaps \cup urls, MaxLinked)
        /\ listed' = [listed EXCEPT !.feeds = urls, !.chosen = chosen]
        /\ pending' = Site!Allowed(chosen)
        /\ requested' = requested \cup Site!Allowed(declared) \cup Site!Allowed(chosen)
  <2>1. PICK declared \in SUBSET Documents, more \in SUBSET Links :
          \E urls \in IF Site!Allowed(declared) = {} THEN {{}} ELSE SUBSET Links :
            \E chosen \in Site!Limited(more \cup listed.sitemaps \cup urls, MaxLinked) :
              /\ listed' = [listed EXCEPT !.feeds = urls, !.chosen = chosen]
              /\ pending' = Site!Allowed(chosen)
              /\ requested' = requested \cup Site!Allowed(declared) \cup Site!Allowed(chosen)
    BY DEF Site!ReadFeeds
  <2>2. PICK urls \in IF Site!Allowed(declared) = {} THEN {{}} ELSE SUBSET Links :
          \E chosen \in Site!Limited(more \cup listed.sitemaps \cup urls, MaxLinked) :
            /\ listed' = [listed EXCEPT !.feeds = urls, !.chosen = chosen]
            /\ pending' = Site!Allowed(chosen)
            /\ requested' = requested \cup Site!Allowed(declared) \cup Site!Allowed(chosen)
    BY <2>1
  <2>3. urls \subseteq Links
    BY <2>2
  <2> QED
    BY <2>2, <2>3
<1>3. requested' \cap disallowed' = {}
  BY <1>1, <1>2 DEF SiteInv, Site!Allowed
<1>4. PageIsRead' /\ Site!Judged'
  BY <1>1 DEF SiteInv, PageIsRead, Sitting, Site!Judged
<1>5. DOMAIN listed = {"sitemaps", "feeds", "chosen"} /\ listed.sitemaps \subseteq Links
  BY DEF SiteInv, PagesAreFew
<1>6. /\ DOMAIN listed' = DOMAIN listed /\ listed'.sitemaps = listed.sitemaps
      /\ listed'.feeds = urls /\ listed'.chosen = chosen
  BY <1>2, <1>5
<1>7. chosen \subseteq Links /\ Cardinality(chosen) <= MaxLinked
  <2> DEFINE S == more \cup listed.sitemaps \cup urls
  <2>1. S \subseteq Links /\ IsFiniteSet(S) /\ MaxLinked \in Nat
    BY <1>2, <1>5, SiteConstants, FS_Subset
  <2> QED
    BY <1>2, <2>1, LimitedIsFew
<1>8. DOMAIN read \subseteq {FrontPage}
  BY <1>1 DEF SiteInv, PageIsRead
<1>9. PagesAreFew'
  BY <1>1, <1>2, <1>5, <1>6, <1>7, <1>8 DEF SiteInv, PagesAreFew, Site!Allowed
<1> QED
  BY <1>1, <1>3, <1>4, <1>9 DEF SiteInv

LEMMA SiteReadLinked ==
  ASSUME SiteInv, NEW url \in Links, Site!ReadLinked(url)
  PROVE  SiteInv'
<1>1. /\ phase = "linked" /\ phase' = phase /\ url \in pending /\ pending' = pending \ {url}
      /\ DOMAIN read \subseteq DOMAIN read' /\ DOMAIN read' \subseteq DOMAIN read \cup {url}
      /\ UNCHANGED <<disallowed, requested, rendered, legacy, listed>>
  BY DEF Site!ReadLinked, Site!DropLinked, Site!WithPage
<1>2. PageIsRead' /\ Site!Judged'
  BY <1>1 DEF SiteInv, PageIsRead, Site!Judged
<1>3. PagesAreFew'
  BY <1>1 DEF SiteInv, PagesAreFew
<1>4. requested' \cap disallowed' = {}
  BY <1>1 DEF SiteInv
<1> QED
  BY <1>1, <1>2, <1>3, <1>4 DEF SiteInv

LEMMA SiteGoesOn == ASSUME SiteInv, Site!AllRead \/ Site!Enrich PROVE SiteInv'
<1>1. /\ phase \in {"linked", "enrich"} /\ phase' \in {"enrich", "finalize"}
      /\ UNCHANGED <<disallowed, requested, rendered, legacy, listed, pending, read>>
  BY DEF Site!AllRead, Site!Enrich
<1>2. PageIsRead' /\ Site!Judged'
  BY <1>1 DEF SiteInv, PageIsRead, Sitting, Site!Judged
<1>3. PagesAreFew' /\ requested' \cap disallowed' = {}
  BY <1>1 DEF SiteInv, PagesAreFew
<1> QED
  BY <1>1, <1>2, <1>3 DEF SiteInv

\* The browser opens the page and some others, as many as it may.
LEMMA TargetsAreFew ==
  ASSUME SiteInv, NEW targets \in Site!Targets
  PROVE  targets \subseteq {FrontPage} \cup Links /\ Cardinality(targets) <= MaxRendered
<1> DEFINE first == {{FrontPage} \cup T : T \in Site!Limited(listed.chosen \cap Videos, 2)}
           rest == IF listed.feeds # {} THEN listed.feeds ELSE listed.chosen
<1>1. listed.chosen \subseteq Links /\ listed.feeds \subseteq Links
  BY DEF SiteInv, PagesAreFew
<1>2. IsFiniteSet(Links) /\ MaxRendered \in Nat
  BY SiteConstants
<1>3. PICK F \in first : \E S \in Site!Limited(F, MaxRendered) :
        \E T \in Site!Limited(rest \ S, MaxRendered - Site!Cardinality(S)) : targets = S \cup T
  <2>1. PICK S \in UNION {Site!Limited(F, MaxRendered) : F \in first} :
          targets \in {S \cup T : T \in Site!Limited(rest \ S, MaxRendered - Site!Cardinality(S))}
    <3> DEFINE opened(S) ==
                 {S \cup T : T \in Site!Limited(rest \ S, MaxRendered - Site!Cardinality(S))}
    <3>1. targets \in UNION {opened(S) : S \in UNION {Site!Limited(F, MaxRendered) : F \in first}}
      BY DEF Site!Targets
    <3> HIDE DEF opened, first
    <3>2. PICK S \in UNION {Site!Limited(F, MaxRendered) : F \in first} : targets \in opened(S)
      BY <3>1
    <3> QED
      BY <3>2 DEF opened
  <2>2. PICK F \in first : S \in Site!Limited(F, MaxRendered)
    OBVIOUS
  <2> HIDE DEF first, rest
  <2> QED
    BY <2>1, <2>2
<1>4. F \subseteq {FrontPage} \cup Links /\ IsFiniteSet(F)
  <2>1. PICK T \in Site!Limited(listed.chosen \cap Videos, 2) : F = {FrontPage} \cup T
    BY <1>3
  <2>2. T \subseteq Links
    BY <1>1, <2>1 DEF Site!Limited
  <2>3. IsFiniteSet(T)
    BY <1>2, <2>2, FS_Subset
  <2> QED
    BY <2>1, <2>2, <2>3, FS_Singleton, FS_Union
<1>5. PICK S \in Site!Limited(F, MaxRendered) :
        \E T \in Site!Limited(rest \ S, MaxRendered - Site!Cardinality(S)) : targets = S \cup T
  BY <1>3
<1>6. /\ S \subseteq F /\ IsFiniteSet(S) /\ Cardinality(S) \in Nat
      /\ Cardinality(S) <= MaxRendered
  BY <1>2, <1>4, <1>5, LimitedIsFew
<1>7. PICK T \in Site!Limited(rest \ S, MaxRendered - Cardinality(S)) : targets = S \cup T
  BY <1>5, SiteCardinality
<1>8. rest \ S \subseteq Links /\ IsFiniteSet(rest \ S) /\ MaxRendered - Cardinality(S) \in Nat
  BY <1>1, <1>2, <1>6, FS_Subset
<1> HIDE DEF rest, first
<1>9. /\ T \subseteq rest \ S /\ IsFiniteSet(T) /\ Cardinality(T) \in Nat
      /\ Cardinality(T) <= MaxRendered - Cardinality(S)
  BY <1>7, <1>8, LimitedIsFew
<1>10. Cardinality(S \cup T) = Cardinality(S) + Cardinality(T) - Cardinality(S \cap T)
  BY <1>6, <1>9, FS_Union
<1>11. S \cap T = {}
  BY <1>9
<1>12. Cardinality(S \cap T) = 0
  BY <1>11, FS_EmptySet
<1> QED
  BY <1>2, <1>4, <1>6, <1>7, <1>8, <1>9, <1>10, <1>12

LEMMA SiteFinalize == ASSUME SiteInv, Site!Finalize PROVE SiteInv'
<1>1. /\ phase = "finalize" /\ UNCHANGED <<disallowed, requested, legacy, listed, pending, read>>
      /\ Site!Verdict(players') /\ (rendered' = rendered \/ rendered' \in Site!Targets)
  BY DEF Site!Finalize
<1>2. FrontPage \in DOMAIN read
  BY <1>1 DEF SiteInv, PageIsRead
<1>3. /\ phase' = "done" /\ observation'.status \in {"found", "not_found"}
      /\ observation'.status = "not_found" =>
           players' = <<>> /\ legacy # "generic" /\ legacy # "named"
      /\ observation'.status = "found" /\ observation'.confidence = "high" => legacy = "named"
  BY <1>1 DEF Site!Verdict, Site!Observed
<1>4. PageIsRead' /\ Site!Judged'
  BY <1>1, <1>2, <1>3 DEF SiteInv, PageIsRead, Sitting, Site!Judged, Site!PageRead
<1>5. PagesAreFew'
  BY <1>1, TargetsAreFew DEF SiteInv, PagesAreFew
<1> QED
  BY <1>1, <1>4, <1>5 DEF SiteInv

LEMMA SiteInitially == Site!Init => SiteInv
<1> SUFFICES ASSUME Site!Init PROVE SiteInv
  OBVIOUS
<1>1. /\ phase = "robots" /\ disallowed = {} /\ requested = {} /\ rendered = {}
      /\ legacy = None /\ listed = [sitemaps |-> {}, feeds |-> {}, chosen |-> {}]
      /\ pending = {} /\ DOMAIN read = {}
  BY DEF Site!Init
<1>2. Cardinality({}) = 0
  BY FS_EmptySet
<1> QED
  BY <1>1, <1>2, SiteConstants DEF SiteInv, PageIsRead, PagesAreFew, Sitting, Site!Judged

LEMMA SiteInductive == SiteInv /\ [Site!Next]_(Site!vars) => SiteInv'
<1> SUFFICES ASSUME SiteInv, [Site!Next]_(Site!vars) PROVE SiteInv'
  OBVIOUS
<1>1. CASE Site!Next
  BY <1>1, SiteReadRobots, SiteReadPage, SiteReadSitemaps, SiteReadFeeds, SiteReadLinked,
     SiteGoesOn, SiteFinalize DEF Site!Next
<1>2. CASE UNCHANGED Site!vars
  BY <1>2 DEF Site!vars, SiteInv, PageIsRead, PagesAreFew, Site!Judged, Site!PageRead
<1> QED
  BY <1>1, <1>2

SiteIsSound == Site!Judged /\ Site!Polite

\* ADR-0008: whatever fails after it was read, a page is judged, and only a page that was
\* read; by requests that robots.txt allows, and no more of them than the inspection may make.
THEOREM InspectionsStaySound == Site!Spec => []SiteIsSound
<1>1. SiteInv => SiteIsSound
  <2> SUFFICES ASSUME SiteInv PROVE SiteIsSound
    OBVIOUS
  <2>1. IsFiniteSet(listed.chosen) /\ Cardinality(listed.chosen) <= MaxLinked
        /\ DOMAIN read \subseteq {FrontPage} \cup listed.chosen
    BY SiteConstants, FS_Subset DEF SiteInv, PagesAreFew
  <2> DEFINE all == listed.chosen \cup {FrontPage}
  <2>2. /\ IsFiniteSet(all)
        /\ Cardinality(all) \in {Cardinality(listed.chosen), Cardinality(listed.chosen) + 1}
    BY <2>1, FS_AddElement
  <2>3. Cardinality(all) \in Nat /\ Cardinality(all) <= 1 + MaxLinked
    BY <2>1, <2>2, FS_CardinalityType, SiteConstants
  <2>4. DOMAIN read \subseteq all
    BY <2>1
  <2>5. Cardinality(DOMAIN read) \in Nat /\ Cardinality(DOMAIN read) <= Cardinality(all)
    BY <2>2, <2>4, FS_Subset, FS_CardinalityType
  <2> HIDE DEF all
  <2>6. Cardinality(DOMAIN read) <= 1 + MaxLinked
    BY <2>3, <2>5, SiteConstants
  <2> QED
    BY <2>6, SiteCardinality DEF SiteInv, PagesAreFew, SiteIsSound, Site!Polite
<1> QED
  BY <1>1, SiteInitially, SiteInductive, PTL DEF Site!Spec

SiteSets ==
  /\ disallowed \in Rules /\ requested \subseteq {FrontPage} \cup Links \cup Documents
  /\ phase = "done" => observation \in Site!PageObservations
  /\ phase # "done" => observation = None

LEMMA SiteSetsObserved ==
  ASSUME SiteSets, NEW result \in Site!Statuses, NEW degree \in {"high", "medium", "low"},
         NEW code \in Site!Codes, Site!Observed(result, degree, code),
         disallowed' \in Rules, requested' \subseteq {FrontPage} \cup Links \cup Documents
  PROVE  SiteSets'
<1>1. phase' = "done" /\ observation' = [status |-> result, confidence |-> degree, code |-> code]
  BY DEF Site!Observed
<1>2. observation' \in Site!PageObservations
  BY <1>1 DEF Site!PageObservations
<1> QED
  BY <1>1, <1>2 DEF SiteSets

LEMMA SiteSetsFailed ==
  ASSUME SiteSets, Site!Failed, disallowed' \in Rules,
         requested' \subseteq {FrontPage} \cup Links \cup Documents
  PROVE  SiteSets'
<1>1. PICK result \in {"blocked", "unknown"}, degree \in {"high", "low"},
           code \in {"NETWORK_TARGET_BLOCKED", "RESPONSE_TOO_LARGE", "NETWORK_TIMEOUT",
                     "NETWORK_ERROR"} : Site!Observed(result, degree, code)
  BY DEF Site!Failed
<1>2. result \in Site!Statuses /\ degree \in {"high", "medium", "low"} /\ code \in Site!Codes
  BY DEF Site!Statuses, Site!Codes
<1> QED
  BY <1>1, <1>2, SiteSetsObserved

LEMMA SiteSetsGoOn ==
  ASSUME SiteSets, phase # "done", phase' # "done", UNCHANGED observation, disallowed' \in Rules,
         requested' \subseteq {FrontPage} \cup Links \cup Documents
  PROVE  SiteSets'
BY DEF SiteSets

LEMMA SiteSetsStay == SiteInv /\ SiteSets /\ [Site!Next]_(Site!vars) => SiteSets'
<1> SUFFICES ASSUME SiteInv, SiteSets, [Site!Next]_(Site!vars) PROVE SiteSets'
  OBVIOUS
<1> DEFINE urls == {FrontPage} \cup Links \cup Documents
<1>1. CASE UNCHANGED Site!vars
  BY <1>1 DEF Site!vars, SiteSets
<1>2. disallowed \in Rules /\ requested \subseteq urls
  BY DEF SiteSets
<1>3. /\ {"found", "not_found", "blocked", "unknown"} \subseteq Site!Statuses
      /\ {"ROBOTS_ACCESS_DENIED", "ROBOTS_DISALLOWED", "PAGE_HTTP_BLOCKED", "PAGE_HTTP_ERROR",
          "PAGE_CONTENT_TYPE_UNSUPPORTED", "VIDEO_PATTERN_NOT_FOUND", None} \subseteq Site!Codes
  BY DEF Site!Statuses, Site!Codes
<1>4. CASE Site!ReadRobots
  <2>1. phase = "robots" /\ requested' \subseteq urls /\ disallowed' \in Rules
    BY <1>2, <1>4 DEF Site!ReadRobots
  <2>2. CASE phase' = "page" /\ UNCHANGED observation
    BY <2>1, <2>2, SiteSetsGoOn
  <2>3. CASE Site!Failed
    BY <2>1, <2>3, SiteSetsFailed
  <2>4. CASE Site!Observed("blocked", "low", "ROBOTS_ACCESS_DENIED")
    BY <1>3, <2>1, <2>4, SiteSetsObserved
  <2>5. CASE Site!Observed("blocked", "high", "ROBOTS_DISALLOWED")
    BY <1>3, <2>1, <2>5, SiteSetsObserved
  <2> QED
    BY <1>4, <2>2, <2>3, <2>4, <2>5 DEF Site!ReadRobots
<1>5. CASE Site!ReadPage
  <2>1. phase = "page" /\ requested' \subseteq urls /\ disallowed' \in Rules
    BY <1>2, <1>5 DEF Site!ReadPage
  <2>2. CASE Site!ReadHtml
    BY <2>1, <2>2, SiteSetsGoOn DEF Site!ReadHtml
  <2>3. CASE Site!Failed
    BY <2>1, <2>3, SiteSetsFailed
  <2>4. CASE Site!Observed("blocked", "high", "PAGE_HTTP_BLOCKED")
    BY <1>3, <2>1, <2>4, SiteSetsObserved
  <2>5. CASE Site!Observed("unknown", "low", "PAGE_HTTP_ERROR")
    BY <1>3, <2>1, <2>5, SiteSetsObserved
  <2>6. CASE Site!Observed("unknown", "low", "PAGE_CONTENT_TYPE_UNSUPPORTED")
    BY <1>3, <2>1, <2>6, SiteSetsObserved
  <2> QED
    BY <1>5, <2>2, <2>3, <2>4, <2>5, <2>6 DEF Site!ReadPage
<1>6. CASE Site!ReadSitemaps
  <2>1. /\ phase = "sitemaps" /\ phase' = "feeds" /\ UNCHANGED <<observation, disallowed>>
        /\ \E declared, children \in SUBSET Documents :
             requested' = requested \cup Site!Allowed(declared)
                            \cup IF Site!Allowed(declared) = {} THEN {} ELSE Site!Allowed(children)
    BY <1>6 DEF Site!ReadSitemaps
  <2>2. requested' \subseteq urls
    BY <1>2, <2>1 DEF Site!Allowed
  <2> QED
    BY <1>2, <2>1, <2>2, SiteSetsGoOn
<1>7. CASE Site!ReadFeeds
  <2>1. /\ phase = "feeds" /\ phase' = "linked" /\ UNCHANGED <<observation, disallowed>>
        /\ \E declared \in SUBSET Documents, more \in SUBSET Links :
             \E links \in IF Site!Allowed(declared) = {} THEN {{}} ELSE SUBSET Links :
               \E chosen \in Site!Limited(more \cup listed.sitemaps \cup links, MaxLinked) :
                 requested' = requested \cup Site!Allowed(declared) \cup Site!Allowed(chosen)
    BY <1>7 DEF Site!ReadFeeds
  <2>2. PICK declared, chosen :
          /\ declared \subseteq Documents /\ chosen \subseteq Links \cup listed.sitemaps
          /\ requested' = requested \cup Site!Allowed(declared) \cup Site!Allowed(chosen)
    <3>1. PICK declared \in SUBSET Documents, more \in SUBSET Links :
            \E links \in IF Site!Allowed(declared) = {} THEN {{}} ELSE SUBSET Links :
              \E chosen \in Site!Limited(more \cup listed.sitemaps \cup links, MaxLinked) :
                requested' = requested \cup Site!Allowed(declared) \cup Site!Allowed(chosen)
      BY <2>1
    <3>2. PICK links \in IF Site!Allowed(declared) = {} THEN {{}} ELSE SUBSET Links :
            \E chosen \in Site!Limited(more \cup listed.sitemaps \cup links, MaxLinked) :
              requested' = requested \cup Site!Allowed(declared) \cup Site!Allowed(chosen)
      BY <3>1
    <3>3. links \subseteq Links
      BY <3>2
    <3> QED
      BY <3>2, <3>3 DEF Site!Limited
  <2>3. listed.sitemaps \subseteq Links
    BY DEF SiteInv, PagesAreFew
  <2>4. requested' \subseteq urls
    BY <1>2, <2>2, <2>3 DEF Site!Allowed
  <2> QED
    BY <1>2, <2>1, <2>4, SiteSetsGoOn
<1>8. CASE (\E url \in Links : Site!ReadLinked(url)) \/ Site!AllRead \/ Site!Enrich
  <2>1. /\ phase \in {"linked", "enrich"} /\ phase' \in {"linked", "enrich", "finalize"}
        /\ UNCHANGED <<observation, disallowed, requested>>
    BY <1>8 DEF Site!ReadLinked, Site!DropLinked, Site!AllRead, Site!Enrich
  <2> QED
    BY <1>2, <2>1, SiteSetsGoOn
<1>9. CASE Site!Finalize
  <2>1. UNCHANGED <<disallowed, requested>> /\ Site!Verdict(players')
    BY <1>9 DEF Site!Finalize
  <2>2. PICK result \in {"found", "not_found"}, degree \in {"high", "medium"},
             code \in {None, "VIDEO_PATTERN_NOT_FOUND"} : Site!Observed(result, degree, code)
    BY <2>1 DEF Site!Verdict
  <2> QED
    BY <1>2, <1>3, <2>1, <2>2, SiteSetsObserved
<1> QED
  BY <1>1, <1>4, <1>5, <1>6, <1>7, <1>8, <1>9 DEF Site!Next

LEMMA SiteTypesOK == Site!Spec => []Site!TypeOK
<1>1. Site!Init => SiteSets
  BY OfficeAssumption DEF OfficeAssumption, Site!InspectionAssumption, Site!Init, SiteSets
<1>2. SiteInv /\ SiteSets => Site!TypeOK
  <2> SUFFICES ASSUME SiteInv, SiteSets PROVE Site!TypeOK
    OBVIOUS
  <2>1. None \notin Site!PageObservations
    BY OfficeAssumption DEF OfficeAssumption, Site!InspectionAssumption
  <2> QED
    BY <2>1, SiteConstants DEF SiteInv, PageIsRead, PagesAreFew, Sitting, SiteSets, Site!TypeOK
<1>3. SiteInv /\ SiteSets /\ [Site!Next]_(Site!vars) => SiteInv' /\ SiteSets'
  BY SiteInductive, SiteSetsStay
<1> QED
  BY <1>1, <1>2, <1>3, SiteInitially, PTL DEF Site!Spec

-------------------------------------------------------------------------------
(* RadarSourcing *)

SourcedEntries == Sourcing!Entries \cup {Sourcing!Linked(h) : h \in SourcingHosts}

SourcingCycles ==
  [step : {"fetch", "take", "look", "create", "request", "done"}, source : {1, 2},
   queue : Seq(SourcedEntries), seen : SUBSET SourcingHosts, made : Nat,
   failed : SUBSET SourcingHosts]

\* The entry a cycle is at, and whether it has one.
Taken(c) == c.step \in {"look", "create", "request"}

Tracked(c, h) == h \in c.failed \/ Sourcing!IsKnownDomain(h)

\* What a cycle knows of its entries: the one it is at is a host, a candidate at the request;
\* the hosts that it has seen are dealt with, but the one it is at; and so is each seed that
\* is not yet to come, once they were read, unless the cycle was full.
CycleIsRight(c) ==
  /\ Taken(c) => c.queue # <<>> /\ Head(c.queue).host \in SourcingHosts
  /\ c.step = "request" => Sourcing!IsKnownDomain(Head(c.queue).host)
  /\ \A h \in c.seen : Tracked(c, h) \/ (Taken(c) /\ h = Head(c.queue).host)
  /\ \A entry \in Sourcing!Range(InlineSeeds) :
       \/ entry.host = None \/ Tracked(c, entry.host)
       \/ c.source = 1 /\ c.step = "fetch"
       \/ c.source = 1 /\ c.step # "done" /\ \E i \in 1 .. Len(c.queue) : c.queue[i] = entry
       \/ c.made >= MaxNew

\* A host has at most one candidate of cycles; its key tells of one, and while a cycle is
\* about to create one of it, the other way around.
SourcingInv ==
  /\ cycle \in [Requests -> {None} \cup SourcingCycles]
  /\ found \in [SourcingHosts -> 0 .. 1] /\ DOMAIN markers = SourcingHosts
  /\ tracked \in Seq(SourcingHosts)
  /\ \A h \in SourcingHosts : markers[h] # None => found[h] = 1
  /\ \A w \in Requests : Sourcing!At(w, "create") =>
       (found[Sourcing!Host(w)] = 1 => markers[Sourcing!Host(w)] # None)
  /\ \A w \in Requests : cycle[w] # None => CycleIsRight(cycle[w])

\* What the proof says of a cycle's record, of a host, and of the seeds, once.
LEMMA EntriesAreTyped ==
  /\ InlineSeeds \in Seq(SourcedEntries) /\ InFile \in Seq(SourcedEntries)
  /\ \A entry \in SourcedEntries : entry.host \in SourcingHosts \cup {None} /\ entry.address # None
  /\ None \notin SourcingHosts /\ MaxNew \in Nat \ {0}
<1> QED
  BY OfficeAssumption DEF Sourcing!SourcingAssumption, SourcedEntries, Sourcing!Linked

LEMMA SourcingInitially == Sourcing!Init => SourcingInv
<1> QED
  BY DEF Sourcing!Init, SourcingInv, Sourcing!At

\* A host that is known stays known.
LEMMA KnownStaysKnown ==
  ASSUME SourcingInv, Sourcing!Next, NEW h \in SourcingHosts, Sourcing!IsKnownDomain(h)
  PROVE Sourcing!IsKnownDomain(h)'
<1> USE DEF Sourcing!IsKnownDomain, Sourcing!CandidateHosts
<1>1. CASE UNCHANGED <<found, tracked>> /\ entered \subseteq entered'
  BY <1>1
<1>2. CASE UNCHANGED <<found, entered>> /\ \E k \in SourcingHosts : tracked' = <<k>> \o tracked
  <2>1. PICK k \in SourcingHosts : tracked' = <<k>> \o tracked
    BY <1>2
  <2>2. Len(tracked) \in Nat /\ tracked' \in Seq(SourcingHosts) /\ Len(tracked') = 1 + Len(tracked)
        /\ \A i \in 1 .. Len(tracked) : tracked'[i + 1] = tracked[i]
    BY <2>1 DEF SourcingInv
  <2>3. CASE h \in Sourcing!Range(tracked)
    <3>1. PICK i \in 1 .. Len(tracked) : tracked[i] = h
      BY <2>3 DEF Sourcing!Range, SourcingInv
    <3>2. i + 1 \in DOMAIN tracked' /\ tracked'[i + 1] = h
      BY <2>2, <3>1
    <3> QED
      BY <3>2 DEF Sourcing!Range
  <2> QED
    BY <1>2, <2>3
<1>3. CASE UNCHANGED <<entered, tracked>> /\ \E k \in SourcingHosts : found' = [found EXCEPT ![k] = @ + 1]
  BY <1>3 DEF SourcingInv
<1> QED
  <2>1. ASSUME NEW w \in Requests, Sourcing!Create(w), found' # found
        PROVE \E k \in SourcingHosts : found' = [found EXCEPT ![k] = @ + 1]
    <3>1. cycle[w] # None /\ Taken(cycle[w])
      BY <2>1 DEF Sourcing!Create, Sourcing!At, Taken
    <3>2. Head(cycle[w].queue).host \in SourcingHosts
      BY <3>1 DEF SourcingInv, CycleIsRight
    <3> QED
      BY <2>1, <3>2 DEF Sourcing!Create
  <2>2. ASSUME NEW w \in Requests, Sourcing!Create(w)
        PROVE UNCHANGED <<entered, tracked>>
    BY <2>2 DEF Sourcing!Create
  <2> QED
    BY <1>1, <1>2, <1>3, <2>1, <2>2
    DEF Sourcing!Next, Sourcing!Enter, Sourcing!Accept, Sourcing!Reject, Sourcing!KeyExpires,
        Sourcing!Start, Sourcing!Fetched, Sourcing!FetchSeeds, Sourcing!FetchLinks,
        Sourcing!SourceFails, Sourcing!TakeNothing, Sourcing!Take, Sourcing!Look,
        Sourcing!Request, Sourcing!Fail, Sourcing!EndSource, Sourcing!Leave

\* So what is right of a cycle that rests stays right.
LEMMA StaysRight ==
  ASSUME SourcingInv, Sourcing!Next, NEW c \in SourcingCycles, CycleIsRight(c)
  PROVE CycleIsRight(c)'
<1>1. \A h \in SourcingHosts : Tracked(c, h) => Tracked(c, h)'
  BY KnownStaysKnown DEF Tracked
<1>2. c.seen \subseteq SourcingHosts
  BY DEF SourcingCycles
<1>3. \A entry \in Sourcing!Range(InlineSeeds) : entry.host \in SourcingHosts \cup {None}
  BY EntriesAreTyped DEF Sourcing!Range
<1>4. Taken(c) => Head(c.queue).host \in SourcingHosts
  BY DEF CycleIsRight
<1>5. c.step = "request" => Taken(c)
  BY DEF Taken
<1>6. c.step = "request" => Sourcing!IsKnownDomain(Head(c.queue).host)'
  BY <1>4, <1>5, KnownStaysKnown DEF CycleIsRight
<1>7. \A h \in c.seen : Tracked(c, h)' \/ (Taken(c) /\ h = Head(c.queue).host)
  BY <1>1, <1>2 DEF CycleIsRight
<1>8. \A entry \in Sourcing!Range(InlineSeeds) :
        \/ entry.host = None \/ Tracked(c, entry.host)'
        \/ c.source = 1 /\ c.step = "fetch"
        \/ c.source = 1 /\ c.step # "done" /\ \E i \in 1 .. Len(c.queue) : c.queue[i] = entry
        \/ c.made >= MaxNew
  BY <1>1, <1>3 DEF CycleIsRight
<1>9. Taken(c)' = Taken(c)
  BY DEF Taken
<1> QED
  BY <1>4, <1>6, <1>7, <1>8, <1>9 DEF CycleIsRight

LEMMA CycleMoves ==
  ASSUME SourcingInv, Sourcing!Next, NEW w \in Requests, NEW d \in {None} \cup SourcingCycles,
         cycle' = [cycle EXCEPT ![w] = d], UNCHANGED <<found, markers, tracked>>,
         d # None => CycleIsRight(d)',
         d # None /\ d.step = "create" => found[Head(d.queue).host] = 0
  PROVE SourcingInv'
<1>1. cycle' \in [Requests -> {None} \cup SourcingCycles] /\ cycle'[w] = d
      /\ \A v \in Requests : v # w => cycle'[v] = cycle[v]
  BY DEF SourcingInv
<1>2. ASSUME NEW v \in Requests, cycle'[v] # None PROVE CycleIsRight(cycle[v])'
  <2>1. PICK c \in SourcingCycles : c = cycle'[v]
    BY <1>1, <1>2
  <2>2. CASE v = w
    BY <2>1, <2>2, <1>1, <1>2 DEF CycleIsRight, Taken, Tracked, Sourcing!IsKnownDomain, Sourcing!CandidateHosts
  <2>3. CASE v # w
    <3>1. CycleIsRight(c)
      BY <2>1, <2>3, <1>1, <1>2 DEF SourcingInv
    <3>2. CycleIsRight(c)'
      BY <3>1, StaysRight
    <3> QED
      BY <2>1, <3>2 DEF CycleIsRight, Taken, Tracked, Sourcing!IsKnownDomain, Sourcing!CandidateHosts
  <2> QED
    BY <2>2, <2>3
<1>3. ASSUME NEW v \in Requests, Sourcing!At(v, "create")', found'[Sourcing!Host(v)'] = 1
      PROVE markers'[Sourcing!Host(v)'] # None
  <2>1. CASE v = w
    BY <2>1, <1>1, <1>3 DEF Sourcing!At, Sourcing!Host
  <2>2. CASE v # w
    BY <2>2, <1>1, <1>3 DEF Sourcing!At, Sourcing!Host, SourcingInv
  <2> QED
    BY <2>1, <2>2
<1> QED
  BY <1>1, <1>2, <1>3 DEF SourcingInv

\* What the steps of a cycle begin with.
LEMMA CycleIsTyped ==
  ASSUME SourcingInv, NEW w \in Requests, cycle[w] # None
  PROVE /\ cycle[w] \in SourcingCycles /\ CycleIsRight(cycle[w])
        /\ cycle[w].queue # <<>> =>
             /\ Head(cycle[w].queue) \in SourcedEntries
             /\ Sourcing!Host(w) = Head(cycle[w].queue).host
             /\ Sourcing!Host(w) \in SourcingHosts \cup {None}
             /\ Tail(cycle[w].queue) \in Seq(SourcedEntries)
             /\ \A i \in 1 .. Len(cycle[w].queue) :
                  \/ cycle[w].queue[i] = Head(cycle[w].queue)
                  \/ \E j \in 1 .. Len(Tail(cycle[w].queue)) :
                       Tail(cycle[w].queue)[j] = cycle[w].queue[i]
<1>1. cycle[w] \in SourcingCycles /\ CycleIsRight(cycle[w])
  BY DEF SourcingInv
<1>2. cycle[w].queue \in Seq(SourcedEntries)
  BY <1>1 DEF SourcingCycles
<1>3. ASSUME NEW q \in Seq(SourcedEntries), q # <<>>, NEW i \in 1 .. Len(q)
      PROVE q[i] = Head(q) \/ \E j \in 1 .. Len(Tail(q)) : Tail(q)[j] = q[i]
  <2>1. CASE i = 1
    BY <1>3, <2>1
  <2>2. CASE i # 1
    <3>1. i - 1 \in 1 .. Len(Tail(q)) /\ Tail(q)[i - 1] = q[i]
      BY <1>3, <2>2
    <3> QED
      BY <3>1
  <2> QED
    BY <2>1, <2>2
<1>4. cycle[w].queue # <<>> =>
        Head(cycle[w].queue) \in SourcedEntries /\ Tail(cycle[w].queue) \in Seq(SourcedEntries)
  BY <1>2
<1>5. Sourcing!Host(w) = Head(cycle[w].queue).host
  BY DEF Sourcing!Host
<1> QED
  BY <1>1, <1>2, <1>3, <1>4, <1>5, EntriesAreTyped

\* A cycle that is done with its entry, by a failure or because the host is known.
LEMMA EntryIsLeft ==
  ASSUME SourcingInv, Sourcing!Next, NEW w \in Requests, cycle[w] # None,
         cycle[w].step \in {"take", "look", "create", "request"},
         cycle[w].queue # <<>>, UNCHANGED <<found, markers, tracked>>,
         NEW e \in SourcingCycles, e.step = "take", e.source = cycle[w].source,
         e.queue = Tail(cycle[w].queue), e.seen = cycle[w].seen, e.made >= cycle[w].made,
         cycle[w].failed \subseteq e.failed,
         \/ Sourcing!Host(w) = None \/ Sourcing!Host(w) \in e.failed
         \/ Sourcing!IsKnownDomain(Sourcing!Host(w)),
         cycle' = [cycle EXCEPT ![w] = e]
  PROVE SourcingInv'
<1>3. PICK c \in SourcingCycles : c = cycle[w] /\ CycleIsRight(c)
  BY CycleIsTyped
<1>4. /\ Head(c.queue).host \in SourcingHosts \cup {None}
      /\ \A i \in 1 .. Len(c.queue) :
           \/ c.queue[i] = Head(c.queue)
           \/ \E j \in 1 .. Len(Tail(c.queue)) : Tail(c.queue)[j] = c.queue[i]
      /\ Head(c.queue).host = Sourcing!Host(w)
  BY <1>3, CycleIsTyped
<1>5. /\ e.source = c.source /\ e.queue = Tail(c.queue) /\ e.seen = c.seen
      /\ e.made >= c.made /\ c.failed \subseteq e.failed
  BY <1>3
<1>6. \A h \in SourcingHosts : Tracked(c, h) => Tracked(e, h)
  BY <1>3, <1>5 DEF Tracked
<1>7. Head(c.queue).host = None \/ Tracked(e, Head(c.queue).host)
  BY <1>4, <1>5 DEF Tracked
<1>8. \A h \in e.seen : Tracked(e, h)
  BY <1>3, <1>5, <1>6, <1>7, EntriesAreTyped DEF CycleIsRight, SourcingCycles
<1>9. ASSUME NEW entry \in Sourcing!Range(InlineSeeds)
      PROVE \/ entry.host = None \/ Tracked(e, entry.host)
            \/ e.source = 1 /\ \E i \in 1 .. Len(e.queue) : e.queue[i] = entry
            \/ e.made >= MaxNew
  <2>1. entry.host \in SourcingHosts \cup {None}
    BY EntriesAreTyped DEF Sourcing!Range
  <2>2. CASE Tracked(c, entry.host)
    BY <2>1, <2>2, <1>6
  <2>3. CASE c.made >= MaxNew
    <3>1. c.made \in Nat /\ e.made \in Nat
      BY DEF SourcingCycles
    <3> QED
      BY <2>3, <3>1, <1>3, <1>5, EntriesAreTyped
  <2>4. CASE c.source = 1 /\ \E i \in 1 .. Len(c.queue) : c.queue[i] = entry
    BY <2>4, <1>4, <1>5, <1>7
  <2>5. c.step # "fetch"
    BY <1>3
  <2> QED
    BY <2>2, <2>3, <2>4, <2>5, <1>3 DEF CycleIsRight
<1>10. CycleIsRight(e)
  BY <1>5, <1>8, <1>9 DEF CycleIsRight, Taken
<1>11. CycleIsRight(e)'
  BY <1>10, StaysRight
<1> QED
  BY <1>11, CycleMoves

\* A cycle with its entry done is one.
LEMMA EntryDone ==
  ASSUME NEW c \in SourcingCycles, NEW q \in Seq(SourcedEntries)
  PROVE LET e == [c EXCEPT !.step = "take", !.queue = q]
        IN /\ e \in SourcingCycles
           /\ e.step = "take" /\ e.source = c.source /\ e.queue = q
           /\ e.seen = c.seen /\ e.made = c.made /\ e.failed = c.failed
<1> QED
  BY DEF SourcingCycles

LEMMA EntryIsSkipped ==
  ASSUME SourcingInv, Sourcing!Next, NEW w \in Requests,
         Sourcing!TakeNothing(w) \/ Sourcing!Fail(w) \/ Sourcing!Request(w)
           \/ (Sourcing!Look(w) /\ Sourcing!IsKnownDomain(Sourcing!Host(w)))
           \/ (Sourcing!Create(w) /\ UNCHANGED found /\ cycle'[w].step # "request")
  PROVE SourcingInv'
<1>1. PICK c \in SourcingCycles : c = cycle[w] /\ CycleIsRight(c)
  BY CycleIsTyped DEF Sourcing!TakeNothing, Sourcing!Fail, Sourcing!Request, Sourcing!Look,
     Sourcing!Create, Sourcing!At
<1>2. cycle[w] # None /\ c.step \in {"take", "look", "create", "request"} /\ c.queue # <<>>
  BY <1>1 DEF Sourcing!TakeNothing, Sourcing!Fail, Sourcing!Request, Sourcing!Look,
     Sourcing!Create, Sourcing!At, CycleIsRight, Taken
<1>4. c.made \in Nat /\ c.failed \in SUBSET SourcingHosts
  BY DEF SourcingCycles
<1>3. Tail(c.queue) \in Seq(SourcedEntries)
  BY <1>1, <1>2, CycleIsTyped
<1>5. CASE Sourcing!TakeNothing(w) \/ (Sourcing!Look(w) /\ Sourcing!IsKnownDomain(Sourcing!Host(w)))
  <2>1. UNCHANGED <<found, markers, tracked>>
        /\ cycle' = [cycle EXCEPT ![w] = [c EXCEPT !.step = "take", !.queue = Tail(@)]]
    BY <1>1, <1>5 DEF Sourcing!TakeNothing, Sourcing!Look, Sourcing!Skip
  <2>2. PICK e \in SourcingCycles :
          /\ e = [c EXCEPT !.step = "take", !.queue = Tail(@)]
          /\ e.step = "take" /\ e.source = c.source /\ e.queue = Tail(c.queue)
          /\ e.seen = c.seen /\ e.made = c.made /\ e.failed = c.failed
    BY <1>3, EntryDone
  <2>3. \/ Sourcing!Host(w) = None \/ Sourcing!Host(w) \in c.failed
        \/ Sourcing!IsKnownDomain(Sourcing!Host(w))
    BY <1>1, <1>5 DEF Sourcing!TakeNothing, Sourcing!At, CycleIsRight, Taken, Tracked
  <2>4. e.made >= c.made /\ c.failed \subseteq e.failed
    BY <1>4, <2>2
  <2> QED
    BY <1>1, <1>2, <2>1, <2>2, <2>3, <2>4, EntryIsLeft
<1>6. CASE Sourcing!Request(w)
  <2>1. UNCHANGED <<found, markers, tracked>>
        /\ cycle' = [cycle EXCEPT ![w] =
             [[c EXCEPT !.made = @ + 1] EXCEPT !.step = "take", !.queue = Tail(@)]]
    BY <1>1, <1>6 DEF Sourcing!Request, Sourcing!Skip
  <2>2. PICK e \in SourcingCycles :
          /\ e = [[c EXCEPT !.made = @ + 1] EXCEPT !.step = "take", !.queue = Tail(@)]
          /\ e.step = "take" /\ e.source = c.source /\ e.queue = Tail(c.queue)
          /\ e.seen = c.seen /\ e.made = c.made + 1 /\ e.failed = c.failed
    <3>1. PICK b \in SourcingCycles :
            /\ b = [c EXCEPT !.made = @ + 1] /\ b.source = c.source /\ b.queue = c.queue
            /\ b.seen = c.seen /\ b.made = c.made + 1 /\ b.failed = c.failed
      <4>1. [c EXCEPT !.made = @ + 1] \in SourcingCycles
        BY <1>4 DEF SourcingCycles
      <4> QED
        BY <4>1 DEF SourcingCycles
    <3>2. [b EXCEPT !.step = "take", !.queue = Tail(c.queue)]
            = [[c EXCEPT !.made = @ + 1] EXCEPT !.step = "take", !.queue = Tail(@)]
      BY <3>1
    <3>3. PICK e \in SourcingCycles :
            /\ e = [b EXCEPT !.step = "take", !.queue = Tail(c.queue)]
            /\ e.step = "take" /\ e.source = b.source /\ e.queue = Tail(c.queue)
            /\ e.seen = b.seen /\ e.made = b.made /\ e.failed = b.failed
      <4>1. PICK tail \in Seq(SourcedEntries) : tail = Tail(c.queue)
        BY <1>3
      <4>2. PICK e : e = [b EXCEPT !.step = "take", !.queue = tail]
        OBVIOUS
      <4>3. /\ e \in SourcingCycles
            /\ e.step = "take" /\ e.source = b.source /\ e.queue = tail
            /\ e.seen = b.seen /\ e.made = b.made /\ e.failed = b.failed
        BY <4>2, EntryDone
      <4> QED
        BY <4>1, <4>2, <4>3
    <3> QED
      BY <3>1, <3>2, <3>3
  <2>3. Sourcing!IsKnownDomain(Sourcing!Host(w))
    BY <1>1, <1>6 DEF Sourcing!Request, Sourcing!At, Sourcing!Host, CycleIsRight
  <2>4. e.made >= c.made
    BY <1>4, <2>2
  <2> QED
    BY <1>1, <1>2, <2>1, <2>2, <2>3, <2>4, EntryIsLeft
<1>7. CASE Sourcing!Fail(w) \/ (Sourcing!Create(w) /\ UNCHANGED found /\ cycle'[w].step # "request")
  <2>1. UNCHANGED <<found, markers, tracked>>
        /\ cycle' = [cycle EXCEPT ![w] =
             [[c EXCEPT !.failed = @ \cup {Sourcing!Host(w)}]
                EXCEPT !.step = "take", !.queue = Tail(@)]]
    <3>1. CASE Sourcing!Fail(w)
      BY <1>1, <3>1 DEF Sourcing!Fail, Sourcing!Failed, Sourcing!Skip
    <3>2. CASE Sourcing!Create(w) /\ UNCHANGED found /\ cycle'[w].step # "request"
      <4>1. cycle' # [cycle EXCEPT ![w].step = "request"]
        BY <3>2, <1>1 DEF SourcingInv, SourcingCycles
      <4> QED
        BY <1>1, <3>2, <4>1 DEF Sourcing!Create, Sourcing!Failed, Sourcing!Skip
    <3> QED
      BY <1>7, <3>1, <3>2
  <2>2. Sourcing!Host(w) \in SourcingHosts
    BY <1>1, <1>7 DEF Sourcing!Fail, Sourcing!Create, Sourcing!At, Sourcing!Host, CycleIsRight, Taken
  <2>3. PICK failed \in SUBSET SourcingHosts : failed = c.failed \cup {Sourcing!Host(w)}
    BY <2>2, <1>4
  <2>4. PICK e \in SourcingCycles :
          /\ e = [[c EXCEPT !.failed = failed] EXCEPT !.step = "take", !.queue = Tail(@)]
          /\ e.step = "take" /\ e.source = c.source /\ e.queue = Tail(c.queue)
          /\ e.seen = c.seen /\ e.made = c.made /\ e.failed = failed
    <3>1. PICK b \in SourcingCycles :
            /\ b = [c EXCEPT !.failed = failed] /\ b.source = c.source /\ b.queue = c.queue
            /\ b.seen = c.seen /\ b.made = c.made /\ b.failed = failed
      <4>1. [c EXCEPT !.failed = failed] \in SourcingCycles
        BY <2>3 DEF SourcingCycles
      <4> QED
        BY <4>1 DEF SourcingCycles
    <3>2. [b EXCEPT !.step = "take", !.queue = Tail(c.queue)]
            = [[c EXCEPT !.failed = failed] EXCEPT !.step = "take", !.queue = Tail(@)]
      BY <3>1
    <3>3. PICK e \in SourcingCycles :
            /\ e = [b EXCEPT !.step = "take", !.queue = Tail(c.queue)]
            /\ e.step = "take" /\ e.source = b.source /\ e.queue = Tail(c.queue)
            /\ e.seen = b.seen /\ e.made = b.made /\ e.failed = b.failed
      <4>1. PICK tail \in Seq(SourcedEntries) : tail = Tail(c.queue)
        BY <1>3
      <4>2. PICK e : e = [b EXCEPT !.step = "take", !.queue = tail]
        OBVIOUS
      <4>3. /\ e \in SourcingCycles
            /\ e.step = "take" /\ e.source = b.source /\ e.queue = tail
            /\ e.seen = b.seen /\ e.made = b.made /\ e.failed = b.failed
        BY <4>2, EntryDone
      <4> QED
        BY <4>1, <4>2, <4>3
    <3> QED
      BY <3>1, <3>2, <3>3
  <2>5. /\ e.made >= c.made /\ c.failed \subseteq e.failed /\ Sourcing!Host(w) \in e.failed
        /\ cycle' = [cycle EXCEPT ![w] = e]
    <3>1. [c EXCEPT !.failed = @ \cup {Sourcing!Host(w)}] = [c EXCEPT !.failed = failed]
      BY <2>3
    <3>2. cycle' = [cycle EXCEPT ![w] = e]
      BY <2>1, <2>4, <3>1
    <3> QED
      BY <1>4, <2>3, <2>4, <3>2
  <2>6. UNCHANGED <<found, markers, tracked>>
    BY <2>1
  <2>7. /\ e.source = cycle[w].source /\ e.queue = Tail(cycle[w].queue) /\ e.seen = cycle[w].seen
        /\ e.made >= cycle[w].made /\ cycle[w].failed \subseteq e.failed /\ cycle[w] # None
        /\ cycle[w].step \in {"take", "look", "create", "request"} /\ cycle[w].queue # <<>>
        /\ e.step = "take"
    BY <1>1, <1>2, <2>4, <2>5
  <2> QED
    BY <2>5, <2>6, <2>7, EntryIsLeft
<1> QED
  BY <1>5, <1>6, <1>7

LEMMA StepChanged ==
  ASSUME NEW c \in SourcingCycles,
         NEW step \in {"fetch", "take", "look", "create", "request", "done"}
  PROVE LET e == [c EXCEPT !.step = step]
        IN /\ e \in SourcingCycles
           /\ e.step = step /\ e.source = c.source /\ e.queue = c.queue
           /\ e.seen = c.seen /\ e.made = c.made /\ e.failed = c.failed
<1> QED
  BY DEF SourcingCycles

\* A host that is new to the cycle is looked up.
LEMMA TakeKeeps ==
  ASSUME SourcingInv, Sourcing!Next, NEW w \in Requests, Sourcing!Take(w)
  PROVE SourcingInv'
<1>1. PICK c \in SourcingCycles : c = cycle[w] /\ CycleIsRight(c)
  BY CycleIsTyped DEF Sourcing!Take, Sourcing!At
<1>2. PICK h \in SourcingHosts : h = Sourcing!Host(w) /\ h = Head(c.queue).host /\ c.queue # <<>>
  BY <1>1, CycleIsTyped DEF Sourcing!Take, Sourcing!At
<1>3. UNCHANGED <<found, markers, tracked>> /\ c.step = "take" /\ cycle[w] # None
      /\ cycle' = [cycle EXCEPT ![w] = [c EXCEPT !.step = "look", !.seen = @ \cup {h}]]
  BY <1>1, <1>2 DEF Sourcing!Take, Sourcing!At
<1>4. PICK e \in SourcingCycles :
        /\ e = [c EXCEPT !.step = "look", !.seen = @ \cup {h}]
        /\ e.step = "look" /\ e.source = c.source /\ e.queue = c.queue
        /\ e.seen = c.seen \cup {h} /\ e.made = c.made /\ e.failed = c.failed
  <2>1. PICK seen1 \in SUBSET SourcingHosts : seen1 = c.seen \cup {h}
    BY DEF SourcingCycles
  <2>2. LET e == [c EXCEPT !.step = "look", !.seen = seen1]
        IN /\ e \in SourcingCycles
           /\ e.step = "look" /\ e.source = c.source /\ e.queue = c.queue
           /\ e.seen = seen1 /\ e.made = c.made /\ e.failed = c.failed
    BY DEF SourcingCycles
  <2>3. [c EXCEPT !.step = "look", !.seen = @ \cup {h}] = [c EXCEPT !.step = "look", !.seen = seen1]
    BY <2>1
  <2> QED
    BY <2>1, <2>2, <2>3
<1>5. CycleIsRight(e)
  BY <1>1, <1>2, <1>3, <1>4 DEF CycleIsRight, Taken, Tracked
<1>6. CycleIsRight(e)' /\ cycle' = [cycle EXCEPT ![w] = e] /\ e.step # "create"
  BY <1>3, <1>4, <1>5, StaysRight
<1> QED
  BY <1>3, <1>6, CycleMoves

\* A host that is not known is created.
LEMMA LookKeeps ==
  ASSUME SourcingInv, Sourcing!Next, NEW w \in Requests, Sourcing!Look(w),
         ~ Sourcing!IsKnownDomain(Sourcing!Host(w))
  PROVE SourcingInv'
<1>1. PICK c \in SourcingCycles : c = cycle[w] /\ CycleIsRight(c)
  BY CycleIsTyped DEF Sourcing!Look, Sourcing!At
<1>2. UNCHANGED <<found, markers, tracked>> /\ c.step = "look"
      /\ cycle' = [cycle EXCEPT ![w] = [c EXCEPT !.step = "create"]]
  BY <1>1 DEF Sourcing!Look, Sourcing!At
<1>3. PICK e \in SourcingCycles :
        /\ e = [c EXCEPT !.step = "create"]
        /\ e.step = "create" /\ e.source = c.source /\ e.queue = c.queue
        /\ e.seen = c.seen /\ e.made = c.made /\ e.failed = c.failed
  BY StepChanged
<1>4. Head(e.queue).host = Sourcing!Host(w) /\ Sourcing!Host(w) \in SourcingHosts
  BY <1>1, <1>2, <1>3 DEF Sourcing!Host, CycleIsRight, Taken
<1>5. CycleIsRight(e)
  BY <1>1, <1>2, <1>3 DEF CycleIsRight, Taken, Tracked
<1>6. found[Head(e.queue).host] = 0
  <2>1. found[Sourcing!Host(w)] \in 0 .. 1
    BY <1>4 DEF SourcingInv
  <2> QED
    BY <2>1, <1>4 DEF Sourcing!IsKnownDomain, Sourcing!CandidateHosts
<1>7. CycleIsRight(e)' /\ cycle' = [cycle EXCEPT ![w] = e]
  BY <1>2, <1>3, <1>5, StaysRight
<1> QED
  BY <1>2, <1>6, <1>7, CycleMoves

\* The creation makes the first candidate of its host, or is told of it.
LEMMA CreateKeeps ==
  ASSUME SourcingInv, Sourcing!Next, NEW w \in Requests, Sourcing!Create(w)
  PROVE SourcingInv'
<1>1. PICK c \in SourcingCycles : c = cycle[w] /\ CycleIsRight(c)
  BY CycleIsTyped DEF Sourcing!Create, Sourcing!At
<1>2. c.step = "create" /\ cycle[w] # None /\ c.queue # <<>>
  BY <1>1 DEF Sourcing!Create, Sourcing!At, CycleIsRight, Taken
<1>3. PICK entry \in SourcedEntries : entry = Head(c.queue) /\ entry.host \in SourcingHosts
        /\ entry.host = Sourcing!Host(w)
  BY <1>1, <1>2, CycleIsTyped DEF CycleIsRight, Taken
<1>4. PICK h \in SourcingHosts : h = entry.host
  BY <1>3
<1>5. PICK e \in SourcingCycles :
        /\ e = [c EXCEPT !.step = "request"]
        /\ e.step = "request" /\ e.source = c.source /\ e.queue = c.queue
        /\ e.seen = c.seen /\ e.made = c.made /\ e.failed = c.failed
  BY StepChanged
<1>6. UNCHANGED tracked /\ found[h] \in 0 .. 1
      /\ (found[h] = 1 => markers[h] # None) /\ (markers[h] # None => found[h] = 1)
  BY <1>1, <1>2, <1>3, <1>4 DEF SourcingInv, Sourcing!Create, Sourcing!At, Sourcing!Host
<1>7. ASSUME Sourcing!IsKnownDomain(h)'
      PROVE CycleIsRight(e)'
  <2>1. CycleIsRight(c)'
    BY <1>1, StaysRight
  <2>2. Taken(c)' /\ Taken(e)' /\ e.step # "fetch" /\ e.step # "done" /\ c.step # "fetch" /\ c.step # "done"
    BY <1>2, <1>5 DEF Taken
  <2>3. \A k : Tracked(c, k)' = Tracked(e, k)'
    BY <1>5 DEF Tracked
  <2>4. Head(e.queue).host = h
    BY <1>3, <1>4, <1>5
  <2> QED
    BY <1>7, <1>5, <2>1, <2>2, <2>3, <2>4 DEF CycleIsRight
<1>8. CASE markers[h] # None /\ cycle' = [cycle EXCEPT ![w].step = "request"] /\ UNCHANGED <<found, markers>>
  <2>1. Sourcing!IsKnownDomain(h)'
    BY <1>8, <1>6 DEF Sourcing!IsKnownDomain, Sourcing!CandidateHosts
  <2>2. CycleIsRight(e)' /\ cycle' = [cycle EXCEPT ![w] = e] /\ e.step # "create"
    BY <1>1, <1>5, <1>7, <1>8, <2>1
  <2> QED
    BY <1>6, <1>8, <2>2, CycleMoves
<1>9. CASE /\ markers[h] = None /\ found' = [found EXCEPT ![h] = @ + 1]
           /\ markers' = [markers EXCEPT ![h] = entry.address]
           /\ cycle' = [cycle EXCEPT ![w].step = "request"]
  <2>1. found[h] = 0 /\ found' = [found EXCEPT ![h] = 1] /\ found'[h] = 1
        /\ found' \in [SourcingHosts -> 0 .. 1]
    <3>1. found[h] = 0 /\ found \in [SourcingHosts -> 0 .. 1]
      BY <1>6, <1>9 DEF SourcingInv
    <3> QED
      BY <1>9, <3>1
  <2>2. /\ DOMAIN markers' = SourcingHosts /\ markers'[h] # None
        /\ \A k \in SourcingHosts : k # h => markers'[k] = markers[k] /\ found'[k] = found[k]
    BY <1>9, <2>1, EntriesAreTyped DEF SourcingInv
  <2>3. /\ cycle' = [cycle EXCEPT ![w] = e] /\ cycle' \in [Requests -> {None} \cup SourcingCycles]
        /\ cycle'[w] = e /\ \A v \in Requests : v # w => cycle'[v] = cycle[v]
    BY <1>1, <1>5, <1>9 DEF SourcingInv
  <2>4. CycleIsRight(e)'
    BY <1>7, <2>1 DEF Sourcing!IsKnownDomain, Sourcing!CandidateHosts
  <2>5. ASSUME NEW v \in Requests, cycle'[v] # None PROVE CycleIsRight(cycle[v])'
    <3>1. PICK d \in SourcingCycles : d = cycle'[v]
      BY <2>3, <2>5
    <3>2. CycleIsRight(d)'
      <4>1. CASE v = w
        BY <4>1, <3>1, <2>3, <2>4 DEF CycleIsRight, Taken, Tracked
      <4>2. CASE v # w
        BY <4>2, <3>1, <2>3, <2>5, StaysRight DEF SourcingInv
      <4> QED
        BY <4>1, <4>2
    <3> QED
      BY <3>1, <3>2 DEF CycleIsRight, Taken, Tracked, Sourcing!IsKnownDomain, Sourcing!CandidateHosts
  <2>6. ASSUME NEW v \in Requests, Sourcing!At(v, "create")', found'[Sourcing!Host(v)'] = 1
        PROVE markers'[Sourcing!Host(v)'] # None
    <3>1. v # w
      BY <2>3, <2>6, <1>5 DEF Sourcing!At
    <3>2. Sourcing!Host(v)' = Sourcing!Host(v) /\ Sourcing!At(v, "create") /\ Sourcing!Host(v) \in SourcingHosts
      BY <3>1, <2>3, <2>6 DEF Sourcing!At, Sourcing!Host, SourcingInv, CycleIsRight, Taken
    <3> QED
      BY <3>2, <2>2, <2>6 DEF SourcingInv
  <2>7. \A k \in SourcingHosts : markers'[k] # None => found'[k] = 1
    BY <2>1, <2>2 DEF SourcingInv
  <2> QED
    BY <1>6, <2>1, <2>2, <2>3, <2>5, <2>6, <2>7 DEF SourcingInv
<1>10. CASE UNCHANGED found /\ cycle'[w].step # "request"
  BY <1>10, EntryIsSkipped
<1> QED
  <2>1. Sourcing!KeyOf(entry.host) = markers[h]
    BY <1>4 DEF Sourcing!KeyOf
  <2>2. CASE markers[h] = None
    BY <2>1, <2>2, <1>1, <1>3, <1>4, <1>9 DEF Sourcing!Create
  <2>3. CASE markers[h] # None /\ markers[h] = entry.address
    BY <2>1, <2>3, <1>1, <1>3, <1>4, <1>8 DEF Sourcing!Create
  <2>4. CASE markers[h] # None /\ markers[h] # entry.address
    <3>1. UNCHANGED found /\ Sourcing!Failed(w)
      BY <2>1, <2>4, <1>1, <1>3, <1>4 DEF Sourcing!Create
    <3>2. cycle'[w].step = "take"
      BY <3>1, <1>1 DEF Sourcing!Failed, Sourcing!Skip, SourcingInv, SourcingCycles
    <3> QED
      BY <3>1, <3>2, <1>10
  <2> QED
    BY <2>2, <2>3, <2>4

\* A cycle begins, reads a source, ends one, or is left.
LEMMA SourceKeeps ==
  ASSUME SourcingInv, Sourcing!Next, NEW w \in Requests,
         \/ Sourcing!Start(w) \/ Sourcing!FetchSeeds(w) \/ Sourcing!FetchLinks(w)
         \/ Sourcing!SourceFails(w) \/ Sourcing!EndSource(w) \/ Sourcing!Leave(w)
  PROVE SourcingInv'
<1>1. UNCHANGED <<found, markers, tracked>>
  BY DEF Sourcing!Start, Sourcing!Fetched, Sourcing!FetchSeeds, Sourcing!FetchLinks,
     Sourcing!SourceFails, Sourcing!EndSource, Sourcing!Leave
<1>2. CASE Sourcing!Leave(w)
  BY <1>1, <1>2, CycleMoves DEF Sourcing!Leave
<1>3. CASE Sourcing!Start(w)
  <2>1. PICK e \in SourcingCycles :
          /\ e = [step |-> "fetch", source |-> 1, queue |-> <<>>, seen |-> {}, made |-> 0,
                  failed |-> {}]
          /\ e.step = "fetch" /\ e.source = 1 /\ e.queue = <<>> /\ e.seen = {} /\ e.made = 0
    <3>1. <<>> \in Seq(SourcedEntries)
      OBVIOUS
    <3>2. [step |-> "fetch", source |-> 1, queue |-> <<>>, seen |-> {}, made |-> 0, failed |-> {}]
            \in SourcingCycles
      BY <3>1 DEF SourcingCycles
    <3> QED
      BY <3>2
  <2>2. CycleIsRight(e)
    BY <2>1 DEF CycleIsRight, Taken, Tracked
  <2>3. CycleIsRight(e)' /\ cycle' = [cycle EXCEPT ![w] = e] /\ e.step # "create"
    BY <1>3, <2>1, <2>2, StaysRight DEF Sourcing!Start
  <2> QED
    BY <1>1, <2>3, CycleMoves
<1>4. ASSUME NEW q \in Seq(SourcedEntries), Sourcing!At(w, "fetch"), Sourcing!Fetched(w, q),
             cycle[w].source = 1 =>
               \A entry \in Sourcing!Range(InlineSeeds) : \E i \in 1 .. Len(q) : q[i] = entry
      PROVE SourcingInv'
  <2>1. PICK c \in SourcingCycles : c = cycle[w] /\ CycleIsRight(c) /\ c.step = "fetch"
    BY <1>4, CycleIsTyped DEF Sourcing!At
  <2>2. PICK e \in SourcingCycles :
          /\ e = [c EXCEPT !.step = "take", !.queue = q]
          /\ e.step = "take" /\ e.source = c.source /\ e.queue = q
          /\ e.seen = c.seen /\ e.made = c.made /\ e.failed = c.failed
    BY EntryDone
  <2>3. CycleIsRight(e)
    BY <1>4, <2>1, <2>2 DEF CycleIsRight, Taken, Tracked
  <2>4. cycle' = [cycle EXCEPT ![w] = e]
    BY <1>4, <2>1, <2>2 DEF Sourcing!Fetched, SourcingInv
  <2>5. CycleIsRight(e)' /\ e.step # "create"
    BY <2>2, <2>3, StaysRight
  <2> QED
    BY <1>1, <2>4, <2>5, CycleMoves
<1>5. CASE Sourcing!FetchSeeds(w)
  <2>1. PICK seeds \in {<<>>, InFile} : Sourcing!Fetched(w, InlineSeeds \o seeds)
    BY <1>5 DEF Sourcing!FetchSeeds
  <2>2. seeds \in Seq(SourcedEntries) /\ InlineSeeds \in Seq(SourcedEntries)
    <3>1. <<>> \in Seq(SourcedEntries)
      OBVIOUS
    <3> QED
      BY <3>1, EntriesAreTyped
  <2>3. InlineSeeds \o seeds \in Seq(SourcedEntries)
    BY <2>2
  <2>4. \A entry \in Sourcing!Range(InlineSeeds) : \E i \in 1 .. Len(InlineSeeds \o seeds) : (InlineSeeds \o seeds)[i] = entry
    BY <2>2 DEF Sourcing!Range
  <2> QED
    BY <1>4, <1>5, <2>1, <2>3, <2>4 DEF Sourcing!FetchSeeds
<1>6. CASE Sourcing!FetchLinks(w)
  <2>1. PICK answering \in SUBSET Sourcing!Range(Sourcing!ListExpansionRoots) :
          LET S == Sourcing!FetchCandidates(Sourcing!Range(Sourcing!ListExpansionRoots), answering)
          IN  \E hosts \in Sourcing!Injection(1 .. Sourcing!Cardinality(S), S) :
                Sourcing!Fetched(w, [i \in DOMAIN hosts |-> Sourcing!Linked(hosts[i])])
    BY <1>6 DEF Sourcing!FetchLinks
  <2>2. PICK S : S = Sourcing!FetchCandidates(Sourcing!Range(Sourcing!ListExpansionRoots), answering)
    OBVIOUS
  <2>3. S \subseteq SourcingHosts
    <3>1. Sourcing!ListExpansionRoots \in Seq(SourcingHosts)
      BY OfficeAssumption, SubSeqProperties
      DEF Sourcing!ListExpansionRoots, SourcingInv, Sourcing!SourcingAssumption
    <3>2. answering \subseteq SourcingHosts
      BY <3>1 DEF Sourcing!Range
    <3>3. ASSUME NEW root \in SourcingHosts
          PROVE Sourcing!ExtractExternalMediaDomains(root) \subseteq SourcingHosts
      <4>1. LinksOf[root] \in Seq(SourcingHosts)
        BY OfficeAssumption DEF Sourcing!SourcingAssumption
      <4>2. \A i \in DOMAIN LinksOf[root] : LinksOf[root][i] \in SourcingHosts
        BY <4>1
      <4> QED
        BY <4>2 DEF Sourcing!ExtractExternalMediaDomains
    <3> QED
      BY <2>2, <3>2, <3>3 DEF Sourcing!FetchCandidates
  <2>4. Sourcing!Cardinality(S) \in Nat
    <3>1. IsFiniteSet(S)
      <4>1. IsFiniteSet(SourcingHosts)
        BY OfficeAssumption DEF Sourcing!SourcingAssumption, IsFiniteSet, Sourcing!IsFiniteSet
      <4> QED
        BY <4>1, <2>3, FS_Subset
    <3>2. Cardinality(S) \in Nat
      BY <3>1, FS_CardinalityType
    <3> QED
      BY <3>2 DEF Cardinality, Sourcing!Cardinality
  <2>5. PICK hosts \in Sourcing!Injection(1 .. Sourcing!Cardinality(S), S) :
          Sourcing!Fetched(w, [i \in DOMAIN hosts |-> Sourcing!Linked(hosts[i])])
    BY <2>1, <2>2
  <2>6. PICK n \in Nat : hosts \in [1 .. n -> S]
    BY <2>4, <2>5 DEF Sourcing!Injection
  <2>7. [i \in DOMAIN hosts |-> Sourcing!Linked(hosts[i])] \in Seq(SourcedEntries)
    <3>1. \A i \in 1 .. n : Sourcing!Linked(hosts[i]) \in SourcedEntries
      BY <2>3, <2>6 DEF SourcedEntries
    <3>2. [i \in 1 .. n |-> Sourcing!Linked(hosts[i])] \in [1 .. n -> SourcedEntries]
      BY <3>1
    <3> QED
      BY <2>6, <3>2
  <2>8. cycle[w].source = 2 /\ Sourcing!At(w, "fetch")
    BY <1>6 DEF Sourcing!FetchLinks
  <2> QED
    BY <1>4, <2>5, <2>7, <2>8
<1>7. CASE Sourcing!SourceFails(w)
  <2>1. PICK c \in SourcingCycles : c = cycle[w] /\ CycleIsRight(c) /\ c.step = "fetch" /\ c.source = 2
    BY <1>7, CycleIsTyped DEF Sourcing!SourceFails, Sourcing!At
  <2>2. PICK e \in SourcingCycles :
          /\ e = [c EXCEPT !.step = "done"]
          /\ e.step = "done" /\ e.source = c.source /\ e.queue = c.queue
          /\ e.seen = c.seen /\ e.made = c.made /\ e.failed = c.failed
    BY StepChanged
  <2>3. CycleIsRight(e)
    BY <2>1, <2>2 DEF CycleIsRight, Taken, Tracked
  <2>4. CycleIsRight(e)' /\ cycle' = [cycle EXCEPT ![w] = e] /\ e.step # "create"
    BY <1>7, <2>1, <2>2, <2>3, StaysRight DEF Sourcing!SourceFails
  <2> QED
    BY <1>1, <2>4, CycleMoves
<1>8. CASE Sourcing!EndSource(w)
  <2>1. PICK c \in SourcingCycles : c = cycle[w] /\ CycleIsRight(c) /\ c.step = "take"
          /\ (c.queue = <<>> \/ c.made >= MaxNew)
    BY <1>8, CycleIsTyped DEF Sourcing!EndSource, Sourcing!At
  <2>2. c.made \in Nat /\ c.source \in {1, 2} /\ MaxNew \in Nat
    BY EntriesAreTyped DEF SourcingCycles
  <2>3. CASE Sourcing!IsOver(w)
    <3>1. PICK e \in SourcingCycles :
            /\ e = [c EXCEPT !.step = "done"]
            /\ e.step = "done" /\ e.source = c.source /\ e.queue = c.queue
            /\ e.seen = c.seen /\ e.made = c.made /\ e.failed = c.failed
      BY StepChanged
    <3>2. c.source = 2 \/ c.made >= MaxNew
      BY <2>1, <2>3 DEF Sourcing!IsOver
    <3>3. CycleIsRight(e)
      BY <2>1, <3>1, <3>2 DEF CycleIsRight, Taken, Tracked
    <3>4. CycleIsRight(e)' /\ cycle' = [cycle EXCEPT ![w] = e] /\ e.step # "create"
      BY <1>8, <2>1, <2>3, <3>1, <3>3, StaysRight DEF Sourcing!EndSource
    <3> QED
      BY <1>1, <3>4, CycleMoves
  <2>4. CASE ~ Sourcing!IsOver(w)
    <3>1. c.source = 1 /\ c.queue = <<>>
      BY <2>1, <2>2, <2>4 DEF Sourcing!IsOver
    <3>2. PICK e \in SourcingCycles :
            /\ e = [c EXCEPT !.step = "fetch", !.source = 2]
            /\ e.step = "fetch" /\ e.source = 2 /\ e.queue = c.queue
            /\ e.seen = c.seen /\ e.made = c.made /\ e.failed = c.failed
      <4>1. LET e == [c EXCEPT !.step = "fetch", !.source = 2]
            IN /\ e \in SourcingCycles
               /\ e.step = "fetch" /\ e.source = 2 /\ e.queue = c.queue
               /\ e.seen = c.seen /\ e.made = c.made /\ e.failed = c.failed
        BY DEF SourcingCycles
      <4> QED
        BY <4>1
    <3>3. CycleIsRight(e)
      BY <2>1, <3>1, <3>2 DEF CycleIsRight, Taken, Tracked
    <3>6. cycle' = [cycle EXCEPT ![w] = e]
      BY <1>8, <2>1, <2>4, <3>2 DEF Sourcing!EndSource, SourcingInv
    <3>7. CycleIsRight(e)' /\ e.step # "create"
      BY <3>2, <3>3, StaysRight
    <3> QED
      BY <1>1, <3>6, <3>7, CycleMoves
  <2> QED
    BY <2>3, <2>4
<1> QED
  BY <1>2, <1>3, <1>5, <1>6, <1>7, <1>8

LEMMA SourcingInductive == SourcingInv /\ [Sourcing!Next]_(Sourcing!vars) => SourcingInv'
<1> SUFFICES ASSUME SourcingInv, [Sourcing!Next]_(Sourcing!vars) PROVE SourcingInv'
  OBVIOUS
<1>1. CASE UNCHANGED Sourcing!vars
  BY <1>1 DEF Sourcing!vars, SourcingInv, Sourcing!At, Sourcing!Host, CycleIsRight, Taken, Tracked,
     Sourcing!IsKnownDomain, Sourcing!CandidateHosts
<1>2. ASSUME Sourcing!Next, UNCHANGED <<found, cycle>>, tracked' \in Seq(SourcingHosts),
             DOMAIN markers' = SourcingHosts,
             \/ UNCHANGED markers
             \/ /\ \A w \in Requests : ~ Sourcing!At(w, "create")
                /\ \A h \in SourcingHosts : markers'[h] # None => markers'[h] = markers[h]
      PROVE SourcingInv'
  <2>1. ASSUME NEW w \in Requests, cycle[w] # None PROVE CycleIsRight(cycle[w])'
    <3>1. PICK c \in SourcingCycles : c = cycle[w] /\ CycleIsRight(c)
      BY <2>1, CycleIsTyped
    <3>2. CycleIsRight(c)' /\ c = cycle'[w]
      BY <1>2, <3>1, StaysRight
    <3> QED
      BY <3>1, <3>2 DEF CycleIsRight, Taken, Tracked, Sourcing!IsKnownDomain, Sourcing!CandidateHosts
  <2>2. \A w \in Requests : Sourcing!At(w, "create")' = Sourcing!At(w, "create")
          /\ Sourcing!Host(w)' = Sourcing!Host(w)
    BY <1>2 DEF Sourcing!At, Sourcing!Host
  <2>3. \A h \in SourcingHosts : markers'[h] # None => found'[h] = 1
    BY <1>2 DEF SourcingInv
  <2>4. \A w \in Requests : Sourcing!At(w, "create") =>
          (found'[Sourcing!Host(w)] = 1 => markers'[Sourcing!Host(w)] # None)
    BY <1>2 DEF SourcingInv
  <2> QED
    BY <1>2, <2>1, <2>2, <2>3, <2>4 DEF SourcingInv
<1>3. ASSUME NEW h \in SourcingHosts, Sourcing!Next,
             Sourcing!Enter(h) \/ Sourcing!Accept(h) \/ Sourcing!Reject(h) \/ Sourcing!KeyExpires(h)
      PROVE SourcingInv'
  <2>1. CASE Sourcing!Accept(h)
    <3>1. <<h>> \o tracked \in Seq(SourcingHosts)
      BY DEF SourcingInv
    <3> QED
      BY <1>2, <1>3, <2>1, <3>1 DEF Sourcing!Accept, SourcingInv
  <2>2. CASE Sourcing!KeyExpires(h)
    BY <1>2, <1>3, <2>2 DEF Sourcing!KeyExpires, Sourcing!At, SourcingInv
  <2>3. CASE Sourcing!Enter(h) \/ Sourcing!Reject(h)
    BY <1>2, <1>3, <2>3 DEF Sourcing!Enter, Sourcing!Reject, SourcingInv
  <2> QED
    BY <1>3, <2>1, <2>2, <2>3
<1> QED
  BY <1>1, <1>3, EntryIsSkipped, TakeKeeps, LookKeeps, CreateKeeps, SourceKeeps DEF Sourcing!Next

\* However cycles overlap each other and the managers, they make one candidate of a host, and
\* one that was not full passes over no seed but those that failed.
THEOREM CyclesFindEachHostOnce ==
  Sourcing!Spec => [](Sourcing!OneCandidatePerHost /\ Sourcing!NothingIsPassedOver)
<1>1. SourcingInv => Sourcing!OneCandidatePerHost
  BY DEF SourcingInv, Sourcing!OneCandidatePerHost
<1>2. SourcingInv => Sourcing!NothingIsPassedOver
  <2> SUFFICES ASSUME SourcingInv, NEW w \in Requests, Sourcing!At(w, "done"),
                      cycle[w].made < MaxNew, NEW entry \in Sourcing!Range(InlineSeeds)
               PROVE \/ entry.host = None \/ entry.host \in cycle[w].failed
                     \/ Sourcing!IsKnownDomain(entry.host)
    BY DEF Sourcing!NothingIsPassedOver
  <2>1. PICK c \in SourcingCycles : c = cycle[w] /\ CycleIsRight(c) /\ c.step = "done"
    BY CycleIsTyped DEF Sourcing!At
  <2>2. ~ c.made >= MaxNew
    BY <2>1, EntriesAreTyped DEF SourcingCycles
  <2> QED
    BY <2>1, <2>2 DEF CycleIsRight, Tracked
<1> QED
  BY <1>1, <1>2, SourcingInitially, SourcingInductive, PTL DEF Sourcing!Spec

\* A cycle creates no more than it may: it looks at an entry only while it may create another.
MadeRight(c) == c.made <= MaxNew /\ (Taken(c) => c.made < MaxNew)

SourcingSets ==
  /\ entered \cup rejected \cup asked \subseteq SourcingHosts
  /\ \A w \in Requests : cycle[w] # None => MadeRight(cycle[w])

LEMMA SourcingSetsMove ==
  ASSUME SourcingInv, SourcingSets, NEW w \in Requests, NEW d,
         cycle' = [cycle EXCEPT ![w] = d], d # None => MadeRight(d),
         UNCHANGED <<entered, rejected>>, asked' \subseteq SourcingHosts
  PROVE  SourcingSets'
<1>1. \A v \in Requests : cycle'[v] = IF v = w THEN d ELSE cycle[v]
  BY DEF SourcingInv
<1>2. ASSUME NEW v \in Requests, cycle'[v] # None PROVE MadeRight(cycle'[v])
  BY <1>1, <1>2 DEF SourcingSets
<1> QED
  BY <1>2 DEF SourcingSets, MadeRight, Taken

LEMMA SourcingSetsStay ==
  SourcingInv /\ SourcingSets /\ [Sourcing!Next]_(Sourcing!vars) => SourcingSets'
<1> SUFFICES ASSUME SourcingInv, SourcingSets, [Sourcing!Next]_(Sourcing!vars) PROVE SourcingSets'
  OBVIOUS
<1>1. CASE UNCHANGED Sourcing!vars
  BY <1>1 DEF Sourcing!vars, SourcingSets, MadeRight, Taken
<1>2. ASSUME NEW h \in SourcingHosts,
             Sourcing!Enter(h) \/ Sourcing!Accept(h) \/ Sourcing!Reject(h) \/ Sourcing!KeyExpires(h)
      PROVE  SourcingSets'
  BY <1>2 DEF Sourcing!Enter, Sourcing!Accept, Sourcing!Reject, Sourcing!KeyExpires, SourcingSets,
              MadeRight, Taken
<1>3. ASSUME NEW w \in Requests, cycle[w] # None
      PROVE  /\ cycle[w] \in SourcingCycles /\ MadeRight(cycle[w]) /\ CycleIsRight(cycle[w])
             /\ cycle[w].made \in Nat
  BY <1>3 DEF SourcingInv, SourcingSets, SourcingCycles
<1>4. MaxNew \in Nat \ {0}
  BY EntriesAreTyped
<1>5. ASSUME NEW w \in Requests, Sourcing!Start(w) \/ Sourcing!Leave(w) PROVE SourcingSets'
  <2>1. PICK d : /\ cycle' = [cycle EXCEPT ![w] = d] /\ (d # None => d.made = 0 /\ d.step = "fetch")
                 /\ UNCHANGED <<entered, rejected, asked>>
    BY <1>5 DEF Sourcing!Start, Sourcing!Leave
  <2>2. d # None => MadeRight(d)
    BY <1>4, <2>1 DEF MadeRight, Taken
  <2> QED
    BY <2>1, <2>2, SourcingSetsMove DEF SourcingSets
<1>6. ASSUME NEW w \in Requests, Sourcing!FetchSeeds(w) \/ Sourcing!FetchLinks(w)
      PROVE  SourcingSets'
  <2>1. PICK entries : Sourcing!Fetched(w, entries) /\ cycle[w] # None
    BY <1>6 DEF Sourcing!FetchSeeds, Sourcing!FetchLinks, Sourcing!At
  <2> DEFINE d == [cycle[w] EXCEPT !.step = "take", !.queue = entries]
  <2>2. cycle' = [cycle EXCEPT ![w] = d] /\ UNCHANGED <<entered, rejected, asked>>
    BY <2>1 DEF Sourcing!Fetched, SourcingInv
  <2>3. d.step = "take" /\ d.made = cycle[w].made
    BY <1>3, <2>1 DEF SourcingCycles
  <2>4. MadeRight(d)
    BY <1>3, <2>1, <2>3 DEF MadeRight, Taken
  <2> QED
    BY <2>2, <2>4, SourcingSetsMove DEF SourcingSets
<1>7. ASSUME NEW w \in Requests, Sourcing!SourceFails(w) \/ Sourcing!EndSource(w)
      PROVE  SourcingSets'
  <2>1. cycle[w] # None /\ UNCHANGED <<entered, rejected, asked>>
    BY <1>7 DEF Sourcing!SourceFails, Sourcing!EndSource, Sourcing!At
  <2>2. PICK d : /\ cycle' = [cycle EXCEPT ![w] = d] /\ d.step \in {"done", "fetch"}
                 /\ d.made = cycle[w].made
    <3>1. CASE cycle' = [cycle EXCEPT ![w].step = "done"]
      <4> DEFINE d == [cycle[w] EXCEPT !.step = "done"]
      <4>1. cycle' = [cycle EXCEPT ![w] = d]
        BY <3>1 DEF SourcingInv
      <4>2. d.step = "done" /\ d.made = cycle[w].made
        BY <1>3, <2>1 DEF SourcingCycles
      <4> HIDE DEF d
      <4> QED
        BY <4>1, <4>2
    <3>2. CASE cycle' = [cycle EXCEPT ![w].step = "fetch", ![w].source = 2]
      <4> DEFINE d == [cycle[w] EXCEPT !.step = "fetch", !.source = 2]
      <4>1. cycle' = [cycle EXCEPT ![w] = d]
        BY <3>2 DEF SourcingInv
      <4>2. d.step = "fetch" /\ d.made = cycle[w].made
        BY <1>3, <2>1 DEF SourcingCycles
      <4> HIDE DEF d
      <4> QED
        BY <4>1, <4>2
    <3> QED
      BY <1>7, <3>1, <3>2 DEF Sourcing!SourceFails, Sourcing!EndSource
  <2>3. MadeRight(d)
    BY <1>3, <2>1, <2>2 DEF MadeRight, Taken
  <2> QED
    BY <2>1, <2>2, <2>3, SourcingSetsMove DEF SourcingSets
<1>8. ASSUME NEW w \in Requests, Sourcing!Take(w) PROVE SourcingSets'
  <2>1. /\ cycle[w] # None /\ cycle[w].made < MaxNew /\ UNCHANGED <<entered, rejected, asked>>
        /\ cycle' = [cycle EXCEPT ![w].step = "look", ![w].seen = @ \cup {Sourcing!Host(w)}]
    BY <1>8 DEF Sourcing!Take, Sourcing!At
  <2> DEFINE d == [cycle[w] EXCEPT !.step = "look", !.seen = @ \cup {Sourcing!Host(w)}]
  <2>2. cycle' = [cycle EXCEPT ![w] = d]
    BY <2>1 DEF SourcingInv
  <2>3. d.made = cycle[w].made
    BY <1>3, <2>1 DEF SourcingCycles
  <2>4. MadeRight(d)
    BY <1>3, <2>1, <2>3 DEF MadeRight
  <2> QED
    BY <2>1, <2>2, <2>4, SourcingSetsMove DEF SourcingSets
<1>9. ASSUME NEW w \in Requests, cycle[w] # None, cycle[w].made < MaxNew,
              \E step : cycle' = [cycle EXCEPT ![w].step = step],
              UNCHANGED <<entered, rejected, asked>>
       PROVE  SourcingSets'
  <2>1. PICK step : cycle' = [cycle EXCEPT ![w].step = step]
    BY <1>9
  <2> DEFINE d == [cycle[w] EXCEPT !.step = step]
  <2>2. cycle' = [cycle EXCEPT ![w] = d]
    BY <2>1 DEF SourcingInv
  <2>3. d.made = cycle[w].made
    BY <1>3, <1>9 DEF SourcingCycles
  <2>4. MadeRight(d)
    BY <1>3, <1>9, <2>3 DEF MadeRight
  <2> QED
    BY <1>9, <2>2, <2>4, SourcingSetsMove DEF SourcingSets
<1>10. ASSUME NEW w \in Requests, NEW changes \in SourcingCycles, changes.made <= MaxNew,
              Sourcing!Skip(w, changes), UNCHANGED <<entered, rejected>>,
              asked' \subseteq SourcingHosts
       PROVE  SourcingSets'
  <2> DEFINE d == [changes EXCEPT !.step = "take", !.queue = Tail(@)]
  <2>1. cycle' = [cycle EXCEPT ![w] = d]
    BY <1>10 DEF Sourcing!Skip
  <2>2. d.step = "take" /\ d.made = changes.made
    BY DEF SourcingCycles
  <2>3. MadeRight(d)
    BY <1>10, <2>2 DEF MadeRight, Taken
  <2> QED
    BY <1>10, <2>1, <2>3, SourcingSetsMove
<1>11. ASSUME NEW w \in Requests, Sourcing!TakeNothing(w) PROVE SourcingSets'
  BY <1>3, <1>10, <1>11 DEF Sourcing!TakeNothing, Sourcing!At, SourcingSets, MadeRight
<1>12. ASSUME NEW w \in Requests, cycle[w] # None, Taken(cycle[w]), Sourcing!Failed(w),
              UNCHANGED <<entered, rejected, asked>>
       PROVE  SourcingSets'
  <2> DEFINE changes == [cycle[w] EXCEPT !.failed = @ \cup {Sourcing!Host(w)}]
  <2>1. Sourcing!Host(w) \in SourcingHosts
    BY <1>3, <1>12 DEF CycleIsRight, Sourcing!Host
  <2>2. changes \in SourcingCycles /\ changes.made = cycle[w].made
    BY <1>3, <1>12, <2>1 DEF SourcingCycles
  <2> HIDE DEF changes
  <2>3. changes.made <= MaxNew
    BY <1>3, <1>12, <2>2 DEF MadeRight
  <2>4. Sourcing!Skip(w, changes)
    BY <1>12 DEF Sourcing!Failed, changes
  <2> QED
    BY <1>10, <1>12, <2>2, <2>3, <2>4 DEF SourcingSets
<1>13. ASSUME NEW w \in Requests, Sourcing!Fail(w) PROVE SourcingSets'
  BY <1>12, <1>13 DEF Sourcing!Fail, Sourcing!At, Taken
<1>14. ASSUME NEW w \in Requests, Sourcing!Look(w) PROVE SourcingSets'
  <2>1. cycle[w] # None /\ Taken(cycle[w]) /\ UNCHANGED <<entered, rejected, asked>>
    BY <1>14 DEF Sourcing!Look, Sourcing!At, Taken
  <2>2. CASE Sourcing!Skip(w, cycle[w])
    BY <1>3, <1>10, <2>1, <2>2 DEF SourcingSets, MadeRight
  <2>3. CASE cycle' = [cycle EXCEPT ![w].step = "create"]
    BY <1>3, <1>9, <2>1, <2>3 DEF MadeRight
  <2> QED
    BY <1>14, <2>2, <2>3 DEF Sourcing!Look
<1>15. ASSUME NEW w \in Requests, Sourcing!Create(w) PROVE SourcingSets'
  <2>1. cycle[w] # None /\ Taken(cycle[w]) /\ UNCHANGED <<entered, rejected, asked>>
    BY <1>15 DEF Sourcing!Create, Sourcing!At, Taken
  <2>2. CASE Sourcing!Failed(w)
    BY <1>12, <2>1, <2>2
  <2>3. CASE cycle' = [cycle EXCEPT ![w].step = "request"]
    BY <1>3, <1>9, <2>1, <2>3 DEF MadeRight
  <2> QED
    BY <1>15, <2>2, <2>3 DEF Sourcing!Create
<1>16. ASSUME NEW w \in Requests, Sourcing!Request(w) PROVE SourcingSets'
  <2> DEFINE changes == [cycle[w] EXCEPT !.made = @ + 1]
  <2>1. /\ cycle[w] # None /\ Taken(cycle[w]) /\ UNCHANGED <<entered, rejected>>
        /\ asked' = asked \cup {Sourcing!Host(w)} /\ Sourcing!Skip(w, changes)
    BY <1>16 DEF Sourcing!Request, Sourcing!At, Taken
  <2>2. Sourcing!Host(w) \in SourcingHosts
    BY <1>3, <2>1 DEF CycleIsRight, Sourcing!Host
  <2>3. changes \in SourcingCycles /\ changes.made = cycle[w].made + 1
    BY <1>3, <2>1 DEF SourcingCycles
  <2> HIDE DEF changes
  <2>4. changes.made <= MaxNew
    BY <1>3, <1>4, <2>1, <2>3 DEF MadeRight
  <2> QED
    BY <1>10, <2>1, <2>2, <2>3, <2>4 DEF SourcingSets
<1> QED
  BY <1>1, <1>2, <1>5, <1>6, <1>7, <1>8, <1>11, <1>13, <1>14, <1>15, <1>16 DEF Sourcing!Next

LEMMA SourcingTypesOK == Sourcing!Spec => []Sourcing!TypeOK
<1>1. Sourcing!Init => SourcingSets
  BY DEF Sourcing!Init, SourcingSets
<1>2. SourcingInv /\ SourcingSets => Sourcing!TypeOK
  <2> SUFFICES ASSUME SourcingInv, SourcingSets PROVE Sourcing!TypeOK
    OBVIOUS
  <2>1. Sourcing!Range(tracked) \subseteq SourcingHosts
    BY DEF SourcingInv, Sourcing!Range
  <2>2. found \in [SourcingHosts -> Nat]
    BY DEF SourcingInv
  <2>3. ASSUME NEW w \in Requests, cycle[w] # None
        PROVE  /\ cycle[w].step \in {"fetch", "take", "look", "create", "request", "done"}
               /\ cycle[w].source \in 1 .. 3 /\ cycle[w].made \in 0 .. MaxNew
    <3>1. cycle[w] \in SourcingCycles /\ MadeRight(cycle[w])
      BY <2>3 DEF SourcingInv, SourcingSets
    <3> QED
      BY <3>1, EntriesAreTyped DEF SourcingCycles, MadeRight
  <2> QED
    BY <2>1, <2>2, <2>3 DEF Sourcing!TypeOK, SourcingSets
<1>3. SourcingInv /\ SourcingSets /\ [Sourcing!Next]_(Sourcing!vars) => SourcingInv' /\ SourcingSets'
  BY SourcingInductive, SourcingSetsStay
<1>4. Sourcing!Init => SourcingInv
  BY SourcingInitially
<1> QED
  BY <1>1, <1>2, <1>3, <1>4, PTL DEF Sourcing!Spec
===============================================================================
