------------------------------ MODULE PageRenderer ------------------------------
(***************************************************************************)
(* Pages rendered in a browser (monitoring/playwright-page-renderer.ts):   *)
(* one browser of the process, launched by the first render and shared by  *)
(* all, in which every page has a context of its own and every request is  *)
(* vetted.  Chromium is outside: it may not start, and may die.            *)
(***************************************************************************)
EXTENDS Integers, Sequences, FiniteSets, Functions

CONSTANTS
  Renders,      \* calls of render
  Lists,        \* that are rendered: sequences of pages
  Hosts,        \* that pages request
  Blocked,      \* of them, those that are not to be fetched
  MaxPages,     \* MAX_PAGES_PER_RENDER
  MaxLaunches,  \* bound
  None

Pages == UNION {Range(urls) : urls \in Lists}

Results == Seq([url : Pages, ok : BOOLEAN])

Calls ==
  [browser : Nat, todo : Seq(Pages), page : Pages \cup {None},
   verdicts : [Hosts -> {None, "continue", "abort"}], results : Results]

Answers == [thrown : BOOLEAN, results : Results]

RendererAssumption ==
  /\ Lists \subseteq Seq(Pages)
  /\ Blocked \subseteq Hosts /\ MaxPages \in Nat \ {0} /\ MaxLaunches \in Nat
  /\ None \notin Pages \cup Nat \cup Answers \cup Calls

VARIABLES
  browserPromise,  \* None or the launch whose browser is shared
  browsers,        \* of every launch: "launching", "running", "closing", "gone", "unavailable"
  contexts,        \* the contexts that are open: <<launch, render>>
  calls,           \* of every render: None or [browser, todo, page, verdicts, results]
  answers,         \* of every render: None or [thrown, results]
  closed           \* history: how often the shared browser was closed

vars == <<browserPromise, browsers, contexts, calls, answers, closed>>

-------------------------------------------------------------------------------
Result(url, ok) == [url |-> url, ok |-> ok]

Answered(results) == [thrown |-> FALSE, results |-> results]

Thrown == [thrown |-> TRUE, results |-> <<>>]

Unasked == [h \in Hosts |-> None]

Alive(launch) == browsers[launch] \in {"running", "closing"}

Rendering(r) == answers[r] = None /\ calls[r] # None

TypeOK ==
  /\ browserPromise \in (DOMAIN browsers) \cup {None} /\ Len(browsers) <= MaxLaunches
  /\ \A n \in DOMAIN browsers :
       browsers[n] \in {"launching", "running", "closing", "gone", "unavailable"}
  /\ contexts \subseteq (DOMAIN browsers) \X Renders /\ closed \in Nat
  /\ answers \in [Renders -> Answers \cup {None}]
  /\ calls \in [Renders -> Calls \cup {None}]
  /\ \A r \in Renders : calls[r] # None =>
       /\ calls[r].browser \in DOMAIN browsers
       /\ Len(calls[r].results) + Len(calls[r].todo) <= MaxPages

Init ==
  /\ browserPromise = None /\ browsers = <<>> /\ contexts = {} /\ closed = 0
  /\ calls = [r \in Renders |-> None] /\ answers = [r \in Renders |-> None]

-------------------------------------------------------------------------------
(* render *)

Call(r, urls, launch) ==
  calls' = [calls EXCEPT ![r] = [browser |-> launch, todo |-> urls, page |-> None,
                                 verdicts |-> Unasked, results |-> <<>>]]

\* The first pages only; whoever finds no launch begins one.
Render(r, urls) ==
  LET targets == SubSeq(urls, 1, IF Len(urls) < MaxPages THEN Len(urls) ELSE MaxPages) IN
  /\ calls[r] = None /\ answers[r] = None
  /\ CASE targets = <<>> ->
            /\ answers' = [answers EXCEPT ![r] = Answered(<<>>)]
            /\ UNCHANGED <<browserPromise, browsers, calls>>
       [] targets # <<>> /\ browserPromise # None ->
            Call(r, targets, browserPromise) /\ UNCHANGED <<browserPromise, browsers, answers>>
       [] OTHER ->
            /\ Len(browsers) < MaxLaunches
            /\ browsers' = Append(browsers, "launching")
            /\ browserPromise' = Len(browsers')
            /\ Call(r, targets, Len(browsers')) /\ UNCHANGED answers
  /\ UNCHANGED <<contexts, closed>>

\* A launch that fails stays the shared one, so that it is not tried again.
Launch(launch, outcome) ==
  /\ browsers[launch] = "launching"
  /\ browsers' = [browsers EXCEPT ![launch] = outcome]
  /\ UNCHANGED <<browserPromise, contexts, calls, answers, closed>>

Answer(r, answer) == answers' = [answers EXCEPT ![r] = answer]

\* renderPage.  A browser that is gone has no context to give, which ends the render.
NewContext(r) ==
  LET c == calls[r] IN
  /\ Rendering(r) /\ c.page = None /\ browsers[c.browser] # "launching"
  /\ CASE browsers[c.browser] = "unavailable" ->
            Answer(r, Answered(<<>>)) /\ UNCHANGED <<contexts, calls>>
       [] browsers[c.browser] = "gone" -> Answer(r, Thrown) /\ UNCHANGED <<contexts, calls>>
       [] OTHER ->
            /\ contexts' = contexts \cup {<<c.browser, r>>}
            /\ calls' = [calls EXCEPT ![r].page = Head(c.todo), ![r].verdicts = Unasked]
            /\ UNCHANGED answers
  /\ UNCHANGED <<browserPromise, browsers, closed>>

\* vetRequest: requests of one host share the verdict, for the page.
VetRequest(r, host, resolved) ==
  /\ Rendering(r) /\ calls[r].page # None /\ calls[r].verdicts[host] = None
  /\ calls' = [calls EXCEPT ![r].verdicts[host] =
                 IF resolved /\ host \notin Blocked THEN "continue" ELSE "abort"]
  /\ UNCHANGED <<browserPromise, browsers, contexts, answers, closed>>

\* A page that is read, or fails, closes its context; the last one ends the render.
FinishPage(r, ok) ==
  LET c == calls[r]
      results == Append(c.results, Result(c.page, ok))
  IN
  /\ Rendering(r) /\ c.page # None
  /\ ok => /\ Alive(c.browser) /\ \E h \in Hosts : c.verdicts[h] = "continue"
           /\ \A h \in Hosts : c.verdicts[h] # None
  /\ contexts' = contexts \ {<<c.browser, r>>}
  /\ calls' = [calls EXCEPT ![r].page = None, ![r].todo = Tail(@), ![r].results = results]
  /\ IF Len(c.todo) = 1 THEN Answer(r, Answered(results)) ELSE UNCHANGED answers
  /\ UNCHANGED <<browserPromise, browsers, closed>>

-------------------------------------------------------------------------------
\* close: once the launch is over the renderer forgets the browser, and then closes it.
Close ==
  /\ browserPromise # None /\ browsers[browserPromise] # "launching"
  /\ browserPromise' = None /\ closed' = closed + 1
  /\ browsers' = [browsers EXCEPT ![browserPromise] = IF @ = "running" THEN "closing" ELSE @]
  /\ UNCHANGED <<contexts, calls, answers>>

\* The browser is closed, or dies; its contexts end with it.
Gone(launch) ==
  /\ Alive(launch)
  /\ browsers' = [browsers EXCEPT ![launch] = "gone"]
  /\ contexts' = {c \in contexts : c[1] # launch}
  /\ UNCHANGED <<browserPromise, calls, answers, closed>>

Next ==
  \/ \E r \in Renders :
       \/ \E urls \in Lists : Render(r, urls)
       \/ NewContext(r)
       \/ \E h \in Hosts, resolved \in BOOLEAN : VetRequest(r, h, resolved)
       \/ \E ok \in BOOLEAN : FinishPage(r, ok)
  \/ \E launch \in DOMAIN browsers :
       (\E outcome \in {"running", "unavailable"} : Launch(launch, outcome)) \/ Gone(launch)
  \/ Close

Spec == Init /\ [][Next]_vars

-------------------------------------------------------------------------------
\* playwright-page-renderer.ts:39: the browser is of the process.  Renders that overlap, the
\* first ones too, share it; only closing it makes place for another.
OneBrowser ==
  /\ Len(browsers) <= 1 + closed
  /\ Cardinality({n \in DOMAIN browsers : browsers[n] \in {"launching", "running"}}) <= 1

\* Whatever a page does, its context is closed: none is open but that of a page which is
\* rendered, in the browser the render began with.
NoContextIsLeft ==
  \A c \in contexts : Rendering(c[2]) /\ calls[c[2]].page # None /\ calls[c[2]].browser = c[1]

\* A page that fails takes no other page of its render with it: unless the browser is gone or
\* never came, a render answers for each of its pages, in their order, and within the budget.
EveryPageIsAnswered ==
  \A r \in Renders :
    (answers[r] # None /\ calls[r] # None) =>
      LET c == calls[r]
          results == answers[r].results
      IN  CASE answers[r].thrown -> browsers[c.browser] = "gone" /\ c.todo # <<>>
            [] ~answers[r].thrown /\ results = <<>> -> browsers[c.browser] = "unavailable"
            [] OTHER -> /\ c.todo = <<>> /\ Len(results) <= MaxPages
                        /\ \E urls \in Lists :
                             /\ Len(results) <= Len(urls)
                             /\ \A i \in DOMAIN results : results[i].url = urls[i]
===============================================================================
