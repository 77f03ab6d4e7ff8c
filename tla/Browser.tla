------------------------------- MODULE Browser -------------------------------
(***************************************************************************)
(* F.R.I.D.A.Y.'s browser: the controller that the tools of all threads    *)
(* share (src/friday/browser/controller.py, tools/browser.py), the         *)
(* navigator that asks the safety rules and the policy engine before it    *)
(* sends a request (browser/navigation.py, browser/safety.py), and the     *)
(* isolated browser session (browser/session.py).                          *)
(***************************************************************************)
EXTENDS Naturals, Sequences, FiniteSets

CONSTANTS Callers,   \* threads that use the browser tools
          Pages,     \* addresses
          Results,   \* the addresses of search results
          Unsafe,    \* addresses that is_safe_url refuses
          Sensitive, \* addresses of payments and accounts
          NoPage,    \* no address
          MaxCalls   \* bound: calls of the browser and of the session

PagesAssumption == Results \subseteq Pages /\ Unsafe \subseteq Pages
                          /\ Sensitive \subseteq Pages /\ NoPage \notin Pages

VARIABLES
  current, history, index, \* the controller
  engine,   \* whether the navigator has a policy engine
  call,     \* call[c]: the call in progress: [op, url, step]
  read,     \* read[c]: the page whose text the last observe of c returned
  mine,     \* mine[c]: the page c opened, unless something else was opened since
  browsers, \* browsers the session has started and not closed
  handle,   \* the one the session knows
  calls

controller == <<current, history, index>>
session == <<browsers, handle>>
vars == <<controller, engine, call, read, mine, session, calls>>

NoCall == [op |-> "none", url |-> NoPage, step |-> "idle"]

Init ==
  /\ current = NoPage /\ history = <<>> /\ index = 0
  /\ engine \in BOOLEAN
  /\ call = [c \in Callers |-> NoCall]
  /\ read = [c \in Callers |-> NoPage] /\ mine = [c \in Callers |-> NoPage]
  /\ browsers = {} /\ handle = 0
  /\ calls = 0

Begins(c) == call[c].step = "idle" /\ calls < MaxCalls /\ calls' = calls + 1
Returns(c) == call' = [call EXCEPT ![c] = NoCall]
Opened(c, p) == mine' = [d \in Callers |-> IF d = c THEN p ELSE NoPage]

(***************************************************************************)
(* BrowserSafety and BrowserNavigator.                                     *)
(***************************************************************************)

HighImpact == {"submit"}
RequiresApproval(op, url) == op \in HighImpact \/ url \in Sensitive

\* The checks of navigate, in its order: is there a network, is the address
\* safe, does an engine allow what it has to; submit_form asks for approval
\* first and does not ask the network.
Passes(op, url, online, allowed) ==
  /\ op # "submit" => online
  /\ url \notin Unsafe
  /\ RequiresApproval(op, url) => allowed

\* The network and the rules of the engine are as they are when they are asked.
Asks(c, op, url) ==
  \E online \in BOOLEAN, allowed \in {FALSE, engine} :
    call' = [call EXCEPT ![c] =
               IF Passes(op, url, online, allowed)
               THEN [op |-> op, url |-> url, step |-> "sends"]
               ELSE NoCall]

\* The request; the server may answer with an error, or not at all.
Sends(c, ok) ==
  /\ call[c].step = "sends"
  /\ call' = [call EXCEPT ![c] = IF ok THEN [@ EXCEPT !.step = "sent"] ELSE NoCall]
  /\ UNCHANGED <<controller, engine, read, mine, session, calls>>

(***************************************************************************)
(* BrowserController.                                                      *)
(***************************************************************************)

\* open_url: the rest of the history is cut, the address becomes the last ...
OpensUrl(c, url) ==
  /\ Begins(c)
  /\ IF url \in Unsafe
     THEN UNCHANGED <<history, call>>
     ELSE /\ history' = Append(SubSeq(history, 1, IF index < Len(history) THEN index ELSE Len(history)), url)
          /\ call' = [call EXCEPT ![c] = [NoCall EXCEPT !.op = "open", !.url = url, !.step = "opens"]]
  /\ UNCHANGED <<current, index, engine, read, mine, session>>

\* Mutant: the page that was opened does not become the current one.
IsOpenElsewhere(c) ==
  /\ call[c].step = "opens"
  /\ index' = index + 1 /\ UNCHANGED current
  /\ Opened(c, call[c].url)
  /\ Returns(c)
  /\ UNCHANGED <<history, engine, read, session, calls>>

\* ... and then the current one, and the system's browser is told.
IsOpen(c) ==
  /\ call[c].step = "opens"
  /\ index' = index + 1 /\ current' = call[c].url
  /\ Opened(c, call[c].url)
  /\ Returns(c)
  /\ UNCHANGED <<history, engine, read, session, calls>>

\* search, navigate, follow_link, submit_form.
Navigates(c, op, url) ==
  /\ Begins(c)
  /\ Asks(c, op, url)
  /\ UNCHANGED <<controller, engine, read, mine, session>>

\* What comes of it: where the answer came from is the current address, also
\* when the answer turns out to be an error page; a form is not followed.
Navigated(c, at) ==
  /\ call[c].step = "sent" /\ call[c].op \in {"search", "navigate", "submit"}
  /\ IF call[c].op = "submit" THEN UNCHANGED <<current, mine>>
                              ELSE current' = at /\ Opened(c, at)
  /\ Returns(c)
  /\ UNCHANGED <<history, index, engine, read, session, calls>>

\* back and forward move first, whether or not the page is found; back may find
\* nothing where two threads have moved the index beyond the history.
Goes(c, to) ==
  /\ Begins(c)
  /\ to > index => to <= Len(history)
  /\ index' = to
  /\ IF to > Len(history)
     THEN UNCHANGED <<current, call, mine>>
     ELSE /\ current' = history[to]
          /\ mine' = [d \in Callers |-> NoPage]
          /\ Asks(c, "history", history[to])
  /\ UNCHANGED <<history, engine, read, session>>

\* observe: an address, or the current one; the page is requested twice.
Observes(c, given) ==
  /\ Begins(c)
  /\ given # NoPage \/ current # NoPage
  /\ Asks(c, IF given # NoPage THEN "fetch" ELSE "observe", IF given # NoPage THEN given ELSE current)
  /\ UNCHANGED <<controller, engine, read, mine, session>>

Observed(c, ok) ==
  /\ call[c].step = "sent" /\ call[c].op \in {"fetch", "observe", "history"}
  /\ read' = IF ok /\ call[c].op = "observe" THEN [read EXCEPT ![c] = call[c].url] ELSE read
  /\ Returns(c)
  /\ UNCHANGED <<controller, engine, mine, session, calls>>

(***************************************************************************)
(* BrowserSession.                                                         *)
(***************************************************************************)

\* launch looks for a context, which nothing ever sets, and starts a browser.
Launches ==
  /\ calls < MaxCalls /\ calls' = calls + 1
  /\ handle' = calls' /\ browsers' = browsers \union {calls'}
  /\ UNCHANGED <<controller, engine, call, read, mine>>

\* close ends the browser that is known, and leaves it known.
Closes ==
  /\ handle # 0
  /\ browsers' = browsers \ {handle}
  /\ UNCHANGED <<controller, engine, call, read, mine, handle, calls>>

Next ==
  \/ \E c \in Callers :
       \/ \E url \in Pages : \/ OpensUrl(c, url)
                             \/ Navigates(c, "navigate", url) \/ Navigates(c, "submit", url)
                             \/ Navigated(c, url)
       \/ \E url \in Results : Navigates(c, "search", url)
       \/ IsOpen(c)
       \/ \E url \in Pages \union {NoPage} : Observes(c, url)
       \/ \E ok \in BOOLEAN : Sends(c, ok) \/ Observed(c, ok)
       \/ \E to \in 1 .. MaxCalls : to \in {index - 1, index + 1} /\ Goes(c, to)
  \/ Launches \/ Closes

Spec == Init /\ [][Next]_vars

(***************************************************************************)
(* Properties.                                                             *)
(***************************************************************************)

\* Every variable keeps its type (BrowserController, BrowserSession).
TypeOK ==
  /\ current \in Pages \union {NoPage} /\ history \in Seq(Pages) /\ index \in Nat
  /\ engine \in BOOLEAN
  /\ \A c \in Callers : /\ call[c].step \in {"idle", "opens", "sends", "sent"}
                        /\ {read[c], mine[c], call[c].url} \subseteq Pages \union {NoPage}
  /\ browsers \subseteq 1 .. MaxCalls /\ handle \in 0 .. MaxCalls

\* What a thread reads of the current page is the page it opened last, as long
\* as nothing else has been opened since (open_url, search, get_page_content).
ReadIsOwn == \A c \in Callers : read'[c] # read[c] /\ mine[c] # NoPage => read'[c] = mine[c]
ReadsItsPage == [][ReadIsOwn]_vars

\* What launch says when it is called again: "Already launched".  A session has
\* one browser.
OneBrowser == Cardinality(browsers) <= 1

\* What keeps it so: the page a thread opened is the current one while it is the
\* thread's own, and the page under its observation too.
Calls == [op : {"none", "open", "search", "navigate", "submit", "fetch", "observe", "history"},
          url : Pages \union {NoPage}, step : {"idle", "opens", "sends", "sent"}]
OwnInv ==
  /\ call \in [Callers -> Calls]
  /\ read \in [Callers -> Pages \union {NoPage}] /\ mine \in [Callers -> Pages \union {NoPage}]
  /\ current \in Pages \union {NoPage} /\ history \in Seq(Pages) /\ index \in Nat
  /\ \A c \in Callers : mine[c] # NoPage =>
       /\ current = mine[c]
       /\ call[c].op = "observe" => call[c].url = mine[c]

=============================================================================
