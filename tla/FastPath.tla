------------------------------- MODULE FastPath --------------------------------
(***************************************************************************)
(* F.R.I.D.A.Y.'s FastPathRouter (src/friday/agent/fastpath.py): which     *)
(* texts of the user go to a tool at once, without the planner.  A text is *)
(* a sequence of words; of each table of phrases one or two stand for all. *)
(***************************************************************************)
EXTENDS Naturals, Sequences, SequencesExt

CONSTANTS Words,   \* words the user says
          MaxWords \* bound: words of a text

VARIABLES text, \* what the user said
          route \* what the router makes of it: a tool and what it is for

vars == <<text, route>>

Texts == UNION {[1 .. n -> Words] : n \in 0 .. MaxWords}
To(tool, for) == [tool |-> tool, for |-> for]
None == To("none", "none")

\* Punctuation becomes a space, an apostrophe too.
Normalize(words) ==
  FlattenSeq([i \in DOMAIN words |-> IF words[i] = "don't" THEN <<"don", "t">> ELSE <<words[i]>>])

StartsWith(words, phrases) == \E p \in phrases : IsPrefix(p, words)
Says(words, phrases) ==
  \E p \in phrases, i \in 1 .. Len(words) : IsPrefix(p, SubSeq(words, i, Len(words)))

Negated(words) == StartsWith(words, {<<"do", "not">>, <<"dont">>}) \/ Says(words, {<<"never">>})

HidePhrases == {<<"hide">>, <<"go", "away">>}
ShowPhrases == {<<"appear">>}
ShutdownExact == {<<"bye">>, <<"quit">>, <<"close", "friday">>}
SearchTriggers == {<<"google">>, <<"look", "up">>}
AppAliases == {"notepad", "calc"}

IsShutdown(words) ==
  /\ ~Says(words, HidePhrases)
  /\ \/ words \in ShutdownExact
     \/ Says(words, {<<"shut", "down">>, <<"goodbye">>, <<"turn", "off">>})

\* A search has something to search for, in the words as they were said.
IsSearch(said) == \E p \in SearchTriggers : IsPrefix(p, said) /\ Len(said) > Len(p)

\* Mutant: the application is the beginning of what is said.
AppOfPrefix(words, verbs) ==
  {a \in AppAliases : \E v \in verbs : StartsWith(words, {<<v, a>>, <<v, "the", a>>})}

\* "open notepad", "open the notepad".
AppOf(words, verbs) ==
  {a \in AppAliases : \E v \in verbs : words \in {<<v, a>>, <<v, "the", a>>}}

\* The rules, in the order in which they are tried.
Rules(said, words) ==
  << <<IsShutdown(words), To("system.shutdown_friday", "none")>>,
     <<StartsWith(words, ShowPhrases), To("system.toggle_orb", "show")>>,
     <<StartsWith(words, HidePhrases), To("system.toggle_orb", "hide")>>,
     <<words = <<"mute">>, To("audio.set_volume", "0")>>,
     <<words = <<"unmute">>, To("audio.set_volume", "50")>>,
     <<IsSearch(said), To("online.search", "query")>>,
     <<Says(words, {<<"current", "time", "in">>}), To("system.get_time", "place")>>,
     <<StartsWith(words, {<<"current", "time">>}), To("system.get_time", "none")>>,
     <<words = <<"show", "desktop">>, To("computer.minimize_all_windows", "none")>>,
     <<words = <<"restore", "it">>, To("computer.control_window", "restore")>>,
     <<words = <<"close", "it">>, To("computer.control_window", "close")>>,
     <<AppOf(words, {"open"}) # {}, To("applications.open", "app")>>,
     <<AppOf(words, {"close", "quit"}) # {}, To("applications.close", "app")>> >>

Match(said) ==
  LET words == Normalize(said)
      first == SelectInSeq(Rules(said, words), LAMBDA r : r[1])
  IN  IF words = <<>> \/ Negated(words) \/ first = 0 THEN None ELSE Rules(said, words)[first][2]

Init == text \in Texts /\ route = None

Hears == route' = Match(text) /\ UNCHANGED text

Next == Hears

Spec == Init /\ [][Next]_vars

(***************************************************************************)
(* Properties.                                                             *)
(***************************************************************************)

\* What a text is and what a route is (FastPathResult).
TypeOK == text \in Texts /\ DOMAIN route = {"tool", "for"}

\* A window or an application is closed only by a text that says that and
\* nothing else: no longer text, of whatever words, comes to it through the
\* order of the rules or the prefixes that others are content with (match).
ClosesOnCommand ==
  route \in {To("computer.control_window", "close"), To("applications.close", "app")}
     => /\ Head(text) \in {"close", "quit"} /\ Last(text) \in AppAliases \union {"it"}
        /\ Front(Tail(text)) \in {<<>>, <<"the">>}

\* What the tests say of the router: "explicit find/search/look up X phrasings
\* now route directly to online.search".
SearchIsSearch ==
  [][IsSearch(text) /\ ~Negated(Normalize(text)) => route'.tool = "online.search"]_vars

=============================================================================
