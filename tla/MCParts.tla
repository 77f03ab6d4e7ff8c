------------------------------- MODULE MCParts -------------------------------
(***************************************************************************)
(* The small worlds of the parts, for TLC.                                 *)
(***************************************************************************)
EXTENDS Parts, TLC

\* Of the callers all but one may change places.
Symmetry == Permutations(Callers \ {CHOOSE c \in Callers : TRUE})

FastWords ==
  {"do", "not", "don't", "never", "hide", "turn", "off", "goodbye", "google", "current", "time",
   "in", "close", "the", "notepad", "it"}

SpokenWords == {"sorry", "sure", "thing", "haha"}

\* Two models of one family in Ollama, and one in a file.
Family == [e \in {"a", "b", "f"} |-> e = "f"]

\* Of what is remembered two are facts, one hearsay.
Kind == [fact |-> "fact", pref |-> "preference", told |-> "fact", done |-> "episode"]
Authority == [fact |-> 100, pref |-> 100, told |-> 30, done |-> 70]
Tokens == [fact |-> 2, pref |-> 2, told |-> 1, done |-> 3]

\* Two controls of notepad, the name of one a part of the other's and a word of
\* the resolver's own sentences too, and one of the same name in a mail program.
Owner == [on |-> "notepad", turn |-> "notepad", mail |-> "mail"]
Name == [on |-> "On", turn |-> "Turn On", mail |-> "On"]
Role == [c \in DOMAIN Owner |-> "Button"]
Id == [on |-> "btn_on", turn |-> "btn_2", mail |-> "btn_on"]
Part == [n \in {"On", "Turn On", "btn_on", "btn_2"} |->
           CASE n \in {"On", "btn_on"} -> {"On"}
             [] n = "Turn On" -> {"On", "Turn On"}
             [] OTHER -> {}]

==============================================================================
