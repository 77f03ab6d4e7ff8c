---------------------------- MODULE SpeechDirector ----------------------------
(***************************************************************************)
(* How F.R.I.D.A.Y. decides the way a sentence is spoken                   *)
(* (src/friday/interaction/speech_director.py): the tags that the speech   *)
(* engine reads and the voice profile it speaks with.  A sentence is a     *)
(* sequence of tokens, tags in brackets among words; the tags that are     *)
(* looked for are those of its first tokens.  A sentence may come with      *)
(* blanks in front, which keep its leading tags from being taken off.  The *)
(* count of sentences between effects, which no configuration sets, is     *)
(* left out.                                                               *)
(***************************************************************************)
EXTENDS Naturals, Sequences, SequencesExt

CONSTANTS Tags,       \* tags that the engine may be offered (base_allowed)
          Production, \* tags the policy permits ...
          Limited,    \* ... and those it permits unless something went wrong
          Disabled,   \* tags it never permits
          Words,      \* the words of sentences
          MaxTags,    \* max_tags_per_sentence
          Window,     \* tokens that are searched for tags
          MaxTokens   \* bound: tokens of a sentence

\* A tag has no comma in it, and every configuration allows one a sentence.
WordsAssumption ==
  /\ (Words \union {"sure,"}) \intersect (Tags \union Production \union Limited \union Disabled) = {}
  /\ MaxTags \in 0 .. 1 /\ Window \in Nat \ {0} /\ MaxTokens \in Nat

VARIABLES sentence, status, \* what is to be said, and the state of its task
          indented,         \* the sentence begins with blanks
          tagged, profile   \* the text for the engine, and its voice profile

vars == <<sentence, status, indented, tagged, profile>>

Statuses == {"", "FAILED", "ERROR", "COMPLETED"}
WentWrong == {"FAILED", "ERROR"}
Sentences == UNION {[1 .. n -> Words \union Tags] : n \in 0 .. MaxTokens}
IsTag(token) == token \notin Words \union {"sure,"}

Allowed == (Tags \intersect (Production \union Limited)) \ Disabled

\* The tokens of a text that are in S, in their order (re.findall).
Only(text, S) ==
  FlattenSeq([i \in DOMAIN text |-> IF text[i] \in S THEN <<text[i]>> ELSE <<>>])

\* The tags at the head of the text, as far as it is searched.
Seen(text) ==
  Only(SubSeq(text, 1, IF Window < Len(text) THEN Window ELSE Len(text)),
       {t \in ToSet(text) : IsTag(t)})

\* Mutant: the tags that lead the text stay in it.
StripsNothing(text) ==
  LET first == SelectInSeq(text, LAMBDA t : ~IsTag(t))
  IN  IF first = 0 THEN <<>> ELSE text

\* The text without its leading tags.
Strip(text) ==
  LET first == SelectInSeq(text, LAMBDA t : ~IsTag(t))
  IN  IF first = 0 THEN <<>> ELSE SubSeq(text, first, Len(text))

\* format_prosody: a comma after an opening that goes on.
FormatProsody(text) ==
  IF Len(text) > 1 /\ text[1] = "sure" /\ ~IsTag(text[2]) THEN <<"sure,">> \o Tail(text) ELSE text

Says(text, phrase) == \E i \in 1 .. Len(text) : IsPrefix(phrase, SubSeq(text, i, Len(text)))
Decision(emotion, tags) == [emotion |-> emotion, tags |-> tags]

\* The tag a rule asks for, where the policy lets it.
Effect(tag, policy) == IF tag \in policy /\ tag \in Allowed THEN <<tag>> ELSE <<>>

\* The feeling of a tag that came with the text; others are not known.
FeelingOf(tag) ==
  CASE tag \in {"chuckle", "laugh"} -> "amused" [] tag = "sigh" -> "empathetic"
    [] tag = "happy" -> "cheerful" [] tag = "angry" -> "serious" [] OTHER -> "none"

\* The rules of words and statuses, in their order.
Rules(text, state) ==
  << <<state = "FAILED" \/ Says(text, <<"sorry">>), Decision("empathetic", Effect("sigh", Production))>>,
     <<state = "ERROR" \/ Says(text, <<"cannot">>), Decision("serious", <<>>)>>,
     <<Says(text, <<"proceed">>), Decision("calm", <<>>)>>,
     <<Says(text, <<"wow">>), Decision("surprised", Effect("gasp", Production))>>,
     <<Says(text, <<"certainly">>) \/ Says(text, <<"sure", "thing">>),
       Decision("positive", Effect("happy", Production))>>,
     <<state = "COMPLETED", Decision("satisfied", Effect("happy", Production))>>,
     <<state \notin WentWrong /\ Says(text, <<"haha">>), Decision("amused", Effect("laugh", Limited))>>,
     <<TRUE, Decision("neutral", <<>>)>> >>

\* decide: a tag of the text itself comes before the rules.
Decide(text, state) ==
  LET seen == Seen(text)
      tag == IF seen = <<>> THEN "none" ELSE Head(seen)
      rules == Rules(text, state)
  IN  IF FeelingOf(tag) # "none" /\ ~(state \in WentWrong /\ tag \in {"chuckle", "laugh", "happy"})
      THEN Decision(FeelingOf(tag),
                    IF tag \in Allowed /\ ~(tag \in Limited /\ state \in WentWrong) THEN <<tag>> ELSE <<>>)
      ELSE rules[SelectInSeq(rules, LAMBDA r : r[1])][2]

\* The tags that came with the text and stay.
Permitted(state) == {t \in Allowed : ~(state \in WentWrong /\ t \in {"chuckle", "laugh"})}
Existing(text, state) == Only(Seen(text), Permitted(state))

\* What render takes for the words: the tags are looked for at the very beginning,
\* and the blanks are taken off after that.
Clean(text, blank) == FormatProsody(IF blank THEN text ELSE Strip(text))

\* render: the tags in front of the text; those within it are spoken as they are.
Render(text, blank, state) ==
  LET clean == Clean(text, blank)
      decided == Decide(clean, state).tags
      existing == Existing(text, state)
      tags == IF existing # <<>> THEN existing ELSE decided
  IN  SubSeq(tags, 1, IF MaxTags < Len(tags) THEN MaxTags ELSE Len(tags)) \o clean

\* get_condition_key, of the decision on the text as it came.
ConditionKey(decision) ==
  IF decision.tags # <<>>
  THEN CASE Head(decision.tags) = "laugh" -> "chuckle" [] Head(decision.tags) = "happy" -> "happy"
         [] OTHER -> "neutral"
  ELSE IF decision.emotion \in {"cheerful", "positive"} THEN "happy" ELSE "neutral"

Init ==
  /\ sentence \in Sentences /\ status \in Statuses /\ indented \in BOOLEAN
  /\ tagged = sentence /\ profile = "neutral"

Speaks ==
  /\ tagged' = Render(sentence, indented, status)
  /\ profile' = ConditionKey(Decide(sentence, status))
  /\ UNCHANGED <<sentence, status, indented>>

Next == Speaks

Spec == Init /\ [][Next]_vars

(***************************************************************************)
(* Properties.                                                             *)
(***************************************************************************)

\* What a rendered text and a profile are (SpeechDirector).
TypeOK ==
  /\ Len(tagged) <= MaxTokens + MaxTags /\ ToSet(tagged) \subseteq Words \union Tags \union {"sure,"}
  /\ profile \in {"neutral", "happy", "chuckle"}

\* Rendering what was rendered puts no second tag in front of the first, and the
\* text that comes of it is rendered to itself from then on, whatever tags, allowed
\* or not, a text brings with it and wherever they stand: of a text that begins with
\* blanks not the first rendering is meant but the next one.
\* This is less than render's docstring promises ("Idempotent"): " [happy] hi" is
\* rendered to "[happy] [happy] hi", and a text that was rendered without a tag may be
\* given one by the next rendering.  In "[angry] a b [angry] [happy]" the last tag
\* stands beyond the part that is searched until the first one is stripped.
RenderSettles ==
  LET first == IF indented THEN Render(tagged', FALSE, status) ELSE tagged'
      again == Render(first, FALSE, status)
  IN  /\ Render(again, FALSE, status) = again
      /\ first # <<>> /\ IsTag(Head(first)) => again = first
Settles == [][RenderSettles]_vars

=============================================================================
