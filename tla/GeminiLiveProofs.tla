--------------------------- MODULE GeminiLiveProofs ---------------------------
(***************************************************************************)
(* Proofs about GeminiLive, for any number of sentences, utterances and    *)
(* barge-ins, and a queue of any capacity.                                 *)
(***************************************************************************)
EXTENDS GeminiLive, FiniteSetTheorems, TLAPS

-----------------------------------------------------------------------------
(* Types.                                                                  *)

\* A worker has a sentence exactly between taking it and passing it on, and the
\* receiver only counts a sentence there is room for.
StageInv ==
    /\ said \in 0..MaxSentences
    /\ recv \in {"idle", "count", "put", "reply", "farewell", "done"}
    /\ recv = "count" => said < MaxSentences
    /\ recv = "put" => said > 0
    /\ cutting \in [{"mic", "receiver"} -> {"no", "text", "audio", "clear"}]
    /\ pending \in 0..said
    /\ ttsQ \in Seq(0..MaxSentences) /\ audioQ \in Seq(0..MaxSentences)
    /\ synth \in [at : {"idle", "check", "build", "put", "end", "gone", "dead"},
                  s : 0..MaxSentences]
    /\ player \in [at : {"idle", "check", "start", "sounding", "raising", "gone", "dead"},
                   s : 0..MaxSentences]
    /\ synth.s # 0 <=> synth.at \in {"check", "build", "put", "dead"}
    /\ player.s # 0 <=> player.at \in {"check", "start", "sounding", "raising"}
    /\ device \in 0..MaxSentences /\ heard \in 0..MaxSentences

LEMMA InitStages == Init => StageInv
BY GeminiLiveAssumption DEF Init, StageInv, Idle

LEMMA NextStages == StageInv /\ [Next]_vars => StageInv'
<1> SUFFICES ASSUME StageInv, [Next]_vars PROVE StageInv'
  OBVIOUS
<1>0. MaxSentences \in Nat
  BY GeminiLiveAssumption
<1> USE <1>0 DEF StageInv, loopVars, endVars, serverVars, queueVars, soundVars
<1>1. CASE UNCHANGED vars
  BY <1>1 DEF vars
<1>2. ASSUME NEW t \in {"plain", "shutdown"}, Transcribes(t) PROVE StageInv'
  BY <1>2 DEF Transcribes, Receiving
<1>3. ASSUME NEW b \in BOOLEAN, Outputs(b) PROVE StageInv'
  BY <1>3 DEF Outputs
<1>4. ASSUME NEW b \in BOOLEAN, ToolCall(b) PROVE StageInv'
  BY <1>4 DEF ToolCall
<1>5. CASE TurnComplete
  <2>1. recv' \in {"count", "farewell", "idle"} /\ (recv' = "count" => said < MaxSentences)
    BY <1>5 DEF TurnComplete
  <2>. QED BY <1>5, <2>1 DEF TurnComplete
<1>6. CASE ServerInterrupts \/ BargesIn
  BY <1>6 DEF ServerInterrupts, BargesIn
<1>7. CASE Disconnects
  BY <1>7 DEF Disconnects
<1>8. CASE HearsSpeech \/ MicSteps
  BY <1>8 DEF HearsSpeech, MicSteps, ReadsDeadline, ExtendsDeadline
<1>9. ASSUME NEW w \in {"mic", "receiver"}, CutSteps(w) PROVE StageInv'
  <2>1. /\ \E at \in {"audio", "clear", "no"} : cutting' = [cutting EXCEPT ![w] = at]
        /\ pending' \in {pending, 0} /\ ttsQ' \in {ttsQ, <<>>} /\ audioQ' \in {audioQ, <<>>}
        /\ UNCHANGED <<said, recv, synth, player, device, heard>>
    BY <1>9 DEF CutSteps, DrainText, DrainAudio, CutDone
  <2>2. cutting' \in [{"mic", "receiver"} -> {"no", "text", "audio", "clear"}]
    BY <2>1
  <2>3. <<>> \in Seq(0..MaxSentences)
    OBVIOUS
  <2>4. ttsQ' \in Seq(0..MaxSentences)
    BY <2>1, <2>3
  <2>5. audioQ' \in Seq(0..MaxSentences)
    BY <2>1, <2>3
  <2>. QED BY <2>1, <2>2, <2>4, <2>5
<1>10. CASE Tick \/ Expires \/ RequestShutdown \/ SoundEnds
  BY <1>10 DEF Tick, Expires, RequestShutdown, SoundEnds
<1>11. CASE ReceiverSteps
  <2>1. CASE Count
    BY <2>1 DEF Count
  <2>2. CASE Put
    BY <2>2 DEF Put
  <2>3. CASE Replied \/ FarewellOver
    BY <2>3 DEF Replied, FarewellOver
  <2>. QED BY <1>11, <2>1, <2>2, <2>3 DEF ReceiverSteps
<1>12. CASE SynthSteps
  <2>1. CASE SynthGets
    <3>1. Head(ttsQ) \in 0..MaxSentences /\ Tail(ttsQ) \in Seq(0..MaxSentences)
      BY <2>1 DEF SynthGets
    <3>2. synth' = [at |-> IF Head(ttsQ) = 0 THEN "end" ELSE "check", s |-> Head(ttsQ)]
      BY <2>1 DEF SynthGets
    <3>. QED BY <2>1, <3>1, <3>2 DEF SynthGets
  <2>2. CASE SynthChecks \/ SynthBuilds
    <3>1. /\ synth' = Idle \/ \E a \in {"build", "put", "dead"} : synth' = [synth EXCEPT !.at = a]
          /\ synth.at \in {"check", "build"} /\ pending' \in {pending, OneLess}
          /\ UNCHANGED <<said, recv, cutting, ttsQ, audioQ, player, device, heard>>
      BY <2>2 DEF SynthChecks, SynthBuilds, SynthDrops
    <3>2. pending' \in 0..said
      BY <3>1 DEF OneLess
    <3>. QED BY <3>1, <3>2 DEF Idle
  <2>3. CASE SynthPuts
    <3>1. Append(audioQ, synth.s) \in Seq(0..MaxSentences)
      OBVIOUS
    <3>2. synth' \in {Idle, Gone}
      BY <2>3 DEF SynthPuts
    <3>. QED BY <2>3, <3>1, <3>2 DEF SynthPuts, Idle, Gone
  <2>4. CASE SynthEnds
    BY <2>4 DEF SynthEnds, Gone
  <2>. QED BY <1>12, <2>1, <2>2, <2>3, <2>4 DEF SynthSteps
<1>13. CASE PlayerSteps
  <2>1. CASE PlayerGets
    <3>1. Head(audioQ) \in 0..MaxSentences /\ Tail(audioQ) \in Seq(0..MaxSentences)
      BY <2>1 DEF PlayerGets
    <3>2. player' = (IF Head(audioQ) = 0 THEN Gone ELSE [at |-> "check", s |-> Head(audioQ)])
      BY <2>1 DEF PlayerGets
    <3>. QED BY <2>1, <3>1, <3>2 DEF PlayerGets, Gone
  <2>2. CASE PlayerChecks \/ PlayerFinishes
    <3>1. /\ player' \in {Idle, [at |-> "dead", s |-> 0], [player EXCEPT !.at = "start"]}
          /\ player.at \in {"check", "sounding", "raising"} /\ pending' \in {pending, OneLess}
          /\ UNCHANGED <<said, recv, cutting, ttsQ, audioQ, synth, device, heard>>
      BY <2>2 DEF PlayerChecks, PlayerFinishes
    <3>2. pending' \in 0..said
      BY <3>1 DEF OneLess
    <3>. QED BY <3>1, <3>2 DEF Idle
  <2>3. CASE PlayerStarts
    <3>1. /\ player.at = "start"
          /\ player' \in {[player EXCEPT !.at = a] : a \in {"sounding", "raising"}}
          /\ device' \in {device, player.s} /\ heard' \in {heard, player.s}
          /\ UNCHANGED <<said, recv, cutting, queueVars, synth>>
      BY <2>3 DEF PlayerStarts
    <3>. QED BY <3>1
  <2>4. CASE PlayerEnds
    BY <2>4 DEF PlayerEnds, Gone
  <2>. QED BY <1>13, <2>1, <2>2, <2>3, <2>4 DEF PlayerSteps
<1>14. CASE MainSteps
  <2>1. CASE Closes \/ MicStops
    BY <2>1 DEF Closes, MicStops
  <2>2. CASE CleansUp
    BY <2>2 DEF CleansUp
  <2>3. CASE EndsPlayback
    BY <2>3 DEF EndsPlayback
  <2>. QED BY <1>14, <2>1, <2>2, <2>3 DEF MainSteps
<1>. QED
  BY <1>1, <1>2, <1>3, <1>4, <1>5, <1>6, <1>7, <1>8, <1>9, <1>10, <1>11, <1>12, <1>13, <1>14
     DEF Next

-----------------------------------------------------------------------------
(* The order of the sentences.                                             *)

Elems(q) == {q[i] : i \in DOMAIN q}
Before(a, b) == b # 0 => a < b
Sorted(q) == \A i, j \in DOMAIN q : i < j => Before(q[i], q[j])

LEMMA AppendElems ==
  ASSUME NEW q \in Seq(Nat), NEW x \in Nat
  PROVE  Elems(Append(q, x)) = Elems(q) \cup {x}
<1>1. /\ DOMAIN Append(q, x) = 1..(Len(q) + 1) /\ DOMAIN q = 1..Len(q) /\ Len(q) \in Nat
      /\ \A i \in 1..Len(q) : Append(q, x)[i] = q[i]
      /\ Append(q, x)[Len(q) + 1] = x
  OBVIOUS
<1>2. \A i \in DOMAIN Append(q, x) : i \in DOMAIN q \/ i = Len(q) + 1
  BY <1>1
<1>3. DOMAIN q \subseteq DOMAIN Append(q, x) /\ Len(q) + 1 \in DOMAIN Append(q, x)
  BY <1>1
<1>. QED BY <1>1, <1>2, <1>3 DEF Elems

LEMMA AppendSorted ==
  ASSUME NEW q \in Seq(Nat), NEW x \in Nat, Sorted(q), \A a \in Elems(q) : Before(a, x)
  PROVE  Sorted(Append(q, x))
<1>1. /\ DOMAIN Append(q, x) = 1..(Len(q) + 1) /\ DOMAIN q = 1..Len(q) /\ Len(q) \in Nat
      /\ \A i \in 1..Len(q) : Append(q, x)[i] = q[i]
      /\ Append(q, x)[Len(q) + 1] = x
  OBVIOUS
<1> SUFFICES ASSUME NEW i \in 1..(Len(q) + 1), NEW j \in 1..(Len(q) + 1), i < j
             PROVE  Before(Append(q, x)[i], Append(q, x)[j])
  BY <1>1 DEF Sorted
<1>2. i \in 1..Len(q) /\ Append(q, x)[i] = q[i] /\ q[i] \in Elems(q)
  BY <1>1 DEF Elems
<1>3. CASE j \in 1..Len(q)
  BY <1>1, <1>2, <1>3 DEF Sorted
<1>4. CASE j = Len(q) + 1
  BY <1>1, <1>2, <1>4
<1>. QED BY <1>1, <1>3, <1>4

LEMMA TailElems ==
  ASSUME NEW q \in Seq(Nat), q # <<>>
  PROVE  /\ Tail(q) \in Seq(Nat) /\ Head(q) \in Elems(q) /\ Elems(Tail(q)) \subseteq Elems(q)
         /\ Sorted(q) => Sorted(Tail(q)) /\ \A a \in Elems(Tail(q)) : Before(Head(q), a)
<1>1. /\ DOMAIN Tail(q) = 1..(Len(q) - 1) /\ DOMAIN q = 1..Len(q) /\ Len(q) \in Nat \ {0}
      /\ \A i \in 1..(Len(q) - 1) : Tail(q)[i] = q[i + 1]
      /\ Head(q) = q[1] /\ Tail(q) \in Seq(Nat)
  OBVIOUS
<1>2. \A i \in DOMAIN Tail(q) : i + 1 \in DOMAIN q /\ 1 \in DOMAIN q /\ 1 < i + 1
  BY <1>1
<1>3. Head(q) \in Elems(q) /\ Elems(Tail(q)) \subseteq Elems(q)
  BY <1>1, <1>2 DEF Elems
<1>4. ASSUME Sorted(q) PROVE Sorted(Tail(q))
  <2> SUFFICES ASSUME NEW i \in DOMAIN Tail(q), NEW j \in DOMAIN Tail(q), i < j
               PROVE  Before(Tail(q)[i], Tail(q)[j])
    BY DEF Sorted
  <2>1. i + 1 < j + 1 /\ i + 1 \in DOMAIN q /\ j + 1 \in DOMAIN q
    BY <1>1
  <2>. QED BY <1>1, <1>4, <2>1 DEF Sorted
<1>5. ASSUME Sorted(q) PROVE \A a \in Elems(Tail(q)) : Before(Head(q), a)
  BY <1>1, <1>2, <1>5 DEF Sorted, Elems
<1>. QED BY <1>1, <1>3, <1>4, <1>5

LEMMA Numbers ==
  ASSUME StageInv
  PROVE  /\ ttsQ \in Seq(Nat) /\ Elems(ttsQ) \subseteq Nat
         /\ audioQ \in Seq(Nat) /\ Elems(audioQ) \subseteq Nat
         /\ {heard, player.s, synth.s, said, pending} \subseteq Nat
<1>1. ASSUME NEW q \in Seq(0..MaxSentences) PROVE q \in Seq(Nat) /\ Elems(q) \subseteq Nat
  <2>1. MaxSentences \in Nat
    BY GeminiLiveAssumption
  <2>2. q \in Seq(Nat)
    BY <2>1
  <2>3. \A i \in DOMAIN q : q[i] \in Nat
    BY <2>2
  <2>. QED BY <2>2, <2>3 DEF Elems
<1>2. {heard, player.s, synth.s, said, pending} \subseteq Nat
  BY GeminiLiveAssumption DEF StageInv
<1>. QED BY <1>1, <1>2 DEF StageInv

LEMMA EmptyElems == Elems(<<>>) = {} /\ Sorted(<<>>)
BY DEF Elems, Sorted

\* The number the next sentence to enter the queue has, at least.
Fresh == IF recv = "put" THEN said ELSE said + 1

\* Loudspeaker, player, queue of sounds, synthesis, queue of texts, receiver: each
\* holds earlier sentences than the next.
OrderInv ==
    /\ Sorted(audioQ) /\ Sorted(ttsQ)
    /\ \A a \in Elems(audioQ) :
          Before(heard, a) /\ Before(player.s, a) /\ Before(a, synth.s) /\ a < Fresh
    /\ \A t \in Elems(ttsQ) :
          /\ Before(heard, t) /\ Before(player.s, t) /\ Before(synth.s, t) /\ t < Fresh
          /\ \A a \in Elems(audioQ) : Before(a, t)
    /\ Before(heard, synth.s) /\ Before(player.s, synth.s)
    /\ heard < Fresh /\ player.s < Fresh /\ synth.s < Fresh
    /\ player.at \in {"check", "start"} => heard < player.s

LEMMA InitOrder == Init => OrderInv
BY EmptyElems DEF Init, OrderInv, Before, Fresh, Idle

\* Steps that only take sentences out of the pipeline or say nothing of them.
LEMMA OrderKept ==
  ASSUME StageInv, OrderInv, UNCHANGED heard, Fresh' = Fresh,
         ttsQ' \in {ttsQ, <<>>}, audioQ' \in {audioQ, <<>>},
         synth'.s \in {synth.s, 0}, player'.s \in {player.s, 0},
         player'.at \in {"check", "start"} => player'.s # 0 /\ player.at \in {"check", "start"}
  PROVE  OrderInv'
<1>1. /\ Elems(ttsQ') \subseteq Elems(ttsQ) /\ Sorted(ttsQ')
      /\ Elems(audioQ') \subseteq Elems(audioQ) /\ Sorted(audioQ')
  BY EmptyElems DEF OrderInv
<1>2. said \in Nat /\ Fresh \in Nat /\ Fresh > 0
  BY GeminiLiveAssumption DEF StageInv, Fresh
<1>3. \A a : Before(a, 0)
  BY DEF Before
<1>4. /\ heard < Fresh /\ player'.s < Fresh /\ synth'.s < Fresh
      /\ Before(heard, synth'.s) /\ Before(player'.s, synth'.s)
      /\ player'.at \in {"check", "start"} => heard < player'.s
  <2>1. player.s < Fresh /\ synth.s < Fresh /\ heard < Fresh
    BY DEF OrderInv
  <2>2. Before(player'.s, synth'.s)
    BY DEF OrderInv, StageInv, Before
  <2>. QED BY <1>2, <1>3, <2>1, <2>2 DEF OrderInv
<1>5. ASSUME NEW x \in Nat, Before(player.s, x) PROVE Before(player'.s, x)
  BY <1>5 DEF Before
<1>6. ASSUME NEW x \in Nat, Before(synth.s, x) PROVE Before(synth'.s, x)
  BY <1>6 DEF Before
<1>7. Elems(ttsQ) \subseteq Nat /\ Elems(audioQ) \subseteq Nat
  BY Numbers
<1>8. \A a \in Elems(audioQ') :
         Before(heard, a) /\ Before(player'.s, a) /\ Before(a, synth'.s) /\ a < Fresh
  BY <1>1, <1>3, <1>5, <1>7 DEF OrderInv
<1>9. \A t \in Elems(ttsQ') :
          /\ Before(heard, t) /\ Before(player'.s, t) /\ Before(synth'.s, t) /\ t < Fresh
          /\ \A a \in Elems(audioQ') : Before(a, t)
  BY <1>1, <1>5, <1>6, <1>7 DEF OrderInv
<1>. QED BY <1>1, <1>4, <1>8, <1>9 DEF OrderInv, Before

LEMMA NextOrder == StageInv /\ OrderInv /\ [Next]_vars => OrderInv'
<1> SUFFICES ASSUME StageInv, OrderInv, [Next]_vars PROVE OrderInv'
  OBVIOUS
<1> USE DEF loopVars, endVars, serverVars, queueVars, soundVars
<1>0. /\ ttsQ \in Seq(Nat) /\ Elems(ttsQ) \subseteq Nat
      /\ audioQ \in Seq(Nat) /\ Elems(audioQ) \subseteq Nat
      /\ {heard, player.s, synth.s, said} \subseteq Nat /\ Fresh \in Nat \ {0}
  BY Numbers DEF Fresh, StageInv
<1>1. ASSUME UNCHANGED <<said, heard, ttsQ, audioQ, synth, player>>,
             recv' = "put" <=> recv = "put"
      PROVE  OrderInv'
  BY <1>1, OrderKept DEF Fresh, StageInv
<1>2. CASE UNCHANGED vars
  BY <1>1, <1>2 DEF vars
<1>3. ASSUME NEW t \in {"plain", "shutdown"}, Transcribes(t) PROVE OrderInv'
  BY <1>1, <1>3 DEF Transcribes
<1>4. ASSUME NEW b \in BOOLEAN, Outputs(b) \/ ToolCall(b) PROVE OrderInv'
  BY <1>1, <1>4 DEF Outputs, ToolCall, Receiving
<1>5. CASE TurnComplete \/ ServerInterrupts \/ BargesIn \/ Disconnects
  BY <1>1, <1>5 DEF TurnComplete, ServerInterrupts, BargesIn, Disconnects, Receiving
<1>6. CASE HearsSpeech \/ MicSteps
  BY <1>1, <1>6 DEF HearsSpeech, MicSteps, ReadsDeadline, ExtendsDeadline
<1>7. CASE Tick \/ Expires \/ RequestShutdown \/ SoundEnds
  BY <1>1, <1>7 DEF Tick, Expires, RequestShutdown, SoundEnds
<1>8. ASSUME NEW w \in {"mic", "receiver"}, CutSteps(w) PROVE OrderInv'
  <2>1. /\ ttsQ' \in {ttsQ, <<>>} /\ audioQ' \in {audioQ, <<>>}
        /\ UNCHANGED <<said, recv, synth, player, heard>>
    BY <1>8 DEF CutSteps, DrainText, DrainAudio, CutDone
  <2>. QED BY <2>1, OrderKept DEF Fresh, StageInv
<1>9. CASE Count
  <2>1. Fresh' = Fresh /\ UNCHANGED <<heard, ttsQ, audioQ, synth, player>>
    BY <1>9 DEF Count, Fresh
  <2>. QED BY <2>1, OrderKept DEF StageInv
<1>10. CASE Put
  <2>1. /\ recv = "put" /\ recv' # "put" /\ ttsQ' = Append(ttsQ, said)
        /\ UNCHANGED <<said, heard, audioQ, synth, player>>
    BY <1>10 DEF Put
  <2>2. Fresh = said /\ Fresh' = said + 1
    BY <2>1 DEF Fresh
  <2>3. \A t \in Elems(ttsQ) \cup Elems(audioQ) \cup {heard, player.s, synth.s} : t < said
    BY <2>2 DEF OrderInv
  <2>4. Elems(ttsQ') = Elems(ttsQ) \cup {said} /\ Sorted(ttsQ')
    BY <1>0, <2>1, <2>3, AppendElems, AppendSorted DEF OrderInv, Before
  <2>. QED BY <1>0, <2>1, <2>2, <2>3, <2>4 DEF OrderInv, Before
<1>11. CASE Replied \/ FarewellOver
  BY <1>1, <1>11 DEF Replied, FarewellOver
<1>12. CASE SynthGets
  <2>1. /\ ttsQ # <<>> /\ ttsQ' = Tail(ttsQ) /\ synth'.s = Head(ttsQ)
        /\ UNCHANGED <<said, recv, heard, audioQ, player>>
    BY <1>12 DEF SynthGets
  <2>2. /\ Head(ttsQ) \in Elems(ttsQ) /\ Elems(ttsQ') \subseteq Elems(ttsQ) /\ Sorted(ttsQ')
        /\ \A t \in Elems(ttsQ') : Before(Head(ttsQ), t)
    BY <1>0, <2>1, TailElems DEF OrderInv
  <2>3. Fresh' = Fresh
    BY <2>1 DEF Fresh
  <2>. QED BY <1>0, <2>1, <2>2, <2>3 DEF OrderInv, Before
<1>13. CASE SynthChecks \/ SynthBuilds
  <2>1. /\ synth'.s \in {synth.s, 0} /\ UNCHANGED <<said, recv, heard, ttsQ, audioQ, player>>
    BY <1>13 DEF SynthChecks, SynthBuilds, SynthDrops, Idle, StageInv
  <2>. QED BY <2>1, OrderKept DEF Fresh, StageInv
<1>14. CASE SynthPuts
  <2>1. /\ audioQ' = Append(audioQ, synth.s) /\ synth'.s = 0
        /\ UNCHANGED <<said, recv, heard, ttsQ, player>>
    BY <1>14 DEF SynthPuts, Gone, Idle
  <2>2. Elems(audioQ') = Elems(audioQ) \cup {synth.s} /\ Sorted(audioQ')
    BY <1>0, <2>1, AppendElems, AppendSorted DEF OrderInv
  <2>3. Fresh' = Fresh
    BY <2>1 DEF Fresh
  <2>. QED BY <1>0, <2>1, <2>2, <2>3 DEF OrderInv, Before
<1>15. CASE SynthEnds
  <2>1. synth'.s = 0 /\ UNCHANGED <<said, recv, heard, ttsQ, audioQ, player>>
    BY <1>15 DEF SynthEnds, Gone
  <2>. QED BY <2>1, OrderKept DEF Fresh, StageInv
<1>16. CASE PlayerGets
  <2>1. /\ audioQ # <<>> /\ audioQ' = Tail(audioQ) /\ player'.s = Head(audioQ)
        /\ player'.at = "check" => player'.s # 0
        /\ player'.at \in {"check", "gone"}
        /\ UNCHANGED <<said, recv, heard, ttsQ, synth>>
    BY <1>16 DEF PlayerGets, Gone
  <2>2. /\ Head(audioQ) \in Elems(audioQ) /\ Elems(audioQ') \subseteq Elems(audioQ)
        /\ Sorted(audioQ') /\ \A a \in Elems(audioQ') : Before(Head(audioQ), a)
    BY <1>0, <2>1, TailElems DEF OrderInv
  <2>3. Fresh' = Fresh
    BY <2>1 DEF Fresh
  <2>4. /\ Before(heard, Head(audioQ)) /\ Before(Head(audioQ), synth.s) /\ Head(audioQ) < Fresh
        /\ \A t \in Elems(ttsQ) : Before(Head(audioQ), t)
    BY <2>2 DEF OrderInv
  <2>5. player'.at \in {"check", "start"} => heard < player'.s
    BY <1>0, <2>1, <2>4 DEF Before
  <2>. QED BY <1>0, <2>1, <2>2, <2>3, <2>4, <2>5 DEF OrderInv
<1>17. CASE PlayerChecks \/ PlayerFinishes \/ PlayerEnds
  <2>1. /\ player'.s \in {player.s, 0}
        /\ player'.at = "start" => player.at = "check" /\ player'.s = player.s
        /\ player'.at \in {"start", "idle", "gone", "dead"}
        /\ UNCHANGED <<said, recv, heard, ttsQ, audioQ, synth>>
    BY <1>17 DEF PlayerChecks, PlayerFinishes, PlayerEnds, Idle, Gone, StageInv
  <2>. QED BY <2>1, OrderKept DEF Fresh, StageInv
<1>18. CASE PlayerStarts
  <2>1. /\ player.at = "start" /\ player'.at \in {"sounding", "raising"} /\ player'.s = player.s
        /\ heard' \in {heard, player.s}
        /\ UNCHANGED <<said, recv, ttsQ, audioQ, synth>>
    BY <1>18 DEF PlayerStarts, StageInv
  <2>2. Fresh' = Fresh
    BY <2>1 DEF Fresh
  <2>. QED BY <2>1, <2>2 DEF OrderInv
<1>19. CASE Closes \/ MicStops
  BY <1>1, <1>19 DEF Closes, MicStops
<1>20. CASE CleansUp
  <2>1. ttsQ' = Append(ttsQ, 0) /\ UNCHANGED <<said, recv, heard, audioQ, synth, player>>
    BY <1>20 DEF CleansUp
  <2>2. Elems(ttsQ') = Elems(ttsQ) \cup {0} /\ Sorted(ttsQ')
    BY <1>0, <2>1, AppendElems, AppendSorted DEF OrderInv, Before
  <2>3. Fresh' = Fresh
    BY <2>1 DEF Fresh
  <2>. QED BY <1>0, <2>1, <2>2, <2>3 DEF OrderInv, Before
<1>21. CASE EndsPlayback
  <2>1. audioQ' = Append(audioQ, 0) /\ UNCHANGED <<said, recv, heard, ttsQ, synth, player>>
    BY <1>21 DEF EndsPlayback
  <2>2. Elems(audioQ') = Elems(audioQ) \cup {0} /\ Sorted(audioQ')
    BY <1>0, <2>1, AppendElems, AppendSorted DEF OrderInv, Before
  <2>3. Fresh' = Fresh
    BY <2>1 DEF Fresh
  <2>. QED BY <1>0, <2>1, <2>2, <2>3 DEF OrderInv, Before
<1>. QED
  BY <1>2, <1>3, <1>4, <1>5, <1>6, <1>7, <1>8, <1>9, <1>10, <1>11, <1>12, <1>13, <1>14, <1>15,
     <1>16, <1>17, <1>18, <1>19, <1>20, <1>21
     DEF Next, ReceiverSteps, SynthSteps, PlayerSteps, MainSteps

\* Whatever is cut off, dropped or fails, the loudspeaker sounds the sentences in
\* the order of the answers, and none twice.
THEOREM SoundsInOrder == Spec => HeardInOrder
<1>1. ASSUME StageInv, OrderInv, [Next]_vars
      PROVE  [device' \notin {0, device} => device' > heard]_vars
  <2> SUFFICES ASSUME Next, device' \notin {0, device}
               PROVE  device' > heard
    BY <1>1
  <2> USE DEF loopVars, endVars, serverVars, queueVars, soundVars
  <2>1. CASE PlayerStarts
    <3>1. player.at = "start" /\ device' = player.s
      BY <2>1 DEF PlayerStarts
    <3>2. {heard, player.s} \subseteq Nat
      BY <1>1, Numbers
    <3>. QED BY <1>1, <3>1, <3>2 DEF OrderInv
  <2>2. CASE ~PlayerStarts
    BY <2>2
       DEF Next, Transcribes, Outputs, ToolCall, TurnComplete, ServerInterrupts, Disconnects,
           BargesIn, HearsSpeech, CutSteps, DrainText, DrainAudio, CutDone, Tick, Expires,
           RequestShutdown, SoundEnds, ReceiverSteps, Count, Put, Replied, FarewellOver,
           MicSteps, ReadsDeadline, ExtendsDeadline, SynthSteps, SynthGets, SynthChecks,
           SynthBuilds, SynthPuts, SynthEnds, PlayerSteps, PlayerGets, PlayerChecks,
           PlayerFinishes, PlayerEnds, MainSteps, Closes, CleansUp, EndsPlayback, MicStops
  <2>. QED BY <2>1, <2>2
<1>. QED BY <1>1, InitStages, NextStages, InitOrder, NextOrder, PTL DEF Spec, HeardInOrder

-----------------------------------------------------------------------------
(* The count of the sentences that are still to be heard.                  *)

LEMMA QueuedIsNat ==
  ASSUME NEW q \in Seq(Nat)
  PROVE  IsFiniteSet({i \in DOMAIN q : q[i] # 0}) /\ Queued(q) \in Nat
<1>1. DOMAIN q = 1..Len(q) /\ Len(q) \in Nat
  OBVIOUS
<1>2. IsFiniteSet(1..Len(q))
  BY <1>1, FS_Interval
<1>3. IsFiniteSet({i \in DOMAIN q : q[i] # 0})
  BY <1>1, <1>2, FS_Subset
<1>. QED BY <1>3, FS_CardinalityType DEF Queued

LEMMA QueuedEmpty == Queued(<<>>) = 0
<1>1. {i \in DOMAIN <<>> : <<>>[i] # 0} = {}
  OBVIOUS
<1>. QED BY <1>1, FS_EmptySet DEF Queued

LEMMA QueuedAppend ==
  ASSUME NEW q \in Seq(Nat), NEW x \in Nat
  PROVE  Queued(Append(q, x)) = Queued(q) + (IF x # 0 THEN 1 ELSE 0)
<1> DEFINE W == {i \in DOMAIN q : q[i] # 0}
           V == {i \in DOMAIN Append(q, x) : Append(q, x)[i] # 0}
<1>1. /\ DOMAIN Append(q, x) = 1..(Len(q) + 1) /\ DOMAIN q = 1..Len(q) /\ Len(q) \in Nat
      /\ \A i \in 1..Len(q) : Append(q, x)[i] = q[i]
      /\ Append(q, x)[Len(q) + 1] = x
  OBVIOUS
<1>2. \A i : i \in DOMAIN Append(q, x) <=> i \in DOMAIN q \/ i = Len(q) + 1
  BY <1>1
<1>3. V = IF x # 0 THEN W \cup {Len(q) + 1} ELSE W
  BY <1>1, <1>2
<1>4. Len(q) + 1 \notin W
  BY <1>1
<1>5. IsFiniteSet(W) /\ Cardinality(W) \in Nat
  BY QueuedIsNat DEF Queued
<1>8. Queued(q) = Cardinality(W) /\ Queued(Append(q, x)) = Cardinality(V)
  BY DEF Queued
<1> HIDE DEF V, W
<1>6. CASE x = 0
  BY <1>3, <1>5, <1>6, <1>8
<1>7. CASE x # 0
  <2>1. Cardinality(W \cup {Len(q) + 1}) = Cardinality(W) + 1
    BY <1>4, <1>5, FS_AddElement
  <2>. QED BY <1>3, <1>7, <1>8, <2>1
<1>. QED BY <1>6, <1>7

LEMMA QueuedTail ==
  ASSUME NEW q \in Seq(Nat), q # <<>>
  PROVE  Queued(q) = Queued(Tail(q)) + (IF Head(q) # 0 THEN 1 ELSE 0)
<1> DEFINE W == {i \in DOMAIN q : q[i] # 0}
           V == {i \in DOMAIN Tail(q) : Tail(q)[i] # 0}
           f == [i \in V |-> i + 1]
<1>1. /\ DOMAIN Tail(q) = 1..(Len(q) - 1) /\ DOMAIN q = 1..Len(q) /\ Len(q) \in Nat \ {0}
      /\ \A i \in 1..(Len(q) - 1) : Tail(q)[i] = q[i + 1]
      /\ Head(q) = q[1] /\ Tail(q) \in Seq(Nat)
  OBVIOUS
<1>2. IsFiniteSet(W) /\ Cardinality(W) \in Nat /\ IsFiniteSet(V) /\ Cardinality(V) \in Nat
  BY <1>1, QueuedIsNat DEF Queued
<1>3. f \in Bijection(V, W \ {1})
  <2>1. \A i \in V : i \in Nat \ {0} /\ i + 1 \in W \ {1}
    BY <1>1
  <2>2. f \in Injection(V, W \ {1})
    BY <2>1 DEF Injection, IsInjective
  <2>3. \A k \in W \ {1} : k - 1 \in V /\ f[k - 1] = k
    BY <1>1
  <2>4. f \in Surjection(V, W \ {1})
    BY <2>1, <2>3 DEF Surjection
  <2>. QED BY <2>2, <2>4 DEF Bijection
<1>5. 1 \in W <=> Head(q) # 0
  BY <1>1
<1>8. Queued(q) = Cardinality(W) /\ Queued(Tail(q)) = Cardinality(V)
  BY DEF Queued
<1> HIDE DEF V, W, f
<1>4. Cardinality(W \ {1}) = Cardinality(V)
  BY <1>2, <1>3, FS_Bijection DEF ExistsBijection
<1>6. CASE Head(q) # 0
  <2>1. Cardinality(W \ {1}) = Cardinality(W) - 1
    BY <1>2, <1>5, <1>6, FS_RemoveElement
  <2>. QED BY <1>2, <1>4, <1>6, <1>8, <2>1
<1>7. CASE Head(q) = 0
  <2>1. W \ {1} = W
    BY <1>5, <1>7
  <2>2. Cardinality(W) = Cardinality(V)
    BY <1>4, <2>1
  <2>. QED BY <1>2, <1>7, <1>8, <2>2
<1>. QED BY <1>6, <1>7

LEMMA InitBacked == Init => PendingIsBacked
BY QueuedEmpty DEF Init, PendingIsBacked, InPipeline, Held, Idle

\* A step keeps the count covered if it loses no sentence, or takes the one that it
\* loses from the count.
LEMMA BackedKept ==
  ASSUME StageInv, PendingIsBacked, UNCHANGED cutting,
         \/ pending' = pending /\ InPipeline' = InPipeline
         \/ pending' = OneLess /\ InPipeline' = InPipeline - 1,
         InPipeline' \in Nat
  PROVE  PendingIsBacked'
<1>1. pending \in Nat /\ Queued(ttsQ) \in Nat /\ Queued(audioQ) \in Nat
  BY Numbers, QueuedIsNat
<1>2. Unlocked' <=> Unlocked
  BY DEF Unlocked
<1>3. InPipeline \in Nat
  BY <1>1 DEF InPipeline, Held
<1>. QED BY <1>1, <1>2, <1>3 DEF PendingIsBacked, OneLess

\* Nothing is lost between the receiver and the loudspeaker but what is taken from
\* the count.
LEMMA NextBacked == StageInv /\ PendingIsBacked /\ [Next]_vars => PendingIsBacked'
<1> SUFFICES ASSUME StageInv, PendingIsBacked, [Next]_vars PROVE PendingIsBacked'
  OBVIOUS
<1> USE DEF loopVars, endVars, serverVars, queueVars, soundVars
<1>1. /\ ttsQ \in Seq(Nat) /\ audioQ \in Seq(Nat)
      /\ {player.s, synth.s, said, pending} \subseteq Nat
      /\ Queued(ttsQ) \in Nat /\ Queued(audioQ) \in Nat
  BY Numbers, QueuedIsNat
<1>2. ASSUME UNCHANGED <<cutting, pending, ttsQ, audioQ>>,
             Held(synth') = Held(synth), Held(player') = Held(player),
             recv' = "put" <=> recv = "put"
      PROVE  PendingIsBacked'
  BY <1>2 DEF PendingIsBacked, InPipeline, Unlocked
<1>3. CASE UNCHANGED vars
  BY <1>2, <1>3 DEF vars
<1>4. ASSUME NEW t \in {"plain", "shutdown"}, Transcribes(t) PROVE PendingIsBacked'
  BY <1>2, <1>4 DEF Transcribes
<1>5. ASSUME NEW b \in BOOLEAN, Outputs(b) \/ ToolCall(b) PROVE PendingIsBacked'
  BY <1>2, <1>5 DEF Outputs, ToolCall, Receiving
<1>6. CASE TurnComplete \/ Disconnects
  BY <1>2, <1>6 DEF TurnComplete, Disconnects, Receiving
<1>7. CASE HearsSpeech \/ MicSteps
  BY <1>2, <1>7 DEF HearsSpeech, MicSteps, ReadsDeadline, ExtendsDeadline
<1>8. CASE Tick \/ Expires \/ RequestShutdown \/ SoundEnds
  BY <1>2, <1>8 DEF Tick, Expires, RequestShutdown, SoundEnds
<1>9. CASE ServerInterrupts \/ BargesIn
  <2>1. /\ \E w \in {"mic", "receiver"} : cutting' = [cutting EXCEPT ![w] = "text"]
                                         /\ cutting[w] # "audio"
        /\ UNCHANGED <<pending, ttsQ, audioQ, synth, player, recv>>
    BY <1>9 DEF ServerInterrupts, BargesIn, Receiving
  <2>2. Unlocked' => Unlocked
    BY <2>1 DEF Unlocked, StageInv
  <2>. QED BY <2>1, <2>2 DEF PendingIsBacked, InPipeline
<1>10. ASSUME NEW w \in {"mic", "receiver"}, CutSteps(w) PROVE PendingIsBacked'
  <2>1. CASE DrainText(w)
    <3>1. cutting' = [cutting EXCEPT ![w] = "audio"]
      BY <2>1 DEF DrainText
    <3>2. ~Unlocked'
      BY <3>1 DEF Unlocked, StageInv
    <3>. QED BY <3>2 DEF PendingIsBacked
  <2>2. CASE DrainAudio(w)
    <3>1. pending' = 0 /\ audioQ' = <<>> /\ UNCHANGED <<ttsQ, synth, player, recv>>
      BY <2>2 DEF DrainAudio
    <3>2. Queued(audioQ') = 0
      BY <3>1, QueuedEmpty
    <3>3. InPipeline' >= 0
      BY <1>1, <3>1, <3>2 DEF InPipeline, Held
    <3>. QED BY <3>1, <3>3 DEF PendingIsBacked
  <2>3. CASE CutDone(w)
    <3>1. /\ cutting' = [cutting EXCEPT ![w] = "no"] /\ cutting[w] = "clear"
          /\ UNCHANGED <<pending, ttsQ, audioQ, synth, player, recv>>
      BY <2>3 DEF CutDone
    <3>2. Unlocked' => Unlocked
      BY <3>1 DEF Unlocked, StageInv
    <3>. QED BY <3>1, <3>2 DEF PendingIsBacked, InPipeline
  <2>. QED BY <1>10, <2>1, <2>2, <2>3 DEF CutSteps
<1>11. CASE Count
  <2>1. /\ recv = "count" /\ recv' = "put" /\ pending' = pending + 1 /\ Unlocked
        /\ UNCHANGED <<cutting, ttsQ, audioQ, synth, player>>
    BY <1>11 DEF Count
  <2>2. InPipeline' = InPipeline + 1 /\ InPipeline \in Nat
    BY <1>1, <2>1 DEF InPipeline, Held
  <2>. QED BY <1>1, <2>1, <2>2 DEF PendingIsBacked
<1>12. CASE Put
  <2>1. /\ recv = "put" /\ recv' # "put" /\ ttsQ' = Append(ttsQ, said) /\ said # 0
        /\ UNCHANGED <<cutting, pending, audioQ, synth, player>>
    BY <1>12 DEF Put, StageInv
  <2>2. Queued(ttsQ') = Queued(ttsQ) + 1
    BY <1>1, <2>1, QueuedAppend
  <2>3. InPipeline' = InPipeline
    BY <1>1, <2>1, <2>2 DEF InPipeline, Held
  <2>. QED BY <2>1, <2>3 DEF PendingIsBacked, Unlocked
<1>13. CASE Replied \/ FarewellOver
  BY <1>2, <1>13 DEF Replied, FarewellOver
<1>14. CASE SynthGets
  <2>1. /\ ttsQ # <<>> /\ ttsQ' = Tail(ttsQ) /\ synth'.s = Head(ttsQ) /\ synth.s = 0
        /\ UNCHANGED <<cutting, pending, audioQ, player, recv>>
    BY <1>14 DEF SynthGets, StageInv
  <2>2. /\ Queued(ttsQ) = Queued(ttsQ') + (IF Head(ttsQ) # 0 THEN 1 ELSE 0)
        /\ Queued(ttsQ') \in Nat
    <3>1. Tail(ttsQ) \in Seq(Nat)
      BY <1>1, <2>1
    <3>2. Queued(ttsQ) = Queued(Tail(ttsQ)) + (IF Head(ttsQ) # 0 THEN 1 ELSE 0)
      BY <1>1, <2>1, QueuedTail
    <3>3. Queued(Tail(ttsQ)) \in Nat
      BY <3>1, QueuedIsNat
    <3>. QED BY <2>1, <3>2, <3>3
  <2>3. InPipeline' = InPipeline
    BY <1>1, <2>1, <2>2 DEF InPipeline, Held
  <2>. QED BY <2>1, <2>3 DEF PendingIsBacked, Unlocked
<1>15. CASE SynthChecks \/ SynthBuilds
  <2>1. \/ /\ pending' = OneLess /\ synth' = Idle
        \/ /\ pending' = pending
           /\ \E at \in {"build", "put", "dead"} : synth' = [synth EXCEPT !.at = at]
    BY <1>15 DEF SynthChecks, SynthBuilds, SynthDrops
  <2>2. synth.s # 0 /\ UNCHANGED <<cutting, ttsQ, audioQ, player, recv>>
    BY <1>15 DEF SynthChecks, SynthBuilds, SynthDrops, StageInv
  <2>4. CASE pending' = OneLess /\ synth' = Idle
    <3>1. Held(synth') = 0 /\ Held(synth) = 1
      BY <2>2, <2>4 DEF Held, Idle
    <3>2. InPipeline' = InPipeline - 1 /\ InPipeline' \in Nat
      BY <1>1, <2>2, <3>1 DEF InPipeline, Held
    <3>. QED BY <2>2, <2>4, <3>2, BackedKept
  <2>5. CASE /\ pending' = pending
             /\ \E at \in {"build", "put", "dead"} : synth' = [synth EXCEPT !.at = at]
    BY <1>2, <2>2, <2>5 DEF Held, StageInv
  <2>. QED BY <2>1, <2>4, <2>5
<1>16. CASE SynthPuts
  <2>1. /\ audioQ' = Append(audioQ, synth.s) /\ synth'.s = 0
        /\ UNCHANGED <<cutting, pending, ttsQ, player, recv>>
    BY <1>16 DEF SynthPuts, Gone, Idle
  <2>2. Queued(audioQ') = Queued(audioQ) + (IF synth.s # 0 THEN 1 ELSE 0)
    BY <1>1, <2>1, QueuedAppend
  <2>3. InPipeline' = InPipeline
    BY <1>1, <2>1, <2>2 DEF InPipeline, Held
  <2>. QED BY <2>1, <2>3 DEF PendingIsBacked, Unlocked
<1>17. CASE SynthEnds
  <2>1. /\ synth'.s = synth.s /\ UNCHANGED <<cutting, pending, ttsQ, audioQ, player, recv>>
    BY <1>17 DEF SynthEnds, Gone, StageInv
  <2>. QED BY <1>2, <2>1 DEF Held
<1>18. CASE PlayerGets
  <2>1. /\ audioQ # <<>> /\ audioQ' = Tail(audioQ) /\ player'.s = Head(audioQ) /\ player.s = 0
        /\ UNCHANGED <<cutting, pending, ttsQ, synth, recv>>
    BY <1>18 DEF PlayerGets, Gone, StageInv
  <2>2. /\ Queued(audioQ) = Queued(audioQ') + (IF Head(audioQ) # 0 THEN 1 ELSE 0)
        /\ Queued(audioQ') \in Nat
    <3>1. Tail(audioQ) \in Seq(Nat)
      BY <1>1, <2>1
    <3>2. Queued(audioQ) = Queued(Tail(audioQ)) + (IF Head(audioQ) # 0 THEN 1 ELSE 0)
      BY <1>1, <2>1, QueuedTail
    <3>3. Queued(Tail(audioQ)) \in Nat
      BY <3>1, QueuedIsNat
    <3>. QED BY <2>1, <3>2, <3>3
  <2>3. InPipeline' = InPipeline
    BY <1>1, <2>1, <2>2 DEF InPipeline, Held
  <2>. QED BY <2>1, <2>3 DEF PendingIsBacked, Unlocked
<1>19. CASE PlayerChecks \/ PlayerFinishes
  <2>1. \/ /\ pending' = OneLess /\ player'.s = 0
        \/ pending' = pending /\ player' = [player EXCEPT !.at = "start"]
    BY <1>19 DEF PlayerChecks, PlayerFinishes, Idle
  <2>2. player.s # 0 /\ UNCHANGED <<cutting, ttsQ, audioQ, synth, recv>>
    BY <1>19 DEF PlayerChecks, PlayerFinishes, StageInv
  <2>4. CASE pending' = OneLess /\ player'.s = 0
    <3>1. Held(player') = 0 /\ Held(player) = 1
      BY <2>2, <2>4 DEF Held
    <3>2. InPipeline' = InPipeline - 1 /\ InPipeline' \in Nat
      BY <1>1, <2>2, <3>1 DEF InPipeline, Held
    <3>. QED BY <2>2, <2>4, <3>2, BackedKept
  <2>5. CASE pending' = pending /\ player' = [player EXCEPT !.at = "start"]
    BY <1>2, <2>2, <2>5 DEF Held, StageInv
  <2>. QED BY <2>1, <2>4, <2>5
<1>20. CASE PlayerStarts \/ PlayerEnds
  <2>1. /\ player'.s = player.s /\ UNCHANGED <<cutting, pending, ttsQ, audioQ, synth, recv>>
    BY <1>20 DEF PlayerStarts, PlayerEnds, Gone, StageInv
  <2>. QED BY <1>2, <2>1 DEF Held
<1>21. CASE Closes \/ MicStops
  BY <1>2, <1>21 DEF Closes, MicStops
<1>22. CASE CleansUp
  <2>1. ttsQ' = Append(ttsQ, 0) /\ UNCHANGED <<cutting, pending, audioQ, synth, player, recv>>
    BY <1>22 DEF CleansUp
  <2>2. Queued(ttsQ') = Queued(ttsQ)
    BY <1>1, <2>1, QueuedAppend
  <2>. QED BY <2>1, <2>2 DEF PendingIsBacked, InPipeline, Unlocked
<1>23. CASE EndsPlayback
  <2>1. audioQ' = Append(audioQ, 0) /\ UNCHANGED <<cutting, pending, ttsQ, synth, player, recv>>
    BY <1>23 DEF EndsPlayback
  <2>2. Queued(audioQ') = Queued(audioQ)
    BY <1>1, <2>1, QueuedAppend
  <2>. QED BY <2>1, <2>2 DEF PendingIsBacked, InPipeline, Unlocked
<1>. QED
  BY <1>3, <1>4, <1>5, <1>6, <1>7, <1>8, <1>9, <1>10, <1>11, <1>12, <1>13, <1>14, <1>15,
     <1>16, <1>17, <1>18, <1>19, <1>20, <1>21, <1>22, <1>23
     DEF Next, ReceiverSteps, SynthSteps, PlayerSteps, MainSteps

\* Five threads change pending_count, and outside the critical section of a cut it
\* never counts a sentence that is gone.
THEOREM CountIsBacked == Spec => []PendingIsBacked
BY InitStages, NextStages, InitBacked, NextBacked, PTL DEF Spec
=============================================================================
