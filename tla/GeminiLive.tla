----------------------------- MODULE GeminiLive -----------------------------
(***************************************************************************)
(* One conversation with Gemini Live (interaction/gemini_live.py).  Five   *)
(* threads of control share its state: the event loop (the receiver and    *)
(* the countdown task, which interleave only where they await), the        *)
(* callback of the microphone, the synthesis thread, the playback thread,  *)
(* and run_loop, which cleans up when the conversation closes.             *)
(*                                                                         *)
(* A sentence is a number, in the order the answers contain them; 0 is the *)
(* None that tells a worker to end.  A deadline is armed or not: an armed  *)
(* one passes at any time.  The 0.2 s after a sentence count as playing,   *)
(* and the thresholds of the voice detector are a choice of the user.      *)
(***************************************************************************)
EXTENDS Naturals, Sequences, FiniteSets

CONSTANTS
    MaxSentences,   \* bound: sentences of all answers together
    MaxUtterances,  \* bound: transcripts of what the user says
    MaxBargeIns,    \* bound: answers the microphone cuts off
    Capacity        \* maxsize of audio_play_queue

ASSUME GeminiLiveAssumption ==
    /\ {MaxSentences, MaxUtterances, MaxBargeIns} \subseteq Nat
    /\ Capacity \in Nat \ {0}

VARIABLES
    phase,          \* of run_loop: "live", then the steps of the clean-up
    closed, stopRequested,
    shutdownPending, lastText,
    server,         \* external: it is "quiet", "owing" or "answering"
    said, spoken,   \* sentences queued so far; utterances so far
    barged,         \* barge-ins so far
    recv,           \* where the receiver stands in the handling of a response
    cutting,        \* where the receiver and the microphone stand in a cut
    turnInProgress, leftover, wasSpeaking,
    followup, initial,
    interrupted, pending, ttsQ, audioQ, playbackActive,
    synth, player,  \* [at, s]: where the workers stand, and their sentence
    isPlaying,
    device,         \* external: the sentence the loudspeaker sounds, or 0
    heard,          \* history: the sentence that last began to sound, or 0
    mic             \* "on", two steps inside the callback, "dead" or "off"

loopVars == <<recv, turnInProgress, leftover, wasSpeaking, initial>>
endVars == <<phase, closed, stopRequested, shutdownPending, lastText, playbackActive>>
serverVars == <<server, said, spoken, barged>>
queueVars == <<pending, ttsQ, audioQ>>
soundVars == <<isPlaying, device, heard>>
vars == <<loopVars, endVars, serverVars, queueVars, soundVars, cutting, followup,
          interrupted, synth, player, mic>>

Sentence == 1..MaxSentences
Idle == [at |-> "idle", s |-> 0]
Gone == [at |-> "gone", s |-> 0]

TypeOK ==
    /\ phase \in {"live", "cleanup", "putting", "muting", "wake", "exit"}
    /\ {closed, stopRequested, shutdownPending, turnInProgress, leftover, wasSpeaking,
        followup, initial, interrupted, isPlaying, playbackActive} \subseteq BOOLEAN
    /\ lastText \in {"none", "plain", "shutdown"}
    /\ server \in {"quiet", "owing", "answering"}
    /\ said \in 0..MaxSentences /\ spoken \in 0..MaxUtterances /\ barged \in 0..MaxBargeIns
    /\ recv \in {"idle", "count", "put", "reply", "farewell", "done"}
    /\ cutting \in [{"mic", "receiver"} -> {"no", "text", "audio", "clear"}]
    /\ pending \in 0..MaxSentences
    /\ ttsQ \in Seq(Sentence \cup {0}) /\ audioQ \in Seq(Sentence \cup {0})
    /\ synth \in [at : {"idle", "check", "build", "put", "end", "gone", "dead"},
                  s : 0..MaxSentences]
    /\ player \in [at : {"idle", "check", "start", "sounding", "raising", "gone", "dead"},
                   s : 0..MaxSentences]
    /\ device \in 0..MaxSentences /\ heard \in 0..MaxSentences
    /\ mic \in {"on", "checked", "writing", "dead", "off"}

Init ==
    /\ phase = "live" /\ closed = FALSE /\ stopRequested = FALSE
    /\ shutdownPending = FALSE /\ lastText = "none" /\ playbackActive = TRUE
    /\ server = "quiet" /\ said = 0 /\ spoken = 0 /\ barged = 0
    /\ recv = "idle" /\ cutting = [w \in {"mic", "receiver"} |-> "no"]
    /\ turnInProgress = FALSE /\ leftover = FALSE /\ wasSpeaking = FALSE
    /\ followup = FALSE /\ initial = TRUE
    /\ interrupted = FALSE /\ pending = 0 /\ ttsQ = <<>> /\ audioQ = <<>>
    /\ synth = Idle /\ player = Idle
    /\ isPlaying = FALSE /\ device = 0 /\ heard = 0 /\ mic = "on"

OneLess == IF pending = 0 THEN 0 ELSE pending - 1

(* tts_lock, which drain_tts_and_audio holds from its first queue to the   *)
(* reset of the count.                                                     *)
Unlocked == \A w \in {"mic", "receiver"} : cutting[w] # "audio"

-----------------------------------------------------------------------------
(* The receiver: one response of the server at a time.                     *)

Running == phase = "live" /\ ~closed /\ ~stopRequested
Receiving == Running /\ recv = "idle" /\ cutting["receiver"] = "no"

Transcribes(t) ==
    /\ Receiving /\ spoken < MaxUtterances
    /\ spoken' = spoken + 1 /\ server' = (IF server = "quiet" THEN "owing" ELSE server)
    /\ lastText' = t
    /\ followup' = FALSE /\ initial' = FALSE
    /\ isPlaying' = FALSE /\ device' = (IF isPlaying THEN 0 ELSE device)
    /\ UNCHANGED <<phase, closed, stopRequested, shutdownPending, playbackActive, said,
                   barged, recv, turnInProgress, leftover, wasSpeaking, cutting, queueVars,
                   heard, interrupted, synth, player, mic>>

(* A piece of the answer: it completes a sentence, or it only extends the  *)
(* one in the buffer.                                                      *)
Outputs(completes) ==
    /\ Receiving /\ server \in {"owing", "answering"}
    /\ said < MaxSentences
    /\ server' = "answering"
    /\ turnInProgress' = TRUE /\ leftover' = TRUE
    /\ interrupted' = FALSE
    /\ followup' = FALSE /\ initial' = FALSE
    /\ recv' = (IF completes THEN "count" ELSE "idle")
    /\ UNCHANGED <<endVars, queueVars, soundVars, said, spoken, barged, wasSpeaking, cutting,
                   synth, player, mic>>

TurnComplete ==
    /\ Receiving /\ server = "answering"
    /\ server' = "quiet"
    /\ turnInProgress' = FALSE /\ leftover' = FALSE
    /\ recv' = CASE leftover /\ said < MaxSentences -> "count"
                 [] shutdownPending -> "farewell"
                 [] OTHER -> "idle"
    /\ UNCHANGED <<endVars, queueVars, soundVars, said, spoken, barged, wasSpeaking, followup,
                   initial, cutting, interrupted, synth, player, mic>>

Count ==
    /\ recv = "count" /\ Unlocked
    /\ said' = said + 1 /\ pending' = pending + 1
    /\ recv' = "put"
    /\ UNCHANGED <<endVars, soundVars, server, spoken, barged, turnInProgress, leftover,
                   wasSpeaking, initial, cutting, followup, interrupted, ttsQ, audioQ,
                   synth, player, mic>>

Put ==
    /\ recv = "put"
    /\ ttsQ' = Append(ttsQ, said)
    /\ recv' = (IF shutdownPending /\ ~turnInProgress THEN "farewell" ELSE "idle")
    /\ UNCHANGED <<endVars, serverVars, soundVars, turnInProgress, leftover, wasSpeaking,
                   initial, cutting, followup, interrupted, pending, audioQ, synth,
                   player, mic>>

(* A shutdown the user did not ask for is not executed.                    *)
ToolCall(isShutdown) ==
    /\ Receiving /\ server \in {"owing", "answering"}
    /\ server' = "answering"
    /\ turnInProgress' = TRUE /\ followup' = FALSE /\ initial' = FALSE
    /\ shutdownPending' = (shutdownPending \/ (isShutdown /\ lastText = "shutdown"))
    /\ recv' = "reply"
    /\ UNCHANGED <<phase, closed, stopRequested, lastText, playbackActive, said, spoken, barged,
                   queueVars, soundVars, leftover, wasSpeaking, cutting, interrupted,
                   synth, player, mic>>

Replied ==
    /\ recv = "reply"
    /\ recv' = (IF Running THEN "idle" ELSE "done")
    /\ UNCHANGED <<endVars, serverVars, queueVars, soundVars, turnInProgress, leftover,
                   wasSpeaking, initial, cutting, followup, interrupted, synth, player, mic>>

(* The connection ends, or the answer to a tool call cannot be sent.       *)
Disconnects ==
    /\ Running /\ cutting["receiver"] = "no" /\ recv \in {"idle", "reply"}
    /\ closed' = TRUE /\ recv' = "done"
    /\ UNCHANGED <<phase, stopRequested, shutdownPending, lastText, playbackActive,
                   serverVars, queueVars, soundVars, turnInProgress, leftover, wasSpeaking,
                   initial, cutting, followup, interrupted, synth, player, mic>>

(* The farewell has been spoken, or 15 seconds are over.                   *)
FarewellOver ==
    /\ recv = "farewell"
    /\ stopRequested' = TRUE /\ closed' = TRUE /\ recv' = "done"
    /\ UNCHANGED <<phase, shutdownPending, lastText, playbackActive, serverVars, queueVars,
                   soundVars, turnInProgress, leftover, wasSpeaking, initial, cutting,
                   followup, interrupted, synth, player, mic>>

-----------------------------------------------------------------------------
(* Cutting Friday off: by the server's word, or by the microphone when the *)
(* user speaks while something sounds or waits to.                         *)

ServerInterrupts ==
    /\ Receiving /\ server = "answering"
    /\ server' = "owing"
    /\ turnInProgress' = FALSE
    /\ interrupted' = TRUE /\ device' = 0
    /\ cutting' = [cutting EXCEPT !["receiver"] = "text"]
    /\ UNCHANGED <<endVars, queueVars, said, spoken, barged, recv, leftover, wasSpeaking, initial,
                   followup, isPlaying, heard, synth, player, mic>>

BargesIn ==
    /\ mic = "on" /\ cutting["mic"] = "no" /\ barged < MaxBargeIns
    /\ isPlaying \/ pending > 0 \/ ttsQ # <<>> \/ audioQ # <<>>
    /\ barged' = barged + 1
    /\ interrupted' = TRUE /\ device' = 0
    /\ cutting' = [cutting EXCEPT !["mic"] = "text"]
    /\ UNCHANGED <<endVars, loopVars, queueVars, server, said, spoken, followup, isPlaying, heard,
                   synth, player, mic>>

DrainText(w) ==
    /\ cutting[w] = "text" /\ Unlocked
    /\ ttsQ' = <<>>
    /\ cutting' = [cutting EXCEPT ![w] = "audio"]
    /\ UNCHANGED <<endVars, loopVars, serverVars, soundVars, pending, audioQ, followup,
                   interrupted, synth, player, mic>>

(* Mutant: the queue is emptied, the count is not.                         *)
DrainAudioCounted(w) ==
    /\ cutting[w] = "audio"
    /\ audioQ' = <<>> /\ UNCHANGED pending
    /\ cutting' = [cutting EXCEPT ![w] = "clear"]
    /\ UNCHANGED <<endVars, loopVars, serverVars, soundVars, ttsQ, followup, interrupted,
                   synth, player, mic>>

DrainAudio(w) ==
    /\ cutting[w] = "audio"
    /\ audioQ' = <<>> /\ pending' = 0
    /\ cutting' = [cutting EXCEPT ![w] = "clear"]
    /\ UNCHANGED <<endVars, loopVars, serverVars, soundVars, ttsQ, followup, interrupted,
                   synth, player, mic>>

CutDone(w) ==
    /\ cutting[w] = "clear"
    /\ isPlaying' = FALSE
    /\ cutting' = [cutting EXCEPT ![w] = "no"]
    /\ IF w = "receiver"
       THEN leftover' = FALSE /\ followup' = FALSE /\ initial' = FALSE
       ELSE UNCHANGED <<leftover, followup, initial>>
    /\ UNCHANGED <<endVars, serverVars, queueVars, recv, turnInProgress, wasSpeaking,
                   device, heard, interrupted, synth, player, mic>>

-----------------------------------------------------------------------------
(* The callback of the microphone, outside a cut: speech during the        *)
(* follow-up window extends it.  The deadline is read twice and written.   *)

HearsSpeech ==
    /\ mic = "on" /\ cutting["mic"] = "no" /\ ~isPlaying /\ followup
    /\ mic' = "checked"
    /\ UNCHANGED <<endVars, loopVars, serverVars, queueVars, soundVars, cutting, followup,
                   interrupted, synth, player>>

ReadsDeadline ==
    /\ mic = "checked"
    /\ mic' = (IF followup THEN "writing" ELSE "dead")
    /\ UNCHANGED <<endVars, loopVars, serverVars, queueVars, soundVars, cutting, followup,
                   interrupted, synth, player>>

ExtendsDeadline ==
    /\ mic = "writing"
    /\ followup' = TRUE /\ mic' = "on"
    /\ UNCHANGED <<endVars, loopVars, serverVars, queueVars, soundVars, cutting,
                   interrupted, synth, player>>

-----------------------------------------------------------------------------
(* The countdown task.                                                     *)

Speaking == isPlaying \/ pending > 0 \/ turnInProgress
TimerTurn ==
    Running /\ cutting["receiver"] = "no" /\ recv \in {"idle", "reply", "farewell"}

Tick ==
    /\ TimerTurn
    /\ Speaking \/ wasSpeaking
    /\ wasSpeaking' = Speaking
    /\ followup' = ~Speaking /\ initial' = FALSE
    /\ UNCHANGED <<endVars, serverVars, queueVars, soundVars, recv, turnInProgress,
                   leftover, cutting, interrupted, synth, player, mic>>

Expires ==
    /\ TimerTurn
    /\ ~Speaking /\ ~wasSpeaking
    /\ followup \/ initial
    /\ closed' = TRUE
    /\ UNCHANGED <<phase, stopRequested, shutdownPending, lastText, playbackActive,
                   loopVars, serverVars, queueVars, soundVars, cutting, followup,
                   interrupted, synth, player, mic>>

-----------------------------------------------------------------------------
(* The synthesis thread.                                                   *)

SynthGets ==
    /\ synth.at = "idle" /\ playbackActive /\ ttsQ # <<>>
    /\ synth' = [at |-> IF Head(ttsQ) = 0 THEN "end" ELSE "check", s |-> Head(ttsQ)]
    /\ ttsQ' = Tail(ttsQ)
    /\ UNCHANGED <<endVars, loopVars, serverVars, soundVars, cutting, followup,
                   interrupted, pending, audioQ, player, mic>>

(* Mutant: a sentence that is dropped stays in the count.                  *)
SynthDropsUncounted ==
    /\ Unlocked /\ UNCHANGED pending /\ synth' = Idle
    /\ UNCHANGED <<ttsQ, audioQ>>

SynthDrops ==
    /\ Unlocked /\ pending' = OneLess /\ synth' = Idle
    /\ UNCHANGED <<ttsQ, audioQ>>

SynthChecks ==
    /\ synth.at = "check"
    /\ \/ interrupted /\ SynthDrops
       \/ ~interrupted /\ synth' = [synth EXCEPT !.at = "build"] /\ UNCHANGED queueVars
    /\ UNCHANGED <<endVars, loopVars, serverVars, soundVars, cutting, followup,
                   interrupted, player, mic>>

(* Mutant: a sentence that failed is put back into the queue.              *)
SynthBuildsAgain ==
    /\ synth.at = "build"
    /\ \/ ttsQ' = Append(ttsQ, synth.s) /\ synth' = Idle /\ UNCHANGED <<audioQ, pending>>
       \/ ~interrupted /\ synth' = [synth EXCEPT !.at = "put"] /\ UNCHANGED queueVars
    /\ UNCHANGED <<endVars, loopVars, serverVars, soundVars, cutting, followup,
                   interrupted, player, mic>>

(* Synthesis takes its time and looks at the interruption again when it is *)
(* over; an error, and a sentence without sound, end the sentence.  An     *)
(* error of the Gemini API that no except names ends the thread, and the   *)
(* sentence stays in the count.                                            *)
SynthBuilds ==
    /\ synth.at = "build"
    /\ \/ SynthDrops
       \/ ~interrupted /\ synth' = [synth EXCEPT !.at = "put"] /\ UNCHANGED queueVars
       \/ synth' = [synth EXCEPT !.at = "dead"] /\ UNCHANGED queueVars
    /\ UNCHANGED <<endVars, loopVars, serverVars, soundVars, cutting, followup,
                   interrupted, player, mic>>

SynthPuts ==
    /\ synth.at \in {"put", "end"} /\ Len(audioQ) < Capacity
    /\ audioQ' = Append(audioQ, synth.s)
    /\ synth' = (IF synth.at = "end" THEN Gone ELSE Idle)
    /\ UNCHANGED <<endVars, loopVars, serverVars, soundVars, cutting, followup,
                   interrupted, pending, ttsQ, player, mic>>

SynthEnds ==
    /\ synth.at = "idle" /\ ~playbackActive
    /\ synth' = Gone
    /\ UNCHANGED <<endVars, loopVars, serverVars, queueVars, soundVars, cutting, followup,
                   interrupted, player, mic>>

-----------------------------------------------------------------------------
(* The playback thread, and the loudspeaker.                               *)

PlayerGets ==
    /\ player.at = "idle" /\ playbackActive /\ audioQ # <<>>
    /\ player' = (IF Head(audioQ) = 0 THEN Gone ELSE [at |-> "check", s |-> Head(audioQ)])
    /\ audioQ' = Tail(audioQ)
    /\ UNCHANGED <<endVars, loopVars, serverVars, soundVars, cutting, followup,
                   interrupted, pending, ttsQ, synth, mic>>

PlayerChecks ==
    /\ player.at = "check"
    /\ \/ /\ interrupted /\ Unlocked
          /\ pending' = OneLess /\ player' = Idle /\ UNCHANGED isPlaying
       \/ /\ ~interrupted
          /\ isPlaying' = TRUE /\ player' = [player EXCEPT !.at = "start"]
          /\ UNCHANGED pending
    /\ UNCHANGED <<endVars, loopVars, serverVars, cutting, followup, interrupted, ttsQ,
                   audioQ, device, heard, synth, mic>>

(* sd.play: what sounded before stops.  An error goes on to the end of the *)
(* sentence; one of PortAudio, which no except names, also ends the thread.*)
PlayerStarts ==
    /\ player.at = "start"
    /\ \/ /\ player' = [player EXCEPT !.at = "sounding"]
          /\ device' = player.s /\ heard' = player.s
       \/ /\ player' \in {[player EXCEPT !.at = a] : a \in {"sounding", "raising"}}
          /\ UNCHANGED <<device, heard>>
    /\ UNCHANGED <<endVars, loopVars, serverVars, queueVars, cutting, followup,
                   interrupted, isPlaying, synth, mic>>

SoundEnds ==
    /\ device # 0 /\ device' = 0
    /\ UNCHANGED <<endVars, loopVars, serverVars, queueVars, isPlaying, heard, cutting,
                   followup, interrupted, synth, player, mic>>

PlayerFinishes ==
    /\ Unlocked
    /\ \/ player.at = "sounding" /\ device = 0 /\ player' = Idle
       \/ player.at = "raising" /\ player' = [at |-> "dead", s |-> 0]
    /\ isPlaying' = FALSE /\ pending' = OneLess
    /\ UNCHANGED <<endVars, loopVars, serverVars, ttsQ, audioQ, device, heard, cutting,
                   followup, interrupted, synth, mic>>

PlayerEnds ==
    /\ player.at = "idle" /\ ~playbackActive
    /\ player' = Gone
    /\ UNCHANGED <<endVars, loopVars, serverVars, queueVars, soundVars, cutting, followup,
                   interrupted, synth, mic>>

-----------------------------------------------------------------------------
(* run_loop: the end of the conversation.                                  *)

RequestShutdown ==
    /\ phase = "live" /\ ~stopRequested
    /\ stopRequested' = TRUE
    /\ UNCHANGED <<phase, closed, shutdownPending, lastText, playbackActive, loopVars,
                   serverVars, queueVars, soundVars, cutting, followup, interrupted,
                   synth, player, mic>>

Closes ==
    /\ phase = "live" /\ (closed \/ stopRequested)
    /\ cutting["receiver"] = "no" /\ recv \in {"idle", "reply", "farewell", "done"}
    /\ closed' = TRUE /\ recv' = "done" /\ phase' = "cleanup"
    /\ UNCHANGED <<stopRequested, shutdownPending, lastText, playbackActive, serverVars,
                   queueVars, soundVars, turnInProgress, leftover, wasSpeaking, initial,
                   cutting, followup, interrupted, synth, player, mic>>

(* After a farewell it has waited until all was heard, or for 8 seconds.   *)
CleansUp ==
    /\ phase = "cleanup"
    /\ playbackActive' = FALSE /\ ttsQ' = Append(ttsQ, 0)
    /\ phase' = "putting"
    /\ UNCHANGED <<closed, stopRequested, shutdownPending, lastText, loopVars, serverVars,
                   soundVars, cutting, followup, interrupted, pending, audioQ, synth,
                   player, mic>>

EndsPlayback ==
    /\ phase = "putting" /\ Len(audioQ) < Capacity
    /\ audioQ' = Append(audioQ, 0)
    /\ device' = (IF stopRequested THEN device ELSE 0)
    /\ phase' = "muting"
    /\ UNCHANGED <<closed, stopRequested, shutdownPending, lastText, playbackActive,
                   loopVars, serverVars, isPlaying, heard, cutting, followup, interrupted,
                   pending, ttsQ, synth, player, mic>>

MicStops ==
    /\ phase = "muting" /\ mic \in {"on", "dead"} /\ cutting["mic"] = "no"
    /\ mic' = "off"
    /\ phase' = (IF stopRequested \/ shutdownPending THEN "exit" ELSE "wake")
    /\ UNCHANGED <<closed, stopRequested, shutdownPending, lastText, playbackActive,
                   loopVars, serverVars, queueVars, soundVars, cutting, followup,
                   interrupted, synth, player>>

-----------------------------------------------------------------------------
ReceiverSteps == Count \/ Put \/ Replied \/ FarewellOver
CutSteps(w) == DrainText(w) \/ DrainAudio(w) \/ CutDone(w)
MicSteps == ReadsDeadline \/ ExtendsDeadline
SynthSteps == SynthGets \/ SynthChecks \/ SynthBuilds \/ SynthPuts \/ SynthEnds
PlayerSteps == PlayerGets \/ PlayerChecks \/ PlayerStarts \/ PlayerFinishes \/ PlayerEnds
MainSteps == Closes \/ CleansUp \/ EndsPlayback \/ MicStops

Next ==
    \/ \E t \in {"plain", "shutdown"} : Transcribes(t)
    \/ \E b \in BOOLEAN : Outputs(b) \/ ToolCall(b)
    \/ TurnComplete \/ ServerInterrupts \/ Disconnects
    \/ BargesIn \/ HearsSpeech
    \/ \E w \in {"mic", "receiver"} : CutSteps(w)
    \/ Tick \/ Expires \/ RequestShutdown \/ SoundEnds
    \/ ReceiverSteps \/ MicSteps \/ SynthSteps \/ PlayerSteps \/ MainSteps

(* The threads and the event loop keep running, a sentence ends, and the   *)
(* microphone stops between two callbacks; neither the server nor the user *)
(* owes anything.                                                          *)
Fairness ==
    /\ WF_vars(ReceiverSteps) /\ WF_vars(MicSteps) /\ WF_vars(SynthSteps)
    /\ WF_vars(PlayerSteps) /\ WF_vars(MainSteps) /\ WF_vars(SoundEnds)
    /\ WF_vars(CutSteps("mic")) /\ WF_vars(CutSteps("receiver"))
    /\ WF_vars(Tick) /\ WF_vars(Expires) /\ SF_vars(MicStops)

Spec == Init /\ [][Next]_vars /\ Fairness

-----------------------------------------------------------------------------
(* The sentences on their way from the receiver to the loudspeaker.        *)
Queued(q) == Cardinality({i \in DOMAIN q : q[i] # 0})
Held(worker) == IF worker.s # 0 THEN 1 ELSE 0
InPipeline ==
    Queued(ttsQ) + Queued(audioQ) + Held(synth) + Held(player)
    + (IF recv = "put" THEN 1 ELSE 0)

(* pending_count never counts a sentence that is gone: five threads change *)
(* it, and while it is positive the conversation cannot end by silence.    *)
(* The one a dead synthesis thread had in hand is still counted.           *)
PendingIsBacked == Unlocked => pending <= InPipeline

(* The two stages of the pipeline and the cuts keep the order of the       *)
(* answer, and no sentence is spoken twice.                                *)
HeardInOrder == [][device' \notin {0, device} => device' > heard]_vars

WorkerDied == synth.at = "dead" \/ player.at = "dead"

(* When Friday has finished speaking, the countdown begins: no thread can  *)
(* leave the count, the flags or the workers in a state that blocks it,    *)
(* except by dying of an error that no except names: what is then queued   *)
(* stays in the count.                                                     *)
WindowOpens ==
    (wasSpeaking /\ ~turnInProgress)
        ~> (followup \/ turnInProgress \/ phase # "live" \/ WorkerDied)

(* run_loop "returns to wake word on 10s silence" (gemini_live.py:820): a  *)
(* conversation that is over ends, and run_loop goes on.                   *)
ReturnsToWakeWord == closed ~> (phase \in {"wake", "exit"})
=============================================================================
