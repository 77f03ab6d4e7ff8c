----------------------------- MODULE Synthesizer -----------------------------
(***************************************************************************)
(* SpeechSynthesizer (interaction/tts.py): the Chatterbox engine, the      *)
(* engine for other languages and the fallback between them.  Threads of   *)
(* the program call speak, speak_interruptible or _build_audio; others     *)
(* cancel and reset the interruption meanwhile.                            *)
(*                                                                         *)
(* A text has words or is empty once it is cleaned; its language, or that  *)
(* of the turn, is a choice; the voice an emotion selects is left out.     *)
(* An error is of a kind the code names in its excepts, or it is           *)
(* PortAudio's or the Gemini API's, which they do not name.  Saving to a   *)
(* file and speaking without playing, which nothing asks for, are left out.*)
(***************************************************************************)
EXTENDS Naturals

CONSTANTS
    Threads, Nobody,
    Main,          \* the thread whose calls are compared with Utterance
    Duties,        \* [Threads -> what a thread calls]
    Multilinguals, \* the second engines that may be configured
    MaxCalls,      \* bound: calls of all threads together
    MaxCancels     \* bound: cancellations

ASSUME SynthesizerAssumption ==
    /\ Duties \in [Threads -> SUBSET {"speak", "interruptible", "build"}]
    /\ Main \in Threads /\ Nobody \notin Threads /\ {MaxCalls, MaxCancels} \subseteq Nat
    /\ Multilinguals \subseteq {"none", "gemini", "edge_tts"}

VARIABLES
    multilingual, \* the second engine: "none", "gemini", "edge_tts"
    model,      \* of Chatterbox: "none", "bare" while it is prepared, "ready"
    loader,     \* the thread that holds Chatterbox's _lock
    event,      \* _interrupt_event of each engine
    current,    \* is _current_audio set, per engine
    call,       \* per thread: where its call stands
    told,       \* per thread: what its last call returned
    device,     \* external: the thread whose audio sounds
    heard,      \* history: what has been heard of a thread's last call
    excused,    \* history: its last call was cancelled, could not listen, was
                \* cut by another thread, or got nothing from Edge-TTS
    calls, cancels, cancelling

engineVars == <<model, loader>>
soundVars == <<device, heard>>
otherVars == <<multilingual, calls, cancels, cancelling>>
vars == <<engineVars, event, current, call, told, soundVars, excused, otherVars>>

Engines == {"chatterbox", "multi"}
Texts == {"words", "empty"}
Busy(t) == call[t].at # "idle"

TypeOK ==
    /\ multilingual \in Multilinguals
    /\ model \in {"none", "bare", "ready"} /\ loader \in Threads \cup {Nobody}
    /\ {event, current} \subseteq [Engines -> BOOLEAN]
    /\ call \in [Threads ->
        [at : {"idle", "enter", "ensure", "lock", "loading", "build", "check", "play",
               "wait", "monitor", "sleep", "stop"},
         kind : {"speak", "interruptible", "build"}, text : Texts, engine : Engines]]
    /\ told \in [Threads -> {"nothing", "success", "interrupted", "failed", "raised"}]
    /\ device \in Threads \cup {Nobody}
    /\ heard \in [Threads -> {"nothing", "sounding", "cut", "all"}]
    /\ excused \in [Threads -> BOOLEAN]
    /\ calls \in 0..MaxCalls /\ cancels \in 0..MaxCancels /\ cancelling \in BOOLEAN

(* The constructor loads the model, or leaves that to the first call.      *)
Init ==
    /\ multilingual \in Multilinguals
    /\ model \in {"none", "ready"} /\ loader = Nobody
    /\ event = [e \in Engines |-> FALSE] /\ current = [e \in Engines |-> FALSE]
    /\ call = [t \in Threads |-> [at |-> "idle", kind |-> "build", text |-> "empty",
                                  engine |-> "chatterbox"]]
    /\ told = [t \in Threads |-> "nothing"]
    /\ device = Nobody /\ heard = [t \in Threads |-> "nothing"]
    /\ excused = [t \in Threads |-> FALSE]
    /\ calls = 0 /\ cancels = 0 /\ cancelling = FALSE

-----------------------------------------------------------------------------
(* The engine for the language of the turn or, when none is set, of the    *)
(* text.                                                                   *)
Selected == IF multilingual = "none" THEN {"chatterbox"} ELSE Engines

GoesTo(t, step) == call' = [call EXCEPT ![t].at = step]

(* What an engine returns: a failure of the second engine makes the master *)
(* start over with Chatterbox, and so does its silence when only the audio *)
(* was asked for; an exception no except names reaches the caller.         *)
Answers(t, result) ==
    IF /\ call[t].engine = "multi"
       /\ result = "failed" \/ (result = "silence" /\ call[t].kind = "build")
    THEN /\ call' = [call EXCEPT ![t].engine = "chatterbox", ![t].at = "enter"]
         /\ UNCHANGED told
    ELSE /\ GoesTo(t, "idle")
         /\ told' = [told EXCEPT ![t] = IF result = "silence" THEN "success" ELSE result]

(* An error of Chatterbox: nothing catches it where only audio is asked for. *)
Failure(t) == IF call[t].kind = "build" THEN "raised" ELSE "failed"

Begins(t, kind, text, engine) ==
    /\ ~Busy(t) /\ kind \in Duties[t] /\ calls < MaxCalls
    /\ calls' = calls + 1
    /\ call' = [call EXCEPT ![t] = [at |-> "enter", kind |-> kind, text |-> text,
                                    engine |-> engine]]
    /\ heard' = [heard EXCEPT ![t] = "nothing"]
    /\ device' = (IF device = t THEN Nobody ELSE device)
    /\ excused' = [excused EXCEPT ![t] = FALSE]
    /\ UNCHANGED <<engineVars, event, current, told, multilingual, cancels, cancelling>>

(* Every entry but one clears the event: Chatterbox's speak gives up when  *)
(* an interruption is pending.                                             *)
Enters(t) ==
    LET c == call[t]
        Obeys == c.kind = "speak" /\ c.engine = "chatterbox"
    IN /\ c.at = "enter"
       /\ IF Obeys /\ event[c.engine]
          THEN Answers(t, "interrupted") /\ UNCHANGED event
          ELSE /\ GoesTo(t, IF c.engine = "multi" THEN "build" ELSE "ensure")
               /\ event' = (IF Obeys \/ c.kind = "build" THEN event
                            ELSE [event EXCEPT ![c.engine] = FALSE])
               /\ UNCHANGED told
       /\ UNCHANGED <<engineVars, current, soundVars, excused, otherVars>>

-----------------------------------------------------------------------------
(* Chatterbox's model is missing or not when the thread looks, loaded when *)
(* it has the lock, and used by others before its voices are prepared.     *)

FindsModel(t) ==
    /\ call[t].at = "ensure"
    /\ GoesTo(t, IF model = "none" THEN "lock" ELSE "build")
    /\ UNCHANGED <<engineVars, event, current, told, soundVars, excused, otherVars>>

LoadsModel(t) ==
    /\ call[t].at = "lock" /\ loader = Nobody
    /\ \/ /\ model' = "bare" /\ loader' = t
          /\ GoesTo(t, "loading") /\ UNCHANGED told
       \/ Answers(t, Failure(t)) /\ UNCHANGED engineVars
    /\ UNCHANGED <<event, current, soundVars, excused, otherVars>>

PreparesVoices(t) ==
    /\ call[t].at = "loading"
    /\ model' = "ready" /\ loader' = Nobody
    /\ GoesTo(t, "build")
    /\ UNCHANGED <<event, current, told, soundVars, excused, otherVars>>

-----------------------------------------------------------------------------
(* The audio of the text is there, or there is none to play.               *)
HasAudio(t) ==
    LET c == call[t] IN
    CASE c.kind = "build" -> Answers(t, "success") /\ UNCHANGED current
      [] c.kind = "speak" -> GoesTo(t, "check") /\ UNCHANGED <<told, current>>
      [] OTHER -> /\ GoesTo(t, "play") /\ UNCHANGED told
                  /\ current' = [current EXCEPT ![c.engine] = TRUE]

NoAudio(t, result) == Answers(t, result) /\ UNCHANGED current

(* Mutant: an error of the cloud engine is taken for silence.              *)
MultiSwallows(t) ==
    /\ call[t].at = "build" /\ call[t].engine = "multi"
    /\ \/ call[t].text = "empty" /\ NoAudio(t, "silence")
       \/ call[t].text # "empty" /\ (HasAudio(t) \/ NoAudio(t, "silence"))
    /\ UNCHANGED <<engineVars, event, soundVars, excused, otherVars>>

(* Edge-TTS takes its own errors, but for a missing package, for silence.  *)
EdgeSwallows(t) ==
    /\ multilingual = "edge_tts" /\ call[t].text # "empty"
    /\ NoAudio(t, "silence")
    /\ excused' = [excused EXCEPT ![t] = excused[t] \/ call[t].kind # "build"]

(* The master names the errors of both engines but, where only audio is    *)
(* asked for, not those of Gemini's API.                                   *)
MultiBuilds(t) ==
    LET c == call[t] IN
    /\ c.at = "build" /\ c.engine = "multi"
    /\ \/ c.text = "empty" /\ NoAudio(t, "silence") /\ UNCHANGED excused
       \/ c.text # "empty" /\ (HasAudio(t) \/ NoAudio(t, "failed")) /\ UNCHANGED excused
       \/ /\ c.text # "empty" /\ multilingual = "gemini" /\ c.kind = "build"
          /\ NoAudio(t, "raised") /\ UNCHANGED excused
       \/ EdgeSwallows(t)
    /\ UNCHANGED <<engineVars, event, soundVars, otherVars>>

ChatterboxBuilds(t) ==
    /\ call[t].at = "build" /\ call[t].engine = "chatterbox"
    /\ \/ call[t].text = "empty" /\ NoAudio(t, "silence")
       \/ call[t].text # "empty" /\ (HasAudio(t) \/ NoAudio(t, Failure(t)))
    /\ UNCHANGED <<engineVars, event, soundVars, excused, otherVars>>

-----------------------------------------------------------------------------
Checks(t) ==
    LET c == call[t] IN
    /\ c.at = "check"
    /\ IF event[c.engine]
       THEN Answers(t, "interrupted") /\ UNCHANGED current
       ELSE /\ GoesTo(t, "play") /\ UNCHANGED told
            /\ current' = [current EXCEPT ![c.engine] = TRUE]
    /\ UNCHANGED <<engineVars, event, soundVars, excused, otherVars>>

Silenced == [t \in Threads |-> IF t = device THEN "cut" ELSE heard[t]]
CutBy(t) == [u \in Threads |-> excused[u] \/ (u = device /\ u # t /\ Busy(u))]
Clear(t) == current' = [current EXCEPT ![call[t].engine] = FALSE]

(* sd.play stops what sounds, whoever started it.  Of its errors speak     *)
(* makes a failure, Chatterbox's only of those it names; from              *)
(* speak_interruptible they all escape, the audio still current.           *)
Plays(t) ==
    LET speaks == call[t].kind = "speak" IN
    /\ call[t].at = "play"
    /\ \/ /\ device' = t /\ heard' = [Silenced EXCEPT ![t] = "sounding"]
          /\ excused' = CutBy(t)
          /\ GoesTo(t, IF speaks THEN "wait" ELSE "monitor")
          /\ UNCHANGED <<told, current>>
       \/ /\ \/ Answers(t, "failed")
             \/ ~(speaks /\ call[t].engine = "multi") /\ Answers(t, "raised")
          /\ IF speaks THEN Clear(t) ELSE UNCHANGED current
          /\ UNCHANGED <<soundVars, excused>>
    /\ UNCHANGED <<engineVars, event, otherVars>>

SoundEnds ==
    /\ device # Nobody
    /\ heard' = [heard EXCEPT ![device] = "all"] /\ device' = Nobody
    /\ UNCHANGED <<engineVars, event, current, call, told, excused, otherVars>>

Waits(t) ==
    /\ call[t].at = "wait" /\ device # t
    /\ Answers(t, IF event[call[t].engine] THEN "interrupted" ELSE "success")
    /\ Clear(t)
    /\ UNCHANGED <<engineVars, event, soundVars, excused, otherVars>>

(* The loop of speak_interruptible, until the duration of the audio is     *)
(* over; the second engine's loop cancels itself on the wake word.         *)
Monitors(t) ==
    LET c == call[t] IN
    /\ c.at = "monitor"
    /\ \/ /\ event[c.engine] /\ GoesTo(t, "stop")
          /\ UNCHANGED <<told, current, event>>
       \/ /\ ~event[c.engine] /\ GoesTo(t, "stop")
          /\ event' = [event EXCEPT ![c.engine] = (c.engine = "multi")]
          /\ UNCHANGED <<told, current>>
       \/ /\ device # t /\ Answers(t, "success") /\ Clear(t) /\ UNCHANGED event
    /\ UNCHANGED <<engineVars, soundVars, excused, otherVars>>

(* Without the microphone Chatterbox waits for the end of the audio and    *)
(* the other engines return at once; PortAudio's own error leaves them all *)
(* by the exception, and the audio sounds on.                              *)
MonitorFails(t) ==
    /\ call[t].at = "monitor"
    /\ excused' = [excused EXCEPT ![t] = TRUE]
    /\ \/ call[t].engine = "multi" /\ Answers(t, "success") /\ Clear(t)
       \/ call[t].engine # "multi" /\ GoesTo(t, "sleep") /\ UNCHANGED <<told, current>>
       \/ Answers(t, "raised") /\ Clear(t)
    /\ UNCHANGED <<engineVars, event, soundVars, otherVars>>

Sleeps(t) ==
    /\ call[t].at = "sleep" /\ device # t
    /\ Answers(t, "success") /\ Clear(t)
    /\ UNCHANGED <<engineVars, event, soundVars, excused, otherVars>>

StopsSound(t) ==
    /\ call[t].at = "stop"
    /\ heard' = Silenced /\ device' = Nobody /\ excused' = CutBy(t)
    /\ Answers(t, "interrupted") /\ Clear(t)
    /\ UNCHANGED <<engineVars, event, otherVars>>

-----------------------------------------------------------------------------
(* What other threads call: cancel is one engine after the other.          *)

CancelEngine(e) ==
    /\ event' = [event EXCEPT ![e] = TRUE]
    /\ heard' = Silenced /\ device' = Nobody
    /\ current' = [current EXCEPT ![e] = FALSE]
    /\ excused' = [t \in Threads |-> excused[t] \/ Busy(t)]

Cancels ==
    /\ ~cancelling /\ cancels < MaxCancels
    /\ CancelEngine("chatterbox")
    /\ cancels' = cancels + 1 /\ cancelling' = (multilingual # "none")
    /\ UNCHANGED <<engineVars, call, told, multilingual, calls>>

CancelsOther ==
    /\ cancelling /\ CancelEngine("multi") /\ cancelling' = FALSE
    /\ UNCHANGED <<engineVars, call, told, multilingual, calls, cancels>>

ResetInterrupt ==
    /\ TRUE \in {event[e] : e \in Engines}
    /\ event' = [e \in Engines |-> FALSE]
    /\ UNCHANGED <<engineVars, current, call, told, soundVars, excused, otherVars>>

Step(t) ==
    \/ Enters(t) \/ FindsModel(t) \/ LoadsModel(t) \/ PreparesVoices(t)
    \/ MultiBuilds(t) \/ ChatterboxBuilds(t) \/ Checks(t)
    \/ Plays(t) \/ Waits(t) \/ Monitors(t) \/ Sleeps(t) \/ StopsSound(t)

Next ==
    \/ \E t \in Threads : Step(t) \/ MonitorFails(t)
    \/ \E t \in Threads, x \in Texts, e \in Selected :
          \E k \in Duties[t] : Begins(t, k, x, e)
    \/ Cancels \/ CancelsOther \/ ResetInterrupt \/ SoundEnds

(* Threads run and audio ends.                                             *)
Fairness == WF_vars(SoundEnds) /\ \A t \in Threads : WF_vars(Step(t))

Spec == Init /\ [][Next]_vars /\ Fairness

-----------------------------------------------------------------------------
(* Every call keeps the promise of Utterance, whatever the engines, the    *)
(* other threads and the fallback do: it returns or raises, and no reply   *)
(* is lost that its caller takes for spoken, but for those the code itself *)
(* gives up: cancelled, cut by another thread that plays, spoken without a *)
(* microphone to listen on, or swallowed by Edge-TTS.                      *)
Caller == INSTANCE Utterance WITH
    busy <- Busy(Main),
    owed <- call[Main].kind # "build" /\ call[Main].text # "empty",
    excused <- excused[Main], sound <- heard[Main], told <- told[Main]

NoReplyIsLost == Caller!Spec
=============================================================================
