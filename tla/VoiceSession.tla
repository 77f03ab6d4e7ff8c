----------------------------- MODULE VoiceSession -----------------------------
(***************************************************************************)
(* The voice session (interaction/session.py) with the microphone, the     *)
(* turn detector, the streaming synthesis and the interruption manager it  *)
(* drives.  Three kinds of threads act: run_loop; one acknowledgment       *)
(* thread per call of the agent; and an outside thread that may interrupt, *)
(* cancel or ask for a shutdown at any time.                               *)
(*                                                                         *)
(* A turn is one call of the agent.  Generations are only compared for     *)
(* equality, so the model keeps `stale`: the generation captured last is   *)
(* no longer the current one.                                              *)
(***************************************************************************)
EXTENDS SpeechText

CONSTANTS
    MaxTurns,       \* bound: what the user has to say, in turns
    MaxCalls,       \* bound: calls of the outside thread
    Texts,          \* what a response may say: sequences of sentences
    Utterances,     \* subset of "goal", "named", "quick", "stop", "control"
    AgentForm,      \* what agent() returns: "task", or "text" as in app.py
    MaxWait,        \* frames capture waits for speech
    SilenceToEnd,   \* frames of silence that end a turn
    MaxTurn         \* TurnDetectorConfig.max_turn_seconds, in frames

Turns == 1..MaxTurns

\* A sentence of a response stands for its place in it: no two are the same.
ASSUME VoiceSessionAssumption ==
    /\ MaxTurns \in Nat /\ MaxCalls \in Nat /\ MaxWait \in Nat /\ MinSentence \in Nat
    /\ SilenceToEnd \in Nat \ {0} /\ MaxTurn \in Nat /\ MaxTurn > SilenceToEnd
    /\ Utterances \subseteq {"goal", "named", "quick", "stop", "control"}
    /\ AgentForm \in {"task", "text"}
    /\ Texts \subseteq Seq(DOMAIN Size)
    /\ \A text \in Texts : \A i, j \in DOMAIN text :
            /\ Size[text[i]] \in Nat
            /\ text[i] = text[j] => i = j

VARIABLES
    pipeline,       \* the event-driven pipeline could be built
    pc,             \* where run_loop stands
    state,          \* SessionState
    cancelled, stopRequested,
    shutdown,       \* tools.system.SHUTDOWN_REQUESTED
    pending,        \* _pending_task_id, 0 for None
    requireWake,
    mic,            \* the persistent AudioInputStream is open
    unclosed,       \* a stream was given up whose stop() had failed
    woken,          \* this conversation began with the wake word
    capture,        \* the turn detector and the transcriber
    transcript,     \* what capture returned
    turn,           \* turns so far; a task is named by the turn that created it
    task,           \* task[t] : "none", "running", "waiting" or "finished"
    serving,        \* the task the agent works for
    text,           \* text[t] : the response of turn t
    last,           \* last_response: the turn whose text it is, or 0
    ack,            \* ack[t] : the acknowledgment thread of turn t
    spoken,         \* the turn whose text is being spoken
    reprompt,       \* it is spoken a second time, because nothing was answered
    stale, playbackStop,
    listening,      \* on_interrupt is registered
    deltas, ready,  \* what is left of the stream, and of one delta
    tts,            \* StreamingTts: cancelled, buffer
    chunk,          \* a synthesized chunk on its way into the sink
    sink,           \* QueuedAudioSink: stopped, queue
    chunks,         \* drained, to be played
    heard,          \* sentences played in this response
    mute,           \* sentences whose synthesis failed in this response
    outer, op,      \* where the outside thread stands, and what it is doing
    calls           \* calls of the outside thread so far

micVars == <<mic, unclosed>>
captureVars == <<capture, transcript>>
turnVars == <<turn, task, serving, text, ack>>
streamVars == <<deltas, ready, tts, chunk, sink, chunks, heard, mute>>
speechVars == <<spoken, reprompt, listening, playbackStop, streamVars>>
outerVars == <<outer, op, calls>>
flagVars == <<pipeline, stopRequested, shutdown>>
vars == <<flagVars, pc, state, cancelled, pending, requireWake, micVars, woken, captureVars,
          turnVars, last, stale, speechVars, outerVars>>

NoChunk == <<>>
NoCapture ==
    [started |-> FALSE, speech |-> FALSE, quiet |-> 0, age |-> 0,
     said |-> "nothing", named |-> FALSE]
Stopping == stopRequested \/ shutdown

-----------------------------------------------------------------------------
Init ==
    /\ pipeline \in BOOLEAN
    /\ pc = "loop" /\ state = "idle"
    /\ cancelled = FALSE /\ stopRequested = FALSE /\ shutdown = FALSE
    /\ pending = 0 /\ requireWake = TRUE /\ mic = FALSE /\ unclosed = FALSE /\ woken = FALSE
    /\ capture = NoCapture /\ transcript = "nothing"
    /\ turn = 0 /\ serving = 0 /\ last = 0
    /\ task = [t \in Turns |-> "none"]
    /\ text = [t \in Turns |-> <<>>]
    /\ ack = [t \in Turns |-> "none"]
    /\ spoken = 0 /\ reprompt = FALSE /\ stale = FALSE
    /\ playbackStop = FALSE /\ listening = FALSE
    /\ deltas = <<>> /\ ready = <<>> /\ chunk = NoChunk
    /\ tts = [cancelled |-> FALSE, buffer |-> <<>>]
    /\ sink = [stopped |-> FALSE, queue |-> <<>>]
    /\ chunks = <<>> /\ heard = <<>> /\ mute = {}
    /\ outer = "idle" /\ op = "none" /\ calls = 0

\* Mutant: run_loop looks at one of the two flags only.
RunLoopMissesRequest ==
    /\ pc = "loop"
    /\ IF shutdown THEN pc' = "ended" /\ state' = "idle"
                   ELSE pc' = "enter" /\ UNCHANGED state
    /\ UNCHANGED <<flagVars, cancelled, pending, requireWake, micVars, woken, captureVars,
                   turnVars, last, stale, speechVars, outerVars>>

\* run_loop: one more run_once, unless the session is to stop.
RunLoop ==
    /\ pc = "loop"
    /\ IF Stopping THEN pc' = "ended" /\ state' = "idle"
                   ELSE pc' = "enter" /\ UNCHANGED state
    /\ UNCHANGED <<flagVars, cancelled, pending, requireWake, micVars, woken, captureVars,
                   turnVars, last, stale, speechVars, outerVars>>

\* A stream is stopped and closed.  The close is skipped if the stop fails, and
\* the stream is forgotten all the same, as is one that opens and cannot start.
Closed(stream) == unclosed' \in {unclosed, unclosed \/ stream}

\* run_once until the first wait: it forgets an earlier cancellation.  The
\* microphone may not open.
RunOnce ==
    /\ pc = "enter"
    /\ cancelled' = FALSE /\ requireWake' = TRUE /\ last' = 0 /\ woken' = FALSE
    /\ \/ pipeline /\ mic' = TRUE /\ pc' = "top" /\ UNCHANGED state
       \/ pipeline /\ pc' = "leave" /\ state' = "error" /\ UNCHANGED mic
       \/ ~pipeline /\ pc' = "wake" /\ state' = "listening_for_wake" /\ UNCHANGED mic
    /\ Closed(pipeline /\ ~mic')
    /\ UNCHANGED <<flagVars, pending, captureVars, turnVars, stale, speechVars, outerVars>>

\* The head of the conversation loop.
NextTurn ==
    /\ pc = "top"
    /\ \/ cancelled /\ pc' = "leave" /\ UNCHANGED <<state, mic, unclosed>>
       \/ ~cancelled /\ requireWake /\ pc' = "wake"
          /\ mic' = FALSE /\ Closed(mic) /\ state' = "listening_for_wake"
       \/ ~cancelled /\ ~requireWake /\ pc' = "begin"
          /\ state' = "listening" /\ UNCHANGED <<mic, unclosed>>
    /\ UNCHANGED <<flagVars, cancelled, pending, requireWake, woken, captureVars, turnVars,
                   last, stale, speechVars, outerVars>>

\* listen_for_wakeword returns: the word was heard, or 30 seconds are over.
\* It has closed its own stream; what it returns is not looked at.
Wake ==
    /\ pc = "wake" /\ Closed(TRUE)
    /\ woken' \in BOOLEAN
    /\ requireWake' = FALSE
    /\ \/ pipeline /\ mic' = TRUE /\ pc' = "begin" /\ state' = "listening"
       \/ pipeline /\ pc' = "leave" /\ state' = "error" /\ UNCHANGED mic
       \/ ~pipeline /\ pc' = "transcribe" /\ state' = "transcribing" /\ UNCHANGED mic
    /\ UNCHANGED <<flagVars, cancelled, pending, captureVars, turnVars, last, stale,
                   speechVars, outerVars>>
-----------------------------------------------------------------------------
(* Capturing what the user says. *)

\* begin_turn, start_streaming, reset.
BeginCapture ==
    /\ pc = "begin" /\ pc' = "capture"
    /\ capture' = NoCapture
    /\ stale' = FALSE
    /\ UNCHANGED <<flagVars, state, cancelled, pending, requireWake, micVars, woken,
                   transcript, turnVars, last, speechVars, outerVars>>

\* TurnDetector.decide: the wake word is looked for before the cap on the
\* length of a turn.  The system does not speak while capture runs.
Decide(c) ==
    CASE c.named /\ ~c.speech -> "wake_detected"
      [] c.started /\ c.age > MaxTurn -> "end_turn"
      [] c.started /\ ~c.speech /\ c.quiet >= SilenceToEnd -> "end_turn"
      [] OTHER -> "keep_listening"

\* One frame of the microphone: the voice activity detector reports speech or
\* not, and a partial transcript may have arrived that names the assistant.  What
\* is said is fixed when speech starts; nobody starts who has nothing left to say.
Observed(speech, said, named) ==
    LET started == capture.started \/ speech
    IN  [started |-> started, speech |-> speech, said |-> said, named |-> named,
         quiet |-> IF speech THEN 0
                   ELSE IF capture.quiet <= MaxWait + SilenceToEnd
                   THEN capture.quiet + 1 ELSE capture.quiet,
         age |-> IF started /\ capture.age <= MaxTurn THEN capture.age + 1 ELSE capture.age]

Frame ==
    /\ pc = "capture" /\ ~cancelled /\ ~stale
    /\ capture.started \/ capture.quiet <= MaxWait
    /\ \E speech \in BOOLEAN, named \in BOOLEAN, said \in Utterances \cup {"nothing"} :
        /\ said = "nothing" <=> ~capture.started /\ ~speech
        /\ capture.started => said = capture.said
        /\ ~capture.started /\ speech => turn < MaxTurns
        /\ capture.named => named
        /\ named => capture.started /\ said = "named"
        /\ LET c == Observed(speech, said, named)
           IN  IF Decide(c) = "end_turn"
               THEN /\ pc' = "transcript" /\ capture' = NoCapture
                    /\ transcript' \in {"nothing", said}
                    /\ UNCHANGED state
               ELSE /\ capture' = c
                    /\ state' = IF Decide(c) = "wake_detected" THEN "wake_detected"
                                ELSE IF speech /\ ~capture.speech THEN "transcribing" ELSE state
                    /\ UNCHANGED <<pc, transcript>>
    /\ UNCHANGED <<flagVars, cancelled, pending, requireWake, micVars, woken, turnVars,
                   last, stale, speechVars, outerVars>>

\* Capture ends otherwise: cancelled, a newer generation, nobody spoke in
\* time, or the microphone delivers no more frames.
CaptureEnds ==
    /\ pc = "capture"
    /\ \/ cancelled /\ transcript' \in {"nothing", capture.said}
       \/ ~cancelled /\ stale /\ transcript' = "nothing"
       \/ ~cancelled /\ ~stale /\ ~capture.started /\ capture.quiet > MaxWait
          /\ transcript' = "nothing"
       \/ ~cancelled /\ ~stale /\ capture.started /\ transcript' \in {"nothing", capture.said}
    /\ pc' = "transcript" /\ capture' = NoCapture
    /\ UNCHANGED <<flagVars, state, cancelled, pending, requireWake, micVars, woken,
                   turnVars, last, stale, speechVars, outerVars>>

\* The legacy path records a file and has the whole of it transcribed.
Transcribe ==
    /\ pc = "transcribe"
    /\ IF cancelled
       THEN pc' = "leave" /\ UNCHANGED <<state, stale, transcript>>
       ELSE /\ pc' = "transcript" /\ state' = "transcribing" /\ stale' = FALSE
            /\ transcript' \in {"nothing"} \cup (IF turn < MaxTurns THEN Utterances ELSE {})
    /\ UNCHANGED <<flagVars, cancelled, pending, requireWake, micVars, woken, capture,
                   turnVars, last, speechVars, outerVars>>

\* The session cancels itself: cancel() on the thread of run_loop.
CancelHere ==
    /\ cancelled' = TRUE /\ stale' = TRUE /\ playbackStop' = TRUE
    /\ IF pipeline
       THEN /\ tts' = [cancelled |-> TRUE, buffer |-> <<>>]
            /\ sink' = [stopped |-> TRUE, queue |-> <<>>]
       ELSE UNCHANGED <<tts, sink>>
    /\ state' = "interrupted"

\* _run_control: the callback of the command announces what it does, with a
\* stream of its own that listens for the wake word.
RunControl ==
    /\ pc = "transcript" /\ transcript \in {"stop", "control"}
    /\ ~(pipeline /\ cancelled)
    /\ pc' = "announce"
    /\ UNCHANGED <<flagVars, state, cancelled, pending, requireWake, micVars, woken,
                   captureVars, turnVars, last, stale, speechVars, outerVars>>

\* The announcement is over, and the conversation with it; "stop" then requests
\* the shutdown, unless the announcement raised.
Announced ==
    /\ pc = "announce" /\ pc' = "leave" /\ transcript' = "nothing"
    /\ \/ transcript = "stop" /\ stopRequested' = TRUE /\ CancelHere
       \/ UNCHANGED <<stopRequested, cancelled, stale, playbackStop, tts, sink, state>>
    /\ UNCHANGED <<pipeline, shutdown, pending, requireWake, micVars, woken, capture,
                   turnVars, last, spoken, reprompt, listening, deltas, ready, chunk,
                   chunks, heard, mute, outerVars>>

\* Nothing was said: the conversation is over, but a question that waits for
\* its answer is asked once more.
NoTranscript ==
    /\ pc = "transcript"
    /\ transcript = "nothing" \/ (pipeline /\ cancelled)
    /\ transcript' = "nothing"
    /\ IF ~(pipeline /\ cancelled) /\ pending # 0 /\ last # 0
       THEN pc' = "speak" /\ state' = "speaking" /\ spoken' = last /\ reprompt' = TRUE
       ELSE pc' = "leave" /\ UNCHANGED <<state, spoken, reprompt>>
    /\ UNCHANGED <<flagVars, cancelled, pending, requireWake, micVars, woken, capture,
                   turnVars, last, stale, listening, playbackStop, streamVars, outerVars>>
-----------------------------------------------------------------------------
(* The agent and the acknowledgment. *)

\* The transcript goes to the agent: as an answer if a task waits for one,
\* unless the fast path knows it (looked for in the pipeline only).  For a new
\* goal the pipeline starts a thread that acknowledges it if it takes long.
CallAgent ==
    /\ pc = "transcript" /\ transcript \in {"goal", "named", "quick"}
    /\ ~(pipeline /\ cancelled)
    /\ pc' = "agent" /\ state' = "thinking" /\ transcript' = "nothing"
    /\ turn' = turn + 1
    /\ LET quick == pipeline /\ transcript = "quick"
           resume == ~quick /\ pending # 0
       IN  /\ serving' = IF resume THEN pending ELSE turn + 1
           /\ ack' = IF pipeline /\ ~quick /\ ~resume
                     THEN [ack EXCEPT ![turn'] = "waiting"] ELSE ack
    /\ task' = [task EXCEPT ![serving'] = "running"]
    /\ UNCHANGED <<flagVars, cancelled, pending, requireWake, micVars, woken, capture, text,
                   last, stale, speechVars, outerVars>>

\* The agent answers, or asks for an authorization; a tool may have asked for
\* the shutdown.  The pending task is forgotten, the acknowledgment called off
\* if it is not under way.
AgentReturns ==
    /\ pc = "agent"
    /\ \E outcome \in {"finished", "waiting"}, says \in Texts :
        /\ task' = [task EXCEPT ![serving] = outcome]
        /\ text' = [text EXCEPT ![turn] = says]
        /\ shutdown' \in {shutdown, shutdown \/ outcome = "finished"}
    /\ stopRequested' = (stopRequested \/ shutdown')
    /\ pending' = IF serving = turn THEN pending ELSE 0
    /\ pc' = IF ack[turn] = "speaking" THEN "join" ELSE "respond"
    /\ ack' = [ack EXCEPT ![turn] = IF @ = "waiting" THEN "none" ELSE @]
    /\ UNCHANGED <<pipeline, state, cancelled, requireWake, micVars, woken, captureVars,
                   turn, serving, last, stale, speechVars, outerVars>>

\* Something raises: the exception closes the microphone and ends run_loop,
\* quietly if it was to stop anyway.
Raise ==
    /\ pc' = "ended" /\ woken' = FALSE /\ last' = 0
    /\ mic' = FALSE /\ Closed(mic \/ pc \in {"enter", "wake"})
    /\ state' = IF Stopping THEN "idle" ELSE "error"

\* The agent raises: the task it worked for is where it was left.
AgentRaises ==
    /\ pc = "agent" /\ Raise
    /\ task' \in {[task EXCEPT ![serving] = s] : s \in {"finished", "waiting"}}
    /\ ack' = [ack EXCEPT ![turn] = IF @ = "waiting" THEN "none" ELSE @]
    /\ serving' = 0
    /\ UNCHANGED <<flagVars, cancelled, pending, requireWake, captureVars, turn, text,
                   stale, speechVars, outerVars>>

\* Nothing of the response is left when it is over: unregister, set_speaking.
Forget ==
    /\ listening' = FALSE /\ spoken' = 0 /\ reprompt' = FALSE
    /\ deltas' = <<>> /\ ready' = <<>> /\ chunks' = <<>> /\ chunk' = NoChunk
    /\ heard' = <<>> /\ mute' = {}

\* The audio device, the recognition or the callback of a control command does:
\* a stream that PortAudio cannot open raises what nothing here catches.
DeviceRaises ==
    /\ \/ pc \in {"wake", "capture", "transcribe", "announce", "play"}
       \/ pc = "enter" /\ pipeline
       \/ pc = "speak" /\ ~pipeline
    /\ Raise /\ Forget
    /\ capture' = NoCapture /\ transcript' = "nothing"
    /\ UNCHANGED <<flagVars, cancelled, pending, requireWake, turnVars, stale, playbackStop,
                   tts, sink, outerVars>>

\* Mutant: join waits for as long as it takes.
JoinWaits ==
    /\ pc = "join" /\ ack[turn] # "speaking" /\ pc' = "respond"
    /\ UNCHANGED <<flagVars, state, cancelled, pending, requireWake, micVars, woken,
                   captureVars, turnVars, last, stale, speechVars, outerVars>>

\* ack_thread.join returns: the acknowledgment is spoken, or two seconds are over.
Join ==
    /\ pc = "join" /\ pc' = "respond"
    /\ UNCHANGED <<flagVars, state, cancelled, pending, requireWake, micVars, woken,
                   captureVars, turnVars, last, stale, speechVars, outerVars>>

\* Whether _is_awaiting_auth sees that the response is a question: a response
\* of resume_agent is a task, one of agent may be its text.
Awaiting == task[serving] = "waiting" /\ (serving # turn \/ AgentForm = "task")

\* Mutant: every response is taken for a question.
RespondPendsAlways ==
    /\ pc = "respond"
    /\ IF cancelled \/ (~pipeline /\ stale)
       THEN pc' = "leave" /\ UNCHANGED <<pending, state, spoken, reprompt>>
       ELSE /\ pending' = serving
            /\ spoken' = turn /\ reprompt' = FALSE
            /\ pc' = "speak" /\ state' = "speaking"
    /\ serving' = 0
    /\ UNCHANGED <<flagVars, cancelled, requireWake, micVars, woken, captureVars, turn,
                   task, text, ack, last, stale, listening, playbackStop, streamVars,
                   outerVars>>

\* The response of a cancelled turn is dropped, with the question it may be;
\* any other is spoken.
Respond ==
    /\ pc = "respond"
    /\ IF cancelled \/ (~pipeline /\ stale)
       THEN pc' = "leave" /\ UNCHANGED <<pending, state, spoken, reprompt>>
       ELSE /\ pending' = IF Awaiting THEN serving ELSE pending
            /\ spoken' = turn /\ reprompt' = FALSE
            /\ pc' = "speak" /\ state' = "speaking"
    /\ serving' = 0
    /\ UNCHANGED <<flagVars, cancelled, requireWake, micVars, woken, captureVars, turn,
                   task, text, ack, last, stale, listening, playbackStop, streamVars,
                   outerVars>>

\* The acknowledgment thread of turn t.  1.8 seconds are over; it looks at the
\* flags; it has spoken.
AckWakes(t) == ack[t] = "waiting" /\ ack' = [ack EXCEPT ![t] = "woken"]
AckSpeaks(t) ==
    /\ ack[t] = "woken"
    /\ ack' = [ack EXCEPT ![t] = IF cancelled \/ stopRequested THEN "none" ELSE "speaking"]
AckEnds(t) == ack[t] = "speaking" /\ ack' = [ack EXCEPT ![t] = "none"]

Acknowledge(t) ==
    /\ AckWakes(t) \/ AckSpeaks(t) \/ AckEnds(t)
    /\ UNCHANGED <<flagVars, pc, state, cancelled, pending, requireWake, micVars, woken,
                   captureVars, turn, task, serving, text, last, stale, speechVars,
                   outerVars>>
-----------------------------------------------------------------------------
(* Speaking: _speak_event_driven, LlmStreamToTts.stream, StreamingTts. *)

EmptySink == [stopped |-> FALSE, queue |-> <<>>]

\* StreamingTts.start, then the generation is captured.
PrepareSpeech ==
    /\ pipeline /\ pc = "speak" /\ pc' = "arm"
    /\ tts' = [cancelled |-> FALSE, buffer |-> <<>>] /\ sink' = EmptySink
    /\ stale' = FALSE
    /\ heard' = <<>> /\ mute' = {}
    /\ UNCHANGED <<flagVars, state, cancelled, pending, requireWake, micVars, woken,
                   captureVars, turnVars, last, spoken, reprompt, listening, playbackStop,
                   deltas, ready, chunk, chunks, outerVars>>

\* _playback_stop is cleared and on_interrupt registered.
Arm ==
    /\ pc = "arm" /\ pc' = "bridge"
    /\ playbackStop' = FALSE /\ listening' = TRUE
    /\ UNCHANGED <<flagVars, state, cancelled, pending, requireWake, micVars, woken,
                   captureVars, turnVars, last, stale, spoken, reprompt, streamVars,
                   outerVars>>

\* The bridge starts the synthesis a second time and opens the stream.
Bridge ==
    /\ pc = "bridge" /\ pc' = "feed"
    /\ tts' = [cancelled |-> FALSE, buffer |-> <<>>] /\ sink' = EmptySink
    /\ deltas' = Deltas(text[spoken])
    /\ UNCHANGED <<flagVars, state, cancelled, pending, requireWake, micVars, woken,
                   captureVars, turnVars, last, stale, spoken, reprompt, listening,
                   playbackStop, ready, chunk, chunks, heard, mute, outerVars>>

\* One delta: the sentences it completes are to be synthesized.  A newer
\* generation cancels the synthesis and ends the stream.
Feed ==
    /\ pc = "feed" /\ ready = <<>> /\ chunk = NoChunk /\ deltas # <<>>
    /\ IF stale
       THEN /\ tts' = [cancelled |-> TRUE, buffer |-> <<>>]
            /\ sink' = [stopped |-> TRUE, queue |-> <<>>]
            /\ deltas' = <<>> /\ pc' = "fed"
            /\ UNCHANGED ready
       ELSE /\ ready' = ReadyAfter(tts.buffer, Head(deltas))
            /\ tts' = [tts EXCEPT !.buffer = BufferAfter(@, Head(deltas))]
            /\ deltas' = Tail(deltas)
            /\ UNCHANGED <<sink, pc>>
    /\ UNCHANGED <<flagVars, state, cancelled, pending, requireWake, micVars, woken,
                   captureVars, turnVars, last, stale, spoken, reprompt, listening,
                   playbackStop, chunk, chunks, heard, mute, outerVars>>

\* Mutant: finish() leaves the buffer as it is.
FinishKeepsBuffer ==
    /\ \/ pc = "feed" /\ deltas = <<>> /\ pc' = "fed"
       \/ pc = "fed" /\ ~stale /\ pc' = "drain"
    /\ ready = <<>> /\ chunk = NoChunk
    /\ ready' = IF tts.buffer = <<>> \/ tts.cancelled THEN <<>> ELSE <<tts.buffer>>
    /\ UNCHANGED <<flagVars, state, cancelled, pending, requireWake, micVars, woken,
                   captureVars, turnVars, last, stale, spoken, reprompt, listening,
                   playbackStop, deltas, tts, chunk, sink, chunks, heard, mute, outerVars>>

\* finish() flushes the buffer.  The bridge calls it at the end of the stream
\* and the session again, unless the generation is no longer current.
Finish ==
    /\ \/ pc = "feed" /\ deltas = <<>> /\ pc' = "fed"
       \/ pc = "fed" /\ ~stale /\ pc' = "drain"
    /\ ready = <<>> /\ chunk = NoChunk
    /\ ready' = IF tts.buffer = <<>> \/ tts.cancelled THEN <<>> ELSE <<tts.buffer>>
    /\ tts' = [tts EXCEPT !.buffer = <<>>]
    /\ UNCHANGED <<flagVars, state, cancelled, pending, requireWake, micVars, woken,
                   captureVars, turnVars, last, stale, spoken, reprompt, listening,
                   playbackStop, deltas, chunk, sink, chunks, heard, mute, outerVars>>

\* _synthesize_and_emit up to the put: the synthesis may fail, its result is
\* dropped if the synthesis was cancelled or the sink stopped meanwhile.
Synthesize ==
    /\ ready # <<>> /\ chunk = NoChunk
    /\ IF tts.cancelled \/ sink.stopped
       THEN ready' = <<>> /\ UNCHANGED <<chunk, mute>>
       ELSE /\ ready' = Tail(ready)
            /\ \/ chunk' = Spoken(Head(ready)) /\ UNCHANGED mute
               \/ UNCHANGED chunk /\ mute' = mute \cup ToSet(Spoken(Head(ready)))
    /\ UNCHANGED <<flagVars, pc, state, cancelled, pending, requireWake, micVars, woken,
                   captureVars, turnVars, last, stale, spoken, reprompt, listening,
                   playbackStop, deltas, tts, sink, chunks, heard, outerVars>>

\* The put that follows the check of _stopped.
Put ==
    /\ chunk # NoChunk /\ chunk' = NoChunk
    /\ sink' = [sink EXCEPT !.queue = Append(@, [turn |-> spoken, says |-> chunk])]
    /\ UNCHANGED <<flagVars, pc, state, cancelled, pending, requireWake, micVars, woken,
                   captureVars, turnVars, last, stale, spoken, reprompt, listening,
                   playbackStop, deltas, ready, tts, chunks, heard, mute, outerVars>>

\* The synthesis is complete: the sink is emptied.
Drain ==
    /\ pc = "drain" /\ ready = <<>> /\ chunk = NoChunk
    /\ chunks' = sink.queue /\ sink' = [sink EXCEPT !.queue = <<>>]
    /\ pc' = "play"
    /\ UNCHANGED <<flagVars, state, cancelled, pending, requireWake, micVars, woken,
                   captureVars, turnVars, last, stale, spoken, reprompt, listening,
                   playbackStop, deltas, ready, tts, chunk, heard, mute, outerVars>>
-----------------------------------------------------------------------------
(* Playback. *)

\* The next chunk starts to play.
PlayChunk ==
    /\ pc = "play" /\ chunks # <<>> /\ ~stale /\ ~playbackStop
    /\ pc' = "playing"
    /\ heard' = heard \o Head(chunks).says
    /\ UNCHANGED <<flagVars, state, cancelled, pending, requireWake, micVars, woken,
                   captureVars, turnVars, last, stale, spoken, reprompt, listening,
                   playbackStop, deltas, ready, tts, chunk, sink, chunks, mute, outerVars>>

\* It is played to the end, or stopped by _playback_stop, which counts as played.
ChunkEnds ==
    /\ pc = "playing"
    /\ chunks' = Tail(chunks) /\ pc' = "play"
    /\ UNCHANGED <<flagVars, state, cancelled, pending, requireWake, micVars, woken,
                   captureVars, turnVars, last, stale, spoken, reprompt, listening,
                   playbackStop, deltas, ready, tts, chunk, sink, heard, mute, outerVars>>

\* The user speaks into a chunk (interrupt() on this thread, with its
\* callback), or another thread has interrupted: back to listening.
Interrupted ==
    /\ \/ pc = "fed" /\ ready = <<>> /\ chunk = NoChunk /\ stale
          /\ UNCHANGED <<stale, playbackStop, tts, sink>>
       \/ pc = "play" /\ chunks # <<>> /\ (stale \/ playbackStop)
          /\ UNCHANGED <<stale, playbackStop, tts, sink>>
       \/ pc = "playing" /\ ~playbackStop /\ stale
          /\ UNCHANGED <<stale, playbackStop, tts, sink>>
       \/ pc = "playing" /\ ~playbackStop /\ ~stale
          /\ stale' = TRUE /\ playbackStop' = TRUE
          /\ tts' = [cancelled |-> TRUE, buffer |-> <<>>]
          /\ sink' = [stopped |-> TRUE, queue |-> <<>>]
    /\ Forget
    /\ IF reprompt
       THEN pc' = "leave" /\ UNCHANGED state
       ELSE pc' = "top" /\ state' = "interrupted"
    /\ UNCHANGED <<flagVars, cancelled, pending, requireWake, micVars, woken, captureVars,
                   turnVars, last, outerVars>>

\* Everything is played: the response counts as delivered.  The next turn is a
\* follow-up, unless the session is to stop.
Delivered ==
    /\ pc = "play" /\ chunks = <<>>
    /\ Forget
    /\ IF reprompt
       THEN pc' = "leave" /\ UNCHANGED last
       ELSE last' = spoken /\ pc' = IF Stopping THEN "leave" ELSE "top"
    /\ UNCHANGED <<flagVars, state, cancelled, pending, requireWake, micVars, woken,
                   captureVars, turnVars, stale, playbackStop, tts, sink, outerVars>>

\* The legacy path speaks the whole text: it fails, is interrupted by the wake
\* word (which cancels the turn), or is played; then it waits for a follow-up.
SpeakLegacy ==
    /\ ~pipeline /\ pc = "speak"
    /\ \/ /\ pc' = "leave" /\ state' = "error"
          /\ UNCHANGED <<cancelled, stale, playbackStop, tts, sink, last>>
       \/ /\ pc' = "leave" /\ CancelHere /\ UNCHANGED last
       \/ /\ last' = spoken
          /\ \/ (reprompt \/ Stopping) /\ pc' = "leave" /\ UNCHANGED state
             \/ ~reprompt /\ ~Stopping /\ pc' \in {"transcribe", "leave"}
                /\ state' = "followup_listening"
          /\ UNCHANGED <<cancelled, stale, playbackStop, tts, sink>>
    /\ Forget
    /\ UNCHANGED <<flagVars, pending, requireWake, micVars, woken, captureVars, turnVars,
                   outerVars>>

\* Mutant: the stream stays open when the conversation ends.
LeaveOpen ==
    /\ pc = "leave" /\ pc' = "loop"
    /\ woken' = FALSE /\ last' = 0
    /\ state' = IF state \in {"error", "interrupted"} THEN state ELSE "idle"
    /\ UNCHANGED <<flagVars, cancelled, pending, requireWake, micVars, captureVars,
                   turnVars, stale, speechVars, outerVars>>

\* The conversation is over: the microphone is closed, the state settled.
Leave ==
    /\ pc = "leave" /\ pc' = "loop"
    /\ mic' = FALSE /\ Closed(mic) /\ woken' = FALSE /\ last' = 0
    /\ state' = IF state \in {"error", "interrupted"} THEN state ELSE "idle"
    /\ UNCHANGED <<flagVars, cancelled, pending, requireWake, captureVars, turnVars, stale,
                   speechVars, outerVars>>

-----------------------------------------------------------------------------
(* The outside thread: interruption.interrupt(), cancel(), request_shutdown(). *)

Call(o) ==
    /\ outer = "idle" /\ pc # "ended" /\ calls < MaxCalls
    /\ op' = o /\ calls' = calls + 1
    /\ IF o = "interrupt"
       THEN /\ pipeline /\ outer' = "bump"
            /\ UNCHANGED <<stopRequested, cancelled, stale, playbackStop>>
       ELSE /\ stopRequested' = (stopRequested \/ o = "shutdown")
            /\ cancelled' = TRUE /\ playbackStop' = TRUE
            /\ stale' = (stale \/ ~pipeline)
            /\ outer' = IF pipeline THEN "bump" ELSE "settle"
    /\ UNCHANGED <<pipeline, shutdown, pc, state, pending, requireWake, micVars, woken,
                   captureVars, turnVars, last, spoken, reprompt, listening, streamVars>>

\* interrupt() returns to cancel(), or it was all there was to do.
Notified ==
    IF op = "interrupt" THEN outer' = "idle" /\ op' = "none"
                        ELSE outer' = "silence" /\ UNCHANGED op

\* interrupt(): the generation is incremented and the callbacks are copied.
Bump ==
    /\ outer = "bump"
    /\ stale' = TRUE
    /\ IF listening THEN outer' = "callback" /\ UNCHANGED op ELSE Notified
    /\ UNCHANGED <<flagVars, pc, state, cancelled, pending, requireWake, micVars, woken,
                   captureVars, turnVars, last, speechVars, calls>>

\* StreamingTts.cancel, first from on_interrupt, then from cancel() itself.
CancelTts ==
    /\ outer \in {"callback", "silence"}
    /\ tts' = [cancelled |-> TRUE, buffer |-> <<>>]
    /\ outer' = IF outer = "callback" THEN "flush" ELSE "reflush"
    /\ UNCHANGED <<flagVars, pc, state, cancelled, pending, requireWake, micVars, woken,
                   captureVars, turnVars, last, stale, spoken, reprompt, listening,
                   playbackStop, deltas, ready, chunk, sink, chunks, heard, mute, op,
                   calls>>

\* QueuedAudioSink.stop, outside the lock of the synthesis.
StopSink ==
    /\ outer \in {"flush", "reflush"}
    /\ sink' = [stopped |-> TRUE, queue |-> <<>>]
    /\ IF outer = "flush"
       THEN playbackStop' = TRUE /\ Notified
       ELSE outer' = "settle" /\ UNCHANGED <<playbackStop, op>>
    /\ UNCHANGED <<flagVars, pc, state, cancelled, pending, requireWake, micVars, woken,
                   captureVars, turnVars, last, stale, spoken, reprompt, listening, deltas,
                   ready, tts, chunk, chunks, heard, mute, calls>>

\* cancel() ends with the state.
Settle ==
    /\ outer = "settle" /\ outer' = "idle" /\ op' = "none"
    /\ state' = "interrupted"
    /\ UNCHANGED <<flagVars, pc, cancelled, pending, requireWake, micVars, woken,
                   captureVars, turnVars, last, stale, speechVars, calls>>
-----------------------------------------------------------------------------
Conversation ==
    RunLoop \/ RunOnce \/ NextTurn \/ Wake \/ Leave \/ DeviceRaises
Listen ==
    BeginCapture \/ Frame \/ CaptureEnds \/ Transcribe \/ RunControl \/ Announced
    \/ NoTranscript
Think ==
    CallAgent \/ AgentReturns \/ AgentRaises \/ Join \/ Respond
Speak ==
    \/ PrepareSpeech \/ Arm \/ Bridge \/ Feed \/ Finish \/ Synthesize \/ Put \/ Drain
    \/ PlayChunk \/ ChunkEnds \/ Interrupted \/ Delivered \/ SpeakLegacy

Session == Conversation \/ Listen \/ Think \/ Speak
Outside ==
    \/ \E o \in {"interrupt", "cancel", "shutdown"} : Call(o)
    \/ Bump \/ CancelTts \/ StopSink \/ Settle

Next == Session \/ (\E t \in Turns : Acknowledge(t)) \/ Outside

Spec == Init /\ [][Next]_vars /\ WF_vars(Session)

-----------------------------------------------------------------------------
Chunk == [turn : Turns, says : Seq(DOMAIN Size)]

\* Types, and what the parts of a response are made of.
TypeOK ==
    /\ pc \in {"loop", "enter", "top", "wake", "begin", "capture", "transcribe", "transcript",
               "announce", "agent", "join", "respond", "speak", "arm", "bridge", "feed", "fed",
               "drain", "play", "playing", "leave", "ended"}
    /\ state \in {"idle", "listening_for_wake", "wake_detected", "listening", "transcribing",
                  "thinking", "speaking", "interrupted", "followup_listening", "error"}
    /\ {pipeline, cancelled, stopRequested, shutdown, requireWake, mic, unclosed, woken,
        reprompt, stale, playbackStop, listening} \subseteq BOOLEAN
    /\ {pending, turn, serving, last, spoken} \subseteq 0..MaxTurns
    /\ capture \in [started : BOOLEAN, speech : BOOLEAN, quiet : 0..(MaxWait + SilenceToEnd + 1),
                    age : 0..(MaxTurn + 1), said : Utterances \cup {"nothing"}, named : BOOLEAN]
    /\ transcript \in Utterances \cup {"nothing"}
    /\ task \in [Turns -> {"none", "running", "waiting", "finished"}]
    /\ text \in [Turns -> Texts \cup {<<>>}]
    /\ ack \in [Turns -> {"none", "waiting", "woken", "speaking"}]
    /\ tts \in [cancelled : BOOLEAN, buffer : Seq(Seq(DOMAIN Size))]
    /\ sink \in [stopped : BOOLEAN, queue : Seq(Chunk)] /\ chunks \in Seq(Chunk)
    /\ {deltas, ready} \subseteq Seq(Seq(Seq(DOMAIN Size)))
    /\ {chunk, heard} \subseteq Seq(DOMAIN Size) /\ mute \subseteq DOMAIN Size
    /\ outer \in {"idle", "bump", "callback", "flush", "silence", "reflush", "settle"}
    /\ op \in {"none", "interrupt", "cancel", "shutdown"} /\ calls \in 0..MaxCalls

\* What is heard belongs to the response that is being spoken and comes in its
\* order, no sentence twice: nothing of a response that was interrupted or
\* cancelled is left in a buffer or in the sink for a later one, although the
\* synthesis may still put a chunk into a sink that another thread has just
\* stopped, and finish() is called twice.
OnlyThisResponse ==
    /\ \A i \in DOMAIN chunks : chunks[i].turn = spoken
    /\ pc # "speak" /\ spoken # 0 =>
          \A i \in DOMAIN heard :
              \E k \in DOMAIN text[spoken] :
                  /\ text[spoken][k] = heard[i]
                  /\ \A j \in 1..(i - 1), l \in DOMAIN text[spoken] :
                          heard[j] = text[spoken][l] => l < k

\* A response that nobody called off is heard to its end, except for what the
\* engine could not synthesize: no sentence is lost between the segmenter, the
\* buffer, the sink and the player.
HeardToTheEnd ==
    pc = "play" /\ chunks = <<>> /\ ~playbackStop /\ ~tts.cancelled /\ ~sink.stopped
        => ToSet(heard) \cup mute = ToSet(text[spoken])

\* The input streams that are open.
OpenStreams ==
    (IF mic THEN {"session"} ELSE {})
        \cup (IF pc = "wake" THEN {"wake word"} ELSE {})
        \cup (IF pc = "announce" THEN {"announcement"} ELSE {})
        \cup (IF \E t \in Turns : ack[t] = "speaking" THEN {"acknowledgment"} ELSE {})
        \cup (IF unclosed THEN {"unclosed"} ELSE {})

\* The session and the wake-word listener hand the microphone to each other, on
\* every path through a conversation and out of it: while the listener has it no
\* other stream is open, between conversations none is, and capture never waits
\* for a stream that is closed.  Left aside are a stream that failed to stop and
\* an acknowledgment, whose thread the session waits two seconds for.
MicrophoneIsHandedOver ==
    /\ pc = "wake" => OpenStreams \subseteq {"wake word", "acknowledgment", "unclosed"}
    /\ pc \in {"loop", "ended"} => OpenStreams \subseteq {"acknowledgment", "unclosed"}
    /\ pc = "capture" => "session" \in OpenStreams

\* resume_agent is only called with a task that waits for an answer, however
\* many turns and conversations have passed since it asked.
ResumesAWaitingTask ==
    [][pc = "transcript" /\ pc' = "agent" /\ serving' # turn'
        => task[serving'] = "waiting"]_vars

\* Every call of the agent is followed by the next turn, the end of the
\* conversation or the end of the session, whatever the acknowledgment, the
\* user and the outside thread do.
TurnEnds == pc = "agent" ~> pc \in {"top", "transcribe", "leave", "ended"}

\* The capture is stuck: the transcript names the assistant, so decide() reports
\* the wake word on every frame.
Stuck == pc = "capture" /\ capture.named

\* A session that is to stop ends once the user has nothing more to say, if no
\* capture gets stuck.
ShutdownEnds == Stopping ~> (pc = "ended" \/ Stuck)

-----------------------------------------------------------------------------
(* What documents and comments say and the code does not keep.             *)

\* Nothing the user says is acted on before the wake word was heard ("Run one
\* wake plus conversational exchange").
WakeWordFirst == pc = "agent" => woken

\* max_turn_seconds is the "hard cap on a single turn".
HardCap == pc = "capture" => capture.age <= MaxTurn

\* "If ack is currently speaking, wait for it to finish before main response
\* playback".
AckBeforeResponse == pc = "playing" => \A t \in Turns : ack[t] # "speaking"

\* session.py:218, "Stop the persistent mic while the wake-word listener uses its
\* own stream", and wakeword.py:72, "The stream is always closed before returning".
OneStreamAtATime == \A s, t \in OpenStreams : s = t

\* request_shutdown: "Ask run_loop to exit after the current turn".
NoTurnAfterShutdown == [][pc = "transcript" /\ pc' = "agent" => ~stopRequested]_vars

\* "Sentence-level streaming": a chunk is one sentence of the response.
OneSentenceAChunk ==
    \A i \in DOMAIN chunks :
        \E d \in ToSet(Deltas(text[spoken])) : chunks[i].says = Spoken(d)

\* "pending authorization resumes on follow-up instead of creating new tasks".
FollowUpResumes ==
    [][pc = "transcript" /\ pc' = "agent" /\ last # 0 /\ task[last] = "waiting"
        => serving' = last]_vars

\* cancel: "Invalidate the active turn and stop current speech".
CancelledIsSilent == pc = "playing" /\ outer = "idle" => ~cancelled
=============================================================================
