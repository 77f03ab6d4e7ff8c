-------------------------- MODULE VoiceSessionProofs --------------------------
(***************************************************************************)
(* Proofs about VoiceSession, for any number of turns and of calls of the  *)
(* outside thread, any responses of any length, and any bounds of the turn *)
(* detector: who has the microphone, which task is answered, and what      *)
(* becomes of a response between the agent and the loudspeaker.            *)
(***************************************************************************)
EXTENDS VoiceSession, SequenceLemmas, TLAPS

-----------------------------------------------------------------------------
(* The microphone.                                                         *)

\* Where run_loop stands in the pipeline only, and where a conversation of the
\* pipeline holds the microphone open.
InPipeline ==
    {"top", "begin", "capture", "arm", "bridge", "feed", "fed", "drain", "play", "playing"}
Inside == InPipeline \cup {"transcript", "announce", "agent", "join", "respond", "speak"}

MicInv ==
    /\ pipeline \in BOOLEAN /\ mic \in BOOLEAN
    /\ pc \in InPipeline => pipeline
    /\ pc = "transcribe" => ~pipeline
    /\ ~pipeline => ~mic
    /\ pc \in Inside /\ pipeline => mic
    /\ pc \in {"loop", "enter", "wake", "ended"} => ~mic

\* The microphone is closed at the start.
LEMMA InitMic == Init => MicInv
BY DEF Init, MicInv, InPipeline, Inside

\* Every step keeps the microphone with its owner.
LEMMA NextMic == MicInv /\ [Next]_vars => MicInv'
<1> SUFFICES ASSUME MicInv, [Next]_vars PROVE MicInv'
  OBVIOUS
<1> USE DEF MicInv, InPipeline, Inside, flagVars, micVars
<1>1. CASE UNCHANGED vars
  BY <1>1 DEF vars
<1>2. CASE Conversation
  <2>1. CASE RunLoop
    BY <2>1 DEF RunLoop
  <2>2. CASE RunOnce
    <3>1. pc = "enter" /\ pipeline' = pipeline
      BY <2>2 DEF RunOnce
    <3>2. CASE pipeline /\ mic' = TRUE /\ pc' = "top"
      BY <3>1, <3>2
    <3>3. CASE pc' \in {"leave", "wake"} /\ mic' = mic
      BY <3>1, <3>3
    <3>. QED BY <2>2, <3>2, <3>3 DEF RunOnce
  <2>3. CASE NextTurn
    BY <2>3 DEF NextTurn
  <2>4. CASE Wake
    <3>1. pc = "wake" /\ pipeline' = pipeline
      BY <2>4 DEF Wake
    <3>2. CASE pipeline /\ mic' = TRUE /\ pc' = "begin"
      BY <3>1, <3>2
    <3>3. CASE pc' = "leave" /\ mic' = mic
      BY <3>1, <3>3
    <3>4. CASE ~pipeline /\ pc' = "transcribe" /\ mic' = mic
      BY <3>1, <3>4
    <3>. QED BY <2>4, <3>2, <3>3, <3>4 DEF Wake
  <2>5. CASE Leave \/ DeviceRaises
    BY <2>5 DEF Leave, DeviceRaises, Raise
  <2>. QED BY <1>2, <2>1, <2>2, <2>3, <2>4, <2>5 DEF Conversation
<1>3. CASE Listen
  <2>1. CASE BeginCapture \/ CaptureEnds \/ Transcribe
    <3>1. UNCHANGED <<pipeline, mic>>
      BY <2>1 DEF BeginCapture, CaptureEnds, Transcribe
    <3>2. \/ pc = "begin" /\ pc' = "capture"
          \/ pc = "capture" /\ pc' = "transcript"
          \/ pc = "transcribe" /\ pc' \in {"leave", "transcript"}
      BY <2>1 DEF BeginCapture, CaptureEnds, Transcribe
    <3>. QED BY <3>1, <3>2
  <2>2. CASE Frame
    <3>1. pc = "capture" /\ pc' \in {"capture", "transcript"} /\ UNCHANGED <<pipeline, mic>>
      BY <2>2 DEF Frame
    <3>. QED BY <3>1
  <2>3. CASE RunControl \/ Announced \/ NoTranscript
    BY <2>3 DEF RunControl, Announced, NoTranscript
  <2>. QED BY <1>3, <2>1, <2>2, <2>3 DEF Listen
<1>4. CASE Think
  <2>1. CASE AgentRaises
    BY <2>1 DEF AgentRaises, Raise
  <2>2. CASE ~AgentRaises
    <3>1. UNCHANGED <<pipeline, mic>> /\ pc' \in {"agent", "join", "respond", "speak", "leave"}
          /\ pc \in {"transcript", "agent", "join", "respond"}
      BY <1>4, <2>2 DEF Think, CallAgent, AgentReturns, Join, Respond
    <3>. QED BY <3>1
  <2>. QED BY <2>1, <2>2
<1>5. CASE Speak
  BY <1>5 DEF Speak, PrepareSpeech, Arm, Bridge, Feed, Finish, Synthesize, Put, Drain,
              PlayChunk, ChunkEnds, Interrupted, Delivered, SpeakLegacy
<1>6. ASSUME NEW t \in Turns, Acknowledge(t) PROVE MicInv'
  BY <1>6 DEF Acknowledge
<1>7. CASE Outside
  BY <1>7 DEF Outside, Call, Bump, CancelTts, StopSink, Settle
<1>. QED BY <1>1, <1>2, <1>3, <1>4, <1>5, <1>6, <1>7 DEF Next, Session

\* While the wake-word listener has the microphone the session's stream is closed
\* and nothing is announced, between conversations no stream is open, and capture
\* waits for an open one.
THEOREM MicrophoneHandedOver == Spec => []MicrophoneIsHandedOver
<1>1. MicInv => MicrophoneIsHandedOver
  BY DEF MicInv, MicrophoneIsHandedOver, OpenStreams, InPipeline, Inside
<1>. QED BY <1>1, InitMic, NextMic, PTL DEF Spec

-----------------------------------------------------------------------------
(* The task that waits for an answer.                                      *)

\* The task named by _pending_task_id waits, unless the agent is at work on the
\* answer to it, and no call of the agent can take it for the task it creates.
PendingInv ==
    /\ turn \in 0..MaxTurns /\ pending \in 0..turn /\ serving \in 0..turn
    /\ task \in [Turns -> {"none", "running", "waiting", "finished"}]
    /\ pc = "capture" /\ capture.said # "nothing" => turn < MaxTurns
    /\ pc = "transcript" /\ transcript # "nothing" => turn < MaxTurns
    /\ pc \in {"agent", "join", "respond"} => serving # 0
    /\ pc = "agent" => serving \in {turn, pending} /\ pending < turn
    /\ pending # 0 =>
          \/ pc = "ended"
          \/ pc = "agent" /\ serving = pending
          \/ task[pending] = "waiting"

\* No task waits at the start.
LEMMA InitPending == Init => PendingInv
BY VoiceSessionAssumption DEF Init, PendingInv, NoCapture, Turns

\* Steps that leave the turns alone, and do not enter or leave the agent.
LEMMA NoTurn ==
  ASSUME PendingInv, UNCHANGED <<turn, pending, task>>,
         serving' \in {serving, 0},
         pc' \notin {"capture", "agent", "join", "respond"},
         pc \notin {"agent", "ended"},
         pc' = "transcript" /\ transcript' # "nothing" => turn < MaxTurns
  PROVE  PendingInv'
<1>1. turn \in Nat /\ serving' \in 0..turn
  BY VoiceSessionAssumption DEF PendingInv
<1>2. pending # 0 => pc = "ended" \/ task[pending] = "waiting"
  BY DEF PendingInv
<1>3. pending # 0 => pc' = "ended" \/ task[pending] = "waiting"
  BY <1>2
<1>. QED BY <1>1, <1>3 DEF PendingInv

\* A frame of the microphone lets nobody speak who has nothing left to say.
LEMMA FramePending == PendingInv /\ Frame => PendingInv'
<1> SUFFICES ASSUME PendingInv, Frame PROVE PendingInv'
  OBVIOUS
<1>1. pc = "capture" /\ UNCHANGED <<turn, pending, task, serving>>
  BY DEF Frame, turnVars
<1>2. PICK speech \in BOOLEAN, named \in BOOLEAN, said \in Utterances \cup {"nothing"} :
        /\ said = "nothing" <=> (~capture.started /\ ~speech)
        /\ capture.started => said = capture.said
        /\ ~capture.started /\ speech => turn < MaxTurns
        /\ LET c == Observed(speech, said, named)
           IN  IF Decide(c) = "end_turn"
               THEN /\ pc' = "transcript"
                    /\ transcript' \in {"nothing", said}
               ELSE /\ capture' = c /\ pc' = pc
  BY DEF Frame
<1>3. said # "nothing" => turn < MaxTurns
  BY <1>1, <1>2 DEF PendingInv
<1>4. CASE Decide(Observed(speech, said, named)) = "end_turn"
  BY <1>1, <1>2, <1>3, <1>4, NoTurn
<1>5. CASE Decide(Observed(speech, said, named)) # "end_turn"
  <2>1. pc' = "capture" /\ capture'.said = said
    BY <1>1, <1>2, <1>5 DEF Observed
  <2>. QED BY <1>1, <1>3, <2>1 DEF PendingInv
<1>. QED BY <1>4, <1>5

\* Every step keeps the pending task waiting, or the agent at work on it.
LEMMA NextPending == PendingInv /\ [Next]_vars => PendingInv'
<1> SUFFICES ASSUME PendingInv, [Next]_vars PROVE PendingInv'
  OBVIOUS
<1> USE DEF turnVars, captureVars
<1>1. CASE UNCHANGED vars
  BY <1>1 DEF vars, PendingInv
<1>2. CASE Conversation
  BY <1>2, NoTurn
     DEF Conversation, RunLoop, RunOnce, NextTurn, Wake, Leave, DeviceRaises, Raise
<1>3. CASE BeginCapture
  BY <1>3 DEF BeginCapture, PendingInv, NoCapture
<1>4. CASE Frame
  BY <1>4, FramePending
<1>5. CASE CaptureEnds
  <2>1. /\ pc = "capture" /\ transcript' \in {"nothing", capture.said} /\ pc' = "transcript"
        /\ UNCHANGED <<turn, pending, task, serving>>
    BY <1>5 DEF CaptureEnds
  <2>2. transcript' # "nothing" => turn < MaxTurns
    BY <2>1 DEF PendingInv
  <2>. QED BY <2>1, <2>2, NoTurn
<1>6. CASE Transcribe
  <2>1. /\ pc = "transcribe" /\ pc' \in {"leave", "transcript"}
        /\ UNCHANGED <<turn, pending, task, serving>>
    BY <1>6 DEF Transcribe
  <2>2. pc' = "transcript" /\ transcript' # "nothing" => turn < MaxTurns
    BY <1>6 DEF Transcribe
  <2>. QED BY <2>1, <2>2, NoTurn
<1>7. CASE RunControl \/ Announced \/ NoTranscript
  BY <1>7, NoTurn DEF RunControl, Announced, NoTranscript
<1>8. CASE CallAgent
  <2>1. /\ pc = "transcript" /\ transcript # "nothing" /\ pc' = "agent" /\ turn' = turn + 1
        /\ serving' \in {pending, turn + 1} /\ serving' # 0 /\ pending' = pending
        /\ task' = [task EXCEPT ![serving'] = "running"]
    BY <1>8 DEF CallAgent, PendingInv
  <2>2. turn < MaxTurns /\ turn \in Nat /\ pending \in 0..turn
    BY <2>1, VoiceSessionAssumption DEF PendingInv
  <2>3. serving' \in Turns
    BY <2>1, <2>2, VoiceSessionAssumption DEF Turns
  <2>. QED BY <2>1, <2>2, <2>3, VoiceSessionAssumption DEF PendingInv, Turns
<1>9. CASE AgentReturns
  <2>1. /\ pc = "agent" /\ pc' \in {"join", "respond"} /\ UNCHANGED <<turn, serving>>
        /\ \E outcome \in {"finished", "waiting"} : task' = [task EXCEPT ![serving] = outcome]
        /\ pending' = IF serving = turn THEN pending ELSE 0
    BY <1>9 DEF AgentReturns
  <2>2. pending' # 0 => pending' \in Turns \ {serving} /\ task[pending'] = "waiting"
    BY <2>1, VoiceSessionAssumption DEF PendingInv, Turns
  <2>. QED BY <2>1, <2>2, VoiceSessionAssumption DEF PendingInv, Turns
<1>10. CASE AgentRaises
  <2>1. /\ pc' = "ended" /\ UNCHANGED <<turn, pending>> /\ serving' = 0
        /\ \E s \in {"finished", "waiting"} : task' = [task EXCEPT ![serving] = s]
    BY <1>10 DEF AgentRaises, Raise
  <2>2. task' \in [Turns -> {"none", "running", "waiting", "finished"}]
    BY <2>1 DEF PendingInv
  <2>3. turn \in Nat /\ 0 \in 0..turn
    BY VoiceSessionAssumption DEF PendingInv
  <2>. QED BY <2>1, <2>2, <2>3 DEF PendingInv
<1>11. CASE Join
  BY <1>11 DEF Join, PendingInv
<1>12. CASE Respond
  <2>1. /\ pc = "respond" /\ pc' \in {"leave", "speak"} /\ UNCHANGED <<turn, task>>
        /\ serving' = 0
        /\ pending' = pending \/ (pending' = serving /\ task[serving] = "waiting")
    BY <1>12 DEF Respond, Awaiting
  <2>. QED BY <2>1 DEF PendingInv
<1>13. CASE Speak
  <2>1. /\ UNCHANGED <<turn, pending, task, serving>>
        /\ \/ pc \in {"speak", "arm", "bridge", "feed", "fed", "drain", "play", "playing"}
           \/ pc' = pc
        /\ \/ pc' \in {"arm", "bridge", "feed", "fed", "drain", "play", "playing", "top", "leave",
                       "transcribe"}
           \/ pc' = pc /\ UNCHANGED <<capture, transcript>>
    BY <1>13 DEF Speak, PrepareSpeech, Arm, Bridge, Feed, Finish, Synthesize, Put, Drain,
                 PlayChunk, ChunkEnds, Interrupted, Delivered, SpeakLegacy
  <2>. QED BY <2>1 DEF PendingInv
<1>14. ASSUME NEW t \in Turns, Acknowledge(t) PROVE PendingInv'
  BY <1>14 DEF Acknowledge, PendingInv
<1>15. CASE Outside
  <2>1. UNCHANGED <<pc, turn, pending, task, serving, capture, transcript>>
    BY <1>15 DEF Outside, Call, Bump, CancelTts, StopSink, Settle
  <2>. QED BY <2>1 DEF PendingInv
<1>. QED
  BY <1>1, <1>2, <1>3, <1>4, <1>5, <1>6, <1>7, <1>8, <1>9, <1>10, <1>11, <1>12, <1>13,
     <1>14, <1>15 DEF Next, Session, Listen, Think

\* Whatever was cancelled, asked again or answered in between, resume_agent is
\* called with a task that still waits for its answer.
THEOREM ResumesAreWanted == Spec => ResumesAWaitingTask
<1>1. ASSUME PendingInv, [Next]_vars
      PROVE  [pc = "transcript" /\ pc' = "agent" /\ serving' # turn'
                => task[serving'] = "waiting"]_vars
  <2> SUFFICES ASSUME Next, pc = "transcript", pc' = "agent", serving' # turn'
               PROVE  task[serving'] = "waiting"
    BY <1>1
  <2>1. CallAgent
    BY DEF Next, Session, Conversation, RunLoop, RunOnce, NextTurn, Wake, Leave, DeviceRaises,
           Raise, Listen, BeginCapture, Frame, CaptureEnds, Transcribe, RunControl,
           Announced, NoTranscript, Think, AgentReturns, AgentRaises, Join, Respond, Speak, PrepareSpeech,
           Arm, Bridge, Feed, Finish, Synthesize, Put, Drain, PlayChunk, ChunkEnds,
           Interrupted, Delivered, SpeakLegacy, Acknowledge, Outside, Call, Bump, CancelTts,
           StopSink, Settle
  <2>2. serving' = pending /\ pending # 0
    BY <2>1 DEF CallAgent
  <2>. QED BY <1>1, <2>2 DEF PendingInv
<1>. QED BY <1>1, InitPending, NextPending, PTL DEF Spec, ResumesAWaitingTask

-----------------------------------------------------------------------------
(* The chunks on their way to the loudspeaker.                             *)

IsSeq(q) == \E S : q \in Seq(S)

\* A sequence with one more element.
LEMMA AppendIsSeq ==
  ASSUME NEW q, IsSeq(q), NEW e
  PROVE  /\ IsSeq(Append(q, e)) /\ DOMAIN Append(q, e) = 1..(Len(q) + 1)
         /\ DOMAIN q = 1..Len(q) /\ Len(q) \in Nat
         /\ \A i \in DOMAIN q : Append(q, e)[i] = q[i]
         /\ Append(q, e)[Len(q) + 1] = e
<1>1. PICK S : q \in Seq(S)
  BY DEF IsSeq
<1> DEFINE T == S \cup {e}
<1>2. q \in Seq(T) /\ e \in T
  BY <1>1
<1> HIDE DEF T
<1>3. Append(q, e) \in Seq(T)
  BY <1>2
<1>4. IsSeq(Append(q, e))
  BY <1>3 DEF IsSeq
<1>. QED BY <1>2, <1>4

\* A sequence without its first element.
LEMMA TailIsSeq ==
  ASSUME NEW q, IsSeq(q), q # <<>>
  PROVE  /\ IsSeq(Tail(q)) /\ DOMAIN Tail(q) = 1..(Len(q) - 1)
         /\ DOMAIN q = 1..Len(q) /\ Len(q) \in Nat \ {0}
         /\ \A i \in DOMAIN Tail(q) : Tail(q)[i] = q[i + 1]
<1>1. PICK S : q \in Seq(S)
  BY DEF IsSeq
<1>2. Tail(q) \in Seq(S)
  BY <1>1
<1>3. IsSeq(Tail(q))
  BY <1>2 DEF IsSeq
<1>. QED BY <1>1, <1>3

\* The empty sequence is one.
LEMMA EmptyIsSeq == IsSeq(<<>>) /\ DOMAIN <<>> = {}
<1>1. <<>> \in Seq({})
  OBVIOUS
<1>. QED BY <1>1 DEF IsSeq

\* Every chunk of q was synthesized for the turn whose text is being spoken.
Own(q) == \A i \in DOMAIN q : q[i].turn = spoken

\* Only while a response is fed and finished is there something to synthesize,
\* and the sink then holds nothing of another one.
ChunkInv ==
    /\ sink = [stopped |-> sink.stopped, queue |-> sink.queue]
    /\ IsSeq(sink.queue) /\ IsSeq(chunks)
    /\ ready # <<>> \/ chunk # NoChunk => pc \in {"feed", "fed", "drain"}
    /\ pc \in {"feed", "fed", "drain"} => Own(sink.queue)
    /\ chunks # <<>> => pc \in {"play", "playing"}
    /\ pc = "playing" => chunks # <<>>
    /\ Own(chunks)

\* There are no chunks at the start.
LEMMA InitChunks == Init => ChunkInv
BY EmptyIsSeq DEF Init, ChunkInv, Own, NoChunk

\* Steps that leave the synthesis alone, and a sink that may have been stopped.
LEMMA SinkAlone ==
  ASSUME ChunkInv, UNCHANGED <<ready, chunk, chunks>>,
         sink' \in {sink, [stopped |-> TRUE, queue |-> <<>>], EmptySink},
         \/ UNCHANGED <<pc, spoken>>
         \/ /\ pc \notin {"feed", "fed", "drain", "play", "playing"}
            /\ pc' \notin {"feed", "fed", "drain", "playing"}
         \/ pc = "bridge" /\ pc' = "feed" /\ sink' = EmptySink
         \/ pc = "feed" /\ pc' = "fed" /\ spoken' = spoken
         \/ pc = "play" /\ pc' = "playing" /\ chunks # <<>> /\ spoken' = spoken
  PROVE  ChunkInv'
<1>1. CASE sink' = sink
  BY <1>1, EmptyIsSeq DEF ChunkInv, Own, EmptySink
<1>2. CASE sink' \in {[stopped |-> TRUE, queue |-> <<>>], EmptySink}
  BY <1>2, EmptyIsSeq DEF ChunkInv, Own, EmptySink
<1>. QED BY <1>1, <1>2

\* Nothing is left of a response that is over.
LEMMA ForgetChunks ==
  ASSUME ChunkInv, Forget, pc' \notin {"feed", "fed", "drain", "playing"},
         sink' \in {sink, [stopped |-> TRUE, queue |-> <<>>]}
  PROVE  ChunkInv'
<1>1. ready' = <<>> /\ chunk' = NoChunk /\ chunks' = <<>>
  BY DEF Forget
<1>2. sink' = [stopped |-> sink'.stopped, queue |-> sink'.queue] /\ IsSeq(sink'.queue)
  BY EmptyIsSeq DEF ChunkInv
<1>. QED BY <1>1, <1>2, EmptyIsSeq DEF ChunkInv, Own

\* Every step keeps the chunks with the response they were synthesized for.
LEMMA NextChunks == ChunkInv /\ [Next]_vars => ChunkInv'
<1> SUFFICES ASSUME ChunkInv, [Next]_vars PROVE ChunkInv'
  OBVIOUS
<1> USE DEF speechVars, streamVars
<1>1. CASE UNCHANGED vars
  BY <1>1, SinkAlone DEF vars
<1>2. CASE Conversation
  <2>1. CASE DeviceRaises
    BY <2>1, ForgetChunks DEF DeviceRaises, Raise
  <2>. QED BY <1>2, <2>1, SinkAlone DEF Conversation, RunLoop, RunOnce, NextTurn, Wake, Leave
<1>3. CASE Listen
  <2>1. UNCHANGED <<ready, chunk, chunks>>
        /\ sink' \in {sink, [stopped |-> TRUE, queue |-> <<>>]}
    BY <1>3 DEF Listen, BeginCapture, Frame, CaptureEnds, Transcribe, RunControl, Announced, CancelHere,
                NoTranscript
  <2>2. /\ pc \in {"begin", "capture", "transcribe", "transcript", "announce"}
        /\ pc' \in {"capture", "transcript", "announce", "leave", "speak"}
    BY <1>3 DEF Listen, BeginCapture, Frame, CaptureEnds, Transcribe, RunControl, Announced, NoTranscript
  <2>. QED BY <2>1, <2>2, SinkAlone
<1>4. CASE Think
  <2>1. UNCHANGED <<ready, chunk, chunks, sink>>
        /\ pc \in {"transcript", "agent", "join", "respond"}
        /\ pc' \in {"agent", "join", "respond", "leave", "speak", "ended"}
    BY <1>4 DEF Think, CallAgent, AgentReturns, AgentRaises, Raise, Join, Respond
  <2>. QED BY <2>1, SinkAlone
<1>5. CASE PrepareSpeech \/ Arm \/ Bridge \/ PlayChunk
  BY <1>5, SinkAlone DEF PrepareSpeech, Arm, Bridge, PlayChunk
<1>6. CASE Feed
  <2>1. CASE stale
    BY <1>6, <2>1, SinkAlone DEF Feed
  <2>2. CASE ~stale
    <3>1. pc = "feed" /\ UNCHANGED <<pc, chunk, chunks, sink, spoken>>
      BY <1>6, <2>2 DEF Feed
    <3>. QED BY <3>1 DEF ChunkInv, Own
  <2>. QED BY <2>1, <2>2
<1>7. CASE Finish
  <2>1. /\ pc \in {"feed", "fed"} /\ pc' \in {"fed", "drain"}
        /\ UNCHANGED <<chunk, chunks, sink, spoken>>
    BY <1>7 DEF Finish
  <2>. QED BY <2>1 DEF ChunkInv, Own
<1>8. CASE Synthesize
  <2>1. ready # <<>> /\ UNCHANGED <<pc, chunks, sink, spoken>>
    BY <1>8 DEF Synthesize
  <2>. QED BY <2>1 DEF ChunkInv, Own
<1>9. CASE Put
  <2> DEFINE new == [turn |-> spoken, says |-> chunk]
  <2>1. /\ chunk # NoChunk /\ chunk' = NoChunk /\ UNCHANGED <<pc, ready, chunks, spoken>>
        /\ sink' = [sink EXCEPT !.queue = Append(@, new)]
    BY <1>9 DEF Put
  <2>2. new.turn = spoken
    OBVIOUS
  <2> HIDE DEF new
  <2>3. sink' = [stopped |-> sink.stopped, queue |-> Append(sink.queue, new)]
    BY <2>1 DEF ChunkInv
  <2>4. Own(sink.queue) /\ IsSeq(sink.queue)
    BY <2>1 DEF ChunkInv
  <2>5. IsSeq(Append(sink.queue, new))
        /\ \A i \in DOMAIN Append(sink.queue, new) : Append(sink.queue, new)[i].turn = spoken
    BY <2>2, <2>4, AppendIsSeq DEF Own
  <2>. QED BY <2>1, <2>3, <2>5 DEF ChunkInv, Own
<1>10. CASE Drain
  <2>1. /\ pc = "drain" /\ pc' = "play" /\ chunks' = sink.queue
        /\ sink' = [sink EXCEPT !.queue = <<>>]
        /\ ready' = <<>> /\ chunk' = NoChunk /\ spoken' = spoken
    BY <1>10 DEF Drain
  <2>2. sink' = [stopped |-> sink.stopped, queue |-> <<>>]
    BY <2>1 DEF ChunkInv
  <2>. QED BY <2>1, <2>2, EmptyIsSeq DEF ChunkInv, Own
<1>11. CASE ChunkEnds
  <2>1. /\ pc = "playing" /\ pc' = "play" /\ chunks' = Tail(chunks)
        /\ UNCHANGED <<ready, chunk, sink, spoken>>
    BY <1>11 DEF ChunkEnds
  <2>2. IsSeq(chunks) /\ chunks # <<>> /\ Own(chunks)
    BY <2>1 DEF ChunkInv
  <2>3. IsSeq(chunks') /\ \A i \in DOMAIN chunks' : chunks'[i].turn = spoken
    BY <2>1, <2>2, TailIsSeq DEF Own
  <2>. QED BY <2>1, <2>3 DEF ChunkInv, Own
<1>12. CASE Interrupted
  BY <1>12, ForgetChunks DEF Interrupted
<1>13. CASE Delivered
  BY <1>13, ForgetChunks DEF Delivered
<1>14. CASE SpeakLegacy
  BY <1>14, ForgetChunks DEF SpeakLegacy, CancelHere
<1>15. ASSUME NEW t \in Turns, Acknowledge(t) PROVE ChunkInv'
  BY <1>15, SinkAlone DEF Acknowledge
<1>16. CASE Outside
  BY <1>16, SinkAlone DEF Outside, Call, Bump, CancelTts, StopSink, Settle
<1>. QED
  BY <1>1, <1>2, <1>3, <1>4, <1>5, <1>6, <1>7, <1>8, <1>9, <1>10, <1>11, <1>12, <1>13,
     <1>14, <1>15, <1>16 DEF Next, Session, Speak

\* What is played was synthesized for the response being spoken: a chunk that a
\* synthesis puts into a sink after another thread has stopped it never reaches a
\* later response.
THEOREM ChunksAreOwn == Spec => []Own(chunks)
<1>1. ChunkInv => Own(chunks)
  BY DEF ChunkInv
<1>. QED BY <1>1, InitChunks, NextChunks, PTL DEF Spec
-----------------------------------------------------------------------------
(* What the segmenter keeps of a text.                                     *)

\* The sentences an accumulator holds, done and pending, and what each of them
\* is made of: pieces of P.
Accs(P) == [done : Seq(Seq(P)), pending : Seq(P)]
Held(acc) == Cat(FlattenSeq(acc.done), acc.pending)
Filled(acc) == \A i \in DOMAIN acc.done : acc.done[i] # <<>>

\* The text that the two parts of an accumulator make, with one more piece.
LEMMA ExtendParts ==
  ASSUME NEW P, NEW done \in Seq(Seq(P)), NEW part \in Seq(P), NEW one \in Seq(P)
  PROVE  /\ Cat(FlattenSeq(done), Cat(part, one)) = Cat(Cat(FlattenSeq(done), part), one)
         /\ part = <<>> => Cat(FlattenSeq(done), one) = Cat(Cat(FlattenSeq(done), part), one)
<1>1. FlattenSeq(done) \in Seq(P)
  BY FlattenType
<1>2. Cat(FlattenSeq(done), Cat(part, one)) = Cat(Cat(FlattenSeq(done), part), one)
  BY <1>1, CatAssociative
<1>3. part = <<>> => Cat(FlattenSeq(done), part) = FlattenSeq(done)
  BY <1>1, CatType
<1>. QED BY <1>2, <1>3

\* An extended accumulator that is made of two parts.
LEMMA ExtendedAcc ==
  ASSUME NEW P, NEW acc \in Accs(P), NEW piece \in P,
         NEW d \in Seq(Seq(P)), NEW p \in Seq(P), p # <<>>,
         Extend(acc, piece) = [done |-> d, pending |-> p],
         Cat(FlattenSeq(d), p) = Cat(Held(acc), <<piece>>),
         Filled(acc) => \A i \in DOMAIN d : d[i] # <<>>
  PROVE  /\ Extend(acc, piece) \in Accs(P)
         /\ Held(Extend(acc, piece)) = Cat(Held(acc), <<piece>>)
         /\ Filled(acc) => Filled(Extend(acc, piece))
         /\ Extend(acc, piece).pending # <<>>
<1> DEFINE new == Extend(acc, piece)
<1>1. new \in Accs(P) /\ new.done = d /\ new.pending = p
  BY DEF Accs
<1>2. Held(new) = Cat(FlattenSeq(d), p)
  BY <1>1 DEF Held
<1>3. Filled(acc) => Filled(new)
  BY <1>1 DEF Filled
<1>. QED BY <1>1, <1>2, <1>3

\* A piece that is added comes last, and no sentence is made of nothing.
LEMMA ExtendKeeps ==
  ASSUME NEW P, NEW acc \in Accs(P), NEW piece \in P
  PROVE  /\ Extend(acc, piece) \in Accs(P)
         /\ Held(Extend(acc, piece)) = Cat(Held(acc), <<piece>>)
         /\ Filled(acc) => Filled(Extend(acc, piece))
         /\ Extend(acc, piece).pending # <<>>
<1> DEFINE done == acc.done
           part == acc.pending
           one == <<piece>>
           more == Append(part, piece)
           all == Append(done, part)
<1> HIDE DEF done, part, one, more, all
<1>1. /\ done \in Seq(Seq(P)) /\ part \in Seq(P)
      /\ one \in Seq(P) /\ one # <<>>
  BY DEF Accs, done, part, one
<1>2. /\ Held(acc) = Cat(FlattenSeq(done), part)
      /\ Filled(acc) <=> \A i \in DOMAIN done : done[i] # <<>>
      /\ Extend(acc, piece) =
           IF part # <<>> /\ Length(part) < MinSentence
           THEN [done |-> done, pending |-> more]
           ELSE [done |-> IF part = <<>> THEN done ELSE all, pending |-> one]
  BY DEF Held, Filled, Extend, done, part, one, more, all
<1>3. /\ Cat(FlattenSeq(done), Cat(part, one)) = Cat(Held(acc), one)
      /\ part = <<>> => Cat(FlattenSeq(done), one) = Cat(Held(acc), one)
  BY <1>1, <1>2, ExtendParts
<1>4. more \in Seq(P) /\ more # <<>> /\ more = Cat(part, one)
  BY <1>1, AppendFacts, AppendIsConcat DEF Cat, more, one
<1>5. /\ all \in Seq(Seq(P))
      /\ part # <<>> /\ Filled(acc) => \A i \in DOMAIN all : all[i] # <<>>
  BY <1>1, <1>2, AppendFacts DEF all
<1>6. FlattenSeq(all) = Held(acc)
  BY <1>1, <1>2, FlattenAppend DEF Cat, all
<1> DEFINE IsExtended(d, p) ==
      /\ Extend(acc, piece) = [done |-> d, pending |-> p]
      /\ d \in Seq(Seq(P)) /\ p \in Seq(P) /\ p # <<>>
      /\ Cat(FlattenSeq(d), p) = Cat(Held(acc), one)
      /\ Filled(acc) => \A i \in DOMAIN d : d[i] # <<>>
<1>7. CASE part # <<>> /\ Length(part) < MinSentence
  <2>1. IsExtended(done, more)
    BY <1>1, <1>2, <1>3, <1>4, <1>7
  <2>. QED BY <2>1, ExtendedAcc DEF one
<1>8. CASE part = <<>>
  <2>1. IsExtended(done, one)
    BY <1>1, <1>2, <1>3, <1>8
  <2>. QED BY <2>1, ExtendedAcc DEF one
<1>9. CASE part # <<>> /\ ~(Length(part) < MinSentence)
  <2>1. IsExtended(all, one)
    BY <1>1, <1>2, <1>5, <1>6, <1>9
  <2>. QED BY <2>1, ExtendedAcc DEF one
<1>. QED BY <1>7, <1>8, <1>9

\* Splitting loses nothing and changes no order: flattened, the sentences are the
\* text again, and none of them is empty (segment).
LEMMA SegmentKeeps ==
  ASSUME NEW P, NEW q \in Seq(P)
  PROVE  /\ Segment(q) \in Seq(Seq(P))
         /\ FlattenSeq(Segment(q)) = q
         /\ \A i \in DOMAIN Segment(q) : Segment(q)[i] # <<>>
         /\ q # <<>> => Segment(q) # <<>>
<1> DEFINE l == Len(q)
<1> HIDE DEF l
<1>1. l \in Nat /\ q \in [1 .. l -> P]
  BY DEF l
<1> DEFINE Is(f) == f = [i \in 0 .. l |-> IF i = 0 THEN NoSentence ELSE Extend(f[i - 1], q[i])]
<1>2. NoSentence \in Accs(P)
  BY DEF NoSentence, Accs
<1>3. \E f : Is(f)
  <2> DEFINE adds == [i \in 1 .. l |-> [a \in Accs(P) |-> Extend(a, q[i])]]
  <2>1. \A i \in 1 .. l, a \in Accs(P) : Extend(a, q[i]) \in Accs(P)
    BY <1>1, ExtendKeeps
  <2>2. adds \in [1 .. l -> [Accs(P) -> Accs(P)]]
    BY <2>1
  <2>3. \A i \in 1 .. l, a \in Accs(P) : adds[i][a] = Extend(a, q[i])
    OBVIOUS
  <2> HIDE DEF adds
  <2>4. PICK f : Iterates(f, l, Accs(P), NoSentence, adds)
    BY <1>1, <1>2, <2>2, Iteration
  <2>5. ASSUME NEW i \in 0 .. l
        PROVE  f[i] = IF i = 0 THEN NoSentence ELSE Extend(f[i - 1], q[i])
    <3>1. CASE i = 0
      BY <2>4, <3>1 DEF Iterates
    <3>2. CASE i # 0
      <4>1. i \in 1 .. l /\ i - 1 \in 0 .. l
        BY <1>1, <3>2
      <4>. QED BY <2>3, <2>4, <3>2, <4>1 DEF Iterates
    <3>. QED BY <3>1, <3>2
  <2>6. f = [i \in 0 .. l |-> f[i]]
    BY <2>4 DEF Iterates
  <2>7. Is(f)
    BY <2>5, <2>6
  <2>. QED BY <2>7
<1> DEFINE F == CHOOSE f : Is(f)
<1>4. Is(F)
  BY <1>3, Zenon
<1>5. Segment(q) = IF F[l].pending = <<>> THEN F[l].done ELSE Append(F[l].done, F[l].pending)
  BY DEF Segment, l
<1> HIDE DEF F
<1> DEFINE Good == {i \in 0 .. l : /\ F[i] \in Accs(P) /\ Filled(F[i])
                                   /\ Held(F[i]) = SubSeq(q, 1, i)
                                   /\ i # 0 => F[i].pending # <<>>}
<1>6. 0 \in Good
  <2>1. F[0] = NoSentence /\ 0 \in 0 .. l
    BY <1>1, <1>4
  <2>2. Held(NoSentence) = <<>> /\ Filled(NoSentence)
    BY FlattenEmpty, CatEmpty DEF Held, NoSentence, Filled
  <2>3. SubSeq(q, 1, 0) = <<>>
    OBVIOUS
  <2>. QED BY <1>2, <2>1, <2>2, <2>3
<1>7. ASSUME NEW i \in 0 .. l - 1, i \in Good PROVE i + 1 \in Good
  <2>1. i + 1 \in 0 .. l /\ i + 1 # 0 /\ (i + 1) - 1 = i /\ i + 1 \in 1 .. l /\ q[i + 1] \in P
    BY <1>1
  <2>2. F[i + 1] = Extend(F[i], q[i + 1])
    BY <1>4, <2>1
  <2>3. F[i] \in Accs(P) /\ Filled(F[i]) /\ Held(F[i]) = SubSeq(q, 1, i)
    BY <1>7
  <2>4. /\ F[i + 1] \in Accs(P) /\ Filled(F[i + 1]) /\ F[i + 1].pending # <<>>
        /\ Held(F[i + 1]) = Cat(SubSeq(q, 1, i), <<q[i + 1]>>)
    BY <2>1, <2>2, <2>3, ExtendKeeps
  <2>5. SubSeq(q, 1, i + 1) = Cat(SubSeq(q, 1, i), <<q[i + 1]>>)
    BY <2>1 DEF l, Cat
  <2>. QED BY <2>1, <2>4, <2>5
<1> HIDE DEF Good
<1>8. \A i \in 0 .. l : i \in Good
  BY <1>1, <1>6, <1>7, Induction
<1>9. /\ F[l] \in Accs(P) /\ Filled(F[l]) /\ Held(F[l]) = q
      /\ l # 0 => F[l].pending # <<>>
  <2>1. l \in Good /\ SubSeq(q, 1, l) = q
    BY <1>1, <1>8 DEF l
  <2>. QED BY <2>1 DEF Good
<1> DEFINE done == F[l].done
           part == F[l].pending
<1> HIDE DEF done, part
<1>10. /\ done \in Seq(Seq(P)) /\ part \in Seq(P)
       /\ Cat(FlattenSeq(done), part) = q
       /\ \A i \in DOMAIN done : done[i] # <<>>
       /\ l # 0 => part # <<>>
       /\ Segment(q) = IF part = <<>> THEN done ELSE Append(done, part)
  BY <1>5, <1>9 DEF Accs, Filled, Held, done, part
<1>11. FlattenSeq(done) \in Seq(P)
  BY <1>10, FlattenType
<1>12. l = 0 => q = <<>>
  BY DEF l
<1>13. CASE part = <<>>
  <2>1. FlattenSeq(done) = q
    BY <1>10, <1>11, <1>13, CatType
  <2>. QED BY <1>10, <1>12, <1>13, <2>1
<1>14. CASE part # <<>>
  <2>1. FlattenSeq(Append(done, part)) = q
    BY <1>10, FlattenAppend DEF Cat
  <2>2. /\ Append(done, part) \in Seq(Seq(P)) /\ Append(done, part) # <<>>
        /\ \A i \in DOMAIN Append(done, part) : Append(done, part)[i] # <<>>
    BY <1>10, <1>14, AppendFacts
  <2>. QED BY <1>10, <1>14, <2>1, <2>2
<1>. QED BY <1>13, <1>14
\* The deltas of a response are its sentences in order, and none is empty.
LEMMA DeltasKeep ==
  ASSUME NEW D, NEW s \in Seq(D)
  PROVE  /\ Deltas(s) \in Seq(Seq(Seq(D)))
         /\ Spoken(Spoken(Deltas(s))) = s
         /\ \A i \in DOMAIN Deltas(s) : Deltas(s)[i] # <<>>
BY SinglesFlatten, SegmentKeeps DEF Deltas, Spoken

\* Two texts whose ends run into one piece.
LEMMA RunIntoEachOther ==
  ASSUME NEW D, NEW front \in Seq(Seq(D)), NEW b \in Seq(D), NEW d \in Seq(D),
         NEW rest \in Seq(Seq(D))
  PROVE  /\ Cat(Append(front, Cat(b, d)), rest) \in Seq(Seq(D))
         /\ Cat(Append(front, Cat(b, d)), rest) # <<>>
         /\ FlattenSeq(Cat(Append(front, Cat(b, d)), rest))
              = Cat(Cat(FlattenSeq(front), b), Cat(d, FlattenSeq(rest)))
<1> DEFINE e == Cat(b, d)
<1>1. e \in Seq(D)
  BY CatType
<1>2. FlattenSeq(front) \in Seq(D) /\ FlattenSeq(rest) \in Seq(D)
  BY FlattenType
<1>3. Cat(Cat(FlattenSeq(front), e), FlattenSeq(rest))
        = Cat(Cat(FlattenSeq(front), b), Cat(d, FlattenSeq(rest)))
  BY <1>2, Regroup
<1> HIDE DEF e
<1>4. /\ Append(front, e) \in Seq(Seq(D))
      /\ Cat(Append(front, e), rest) \in Seq(Seq(D)) /\ Cat(Append(front, e), rest) # <<>>
  BY <1>1, AppendNotEmpty DEF Cat
<1>5. FlattenSeq(Append(front, e)) = Cat(FlattenSeq(front), e)
  BY <1>1, FlattenAppend DEF Cat
<1>6. FlattenSeq(Cat(Append(front, e), rest)) = Cat(FlattenSeq(Append(front, e)), FlattenSeq(rest))
  BY <1>4, FlattenConcat DEF Cat
<1>. QED BY <1>3, <1>4, <1>5, <1>6 DEF e

\* What one more delta makes of the buffer.
LEMMA JoinedKeeps ==
  ASSUME NEW D, NEW buffer \in Seq(Seq(D)), NEW delta \in Seq(Seq(D)), delta # <<>>
  PROVE  /\ Joined(buffer, delta) \in Seq(Seq(D)) /\ Joined(buffer, delta) # <<>>
         /\ FlattenSeq(Joined(buffer, delta)) = Cat(FlattenSeq(buffer), FlattenSeq(delta))
<1>1. CASE buffer = <<>>
  <2>1. FlattenSeq(delta) \in Seq(D)
    BY FlattenType
  <2>2. Joined(buffer, delta) = delta
    BY <1>1 DEF Joined
  <2>3. Cat(FlattenSeq(buffer), FlattenSeq(delta)) = FlattenSeq(delta)
    BY <1>1, <2>1, FlattenEmpty, CatType
  <2>. QED BY <2>2, <2>3
<1>2. CASE buffer # <<>>
  <2> DEFINE front == Front(buffer)
             b == Last(buffer)
             d == Head(delta)
             rest == Tail(delta)
  <2> HIDE DEF front, b, d, rest
  <2>1. front \in Seq(Seq(D)) /\ b \in Seq(D)
    BY <1>2 DEF Front, Last, front, b
  <2>2. d \in Seq(D) /\ rest \in Seq(Seq(D))
    BY DEF d, rest
  <2>3. /\ FlattenSeq(buffer) = FlattenSeq(front) \o b
        /\ FlattenSeq(delta) = d \o FlattenSeq(rest)
    BY <1>2, FlattenFrontLast, FlattenHeadTail DEF front, b, d, rest
  <2>4. Joined(buffer, delta) = Cat(Append(front, Cat(b, d)), rest)
    <3>1. Joined(buffer, delta) = (front \o <<b \o d>>) \o rest
      BY <1>2 DEF Joined, front, b, d, rest
    <3>2. b \o d \in Seq(D)
      BY <2>1, <2>2, ConcatProperties
    <3>3. Append(front, b \o d) = front \o <<b \o d>>
      BY <2>1, <3>2, AppendIsConcat
    <3>. QED BY <3>1, <3>3 DEF Cat
  <2>5. FlattenSeq(Cat(Append(front, Cat(b, d)), rest))
           = Cat(Cat(FlattenSeq(front), b), Cat(d, FlattenSeq(rest)))
    BY <2>1, <2>2, RunIntoEachOther
  <2>6. /\ Cat(Append(front, Cat(b, d)), rest) \in Seq(Seq(D))
        /\ Cat(Append(front, Cat(b, d)), rest) # <<>>
    BY <2>1, <2>2, RunIntoEachOther
  <2>. QED BY <2>3, <2>4, <2>5, <2>6 DEF Cat
<1>. QED BY <1>1, <1>2

\* feed: what is ready and what stays in the buffer is what was in the buffer and
\* the delta.
LEMMA FeedKeeps ==
  ASSUME NEW D, NEW buffer \in Seq(Seq(D)), NEW delta \in Seq(Seq(D)), delta # <<>>
  PROVE  /\ ReadyAfter(buffer, delta) \in Seq(Seq(Seq(D)))
         /\ BufferAfter(buffer, delta) \in Seq(Seq(D))
         /\ Cat(Spoken(Spoken(ReadyAfter(buffer, delta))), Spoken(BufferAfter(buffer, delta)))
              = Cat(Spoken(buffer), Spoken(delta))
<1> DEFINE joined == Joined(buffer, delta)
           all == Segment(joined)
<1>1. /\ joined \in Seq(Seq(D)) /\ joined # <<>>
      /\ FlattenSeq(joined) = Cat(FlattenSeq(buffer), FlattenSeq(delta))
  BY JoinedKeeps
<1> HIDE DEF joined
<1>2. all \in Seq(Seq(Seq(D))) /\ FlattenSeq(all) = joined /\ all # <<>>
  BY <1>1, SegmentKeeps
<1>3. ReadyAfter(buffer, delta) = Front(all) /\ BufferAfter(buffer, delta) = Last(all)
  BY DEF ReadyAfter, BufferAfter, joined
<1> HIDE DEF all
<1>4. Front(all) \in Seq(Seq(Seq(D))) /\ Last(all) \in Seq(Seq(D))
  BY <1>2 DEF Front, Last
<1>5. joined = FlattenSeq(Front(all)) \o Last(all)
  BY <1>2, FlattenFrontLast
<1>6. FlattenSeq(Front(all)) \in Seq(Seq(D))
  BY <1>4, FlattenType
<1>7. FlattenSeq(joined) = Cat(FlattenSeq(FlattenSeq(Front(all))), FlattenSeq(Last(all)))
  BY <1>4, <1>5, <1>6, FlattenConcat DEF Cat
<1>. QED BY <1>1, <1>3, <1>4, <1>7 DEF Spoken

-----------------------------------------------------------------------------
(* A response on its way from the stream to the ear.                       *)

\* What q says, it says in the order of t, and nothing twice.
InOrder(q, t) ==
    /\ \A i \in DOMAIN q : \E k \in DOMAIN t : t[k] = q[i]
    /\ \A i, j \in DOMAIN q, k, l \in DOMAIN t :
            i < j /\ q[i] = t[k] /\ q[j] = t[l] => k < l

\* A text in which every sentence stands once is in its own order.
LEMMA OwnOrder ==
  ASSUME NEW D, NEW t \in Seq(D), \A i, j \in DOMAIN t : t[i] = t[j] => i = j
  PROVE  InOrder(t, t)
BY DEF InOrder

\* What is left out in the middle does not disturb the order.
LEMMA LeaveOut ==
  ASSUME NEW D, NEW t, NEW x \in Seq(D), NEW y \in Seq(D), NEW z \in Seq(D),
         InOrder(Cat(x, Cat(y, z)), t)
  PROVE  InOrder(Cat(x, z), t)
<1> DEFINE q == Cat(x, Cat(y, z))
           r == Cat(x, z)
           at(i) == IF i <= Len(x) THEN i ELSE i + Len(y)
<1>1. /\ Len(x) \in Nat /\ Len(y) \in Nat /\ Len(z) \in Nat
      /\ DOMAIN q = 1 .. Len(x) + Len(y) + Len(z)
      /\ DOMAIN r = 1 .. Len(x) + Len(z)
      /\ \A i \in DOMAIN r : at(i) \in DOMAIN q /\ q[at(i)] = r[i]
  <2>1. Len(x) \in Nat /\ Len(y) \in Nat /\ Len(z) \in Nat
    OBVIOUS
  <2> DEFINE yz == Cat(y, z)
  <2> HIDE DEF yz
  <2>2. /\ yz \in Seq(D) /\ Len(yz) = Len(y) + Len(z)
        /\ \A i \in 1 .. Len(z) : yz[i + Len(y)] = z[i]
    BY DEF Cat, yz
  <2> HIDE DEF q, r
  <2>3. /\ DOMAIN q = 1 .. Len(x) + Len(yz)
        /\ \A i \in 1 .. Len(x) + Len(yz) : q[i] = IF i <= Len(x) THEN x[i] ELSE yz[i - Len(x)]
    BY <2>2 DEF Cat, yz, q
  <2>4. /\ DOMAIN r = 1 .. Len(x) + Len(z)
        /\ \A i \in 1 .. Len(x) + Len(z) : r[i] = IF i <= Len(x) THEN x[i] ELSE z[i - Len(x)]
    BY DEF Cat, r
  <2>5. ASSUME NEW i \in DOMAIN r PROVE at(i) \in DOMAIN q /\ q[at(i)] = r[i]
    <3>1. CASE i <= Len(x)
      BY <2>1, <2>2, <2>3, <2>4, <3>1
    <3>2. CASE ~(i <= Len(x))
      <4>1. /\ i - Len(x) \in 1 .. Len(z) /\ i + Len(y) \in 1 .. Len(x) + Len(yz)
            /\ ~(i + Len(y) <= Len(x)) /\ (i + Len(y)) - Len(x) = (i - Len(x)) + Len(y)
        <5>1. i \in 1 .. Len(x) + Len(z) /\ Len(yz) = Len(y) + Len(z)
          BY <2>2, <2>4
        <5>. QED BY <2>1, <3>2, <5>1
      <4>2. q[i + Len(y)] = yz[(i - Len(x)) + Len(y)] /\ r[i] = z[i - Len(x)]
        BY <2>3, <2>4, <3>2, <4>1
      <4>. QED BY <2>2, <2>3, <3>2, <4>1, <4>2
    <3>. QED BY <3>1, <3>2
  <2>. QED BY <2>1, <2>2, <2>3, <2>4, <2>5
<1>2. \A i, j \in DOMAIN r : i < j => at(i) < at(j)
  BY <1>1
<1> HIDE DEF q, r, at
<1>3. InOrder(q, t)
  BY DEF q
<1>4. \A i \in DOMAIN r : \E k \in DOMAIN t : t[k] = r[i]
  BY <1>1, <1>3 DEF InOrder
<1>5. ASSUME NEW i \in DOMAIN r, NEW j \in DOMAIN r, NEW k \in DOMAIN t, NEW l \in DOMAIN t,
             i < j, r[i] = t[k], r[j] = t[l]
      PROVE  k < l
  BY <1>1, <1>2, <1>3, <1>5 DEF InOrder
<1>6. InOrder(r, t)
  BY <1>4, <1>5 DEF InOrder
<1>. QED BY <1>6 DEF r

\* The beginning of what is in order is in order.
LEMMA Beginning ==
  ASSUME NEW D, NEW t, NEW x \in Seq(D), NEW y \in Seq(D), InOrder(Cat(x, y), t)
  PROVE  InOrder(x, t)
<1>1. <<>> \in Seq(D) /\ Cat(y, <<>>) = y /\ Cat(x, <<>>) = x
  BY CatType
<1>. QED BY <1>1, LeaveOut

\* y2 may stand for y1 at the end of whatever is in order.
Thins(D, t, y2, y1) ==
    \A x \in Seq(D) : InOrder(Cat(x, y1), t) => InOrder(Cat(x, y2), t)

\* A part is kept, or it is dropped.
LEMMA KeepOrDrop ==
  ASSUME NEW D, NEW t, NEW p1 \in Seq(D), NEW p2 \in {p1, <<>>},
         NEW y1 \in Seq(D), NEW y2 \in Seq(D), Thins(D, t, y2, y1)
  PROVE  /\ Thins(D, t, Cat(p2, y2), Cat(p1, y1))
         /\ p2 \in Seq(D) /\ Cat(p1, y1) \in Seq(D) /\ Cat(p2, y2) \in Seq(D)
<1>0. <<>> \in Seq(D)
  OBVIOUS
<1>1. p2 \in Seq(D) /\ Cat(p1, y1) \in Seq(D) /\ Cat(p2, y2) \in Seq(D)
  <2>1. p2 \in Seq(D)
    BY <1>0
  <2>. QED BY <2>1, CatType
<1>2. ASSUME NEW x \in Seq(D), InOrder(Cat(x, Cat(p1, y1)), t)
      PROVE  InOrder(Cat(x, Cat(p2, y2)), t)
  <2>1. Cat(x, p1) \in Seq(D) /\ Cat(x, Cat(p1, y1)) = Cat(Cat(x, p1), y1)
    BY CatType, CatAssociative
  <2>2. InOrder(Cat(Cat(x, p1), y2), t)
    BY <1>2, <2>1 DEF Thins
  <2>3. Cat(Cat(x, p1), y2) = Cat(x, Cat(p1, y2))
    BY CatAssociative
  <2>4. InOrder(Cat(x, Cat(p1, y2)), t)
    BY <2>2, <2>3
  <2>5. InOrder(Cat(x, y2), t)
    BY <2>4, LeaveOut
  <2>6. Cat(<<>>, y2) = y2
    BY CatType
  <2>7. CASE p2 = p1
    BY <2>4, <2>7
  <2>8. CASE p2 = <<>>
    BY <2>5, <2>6, <2>8
  <2>. QED BY <2>7, <2>8
<1>. QED BY <1>1, <1>2 DEF Thins

\* The parts of a response: heard, ahead of the player, in the sink, on its way
\* into it, ready to be synthesized, in the buffer, and still to come.
Chain(h, a, q, c, r, b, d) == Cat(h, Cat(a, Cat(q, Cat(c, Cat(r, Cat(b, d))))))

Parts(D, h, a, q, c, r, b, d) == {h, a, q, c, r, b, d} \subseteq Seq(D)

\* A chain of parts is a sequence, of the elements of its parts.
LEMMA ChainType ==
  ASSUME NEW D, NEW h, NEW a, NEW q, NEW c, NEW r, NEW b, NEW d,
         Parts(D, h, a, q, c, r, b, d)
  PROVE  /\ Chain(h, a, q, c, r, b, d) \in Seq(D)
         /\ ToSet(Chain(h, a, q, c, r, b, d))
              = ToSet(h) \cup ToSet(a) \cup ToSet(q) \cup ToSet(c) \cup ToSet(r) \cup ToSet(b) \cup ToSet(d)
<1>0. /\ h \in Seq(D) /\ a \in Seq(D) /\ q \in Seq(D) /\ c \in Seq(D)
      /\ r \in Seq(D) /\ b \in Seq(D) /\ d \in Seq(D)
  BY DEF Parts
<1>1. /\ Cat(b, d) \in Seq(D) /\ Cat(r, Cat(b, d)) \in Seq(D)
      /\ Cat(c, Cat(r, Cat(b, d))) \in Seq(D) /\ Cat(q, Cat(c, Cat(r, Cat(b, d)))) \in Seq(D)
      /\ Cat(a, Cat(q, Cat(c, Cat(r, Cat(b, d))))) \in Seq(D)
  <2>1. Cat(b, d) \in Seq(D)
    BY <1>0, CatType
  <2>2. Cat(r, Cat(b, d)) \in Seq(D)
    BY <1>0, <2>1, CatType
  <2>3. Cat(c, Cat(r, Cat(b, d))) \in Seq(D)
    BY <1>0, <2>2, CatType
  <2>4. Cat(q, Cat(c, Cat(r, Cat(b, d)))) \in Seq(D)
    BY <1>0, <2>3, CatType
  <2>. QED BY <1>0, <2>1, <2>2, <2>3, <2>4, CatType
<1>2. ToSet(Cat(b, d)) = ToSet(b) \cup ToSet(d)
  BY <1>0, CatSet
<1>3. ToSet(Cat(r, Cat(b, d))) = ToSet(r) \cup ToSet(Cat(b, d))
  BY <1>0, <1>1, CatSet
<1>4. ToSet(Cat(c, Cat(r, Cat(b, d)))) = ToSet(c) \cup ToSet(Cat(r, Cat(b, d)))
  BY <1>0, <1>1, CatSet
<1>5. ToSet(Cat(q, Cat(c, Cat(r, Cat(b, d))))) = ToSet(q) \cup ToSet(Cat(c, Cat(r, Cat(b, d))))
  BY <1>0, <1>1, CatSet
<1>6. ToSet(Cat(a, Cat(q, Cat(c, Cat(r, Cat(b, d))))))
        = ToSet(a) \cup ToSet(Cat(q, Cat(c, Cat(r, Cat(b, d)))))
  BY <1>0, <1>1, CatSet
<1>7. /\ Chain(h, a, q, c, r, b, d) \in Seq(D)
      /\ ToSet(Chain(h, a, q, c, r, b, d))
           = ToSet(h) \cup ToSet(Cat(a, Cat(q, Cat(c, Cat(r, Cat(b, d))))))
  BY <1>0, <1>1, CatType, CatSet DEF Chain
<1>. QED BY <1>2, <1>3, <1>4, <1>5, <1>6, <1>7

\* Every part is kept or dropped: what was in order stays in order.
LEMMA ChainThins ==
  ASSUME NEW D, NEW t, NEW h, NEW a, NEW q, NEW c, NEW r, NEW b, NEW d,
         Parts(D, h, a, q, c, r, b, d),
         NEW q2 \in {q, <<>>}, NEW c2 \in {c, <<>>}, NEW r2 \in {r, <<>>},
         NEW b2 \in {b, <<>>}, NEW d2 \in {d, <<>>},
         InOrder(Chain(h, a, q, c, r, b, d), t)
  PROVE  InOrder(Chain(h, a, q2, c2, r2, b2, d2), t)
<1>13. /\ h \in Seq(D) /\ a \in Seq(D) /\ q \in Seq(D) /\ c \in Seq(D)
      /\ r \in Seq(D) /\ b \in Seq(D) /\ d \in Seq(D)
  BY DEF Parts
<1>0. <<>> \in Seq(D) /\ Thins(D, t, <<>>, <<>>)
  BY DEF Thins
<1>1. d2 \in Seq(D) /\ Cat(d2, <<>>) = d2 /\ Cat(d, <<>>) = d
  <2>1. d2 \in Seq(D)
    BY <1>13, <1>0
  <2>. QED BY <1>13, <2>1, CatType
<1>2. Thins(D, t, d2, d)
  <2>1. Thins(D, t, Cat(d2, <<>>), Cat(d, <<>>))
    BY <1>13, <1>0, KeepOrDrop
  <2>. QED BY <1>13, <1>1, <2>1
<1>3. /\ Thins(D, t, Cat(b2, d2), Cat(b, d)) /\ Cat(b, d) \in Seq(D) /\ Cat(b2, d2) \in Seq(D)
  BY <1>13, <1>1, <1>2, KeepOrDrop
<1> DEFINE y1 == Cat(b, d)
           y2 == Cat(b2, d2)
<1> HIDE DEF y1, y2
<1>4. Thins(D, t, y2, y1) /\ y1 \in Seq(D) /\ y2 \in Seq(D)
  BY <1>13, <1>3 DEF y1, y2
<1>5. /\ Thins(D, t, Cat(r2, y2), Cat(r, y1)) /\ Cat(r, y1) \in Seq(D) /\ Cat(r2, y2) \in Seq(D)
  BY <1>13, <1>4, KeepOrDrop
<1> DEFINE x1 == Cat(r, y1)
           x2 == Cat(r2, y2)
<1> HIDE DEF x1, x2
<1>6. Thins(D, t, x2, x1) /\ x1 \in Seq(D) /\ x2 \in Seq(D)
  BY <1>13, <1>5 DEF x1, x2
<1>7. /\ Thins(D, t, Cat(c2, x2), Cat(c, x1)) /\ Cat(c, x1) \in Seq(D) /\ Cat(c2, x2) \in Seq(D)
  BY <1>13, <1>6, KeepOrDrop
<1> DEFINE w1 == Cat(c, x1)
           w2 == Cat(c2, x2)
<1> HIDE DEF w1, w2
<1>8. Thins(D, t, w2, w1) /\ w1 \in Seq(D) /\ w2 \in Seq(D)
  BY <1>13, <1>7 DEF w1, w2
<1>9. /\ Thins(D, t, Cat(q2, w2), Cat(q, w1)) /\ Cat(q, w1) \in Seq(D) /\ Cat(q2, w2) \in Seq(D)
  BY <1>13, <1>8, KeepOrDrop
<1> DEFINE v1 == Cat(q, w1)
           v2 == Cat(q2, w2)
<1> HIDE DEF v1, v2
<1>10. Thins(D, t, v2, v1) /\ v1 \in Seq(D) /\ v2 \in Seq(D)
  BY <1>13, <1>9 DEF v1, v2
<1>11. Cat(h, a) \in Seq(D) /\ Cat(h, Cat(a, v1)) = Cat(Cat(h, a), v1)
         /\ Cat(h, Cat(a, v2)) = Cat(Cat(h, a), v2)
  BY <1>13, <1>10, CatType, CatAssociative
<1>12. Chain(h, a, q, c, r, b, d) = Cat(h, Cat(a, v1)) /\ Chain(h, a, q2, c2, r2, b2, d2) = Cat(h, Cat(a, v2))
  BY DEF Chain, v1, v2, w1, w2, x1, x2, y1, y2
<1>. QED BY <1>13, <1>10, <1>11, <1>12 DEF Thins

-----------------------------------------------------------------------------
(* What a response is made of on its way, and where run_loop stands.       *)

\* What the chunks of a queue say.
Says(q) == FlattenSeq([i \in DOMAIN q |-> q[i].says])

\* What is still ahead of the player: a chunk counts as heard when it starts.
Ahead == IF pc = "playing" THEN Says(Tail(chunks)) ELSE Says(chunks)

Line ==
    Chain(heard, Ahead, Says(sink.queue), chunk, Spoken(Spoken(ready)), Spoken(tts.buffer),
          Spoken(Spoken(deltas)))

Speaking == {"speak", "arm", "bridge", "feed", "fed", "drain", "play", "playing"}
Staged == {"feed", "fed", "drain", "play", "playing"}

\* The parts of a response have their types, and each part is empty where it has
\* not begun or is done with.
StageInv ==
    /\ turn \in 0..MaxTurns /\ last \in 0..MaxTurns
    /\ text \in [Turns -> Texts \cup {<<>>}]
    /\ pc \in Speaking => spoken \in Turns
    /\ heard \in Seq(DOMAIN Size) /\ chunk \in Seq(DOMAIN Size)
    /\ deltas \in Seq(Seq(Seq(DOMAIN Size))) /\ \A i \in DOMAIN deltas : deltas[i] # <<>>
    /\ ready \in Seq(Seq(Seq(DOMAIN Size)))
    /\ tts = [cancelled |-> tts.cancelled, buffer |-> tts.buffer]
    /\ tts.buffer \in Seq(Seq(DOMAIN Size))
    /\ sink.queue \in Seq(Chunk) /\ chunks \in Seq(Chunk)
    /\ pc \notin {"play", "playing"} => heard = <<>>
    /\ pc \notin Staged => mute = {}
    /\ pc \in {"fed", "drain", "play", "playing"} => deltas = <<>>
    /\ pc \in {"drain", "play", "playing"} => tts.buffer = <<>>
    /\ pc \in {"play", "playing"} => sink.queue = <<>>

\* From the first delta to the last chunk, what was heard and what is on its way
\* is the response, in its order; all of it, unless it was called off.
LineInv ==
    pc \in Staged =>
        /\ InOrder(Line, text[spoken])
        /\ ~tts.cancelled /\ ~sink.stopped => ToSet(Line) \cup mute = ToSet(text[spoken])

\* What a queue of chunks says is a sequence of sentences.
LEMMA SaysFacts ==
  ASSUME NEW q \in Seq(Chunk)
  PROVE  /\ [i \in DOMAIN q |-> q[i].says] \in Seq(Seq(DOMAIN Size))
         /\ Says(q) \in Seq(DOMAIN Size)
<1>1. [i \in DOMAIN q |-> q[i].says] \in Seq(Seq(DOMAIN Size))
  <2>1. Len(q) \in Nat /\ DOMAIN q = 1 .. Len(q) /\ \A i \in 1 .. Len(q) : q[i].says \in Seq(DOMAIN Size)
    <3>1. \A i \in 1 .. Len(q) : q[i] \in Chunk
      OBVIOUS
    <3>. QED BY <3>1 DEF Chunk
  <2>. QED BY <2>1
<1>. QED BY <1>1, FlattenType DEF Says

\* No chunk says nothing.
LEMMA SaysEmpty == Says(<<>>) = <<>>
<1>1. [i \in DOMAIN <<>> |-> <<>>[i].says] = <<>>
  OBVIOUS
<1>. QED BY <1>1, FlattenEmpty DEF Says

\* A chunk that is added is said last.
LEMMA SaysAppend ==
  ASSUME NEW q \in Seq(Chunk), NEW c \in Chunk
  PROVE  Says(Append(q, c)) = Cat(Says(q), c.says)
<1> DEFINE r == Append(q, c)
           p == [i \in DOMAIN q |-> q[i].says]
           s == [i \in DOMAIN r |-> r[i].says]
<1>1. /\ r \in Seq(Chunk) /\ Len(q) \in Nat /\ DOMAIN q = 1 .. Len(q) /\ DOMAIN r = 1 .. Len(q) + 1
      /\ \A i \in 1 .. Len(q) : r[i] = q[i]
      /\ r[Len(q) + 1] = c
  BY AppendProperties
<1> HIDE DEF r
<1>2. r \in Seq(Chunk) /\ c.says \in Seq(DOMAIN Size)
  BY <1>1 DEF Chunk, r
<1>3. p \in Seq(Seq(DOMAIN Size)) /\ s \in Seq(Seq(DOMAIN Size))
  BY <1>2, SaysFacts
<1>4. Len(p) = Len(q) /\ Len(s) = Len(q) + 1 /\ \A i \in 1 .. Len(q) : s[i] = p[i]
  BY <1>1, <1>3 DEF r
<1>5. s[Len(q) + 1] = c.says
  BY <1>1 DEF r
<1>6. Says(r) = FlattenSeq(s) /\ Says(q) = FlattenSeq(p)
  BY DEF Says
<1> HIDE DEF p, s
<1>7. p \in Seq(Seq(DOMAIN Size)) /\ s \in Seq(Seq(DOMAIN Size)) /\ Len(s) = Len(p) + 1
      /\ s[Len(p) + 1] = c.says /\ \A i \in 1 .. Len(p) : s[i] = p[i]
  BY <1>3, <1>4, <1>5 DEF p, s
<1>8. s = Append(p, c.says)
  BY <1>2, <1>7, OneMore
<1>9. FlattenSeq(Append(p, c.says)) = Cat(FlattenSeq(p), c.says)
  BY <1>2, <1>7, FlattenAppend DEF Cat
<1>10. Says(r) = FlattenSeq(s) /\ Says(q) = FlattenSeq(p)
  BY <1>6 DEF p, s
<1>. QED BY <1>8, <1>9, <1>10 DEF r

\* The next chunk is said first.
LEMMA SaysHeadTail ==
  ASSUME NEW q \in Seq(Chunk), q # <<>>
  PROVE  /\ Head(q).says \in Seq(DOMAIN Size) /\ Tail(q) \in Seq(Chunk)
         /\ Says(q) = Cat(Head(q).says, Says(Tail(q)))
<1> DEFINE p == [i \in DOMAIN q |-> q[i].says]
           s == [i \in DOMAIN Tail(q) |-> Tail(q)[i].says]
<1> HIDE DEF p, s
<1>1. Head(q).says \in Seq(DOMAIN Size) /\ Tail(q) \in Seq(Chunk)
  <2>1. Head(q) \in Chunk /\ Tail(q) \in Seq(Chunk)
    OBVIOUS
  <2>. QED BY <2>1 DEF Chunk
<1>2. p \in Seq(Seq(DOMAIN Size)) /\ s \in Seq(Seq(DOMAIN Size))
  BY <1>1, SaysFacts DEF p, s
<1>3. Len(p) = Len(q) /\ p # <<>> /\ Head(p) = Head(q).says
  BY <1>2 DEF p
<1>4. s = Tail(p)
  <2>1. Len(s) = Len(q) - 1 /\ Len(q) \in Nat \ {0} /\ \A i \in 1 .. Len(q) - 1 : s[i] = q[i + 1].says
    BY <1>1, <1>2 DEF s
  <2>2. \A i \in 1 .. Len(q) : p[i] = q[i].says
    BY DEF p
  <2>3. /\ Tail(p) \in Seq(Seq(DOMAIN Size)) /\ Len(Tail(p)) = Len(q) - 1
        /\ \A i \in 1 .. Len(q) - 1 : Tail(p)[i] = p[i + 1]
    BY <1>2, <1>3
  <2>4. \A i \in 1 .. Len(q) - 1 : Tail(p)[i] = s[i]
    BY <2>1, <2>2, <2>3
  <2> DEFINE w == Tail(p)
  <2> HIDE DEF w
  <2>5. w \in Seq(Seq(DOMAIN Size)) /\ Len(w) = Len(s) /\ \A i \in 1 .. Len(s) : w[i] = s[i]
    BY <2>1, <2>3, <2>4 DEF w
  <2>6. w = s
    BY <1>2, <2>5, SameElements
  <2>. QED BY <2>6 DEF w
<1>5. FlattenSeq(p) = Cat(Head(p), FlattenSeq(Tail(p)))
  BY <1>2, <1>3, FlattenHeadTail DEF Cat
<1>6. Says(q) = FlattenSeq(p) /\ Says(Tail(q)) = FlattenSeq(s)
  BY DEF Says, p, s
<1>. QED BY <1>1, <1>3, <1>4, <1>5, <1>6

\* Steps that move a part on leave the response as it is: a chunk starts to play.
LEMMA ChainPlays ==
  ASSUME NEW D, NEW h, NEW a, NEW q, NEW c, NEW r, NEW b, NEW d,
         NEW x \in Seq(D), Parts(D, h, Cat(x, a), q, c, r, b, d), a \in Seq(D)
  PROVE  Chain(Cat(h, x), a, q, c, r, b, d) = Chain(h, Cat(x, a), q, c, r, b, d)
<1>0. h \in Seq(D) /\ q \in Seq(D) /\ c \in Seq(D) /\ r \in Seq(D) /\ b \in Seq(D) /\ d \in Seq(D)
  BY DEF Parts
<1> DEFINE y == Cat(q, Cat(c, Cat(r, Cat(b, d))))
<1> HIDE DEF y
<1>1. y \in Seq(D)
  <2>1. Cat(b, d) \in Seq(D)
    BY <1>0, CatType
  <2>2. Cat(r, Cat(b, d)) \in Seq(D)
    BY <1>0, <2>1, CatType
  <2>3. Cat(c, Cat(r, Cat(b, d))) \in Seq(D)
    BY <1>0, <2>2, CatType
  <2>. QED BY <1>0, <2>3, CatType DEF y
<1>2. Chain(Cat(h, x), a, q, c, r, b, d) = Cat(Cat(h, x), Cat(a, y))
  BY DEF Chain, y
<1>3. Chain(h, Cat(x, a), q, c, r, b, d) = Cat(h, Cat(Cat(x, a), y))
  BY DEF Chain, y
<1>4. Cat(Cat(x, a), y) = Cat(x, Cat(a, y)) /\ Cat(a, y) \in Seq(D)
  BY <1>0, <1>1, CatType, CatAssociative
<1>5. Cat(Cat(h, x), Cat(a, y)) = Cat(h, Cat(x, Cat(a, y)))
  BY <1>0, <1>4, CatAssociative
<1>. QED BY <1>2, <1>3, <1>4, <1>5

\* The sink is drained.
LEMMA ChainDrains ==
  ASSUME NEW D, NEW h, NEW q, NEW c, NEW r, NEW b, NEW d,
         Parts(D, h, <<>>, q, c, r, b, d)
  PROVE  Chain(h, q, <<>>, c, r, b, d) = Chain(h, <<>>, q, c, r, b, d)
<1>0. h \in Seq(D) /\ q \in Seq(D) /\ c \in Seq(D) /\ r \in Seq(D) /\ b \in Seq(D) /\ d \in Seq(D)
  BY DEF Parts
<1> DEFINE y == Cat(c, Cat(r, Cat(b, d)))
<1> HIDE DEF y
<1>1. y \in Seq(D)
  <2>1. Cat(b, d) \in Seq(D)
    BY <1>0, CatType
  <2>2. Cat(r, Cat(b, d)) \in Seq(D)
    BY <1>0, <2>1, CatType
  <2>. QED BY <1>0, <2>2, CatType DEF y
<1>2. Cat(<<>>, y) = y /\ Cat(q, y) \in Seq(D)
  BY <1>0, <1>1, CatType
<1>3. Cat(<<>>, Cat(q, y)) = Cat(q, y)
  BY <1>0, <1>2, CatType
<1>4. Chain(h, q, <<>>, c, r, b, d) = Cat(h, Cat(q, Cat(<<>>, y)))
  BY DEF Chain, y
<1>5. Chain(h, <<>>, q, c, r, b, d) = Cat(h, Cat(<<>>, Cat(q, y)))
  BY DEF Chain, y
<1>. QED BY <1>2, <1>3, <1>4, <1>5

\* A chunk is put into the sink.
LEMMA ChainPuts ==
  ASSUME NEW D, NEW h, NEW a, NEW q, NEW c, NEW r, NEW b, NEW d,
         Parts(D, h, a, q, c, r, b, d)
  PROVE  Chain(h, a, Cat(q, c), <<>>, r, b, d) = Chain(h, a, q, c, r, b, d)
<1>0. h \in Seq(D) /\ q \in Seq(D) /\ c \in Seq(D) /\ r \in Seq(D) /\ b \in Seq(D) /\ d \in Seq(D)
  BY DEF Parts
<1> DEFINE y == Cat(r, Cat(b, d))
<1> HIDE DEF y
<1>1. y \in Seq(D)
  <2>1. Cat(b, d) \in Seq(D)
    BY <1>0, CatType
  <2>. QED BY <1>0, <2>1, CatType DEF y
<1>2. Cat(<<>>, y) = y /\ Cat(Cat(q, c), y) = Cat(q, Cat(c, y))
  BY <1>0, <1>1, CatType, CatAssociative
<1>3. Chain(h, a, Cat(q, c), <<>>, r, b, d) = Cat(h, Cat(a, Cat(Cat(q, c), Cat(<<>>, y))))
  BY DEF Chain, y
<1>4. Chain(h, a, q, c, r, b, d) = Cat(h, Cat(a, Cat(q, Cat(c, y))))
  BY DEF Chain, y
<1>. QED BY <1>2, <1>3, <1>4

\* A sentence is synthesized.
LEMMA ChainSynthesizes ==
  ASSUME NEW D, NEW h, NEW a, NEW q, NEW x \in Seq(D), NEW r \in Seq(D), NEW b, NEW d,
         Parts(D, h, a, q, <<>>, Cat(x, r), b, d)
  PROVE  Chain(h, a, q, x, r, b, d) = Chain(h, a, q, <<>>, Cat(x, r), b, d)
<1>0. b \in Seq(D) /\ d \in Seq(D)
  BY DEF Parts
<1> DEFINE y == Cat(b, d)
<1> HIDE DEF y
<1>1. y \in Seq(D)
  BY <1>0, CatType DEF y
<1>2. Cat(Cat(x, r), y) = Cat(x, Cat(r, y)) /\ Cat(x, r) \in Seq(D)
  BY <1>0, <1>1, CatType, CatAssociative
<1>3. Cat(Cat(x, r), y) \in Seq(D)
  BY <1>0, <1>1, <1>2, CatType
<1>4. Cat(<<>>, Cat(Cat(x, r), y)) = Cat(Cat(x, r), y)
  BY <1>3, CatType
<1>5. Chain(h, a, q, x, r, b, d) = Cat(h, Cat(a, Cat(q, Cat(x, Cat(r, y)))))
  BY DEF Chain, y
<1>6. Chain(h, a, q, <<>>, Cat(x, r), b, d) = Cat(h, Cat(a, Cat(q, Cat(<<>>, Cat(Cat(x, r), y)))))
  BY DEF Chain, y
<1>. QED BY <1>2, <1>4, <1>5, <1>6

\* The buffer is flushed.
LEMMA ChainFlushes ==
  ASSUME NEW D, NEW h, NEW a, NEW q, NEW c, NEW b \in Seq(D), NEW d \in Seq(D)
  PROVE  Chain(h, a, q, c, b, <<>>, d) = Chain(h, a, q, c, <<>>, b, d)
<1>1. Cat(<<>>, d) = d /\ Cat(b, d) \in Seq(D)
  BY CatType
<1>2. Cat(<<>>, Cat(b, d)) = Cat(b, d)
  BY <1>1, CatType
<1>. QED BY <1>1, <1>2 DEF Chain

\* A delta is fed.
LEMMA ChainFeeds ==
  ASSUME NEW D, NEW h, NEW a, NEW q, NEW c, NEW r \in Seq(D), NEW b \in Seq(D),
         NEW b2 \in Seq(D), NEW d \in Seq(D), NEW x \in Seq(D), Cat(r, b2) = Cat(b, x)
  PROVE  Chain(h, a, q, c, r, b2, d) = Chain(h, a, q, c, <<>>, b, Cat(x, d))
<1>1. Cat(r, Cat(b2, d)) = Cat(Cat(r, b2), d) /\ Cat(b, Cat(x, d)) = Cat(Cat(b, x), d)
  BY CatAssociative
<1>2. Cat(x, d) \in Seq(D)
  BY CatType
<1>3. Cat(b, Cat(x, d)) \in Seq(D)
  BY <1>2, CatType
<1>4. Cat(<<>>, Cat(b, Cat(x, d))) = Cat(b, Cat(x, d))
  BY <1>3, CatType
<1>. QED BY <1>1, <1>4 DEF Chain

\* The whole response is still to come.
LEMMA ChainWhole ==
  ASSUME NEW D, NEW d \in Seq(D)
  PROVE  Chain(<<>>, <<>>, <<>>, <<>>, <<>>, <<>>, d) = d
BY CatType DEF Chain

\* All of it is heard.
LEMMA ChainHeard ==
  ASSUME NEW D, NEW h \in Seq(D)
  PROVE  Chain(h, <<>>, <<>>, <<>>, <<>>, <<>>, <<>>) = h
<1>1. Cat(<<>>, <<>>) = <<>> /\ Cat(h, <<>>) = h
  BY CatType, CatEmpty
<1>. QED BY <1>1 DEF Chain

\* A response is a sequence of sentences, and no sentence stands in it twice.
LEMMA ResponseType ==
  ASSUME StageInv, pc \in Speaking
  PROVE  /\ text[spoken] \in Seq(DOMAIN Size)
         /\ \A i, j \in DOMAIN text[spoken] : text[spoken][i] = text[spoken][j] => i = j
<1>1. text[spoken] \in Texts \cup {<<>>}
  BY DEF StageInv
<1>2. /\ <<>> \in Seq(DOMAIN Size)
      /\ \A i, j \in DOMAIN <<>> : <<>>[i] = <<>>[j] => i = j
  OBVIOUS
<1>. QED BY <1>1, <1>2, VoiceSessionAssumption

\* The first of some parts that are not empty, and the others.
LEMMA FilledTail ==
  ASSUME NEW S, NEW q \in Seq(Seq(S)), q # <<>>, \A i \in DOMAIN q : q[i] # <<>>
  PROVE  /\ Head(q) \in Seq(S) /\ Head(q) # <<>> /\ Tail(q) \in Seq(Seq(S))
         /\ \A i \in DOMAIN Tail(q) : Tail(q)[i] # <<>>
OBVIOUS

\* Nothing is on its way at the start.
LEMMA InitStage == Init => StageInv
BY VoiceSessionAssumption DEF Init, StageInv, NoChunk, Speaking, Staged

\* Steps that leave a response alone, and a synthesis that may have been called
\* off or started again.
LEMMA StageAlone ==
  ASSUME StageInv, UNCHANGED <<heard, chunk, deltas, ready, chunks, mute>>,
         tts' \in {tts, [cancelled |-> TRUE, buffer |-> <<>>], [cancelled |-> FALSE, buffer |-> <<>>]},
         sink' \in {sink, [stopped |-> TRUE, queue |-> <<>>], EmptySink},
         turn' \in 0..MaxTurns, last' \in 0..MaxTurns,
         text' \in [Turns -> Texts \cup {<<>>}],
         pc' \in Speaking => spoken' \in Turns,
         pc' = pc \/ (pc \notin Staged /\ pc' \notin Staged)
  PROVE  StageInv'
<1>1. /\ tts' = [cancelled |-> tts'.cancelled, buffer |-> tts'.buffer]
      /\ tts'.buffer \in {tts.buffer, <<>>}
  <2>1. CASE tts' = tts
    BY <2>1 DEF StageInv
  <2>2. CASE tts' # tts
    <3>1. PICK c \in BOOLEAN : tts' = [cancelled |-> c, buffer |-> <<>>]
      BY <2>2
    <3>. QED BY <3>1
  <2>. QED BY <2>1, <2>2
<1>2. sink'.queue \in {sink.queue, <<>>}
  BY DEF EmptySink
<1>3. tts'.buffer \in Seq(Seq(DOMAIN Size)) /\ sink'.queue \in Seq(Chunk)
  <2>1. <<>> \in Seq(Seq(DOMAIN Size)) /\ <<>> \in Seq(Chunk)
    OBVIOUS
  <2>. QED BY <1>1, <1>2, <2>1 DEF StageInv
<1>4. CASE pc' = pc
  BY <1>1, <1>2, <1>3, <1>4 DEF StageInv
<1>5. CASE pc \notin Staged /\ pc' \notin Staged
  BY <1>1, <1>2, <1>3, <1>5 DEF StageInv, Staged
<1>. QED BY <1>4, <1>5

\* Nothing is left of a response that is over.
LEMMA StageOver ==
  ASSUME StageInv, Forget, pc' \notin Speaking, UNCHANGED <<turn, text>>,
         last' \in 0..MaxTurns,
         tts' \in {tts, [cancelled |-> TRUE, buffer |-> <<>>]},
         sink' \in {sink, [stopped |-> TRUE, queue |-> <<>>]}
  PROVE  StageInv'
<1>1. /\ <<>> \in Seq(DOMAIN Size) /\ <<>> \in Seq(Seq(Seq(DOMAIN Size)))
      /\ <<>> \in Seq(Seq(DOMAIN Size)) /\ <<>> \in Seq(Chunk)
  OBVIOUS
<1>2. /\ tts' = [cancelled |-> tts'.cancelled, buffer |-> tts'.buffer]
      /\ tts'.buffer \in Seq(Seq(DOMAIN Size)) /\ sink'.queue \in Seq(Chunk)
  <2>1. /\ tts' = [cancelled |-> tts'.cancelled, buffer |-> tts'.buffer]
        /\ tts'.buffer \in {tts.buffer, <<>>}
    <3>1. CASE tts' = tts
      BY <3>1 DEF StageInv
    <3>2. CASE tts' = [cancelled |-> TRUE, buffer |-> <<>>]
      BY <3>2
    <3>. QED BY <3>1, <3>2
  <2>2. sink'.queue \in {sink.queue, <<>>}
    OBVIOUS
  <2>. QED BY <1>1, <2>1, <2>2 DEF StageInv
<1>3. /\ heard' = <<>> /\ chunk' = <<>> /\ deltas' = <<>> /\ ready' = <<>> /\ chunks' = <<>>
      /\ mute' = {}
  BY DEF Forget, NoChunk
<1>4. \A i \in DOMAIN <<>> : deltas'[i] # <<>>
  OBVIOUS
<1>. QED BY <1>1, <1>2, <1>3, <1>4 DEF StageInv, Speaking, Staged

\* Every step keeps the types of the parts, and empty what has not begun or is done
\* with.
LEMMA NextStage == StageInv /\ PendingInv /\ ChunkInv /\ [Next]_vars => StageInv'
<1> SUFFICES ASSUME StageInv, PendingInv, ChunkInv, [Next]_vars PROVE StageInv'
  OBVIOUS
<1> USE DEF speechVars, streamVars, turnVars
<1>0. /\ turn \in 0..MaxTurns /\ last \in 0..MaxTurns
      /\ text \in [Turns -> Texts \cup {<<>>}] /\ 0 \in 0..MaxTurns
      /\ pc \in Speaking => spoken \in Turns
  BY VoiceSessionAssumption DEF StageInv
<1>1. CASE UNCHANGED vars
  BY <1>0, <1>1, StageAlone DEF vars
<1>2. CASE Conversation
  <2>1. CASE DeviceRaises
    BY <1>0, <2>1, StageOver DEF DeviceRaises, Raise, Speaking
  <2>2. CASE ~DeviceRaises
    <3>1. /\ pc \in {"loop", "enter", "top", "wake", "leave"}
          /\ pc' \in {"ended", "enter", "top", "wake", "leave", "begin", "transcribe", "loop"}
      BY <1>2, <2>2 DEF Conversation, RunLoop, RunOnce, NextTurn, Wake, Leave
    <3>2. UNCHANGED <<turn, text, heard, chunk, deltas, ready, chunks, mute, tts, sink>>
          /\ last' \in {last, 0}
      BY <1>2, <2>2 DEF Conversation, RunLoop, RunOnce, NextTurn, Wake, Leave
    <3>. QED BY <1>0, <3>1, <3>2, StageAlone DEF Speaking, Staged
  <2>. QED BY <2>1, <2>2
<1>3. CASE Listen
  <2>1. /\ pc \in {"begin", "capture", "transcribe", "transcript", "announce"}
        /\ pc' \in {"capture", "transcript", "announce", "leave", "speak"}
    BY <1>3 DEF Listen, BeginCapture, Frame, CaptureEnds, Transcribe, RunControl, Announced, NoTranscript
  <2>2. UNCHANGED <<turn, text, last, heard, chunk, deltas, ready, chunks, mute>>
    BY <1>3 DEF Listen, BeginCapture, Frame, CaptureEnds, Transcribe, RunControl, Announced, NoTranscript
  <2>3. /\ tts' \in {tts, [cancelled |-> TRUE, buffer |-> <<>>]}
        /\ sink' \in {sink, [stopped |-> TRUE, queue |-> <<>>]}
    BY <1>3 DEF Listen, BeginCapture, Frame, CaptureEnds, Transcribe, RunControl, Announced, CancelHere,
                NoTranscript
  <2>4. pc' = "speak" => spoken' \in Turns
    <3>1. CASE NoTranscript
      BY <1>0, <3>1, VoiceSessionAssumption DEF NoTranscript, Turns
    <3>2. CASE ~NoTranscript
      BY <1>3, <2>1, <3>2
         DEF Listen, BeginCapture, Frame, CaptureEnds, Transcribe, RunControl, Announced
    <3>. QED BY <3>1, <3>2
  <2>. QED BY <1>0, <2>1, <2>2, <2>3, <2>4, StageAlone DEF Speaking, Staged
<1>4. CASE Think
  <2>1. /\ pc \in {"transcript", "agent", "join", "respond"}
        /\ pc' \in {"agent", "join", "respond", "leave", "speak", "ended"}
    BY <1>4 DEF Think, CallAgent, AgentReturns, AgentRaises, Raise, Join, Respond
  <2>2. UNCHANGED <<heard, chunk, deltas, ready, chunks, mute, tts, sink>> /\ last' \in {last, 0}
    BY <1>4 DEF Think, CallAgent, AgentReturns, AgentRaises, Raise, Join, Respond
  <2>3. turn' \in 0..MaxTurns
    <3>1. CASE CallAgent
      BY <1>0, <3>1, VoiceSessionAssumption DEF CallAgent, PendingInv
    <3>2. CASE ~CallAgent
      BY <1>0, <1>4, <3>2 DEF Think, AgentReturns, AgentRaises, Join, Respond
    <3>. QED BY <3>1, <3>2
  <2>4. text' \in [Turns -> Texts \cup {<<>>}]
    <3>1. CASE AgentReturns
      <4>1. PICK says \in Texts : text' = [text EXCEPT ![turn] = says]
        BY <3>1 DEF AgentReturns
      <4>. QED BY <1>0, <4>1
    <3>2. CASE ~AgentReturns
      BY <1>0, <1>4, <3>2 DEF Think, CallAgent, AgentRaises, Join, Respond
    <3>. QED BY <3>1, <3>2
  <2>5. pc' = "speak" => spoken' \in Turns
    <3>1. CASE Respond
      <4>1. pc = "respond" /\ (pc' = "speak" => spoken' = turn)
        BY <3>1 DEF Respond
      <4>2. serving \in 0..turn /\ serving # 0
        BY <4>1 DEF PendingInv
      <4>. QED BY <1>0, <4>1, <4>2, VoiceSessionAssumption DEF Turns
    <3>2. CASE ~Respond
      BY <1>4, <3>2 DEF Think, CallAgent, AgentReturns, AgentRaises, Raise, Join
    <3>. QED BY <3>1, <3>2
  <2>. QED BY <1>0, <2>1, <2>2, <2>3, <2>4, <2>5, StageAlone DEF Speaking, Staged
<1>5. CASE PrepareSpeech
  <2>1. /\ pc = "speak" /\ pc' = "arm" /\ heard' = <<>> /\ mute' = {}
        /\ UNCHANGED <<turn, text, last, spoken, chunk, deltas, ready, chunks>>
        /\ tts' = [cancelled |-> FALSE, buffer |-> <<>>] /\ sink' = EmptySink
    BY <1>5 DEF PrepareSpeech
  <2>2. UNCHANGED <<heard, mute>>
    BY <2>1 DEF StageInv, Staged
  <2>. QED BY <1>0, <2>1, <2>2, StageAlone DEF Speaking, Staged
<1>6. CASE Arm
  BY <1>0, <1>6, StageAlone DEF Arm, Speaking, Staged
<1>7. CASE Bridge
  <2>1. /\ pc = "bridge" /\ pc' = "feed" /\ deltas' = Deltas(text[spoken])
        /\ UNCHANGED <<turn, text, last, spoken, chunk, ready, chunks, heard, mute>>
        /\ tts' = [cancelled |-> FALSE, buffer |-> <<>>] /\ sink' = [stopped |-> FALSE, queue |-> <<>>]
    BY <1>7 DEF Bridge, EmptySink
  <2>2. text[spoken] \in Seq(DOMAIN Size)
    BY <2>1, ResponseType DEF Speaking
  <2>3. deltas' \in Seq(Seq(Seq(DOMAIN Size))) /\ \A i \in DOMAIN deltas' : deltas'[i] # <<>>
    BY <2>1, <2>2, DeltasKeep
  <2>4. <<>> \in Seq(Seq(DOMAIN Size)) /\ <<>> \in Seq(Chunk)
    OBVIOUS
  <2>. QED BY <2>1, <2>3, <2>4 DEF StageInv, Speaking, Staged
<1>8. CASE Feed
  <2>0. pc = "feed" /\ deltas # <<>> /\ UNCHANGED <<turn, text, last, spoken, chunk, chunks, heard, mute>>
    BY <1>8 DEF Feed
  <2>1. CASE stale
    <3>1. /\ tts' = [cancelled |-> TRUE, buffer |-> <<>>] /\ sink' = [stopped |-> TRUE, queue |-> <<>>]
          /\ deltas' = <<>> /\ pc' = "fed" /\ ready' = ready
      BY <1>8, <2>1 DEF Feed
    <3>2. /\ <<>> \in Seq(Seq(DOMAIN Size)) /\ <<>> \in Seq(Chunk) /\ <<>> \in Seq(Seq(Seq(DOMAIN Size)))
          /\ \A i \in DOMAIN <<>> : deltas'[i] # <<>>
      OBVIOUS
    <3>. QED BY <2>0, <3>1, <3>2 DEF StageInv, Speaking, Staged
  <2>2. CASE ~stale
    <3>1. /\ ready' = ReadyAfter(tts.buffer, Head(deltas))
          /\ tts' = [tts EXCEPT !.buffer = BufferAfter(@, Head(deltas))]
          /\ deltas' = Tail(deltas) /\ UNCHANGED <<sink, pc>>
      BY <1>8, <2>2 DEF Feed
    <3>2. /\ Head(deltas) \in Seq(Seq(DOMAIN Size)) /\ Head(deltas) # <<>>
          /\ Tail(deltas) \in Seq(Seq(Seq(DOMAIN Size)))
          /\ \A i \in DOMAIN Tail(deltas) : Tail(deltas)[i] # <<>>
      BY <2>0, FilledTail DEF StageInv
    <3>3. tts.buffer \in Seq(Seq(DOMAIN Size)) /\ tts = [cancelled |-> tts.cancelled, buffer |-> tts.buffer]
      BY DEF StageInv
    <3>4. /\ ready' \in Seq(Seq(Seq(DOMAIN Size)))
          /\ BufferAfter(tts.buffer, Head(deltas)) \in Seq(Seq(DOMAIN Size))
      BY <3>1, <3>2, <3>3, FeedKeeps
    <3>5. tts' = [cancelled |-> tts.cancelled, buffer |-> BufferAfter(tts.buffer, Head(deltas))]
      BY <3>1, <3>3
    <3>. QED BY <2>0, <3>1, <3>2, <3>4, <3>5 DEF StageInv, Speaking, Staged
  <2>. QED BY <2>1, <2>2
<1>9. CASE Finish
  <2>1. /\ \/ pc = "feed" /\ deltas = <<>> /\ pc' = "fed"
           \/ pc = "fed" /\ pc' = "drain"
        /\ ready' = IF tts.buffer = <<>> \/ tts.cancelled THEN <<>> ELSE <<tts.buffer>>
        /\ tts' = [tts EXCEPT !.buffer = <<>>]
        /\ UNCHANGED <<turn, text, last, spoken, chunk, chunks, heard, mute, deltas, sink>>
    BY <1>9 DEF Finish
  <2>2. tts.buffer \in Seq(Seq(DOMAIN Size)) /\ tts = [cancelled |-> tts.cancelled, buffer |-> tts.buffer]
    BY DEF StageInv
  <2>3. tts' = [cancelled |-> tts.cancelled, buffer |-> <<>>]
    BY <2>1, <2>2
  <2>4. <<>> \in Seq(Seq(DOMAIN Size)) /\ ready' \in Seq(Seq(Seq(DOMAIN Size)))
    <3> DEFINE b == tts.buffer
    <3> HIDE DEF b
    <3>1. /\ <<b>> \in Seq(Seq(Seq(DOMAIN Size))) /\ <<>> \in Seq(Seq(Seq(DOMAIN Size)))
          /\ <<>> \in Seq(Seq(DOMAIN Size))
      BY <2>2 DEF b
    <3>2. ready' \in {<<>>, <<b>>}
      BY <2>1 DEF b
    <3>. QED BY <3>1, <3>2
  <2>. QED BY <2>1, <2>3, <2>4 DEF StageInv, Speaking, Staged
<1>10. CASE Synthesize
  <2>1. /\ ready # <<>>
        /\ UNCHANGED <<pc, turn, text, last, spoken, chunks, heard, deltas, sink, tts>>
        /\ \/ ready' = <<>> /\ UNCHANGED <<chunk, mute>>
           \/ ready' = Tail(ready) /\ chunk' = Spoken(Head(ready)) /\ UNCHANGED mute
           \/ ready' = Tail(ready) /\ UNCHANGED chunk
    BY <1>10 DEF Synthesize
  <2>2. pc \in {"feed", "fed", "drain"}
    BY <2>1 DEF ChunkInv
  <2>3. /\ <<>> \in Seq(Seq(Seq(DOMAIN Size))) /\ Tail(ready) \in Seq(Seq(Seq(DOMAIN Size)))
        /\ Head(ready) \in Seq(Seq(DOMAIN Size))
    BY <2>1 DEF StageInv
  <2>4. Spoken(Head(ready)) \in Seq(DOMAIN Size)
    BY <2>3, FlattenType DEF Spoken
  <2>. QED BY <2>1, <2>2, <2>3, <2>4 DEF StageInv, Speaking, Staged
<1>11. CASE Put
  <2> DEFINE new == [turn |-> spoken, says |-> chunk]
  <2>1. /\ chunk # NoChunk /\ chunk' = <<>>
        /\ UNCHANGED <<pc, turn, text, last, spoken, ready, chunks, heard, mute, deltas, tts>>
        /\ sink' = [sink EXCEPT !.queue = Append(@, new)]
    BY <1>11 DEF Put, NoChunk
  <2>2. pc \in {"feed", "fed", "drain"}
    BY <2>1 DEF ChunkInv
  <2>3. new \in Chunk
    BY <1>0, <2>2 DEF StageInv, Chunk, Speaking
  <2> HIDE DEF new
  <2>4. sink'.queue = Append(sink.queue, new)
    BY <2>1 DEF ChunkInv
  <2>5. sink'.queue \in Seq(Chunk) /\ <<>> \in Seq(DOMAIN Size)
    BY <2>3, <2>4 DEF StageInv
  <2>. QED BY <2>1, <2>2, <2>5 DEF StageInv, Speaking, Staged
<1>12. CASE Drain
  <2>1. /\ pc = "drain" /\ pc' = "play" /\ chunks' = sink.queue /\ sink' = [sink EXCEPT !.queue = <<>>]
        /\ UNCHANGED <<turn, text, last, spoken, chunk, ready, heard, mute, deltas, tts>>
    BY <1>12 DEF Drain
  <2>2. sink'.queue = <<>> /\ <<>> \in Seq(Chunk)
    BY <2>1 DEF ChunkInv
  <2>. QED BY <2>1, <2>2 DEF StageInv, Speaking, Staged
<1>13. CASE PlayChunk
  <2>1. /\ pc = "play" /\ pc' = "playing" /\ chunks # <<>> /\ heard' = heard \o Head(chunks).says
        /\ UNCHANGED <<turn, text, last, spoken, chunk, chunks, ready, mute, deltas, tts, sink>>
    BY <1>13 DEF PlayChunk
  <2>2. heard \in Seq(DOMAIN Size) /\ Head(chunks).says \in Seq(DOMAIN Size)
    BY <2>1, SaysHeadTail DEF StageInv
  <2>3. heard' \in Seq(DOMAIN Size)
    BY <2>1, <2>2, ConcatProperties
  <2>. QED BY <2>1, <2>3 DEF StageInv, Speaking, Staged
<1>14. CASE ChunkEnds
  <2>1. /\ pc = "playing" /\ pc' = "play" /\ chunks' = Tail(chunks)
        /\ UNCHANGED <<turn, text, last, spoken, chunk, ready, heard, mute, deltas, tts, sink>>
    BY <1>14 DEF ChunkEnds
  <2>2. chunks # <<>>
    BY <2>1 DEF ChunkInv
  <2>3. chunks' \in Seq(Chunk)
    BY <2>1, <2>2, SaysHeadTail DEF StageInv
  <2>. QED BY <2>1, <2>3 DEF StageInv, Speaking, Staged
<1>15. CASE Interrupted
  <2>1. /\ Forget /\ pc' \in {"leave", "top"} /\ UNCHANGED <<turn, text, last>>
        /\ tts' \in {tts, [cancelled |-> TRUE, buffer |-> <<>>]}
        /\ sink' \in {sink, [stopped |-> TRUE, queue |-> <<>>]}
    BY <1>15 DEF Interrupted
  <2>. QED BY <1>0, <2>1, StageOver DEF Speaking
<1>16. CASE Delivered
  <2>1. /\ Forget /\ pc' \in {"leave", "top"} /\ UNCHANGED <<turn, text, tts, sink>>
        /\ last' \in {last, spoken} /\ pc = "play"
    BY <1>16 DEF Delivered
  <2>2. last' \in 0..MaxTurns
    BY <1>0, <2>1, VoiceSessionAssumption DEF Turns, Speaking
  <2>. QED BY <2>1, <2>2, StageOver DEF Speaking
<1>17. CASE SpeakLegacy
  <2>1. /\ Forget /\ pc' \in {"leave", "transcribe"} /\ UNCHANGED <<turn, text>>
        /\ tts' \in {tts, [cancelled |-> TRUE, buffer |-> <<>>]}
        /\ sink' \in {sink, [stopped |-> TRUE, queue |-> <<>>]}
        /\ last' \in {last, spoken} /\ pc = "speak"
    BY <1>17 DEF SpeakLegacy, CancelHere
  <2>2. last' \in 0..MaxTurns
    BY <1>0, <2>1, VoiceSessionAssumption DEF Turns, Speaking
  <2>. QED BY <2>1, <2>2, StageOver DEF Speaking
<1>18. ASSUME NEW t \in Turns, Acknowledge(t) PROVE StageInv'
  BY <1>0, <1>18, StageAlone DEF Acknowledge
<1>19. CASE Outside
  <2>1. /\ UNCHANGED <<pc, turn, text, last, spoken, heard, chunk, deltas, ready, chunks, mute>>
        /\ tts' \in {tts, [cancelled |-> TRUE, buffer |-> <<>>]}
        /\ sink' \in {sink, [stopped |-> TRUE, queue |-> <<>>]}
    BY <1>19 DEF Outside, Call, Bump, CancelTts, StopSink, Settle
  <2>. QED BY <1>0, <2>1, StageAlone
<1>. QED
  BY <1>1, <1>2, <1>3, <1>4, <1>5, <1>6, <1>7, <1>8, <1>9, <1>10, <1>11, <1>12, <1>13,
     <1>14, <1>15, <1>16, <1>17, <1>18, <1>19 DEF Next, Session, Speak

\* No text says nothing.
LEMMA SpokenEmpty == Spoken(<<>>) = <<>>
BY FlattenEmpty DEF Spoken

\* What a text says is a sequence of sentences.
LEMMA SpokenType ==
  ASSUME NEW D, NEW q \in Seq(Seq(D))
  PROVE  Spoken(q) \in Seq(D)
BY FlattenType DEF Spoken

\* The sentences of a text of deltas, the first delta apart.
LEMMA SpokenHeadTail ==
  ASSUME NEW D, NEW q \in Seq(Seq(Seq(D))), q # <<>>
  PROVE  /\ Head(q) \in Seq(Seq(D)) /\ Tail(q) \in Seq(Seq(Seq(D)))
         /\ Spoken(Head(q)) \in Seq(D) /\ Spoken(Spoken(Tail(q))) \in Seq(D)
         /\ Spoken(Spoken(q)) = Cat(Spoken(Head(q)), Spoken(Spoken(Tail(q))))
<1> DEFINE first == Head(q)
           others == Tail(q)
<1> HIDE DEF first, others
<1>1. first \in Seq(Seq(D)) /\ others \in Seq(Seq(Seq(D)))
  BY DEF first, others
<1>2. FlattenSeq(q) = first \o FlattenSeq(others)
  BY FlattenHeadTail DEF first, others
<1>3. FlattenSeq(others) \in Seq(Seq(D))
  BY <1>1, FlattenType
<1>4. FlattenSeq(FlattenSeq(q)) = Cat(FlattenSeq(first), FlattenSeq(FlattenSeq(others)))
  BY <1>1, <1>2, <1>3, FlattenConcat DEF Cat
<1>5. FlattenSeq(first) \in Seq(D) /\ FlattenSeq(FlattenSeq(others)) \in Seq(D)
  BY <1>1, <1>3, FlattenType
<1>. QED BY <1>1, <1>4, <1>5 DEF Spoken, first, others

\* A text of one part says what the part says.
LEMMA SpokenOne ==
  ASSUME NEW D, NEW b \in Seq(Seq(D))
  PROVE  Spoken(Spoken(<<b>>)) = Spoken(b)
BY FlattenOne DEF Spoken

\* The parts of a response have the type that the lemmas about chains ask for.
LEMMA LineParts ==
  ASSUME StageInv, ChunkInv
  PROVE  Parts(DOMAIN Size, heard, Ahead, Says(sink.queue), chunk, Spoken(Spoken(ready)),
               Spoken(tts.buffer), Spoken(Spoken(deltas)))
<1>1. /\ heard \in Seq(DOMAIN Size) /\ chunk \in Seq(DOMAIN Size)
      /\ ready \in Seq(Seq(Seq(DOMAIN Size))) /\ deltas \in Seq(Seq(Seq(DOMAIN Size)))
      /\ tts.buffer \in Seq(Seq(DOMAIN Size))
      /\ sink.queue \in Seq(Chunk) /\ chunks \in Seq(Chunk)
  BY DEF StageInv
<1>2. /\ Spoken(ready) \in Seq(Seq(DOMAIN Size)) /\ Spoken(deltas) \in Seq(Seq(DOMAIN Size))
      /\ Spoken(tts.buffer) \in Seq(DOMAIN Size)
  BY <1>1, SpokenType
<1>3. Spoken(Spoken(ready)) \in Seq(DOMAIN Size) /\ Spoken(Spoken(deltas)) \in Seq(DOMAIN Size)
  BY <1>2, SpokenType
<1>4. Says(sink.queue) \in Seq(DOMAIN Size) /\ Says(chunks) \in Seq(DOMAIN Size)
  BY <1>1, SaysFacts
<1>5. pc = "playing" => Says(Tail(chunks)) \in Seq(DOMAIN Size)
  <2>1. pc = "playing" => chunks # <<>>
    BY DEF ChunkInv
  <2>2. chunks # <<>> => Tail(chunks) \in Seq(Chunk)
    BY <1>1, SaysHeadTail
  <2>. QED BY <2>1, <2>2, SaysFacts
<1>. QED BY <1>1, <1>2, <1>3, <1>4, <1>5 DEF Ahead, Parts

\* Steps that move a part on, or touch none.
LEMMA SameLine ==
  ASSUME LineInv, pc \in Staged, Line' = Line, UNCHANGED <<text, spoken, mute>>,
         tts'.cancelled = tts.cancelled, sink'.stopped = sink.stopped
  PROVE  LineInv'
BY DEF LineInv

\* Steps that drop parts of a response that is called off.
LEMMA DroppedLine ==
  ASSUME StageInv, ChunkInv, LineInv, pc \in Staged, UNCHANGED <<text, spoken>>,
         NEW q \in {Says(sink.queue), <<>>}, NEW r \in {Spoken(Spoken(ready)), <<>>},
         NEW b \in {Spoken(tts.buffer), <<>>}, NEW d \in {Spoken(Spoken(deltas)), <<>>},
         Line' = Chain(heard, Ahead, q, chunk, r, b, d),
         tts'.cancelled \/ sink'.stopped
  PROVE  LineInv'
<1>1. InOrder(Line, text[spoken])
  BY DEF LineInv
<1>2. InOrder(Chain(heard, Ahead, q, chunk, r, b, d), text[spoken])
  <2>1. chunk \in {chunk, <<>>}
    OBVIOUS
  <2>. QED BY <1>1, <2>1, LineParts, ChainThins DEF Line
<1>. QED BY <1>2 DEF LineInv

\* No response is on its way at the start.
LEMMA InitLine == Init => LineInv
BY DEF Init, LineInv, Staged

\* A sentence that could not be synthesized is left out, and remembered.
LEMMA ChainMutes ==
  ASSUME NEW D, NEW t, NEW h, NEW a, NEW q, NEW x \in Seq(D), NEW r \in Seq(D), NEW b, NEW d,
         Parts(D, h, a, q, <<>>, Cat(x, r), b, d),
         InOrder(Chain(h, a, q, <<>>, Cat(x, r), b, d), t)
  PROVE  /\ InOrder(Chain(h, a, q, <<>>, r, b, d), t)
         /\ ToSet(Chain(h, a, q, <<>>, r, b, d)) \cup ToSet(x)
              = ToSet(Chain(h, a, q, <<>>, Cat(x, r), b, d))
<1>1. Parts(D, h, a, q, <<>>, r, b, d) /\ Parts(D, h, a, q, x, r, b, d)
  BY DEF Parts
<1>2. Chain(h, a, q, x, r, b, d) = Chain(h, a, q, <<>>, Cat(x, r), b, d)
  BY ChainSynthesizes
<1>3. InOrder(Chain(h, a, q, <<>>, r, b, d), t)
  <2>1. q \in {q, <<>>} /\ <<>> \in {x, <<>>} /\ r \in {r, <<>>} /\ b \in {b, <<>>} /\ d \in {d, <<>>}
    OBVIOUS
  <2>. QED BY <1>1, <1>2, <2>1, ChainThins
<1>4. ToSet(Chain(h, a, q, x, r, b, d)) = ToSet(h) \cup ToSet(a) \cup ToSet(q) \cup ToSet(x)
        \cup ToSet(r) \cup ToSet(b) \cup ToSet(d)
  BY <1>1, ChainType
<1>5. ToSet(Chain(h, a, q, <<>>, r, b, d)) = ToSet(h) \cup ToSet(a) \cup ToSet(q) \cup ToSet(<<>>)
        \cup ToSet(r) \cup ToSet(b) \cup ToSet(d)
  BY <1>1, ChainType
<1>6. ToSet(<<>>) = {}
  BY DEF ToSet
<1>. QED BY <1>2, <1>3, <1>4, <1>5, <1>6

\* Steps that leave a sentence out and remember it.
LEMMA MutedLine ==
  ASSUME LineInv, pc \in Staged, UNCHANGED <<text, spoken>>, NEW line, NEW x, Line' = line,
         InOrder(Line, text[spoken]) => InOrder(line, text[spoken]),
         ToSet(line) \cup ToSet(x) = ToSet(Line),
         mute' = mute \cup ToSet(x),
         tts'.cancelled = tts.cancelled, sink'.stopped = sink.stopped
  PROVE  LineInv'
<1>1. ToSet(line) \cup mute' = ToSet(Line) \cup mute
  OBVIOUS
<1>. QED BY <1>1 DEF LineInv


\* What follows the first part.
LEMMA ChainRest ==
  ASSUME NEW D, NEW h, NEW a, NEW q, NEW c, NEW r, NEW b, NEW d,
         Parts(D, h, a, q, c, r, b, d)
  PROVE  h \in Seq(D) /\ Cat(a, Cat(q, Cat(c, Cat(r, Cat(b, d))))) \in Seq(D)
<1>0. /\ h \in Seq(D) /\ a \in Seq(D) /\ q \in Seq(D) /\ c \in Seq(D)
      /\ r \in Seq(D) /\ b \in Seq(D) /\ d \in Seq(D)
  BY DEF Parts
<1>1. Cat(b, d) \in Seq(D)
  BY <1>0, CatType
<1>2. Cat(r, Cat(b, d)) \in Seq(D)
  BY <1>0, <1>1, CatType
<1>3. Cat(c, Cat(r, Cat(b, d))) \in Seq(D)
  BY <1>0, <1>2, CatType
<1>4. Cat(q, Cat(c, Cat(r, Cat(b, d)))) \in Seq(D)
  BY <1>0, <1>3, CatType
<1>. QED BY <1>0, <1>4, CatType

-----------------------------------------------------------------------------
(* The steps of a response.                                                *)

\* The parts before and after a step.
LEMMA LineNext ==
  /\ Line' = Chain(heard', Ahead', Says(sink'.queue), chunk', Spoken(Spoken(ready')),
                   Spoken(tts'.buffer), Spoken(Spoken(deltas')))
  /\ pc' # "playing" => Ahead' = Says(chunks')
  /\ pc' = "playing" => Ahead' = Says(Tail(chunks'))
BY DEF Line, Ahead

\* When the stream is opened, all of the response is still to come.
LEMMA BridgeLine == StageInv /\ ChunkInv /\ Bridge => LineInv'
<1> SUFFICES ASSUME StageInv, ChunkInv, Bridge PROVE LineInv'
  OBVIOUS
<1>1. /\ pc = "bridge" /\ pc' = "feed" /\ deltas' = Deltas(text[spoken])
      /\ UNCHANGED <<text, spoken, heard, chunk, chunks, ready, mute>>
      /\ tts' = [cancelled |-> FALSE, buffer |-> <<>>]
      /\ sink' = [stopped |-> FALSE, queue |-> <<>>]
  BY DEF Bridge, EmptySink, turnVars
<1> DEFINE t == text[spoken]
<1> HIDE DEF t
<1>2. /\ t \in Seq(DOMAIN Size) /\ \A i, j \in DOMAIN t : t[i] = t[j] => i = j
  BY <1>1, ResponseType DEF Speaking, t
<1>3. Spoken(Spoken(deltas')) = t
  BY <1>1, <1>2, DeltasKeep DEF t
<1>4. /\ heard' = <<>> /\ chunk' = <<>> /\ chunks' = <<>> /\ ready' = <<>> /\ mute' = {}
      /\ tts'.buffer = <<>> /\ sink'.queue = <<>>
  BY <1>1 DEF StageInv, ChunkInv, NoChunk, Staged
<1>5. Line' = Chain(<<>>, <<>>, <<>>, <<>>, <<>>, <<>>, t)
  BY <1>1, <1>3, <1>4, LineNext, SaysEmpty, SpokenEmpty
<1>6. Line' = t
  BY <1>2, <1>5, ChainWhole
<1>7. InOrder(t, t)
  BY <1>2, OwnOrder
<1>8. text'[spoken'] = t
  BY <1>1 DEF t
<1>. QED BY <1>4, <1>6, <1>7, <1>8 DEF LineInv

\* A delta is fed, or the stream is broken off.
LEMMA FeedLine == StageInv /\ ChunkInv /\ LineInv /\ Feed => LineInv'
<1> SUFFICES ASSUME StageInv, ChunkInv, LineInv, Feed PROVE LineInv'
  OBVIOUS
<1>1. /\ pc = "feed" /\ deltas # <<>> /\ ready = <<>> /\ chunk = <<>>
      /\ UNCHANGED <<text, spoken, heard, chunk, chunks, mute>>
  BY DEF Feed, turnVars, NoChunk
<1>2. pc \in Staged
  BY <1>1 DEF Staged
<1>3. CASE stale
  <2>1. /\ tts' = [cancelled |-> TRUE, buffer |-> <<>>]
        /\ sink' = [stopped |-> TRUE, queue |-> <<>>]
        /\ deltas' = <<>> /\ pc' = "fed" /\ ready' = ready
    BY <1>3 DEF Feed
  <2>2. Ahead' = Ahead
    BY <1>1, <2>1 DEF Ahead
  <2>3. Line' = Chain(heard, Ahead, <<>>, chunk, Spoken(Spoken(ready)), <<>>, <<>>)
    BY <1>1, <2>1, <2>2, LineNext, SaysEmpty, SpokenEmpty
  <2>. QED BY <1>1, <1>2, <2>1, <2>3, DroppedLine
<1>4. CASE ~stale
  <2>1. /\ ready' = ReadyAfter(tts.buffer, Head(deltas))
        /\ tts' = [tts EXCEPT !.buffer = BufferAfter(@, Head(deltas))]
        /\ deltas' = Tail(deltas) /\ UNCHANGED <<sink, pc>>
    BY <1>4 DEF Feed
  <2> DEFINE first == Head(deltas)
             rest == Tail(deltas)
             buffer == tts.buffer
             ra == ReadyAfter(buffer, first)
             ba == BufferAfter(buffer, first)
             s == DOMAIN Size
  <2> HIDE DEF first, rest, buffer, ra, ba, s
  <2>2. first \in Seq(Seq(s)) /\ first # <<>> /\ rest \in Seq(Seq(Seq(s)))
    BY <1>1, FilledTail DEF StageInv, first, rest, s
  <2>3. buffer \in Seq(Seq(s))
    BY DEF StageInv, buffer, s
  <2>4. /\ ra \in Seq(Seq(Seq(s))) /\ ba \in Seq(Seq(s))
        /\ Cat(Spoken(Spoken(ra)), Spoken(ba)) = Cat(Spoken(buffer), Spoken(first))
    BY <2>2, <2>3, FeedKeeps DEF ra, ba
  <2>5. Spoken(Spoken(deltas)) = Cat(Spoken(first), Spoken(Spoken(rest)))
    BY <1>1, SpokenHeadTail DEF StageInv, first, rest
  <2>6. tts' = [cancelled |-> tts.cancelled, buffer |-> ba]
    <3>1. tts = [cancelled |-> tts.cancelled, buffer |-> tts.buffer]
      BY DEF StageInv
    <3>. QED BY <2>1, <3>1 DEF ba, first, buffer
  <2>7. /\ Spoken(Spoken(ra)) \in Seq(s) /\ Spoken(ba) \in Seq(s) /\ Spoken(buffer) \in Seq(s)
        /\ Spoken(first) \in Seq(s) /\ Spoken(Spoken(rest)) \in Seq(s)
    <3>1. Spoken(ra) \in Seq(Seq(s)) /\ Spoken(rest) \in Seq(Seq(s))
      BY <2>2, <2>4, SpokenType
    <3>. QED BY <2>2, <2>3, <2>4, <3>1, SpokenType
  <2>8. Chain(heard, Ahead, Says(sink.queue), chunk, Spoken(Spoken(ra)), Spoken(ba), Spoken(Spoken(rest)))
          = Chain(heard, Ahead, Says(sink.queue), chunk, <<>>, Spoken(buffer),
                  Cat(Spoken(first), Spoken(Spoken(rest))))
    BY <2>4, <2>7, ChainFeeds
  <2>9. Ahead' = Ahead /\ deltas' = rest /\ ready' = ra /\ tts'.buffer = ba
    BY <1>1, <2>1, <2>6 DEF Ahead, rest, ra, first, buffer
  <2>10. Line' = Chain(heard, Ahead, Says(sink.queue), chunk, Spoken(Spoken(ra)), Spoken(ba),
                       Spoken(Spoken(rest)))
    BY <1>1, <2>1, <2>9, LineNext
  <2>11. Line = Chain(heard, Ahead, Says(sink.queue), chunk, <<>>, Spoken(buffer),
                      Cat(Spoken(first), Spoken(Spoken(rest))))
    BY <1>1, <2>5, SpokenEmpty DEF Line, buffer
  <2>12. Line' = Line
    BY <2>8, <2>10, <2>11
  <2>. QED BY <1>1, <1>2, <2>1, <2>6, <2>12, SameLine
<1>. QED BY <1>3, <1>4

\* The buffer is flushed; a synthesis that is called off has lost it.
LEMMA FinishLine == StageInv /\ ChunkInv /\ LineInv /\ Finish => LineInv'
<1> SUFFICES ASSUME StageInv, ChunkInv, LineInv, Finish PROVE LineInv'
  OBVIOUS
<1>1. /\ pc \in {"feed", "fed"} /\ pc' \in {"fed", "drain"} /\ ready = <<>>
      /\ ready' = IF tts.buffer = <<>> \/ tts.cancelled THEN <<>> ELSE <<tts.buffer>>
      /\ tts' = [tts EXCEPT !.buffer = <<>>]
      /\ UNCHANGED <<text, spoken, heard, chunk, chunks, mute, deltas, sink>>
  BY DEF Finish, turnVars
<1>2. pc \in Staged /\ Ahead' = Ahead
  BY <1>1 DEF Staged, Ahead
<1>3. tts' = [cancelled |-> tts.cancelled, buffer |-> <<>>]
  <2>1. tts = [cancelled |-> tts.cancelled, buffer |-> tts.buffer]
    BY DEF StageInv
  <2>. QED BY <1>1, <2>1
<1> DEFINE b == tts.buffer
           d == Spoken(Spoken(deltas))
<1> HIDE DEF b, d
<1>4. b \in Seq(Seq(DOMAIN Size)) /\ d \in Seq(DOMAIN Size) /\ Spoken(b) \in Seq(DOMAIN Size)
  <2>1. b \in Seq(Seq(DOMAIN Size)) /\ deltas \in Seq(Seq(Seq(DOMAIN Size)))
    BY DEF StageInv, b
  <2>2. Spoken(deltas) \in Seq(Seq(DOMAIN Size))
    BY <2>1, SpokenType
  <2>. QED BY <2>1, <2>2, SpokenType DEF d
<1>5. Line = Chain(heard, Ahead, Says(sink.queue), chunk, <<>>, Spoken(b), d)
  BY <1>1, SpokenEmpty DEF Line, b, d
<1>6. Line' = Chain(heard, Ahead, Says(sink.queue), chunk, Spoken(Spoken(ready')), <<>>, d)
  <2>1. Spoken(tts'.buffer) = <<>> /\ Spoken(Spoken(deltas')) = d
    BY <1>1, <1>3, SpokenEmpty DEF d
  <2>. QED BY <1>1, <1>2, <2>1, LineNext
<1>7. CASE tts.cancelled
  <2>1. Line' = Chain(heard, Ahead, Says(sink.queue), chunk, <<>>, <<>>, Spoken(Spoken(deltas)))
    BY <1>1, <1>6, <1>7, SpokenEmpty DEF d
  <2>. QED BY <1>1, <1>2, <1>3, <1>7, <2>1, DroppedLine
<1>8. CASE ~tts.cancelled
  <2>1. Spoken(Spoken(ready')) = Spoken(b)
    <3>1. CASE b = <<>>
      BY <1>1, <3>1, SpokenEmpty DEF b
    <3>2. CASE b # <<>>
      <4>1. ready' = <<b>>
        BY <1>1, <1>8, <3>2 DEF b
      <4>. QED BY <1>4, <4>1, SpokenOne
    <3>. QED BY <3>1, <3>2
  <2>2. Line' = Line
    BY <1>4, <1>5, <1>6, <2>1, ChainFlushes
  <2>. QED BY <1>1, <1>2, <1>3, <2>2, SameLine
<1>. QED BY <1>7, <1>8

\* A sentence is synthesized, or it cannot be, or nothing is as the synthesis was
\* called off.
LEMMA SynthesizeLine == StageInv /\ ChunkInv /\ LineInv /\ Synthesize => LineInv'
<1> SUFFICES ASSUME StageInv, ChunkInv, LineInv, Synthesize PROVE LineInv'
  OBVIOUS
<1>1. /\ ready # <<>> /\ chunk = <<>>
      /\ UNCHANGED <<pc, text, spoken, heard, chunks, deltas, sink, tts>>
  BY DEF Synthesize, turnVars, NoChunk
<1>2. pc \in Staged /\ Ahead' = Ahead
  BY <1>1 DEF ChunkInv, Staged, Ahead
<1> DEFINE q == Says(sink.queue)
           b == Spoken(tts.buffer)
           d == Spoken(Spoken(deltas))
           x == Spoken(Head(ready))
           r == Spoken(Spoken(Tail(ready)))
           s == DOMAIN Size
<1> HIDE DEF q, b, d, x, r, s
<1>3. x \in Seq(s) /\ r \in Seq(s) /\ Spoken(Spoken(ready)) = Cat(x, r)
  BY <1>1, SpokenHeadTail DEF StageInv, x, r, s
<1>4. Line = Chain(heard, Ahead, q, <<>>, Cat(x, r), b, d)
  BY <1>1, <1>3 DEF Line, q, b, d
<1>5. Parts(s, heard, Ahead, q, <<>>, Cat(x, r), b, d)
  BY <1>1, <1>3, LineParts DEF q, b, d, s
<1>6. Line' = Chain(heard, Ahead, q, chunk', Spoken(Spoken(ready')), b, d)
  BY <1>1, <1>2, LineNext DEF q, b, d
<1>7. CASE tts.cancelled \/ sink.stopped
  <2>1. ready' = <<>> /\ chunk' = chunk
    BY <1>7 DEF Synthesize
  <2>2. Line' = Chain(heard, Ahead, Says(sink.queue), chunk, <<>>, Spoken(tts.buffer),
                      Spoken(Spoken(deltas)))
    BY <1>6, <2>1, SpokenEmpty DEF q, b, d
  <2>. QED BY <1>1, <1>2, <1>7, <2>2, DroppedLine
<1>8. CASE ready' = Tail(ready) /\ chunk' = Spoken(Head(ready)) /\ mute' = mute
  <2>1. Line' = Chain(heard, Ahead, q, x, r, b, d)
    BY <1>6, <1>8 DEF x, r
  <2>2. Line' = Line
    BY <1>3, <1>4, <1>5, <2>1, ChainSynthesizes
  <2>. QED BY <1>1, <1>2, <1>8, <2>2, SameLine
<1>9. CASE ready' = Tail(ready) /\ chunk' = chunk /\ mute' = mute \cup ToSet(Spoken(Head(ready)))
  <2> DEFINE line == Chain(heard, Ahead, q, <<>>, r, b, d)
             all == Chain(heard, Ahead, q, <<>>, Cat(x, r), b, d)
  <2>1. Line' = line
    BY <1>1, <1>6, <1>9 DEF r
  <2>2. InOrder(all, text[spoken])
    BY <1>2, <1>4 DEF LineInv
  <2>3. InOrder(line, text[spoken]) /\ ToSet(line) \cup ToSet(x) = ToSet(all)
    BY <1>3, <1>5, <2>2, ChainMutes
  <2> HIDE DEF line, all
  <2>4. Line = all
    BY <1>4 DEF all
  <2>5. mute' = mute \cup ToSet(x)
    BY <1>9 DEF x
  <2>. QED BY <1>1, <1>2, <2>1, <2>3, <2>4, <2>5, MutedLine
<1>. QED BY <1>7, <1>8, <1>9 DEF Synthesize

\* A chunk is put into the sink, stopped or not.
LEMMA PutLine == StageInv /\ ChunkInv /\ LineInv /\ Put => LineInv'
<1> SUFFICES ASSUME StageInv, ChunkInv, LineInv, Put PROVE LineInv'
  OBVIOUS
<1> DEFINE new == [turn |-> spoken, says |-> chunk]
<1>1. /\ chunk # NoChunk /\ chunk' = <<>>
      /\ UNCHANGED <<pc, text, spoken, ready, chunks, heard, mute, deltas, tts>>
      /\ sink' = [sink EXCEPT !.queue = Append(@, new)]
  BY DEF Put, NoChunk, turnVars
<1>2. pc \in Staged /\ pc \in Speaking /\ Ahead' = Ahead
  BY <1>1 DEF ChunkInv, Staged, Speaking, Ahead
<1>3. new \in Chunk /\ new.says = chunk
  BY <1>2 DEF StageInv, Chunk
<1> HIDE DEF new
<1>4. sink' = [stopped |-> sink.stopped, queue |-> Append(sink.queue, new)]
  BY <1>1 DEF ChunkInv
<1>5. Says(sink'.queue) = Cat(Says(sink.queue), chunk)
  <2>1. sink.queue \in Seq(Chunk)
    BY DEF StageInv
  <2>2. Says(Append(sink.queue, new)) = Cat(Says(sink.queue), new.says)
    BY <1>3, <2>1, SaysAppend
  <2>3. sink'.queue = Append(sink.queue, new)
    BY <1>4
  <2>. QED BY <1>3, <2>2, <2>3
<1>6. Line' = Chain(heard, Ahead, Cat(Says(sink.queue), chunk), <<>>, Spoken(Spoken(ready)),
                    Spoken(tts.buffer), Spoken(Spoken(deltas)))
  BY <1>1, <1>2, <1>5, LineNext
<1>7. Line' = Line
  BY <1>6, LineParts, ChainPuts DEF Line
<1>8. sink'.stopped = sink.stopped
  BY <1>4
<1>. QED BY <1>1, <1>2, <1>7, <1>8, SameLine

\* The sink is drained.
LEMMA DrainLine == StageInv /\ ChunkInv /\ LineInv /\ Drain => LineInv'
<1> SUFFICES ASSUME StageInv, ChunkInv, LineInv, Drain PROVE LineInv'
  OBVIOUS
<1>1. /\ pc = "drain" /\ pc' = "play" /\ chunks' = sink.queue
      /\ sink' = [sink EXCEPT !.queue = <<>>]
      /\ UNCHANGED <<text, spoken, chunk, ready, heard, mute, deltas, tts>>
  BY DEF Drain, turnVars
<1>2. pc \in Staged /\ chunks = <<>> /\ Ahead = <<>>
  BY <1>1, SaysEmpty DEF ChunkInv, Staged, Ahead
<1>3. sink' = [stopped |-> sink.stopped, queue |-> <<>>]
  BY <1>1 DEF ChunkInv
<1>4. Line' = Chain(heard, Says(sink.queue), <<>>, chunk, Spoken(Spoken(ready)),
                    Spoken(tts.buffer), Spoken(Spoken(deltas)))
  <2>1. Ahead' = Says(sink.queue) /\ Says(sink'.queue) = <<>>
    BY <1>1, <1>3, LineNext, SaysEmpty
  <2>. QED BY <1>1, <2>1, LineNext
<1>5. Line' = Line
  <2>1. Parts(DOMAIN Size, heard, <<>>, Says(sink.queue), chunk, Spoken(Spoken(ready)),
              Spoken(tts.buffer), Spoken(Spoken(deltas)))
    BY <1>2, LineParts
  <2>2. Line = Chain(heard, <<>>, Says(sink.queue), chunk, Spoken(Spoken(ready)),
                     Spoken(tts.buffer), Spoken(Spoken(deltas)))
    BY <1>2 DEF Line
  <2>. QED BY <1>4, <2>1, <2>2, ChainDrains
<1>6. sink'.stopped = sink.stopped
  BY <1>3
<1>. QED BY <1>1, <1>2, <1>5, <1>6, SameLine

\* A chunk starts to play.
LEMMA PlayLine == StageInv /\ ChunkInv /\ LineInv /\ PlayChunk => LineInv'
<1> SUFFICES ASSUME StageInv, ChunkInv, LineInv, PlayChunk PROVE LineInv'
  OBVIOUS
<1>1. /\ pc = "play" /\ pc' = "playing" /\ chunks # <<>> /\ heard' = heard \o Head(chunks).says
      /\ UNCHANGED <<text, spoken, chunk, chunks, ready, mute, deltas, tts, sink>>
  BY DEF PlayChunk, turnVars
<1>2. pc \in Staged
  BY <1>1 DEF Staged
<1> DEFINE x == Head(chunks).says
           a == Says(Tail(chunks))
           q == Says(sink.queue)
           r == Spoken(Spoken(ready))
           b == Spoken(tts.buffer)
           d == Spoken(Spoken(deltas))
           s == DOMAIN Size
<1> HIDE DEF x, a, q, r, b, d, s
<1>3. x \in Seq(s) /\ a \in Seq(s) /\ Says(chunks) = Cat(x, a)
  <2>1. chunks \in Seq(Chunk)
    BY DEF StageInv
  <2>2. /\ x \in Seq(s) /\ Tail(chunks) \in Seq(Chunk) /\ Says(chunks) = Cat(x, a)
    BY <1>1, <2>1, SaysHeadTail DEF x, a, s
  <2>. QED BY <2>2, SaysFacts DEF a, s
<1>4. Ahead = Cat(x, a) /\ Ahead' = a /\ heard' = Cat(heard, x)
  BY <1>1, <1>3 DEF Ahead, Cat, a, x
<1>5. Line = Chain(heard, Cat(x, a), q, chunk, r, b, d)
  BY <1>4 DEF Line, q, r, b, d
<1>6. Line' = Chain(Cat(heard, x), a, q, chunk, r, b, d)
  BY <1>1, <1>4, LineNext DEF q, r, b, d
<1>7. Parts(s, heard, Cat(x, a), q, chunk, r, b, d)
  BY <1>4, LineParts DEF q, r, b, d, s
<1>8. Line' = Line
  BY <1>3, <1>5, <1>6, <1>7, ChainPlays
<1>. QED BY <1>1, <1>2, <1>8, SameLine

\* A chunk ends: it was heard when it started.
LEMMA EndsLine == LineInv /\ ChunkEnds => LineInv'
<1> SUFFICES ASSUME LineInv, ChunkEnds PROVE LineInv'
  OBVIOUS
<1>1. /\ pc = "playing" /\ pc' = "play" /\ chunks' = Tail(chunks)
      /\ UNCHANGED <<text, spoken, chunk, ready, heard, mute, deltas, tts, sink>>
  BY DEF ChunkEnds, turnVars
<1>2. Ahead' = Ahead
  BY <1>1 DEF Ahead
<1>3. Line' = Line
  BY <1>1, <1>2, LineNext DEF Line
<1>. QED BY <1>1, <1>3, SameLine DEF Staged

\* Another thread cancels the synthesis, stops the sink, or does neither.
LEMMA OutsideLine == StageInv /\ ChunkInv /\ LineInv /\ Outside => LineInv'
<1> SUFFICES ASSUME StageInv, ChunkInv, LineInv, Outside PROVE LineInv'
  OBVIOUS
<1>1. UNCHANGED <<pc, text, spoken, heard, chunk, chunks, ready, mute, deltas>>
  BY DEF Outside, Call, Bump, CancelTts, StopSink, Settle, speechVars, streamVars, turnVars
<1>2. Ahead' = Ahead
  BY <1>1 DEF Ahead
<1>3. CASE pc \notin Staged
  BY <1>1, <1>3 DEF LineInv
<1>4. CASE pc \in Staged /\ UNCHANGED <<tts, sink>>
  <2>1. Line' = Line
    BY <1>1, <1>2, <1>4, LineNext DEF Line
  <2>. QED BY <1>1, <1>4, <2>1, SameLine
<1>5. CASE pc \in Staged /\ CancelTts
  <2>1. tts' = [cancelled |-> TRUE, buffer |-> <<>>] /\ sink' = sink
    BY <1>5 DEF CancelTts
  <2>2. Line' = Chain(heard, Ahead, Says(sink.queue), chunk, Spoken(Spoken(ready)), <<>>,
                      Spoken(Spoken(deltas)))
    BY <1>1, <1>2, <2>1, LineNext, SpokenEmpty
  <2>. QED BY <1>1, <1>5, <2>1, <2>2, DroppedLine
<1>6. CASE pc \in Staged /\ StopSink
  <2>1. sink' = [stopped |-> TRUE, queue |-> <<>>] /\ tts' = tts
    BY <1>6 DEF StopSink
  <2>2. Line' = Chain(heard, Ahead, <<>>, chunk, Spoken(Spoken(ready)), Spoken(tts.buffer),
                      Spoken(Spoken(deltas)))
    BY <1>1, <1>2, <2>1, LineNext, SaysEmpty
  <2>. QED BY <1>1, <1>6, <2>1, <2>2, DroppedLine
<1>7. UNCHANGED <<tts, sink>> \/ CancelTts \/ StopSink
  BY DEF Outside, Call, Bump, Settle, speechVars, streamVars
<1>. QED BY <1>3, <1>4, <1>5, <1>6, <1>7

\* Every step keeps the response in its order, and whole unless it was called off.
LEMMA NextLine == StageInv /\ ChunkInv /\ LineInv /\ [Next]_vars => LineInv'
<1> SUFFICES ASSUME StageInv, ChunkInv, LineInv, [Next]_vars PROVE LineInv'
  OBVIOUS
<1>1. ASSUME UNCHANGED <<pc, text, spoken, speechVars>> PROVE LineInv'
  <2>1. UNCHANGED <<heard, chunk, chunks, ready, mute, deltas, tts, sink>>
    BY <1>1 DEF speechVars, streamVars
  <2>2. Ahead' = Ahead
    BY <1>1, <2>1 DEF Ahead
  <2>3. Line' = Line
    BY <2>1, <2>2, LineNext DEF Line
  <2>4. CASE pc \in Staged
    BY <1>1, <2>1, <2>3, <2>4, SameLine
  <2>. QED BY <1>1, <2>4 DEF LineInv
<1>2. CASE UNCHANGED vars
  BY <1>1, <1>2 DEF vars, turnVars, speechVars
<1>3. CASE pc' \notin Staged
  BY <1>3 DEF LineInv
<1>4. Conversation \/ Listen \/ Think => pc' \notin Staged
  BY DEF Conversation, RunLoop, RunOnce, NextTurn, Wake, Leave, DeviceRaises, Raise, Listen,
         BeginCapture, Frame, CaptureEnds, Transcribe, RunControl, Announced, NoTranscript, Think,
         CallAgent, AgentReturns, AgentRaises, Join, Respond, Staged
<1>5. PrepareSpeech \/ Arm \/ Interrupted \/ Delivered \/ SpeakLegacy => pc' \notin Staged
  BY DEF PrepareSpeech, Arm, Interrupted, Delivered, SpeakLegacy, Staged
<1>6. ASSUME NEW t \in Turns, Acknowledge(t) PROVE LineInv'
  BY <1>1, <1>6 DEF Acknowledge, speechVars
<1>. QED
  BY <1>2, <1>3, <1>4, <1>5, <1>6, BridgeLine, FeedLine, FinishLine, SynthesizeLine, PutLine,
     DrainLine, PlayLine, EndsLine, OutsideLine DEF Next, Session, Speak

\* What is heard belongs to the response being spoken and comes in its order, no
\* sentence twice, whatever the other threads interrupt, cancel or stop.
THEOREM OnlyThisResponseAlways == Spec => []OnlyThisResponse
<1>1. StageInv /\ ChunkInv /\ LineInv => OnlyThisResponse
  <2> SUFFICES ASSUME StageInv, ChunkInv, LineInv PROVE OnlyThisResponse
    OBVIOUS
  <2>1. \A i \in DOMAIN chunks : chunks[i].turn = spoken
    BY DEF ChunkInv, Own
  <2>2. CASE pc \notin {"play", "playing"}
    <3>1. heard = <<>> /\ DOMAIN <<>> = {}
      BY <2>2, EmptyIsSeq DEF StageInv
    <3>. QED BY <2>1, <3>1 DEF OnlyThisResponse
  <2>3. CASE pc \in {"play", "playing"}
    <3> DEFINE t == text[spoken]
    <3>1. InOrder(Line, t)
      BY <2>3 DEF LineInv, Staged
    <3> HIDE DEF t
    <3>2. InOrder(heard, t)
      <4> DEFINE s == DOMAIN Size
                 rest == Cat(Ahead, Cat(Says(sink.queue), Cat(chunk, Cat(Spoken(Spoken(ready)),
                           Cat(Spoken(tts.buffer), Spoken(Spoken(deltas)))))))
      <4>1. Line = Cat(heard, rest)
        BY DEF Line, Chain
      <4>2. heard \in Seq(s) /\ rest \in Seq(s)
        BY LineParts, ChainRest
      <4> HIDE DEF rest, s
      <4>. QED BY <3>1, <4>1, <4>2, Beginning
    <3>3. heard \in Seq(DOMAIN Size)
      BY DEF StageInv
    <3>4. ASSUME NEW i \in DOMAIN heard
          PROVE  \E k \in DOMAIN t :
                    /\ t[k] = heard[i]
                    /\ \A j \in 1..(i - 1), l \in DOMAIN t : heard[j] = t[l] => l < k
      <4>1. PICK k \in DOMAIN t : t[k] = heard[i]
        BY <3>2 DEF InOrder
      <4>2. \A j \in 1..(i - 1) : j \in DOMAIN heard /\ j < i
        BY <3>3
      <4>3. ASSUME NEW j \in 1..(i - 1), NEW l \in DOMAIN t, heard[j] = t[l] PROVE l < k
        BY <3>2, <4>1, <4>2, <4>3 DEF InOrder
      <4>. QED BY <4>1, <4>3
    <3>. QED BY <2>1, <3>4 DEF OnlyThisResponse, t
  <2>. QED BY <2>2, <2>3
<1>. QED
  BY <1>1, InitPending, NextPending, InitChunks, NextChunks, InitStage, NextStage, InitLine,
     NextLine, PTL DEF Spec

\* A response that nobody called off is heard to its end, except for what the
\* engine could not synthesize.
THEOREM HeardToTheEndAlways == Spec => []HeardToTheEnd
<1>1. StageInv /\ ChunkInv /\ LineInv => HeardToTheEnd
  <2> SUFFICES ASSUME StageInv, ChunkInv, LineInv, pc = "play", chunks = <<>>,
                      ~tts.cancelled, ~sink.stopped
               PROVE  ToSet(heard) \cup mute = ToSet(text[spoken])
    BY DEF HeardToTheEnd
  <2>1. /\ ready = <<>> /\ chunk = <<>> /\ deltas = <<>> /\ tts.buffer = <<>> /\ sink.queue = <<>>
        /\ heard \in Seq(DOMAIN Size)
    BY DEF StageInv, ChunkInv, NoChunk
  <2>2. Ahead = <<>>
    BY SaysEmpty DEF Ahead
  <2>3. Line = Chain(heard, <<>>, <<>>, <<>>, <<>>, <<>>, <<>>)
    BY <2>1, <2>2, SaysEmpty, SpokenEmpty DEF Line
  <2>4. Line = heard
    BY <2>1, <2>3, ChainHeard
  <2>. QED BY <2>4 DEF LineInv, Staged
<1>. QED
  BY <1>1, InitPending, NextPending, InitChunks, NextChunks, InitStage, NextStage, InitLine,
     NextLine, PTL DEF Spec
=============================================================================
