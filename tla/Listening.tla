------------------------------ MODULE Listening ------------------------------
(***************************************************************************)
(* From the microphone to the words of a turn, in three threads: the       *)
(* callback of AudioInputStream (interaction/audio_input.py), the capture  *)
(* loop of the session, which runs the voice detector (interaction/vad.py) *)
(* and feeds the transcriber, and the worker of StreamingTranscriber       *)
(* (interaction/stt.py), which transcribes what is there so far.           *)
(*                                                                         *)
(* A chunk is its number and whether it is loud.  The text of some audio   *)
(* is the set of the numbers of its loud chunks, in whose order it reads.  *)
(* When a partial transcript is due, and when the turn is over, is a       *)
(* choice: TurnDetector is VoiceSession's.                                 *)
(***************************************************************************)
EXTENDS Naturals, Sequences, SequencesExt

CONSTANTS
    QueueSize,        \* max_size of BoundedAudioQueue
    SpeechToStart, SilenceToEnd,  \* of the voice detector, in chunks
    MaxBuffer,        \* max_buffer_seconds, in chunks
    MaxChunks, MaxTurns  \* bounds: what the microphone records, and turns

ListeningAssumption ==
    /\ {QueueSize, SpeechToStart, SilenceToEnd, MaxBuffer} \subseteq Nat \ {0}
    /\ MaxChunks \in Nat /\ MaxTurns \in Nat

VARIABLES
    mic,      \* "closed", "open", or "full": the callback has found no room
    recorded, \* chunks recorded so far
    coming,   \* the chunk in the hand of the callback
    queue,
    at,       \* where the capture loop stands
    turn,
    detector, \* of RmsVoiceActivityDetector: both streaks, and speaking
    started,  \* _turn_started_at is set
    taken,    \* history: the chunks of this turn, and the one in hand last
    partial, result,
    running, buffer, events, lastPartial,
    future,   \* _partial_future is set
    jobs,     \* of the executor: the first one runs
    worker    \* the running job's step: "transcribe" or "append", and its text

micVars == <<mic, recorded, coming, queue>>
loopVars == <<turn, detector, started, taken, partial, result>>
sttVars == <<running, buffer, events, lastPartial>>
workVars == <<jobs, worker>>
vars == <<micVars, at, loopVars, sttVars, future, workVars>>

Chunk == [n : 1..MaxChunks, loud : BOOLEAN]
Text(audio) == {audio[i].n : i \in {j \in DOMAIN audio : audio[j].loud}}
Quiet == [speech |-> 0, silence |-> 0, speaking |-> FALSE]
NoWork == [at |-> "transcribe", text |-> {}]

TypeOK ==
    /\ mic \in {"closed", "open", "full"} /\ recorded \in 0..MaxChunks
    /\ coming \in Seq(Chunk) /\ Len(coming) <= 1
    /\ queue \in Seq(Chunk) /\ Len(queue) <= QueueSize
    /\ at \in {"off", "ready", "capture", "submit", "drain", "finalize", "wait", "final"}
    /\ turn \in 0..MaxTurns
    /\ detector \in [speech : 0..MaxChunks, silence : 0..MaxChunks, speaking : BOOLEAN]
    /\ {started, running, future} \subseteq BOOLEAN
    /\ {taken, buffer} \subseteq Seq(Chunk) /\ Len(buffer) <= MaxBuffer
    /\ {partial, result, lastPartial} \subseteq SUBSET (1..MaxChunks)
    /\ events \in Seq([text : SUBSET (1..MaxChunks), final : BOOLEAN, turn : 1..MaxTurns])
    /\ jobs \in Seq([audio : Seq(Chunk), turn : 1..MaxTurns])
    /\ worker \in [at : {"transcribe", "append"}, text : SUBSET (1..MaxChunks)]

Init ==
    /\ mic = "closed" /\ recorded = 0 /\ coming = <<>> /\ queue = <<>>
    /\ at = "off" /\ turn = 0 /\ detector = Quiet /\ started = FALSE
    /\ taken = <<>> /\ partial = {} /\ result = {}
    /\ running = FALSE /\ buffer = <<>> /\ events = <<>> /\ lastPartial = {}
    /\ future = FALSE /\ jobs = <<>> /\ worker = NoWork

-----------------------------------------------------------------------------
(* The stream of the microphone.  A full queue loses its oldest chunk, and *)
(* one more when the loop has taken a chunk meanwhile.                     *)

OpensMicrophone ==
    /\ at = "off" /\ recorded < MaxChunks
    /\ mic' = "open" /\ queue' = <<>> /\ at' = "ready"
    /\ UNCHANGED <<recorded, coming, loopVars, sttVars, future, workVars>>

ClosesMicrophone ==
    /\ at = "ready" /\ mic = "open"
    /\ mic' = "closed" /\ at' = "off"
    /\ UNCHANGED <<recorded, coming, queue, loopVars, sttVars, future, workVars>>

Records(loud) ==
    LET chunk == [n |-> recorded + 1, loud |-> loud] IN
    /\ mic = "open" /\ recorded < MaxChunks
    /\ recorded' = recorded + 1
    /\ IF Len(queue) < QueueSize
       THEN queue' = Append(queue, chunk) /\ UNCHANGED <<mic, coming>>
       ELSE mic' = "full" /\ coming' = <<chunk>> /\ UNCHANGED queue
    /\ UNCHANGED <<at, loopVars, sttVars, future, workVars>>

DropsOldest ==
    /\ mic = "full"
    /\ queue' = (IF queue = <<>> THEN coming ELSE Tail(queue) \o coming)
    /\ coming' = <<>> /\ mic' = "open"
    /\ UNCHANGED <<recorded, at, loopVars, sttVars, future, workVars>>

-----------------------------------------------------------------------------
(* The voice detector: it starts and ends after a streak of chunks.        *)

Observes(d, loud) ==
    LET speech == IF loud THEN d.speech + 1 ELSE 0
        silence == IF loud THEN 0 ELSE d.silence + 1
    IN CASE ~d.speaking /\ speech >= SpeechToStart ->
                [speech |-> speech, silence |-> 0, speaking |-> TRUE]
         [] d.speaking /\ silence >= SilenceToEnd ->
                [speech |-> 0, silence |-> silence, speaking |-> FALSE]
         [] OTHER -> [speech |-> speech, silence |-> silence, speaking |-> d.speaking]

-----------------------------------------------------------------------------
(* The capture loop.                                                       *)

BeginsTurn ==
    /\ at = "ready" /\ turn < MaxTurns
    /\ turn' = turn + 1 /\ at' = "capture"
    /\ running' = TRUE /\ buffer' = <<>> /\ events' = <<>> /\ lastPartial' = {}
    /\ detector' = Quiet /\ started' = FALSE
    /\ taken' = <<>> /\ partial' = {} /\ result' = {}
    /\ UNCHANGED <<micVars, future, workVars>>

TakesChunk ==
    LET chunk == Head(queue) IN
    /\ at = "capture" /\ queue # <<>>
    /\ queue' = Tail(queue) /\ taken' = Append(taken, chunk)
    /\ detector' = Observes(detector, chunk.loud)
    /\ started' = (started \/ detector'.speaking)
    /\ at' = "submit"
    /\ UNCHANGED <<mic, recorded, coming, turn, partial, result, sttVars, future, workVars>>

(* Mutant: what goes to a partial transcription leaves the buffer.         *)
SubmitsAndClears ==
    LET all == Append(buffer, Last(taken))
        kept == IF Len(all) > MaxBuffer THEN Tail(all) ELSE all IN
    /\ at = "submit" /\ at' = "drain"
    /\ \/ /\ ~(future /\ jobs # <<>>)
          /\ jobs' = Append(jobs, [audio |-> kept, turn |-> turn]) /\ future' = TRUE
          /\ buffer' = <<>>
       \/ buffer' = kept /\ UNCHANGED <<jobs, future>>
    /\ UNCHANGED <<micVars, loopVars, running, events, lastPartial, worker>>

(* submit_chunk, and a partial transcript unless one is under way.         *)
Submits ==
    LET all == Append(buffer, Last(taken)) IN
    /\ at = "submit" /\ at' = "drain"
    /\ buffer' = (IF Len(all) > MaxBuffer THEN Tail(all) ELSE all)
    /\ \/ /\ ~(future /\ jobs # <<>>)
          /\ jobs' = Append(jobs, [audio |-> buffer', turn |-> turn]) /\ future' = TRUE
       \/ UNCHANGED <<jobs, future>>
    /\ UNCHANGED <<micVars, loopVars, running, events, lastPartial, worker>>

DrainsEvents ==
    /\ at = "drain" /\ at' = "capture"
    /\ events' = <<>>
    /\ partial' = (IF events = <<>> THEN partial ELSE Last(events).text)
    /\ UNCHANGED <<micVars, turn, detector, started, taken, result, running, buffer,
                   lastPartial, future, workVars>>

(* The turn is over: the detector says so, or nothing has come for long.   *)
EndsTurn ==
    /\ at = "capture" /\ at' = "finalize"
    /\ UNCHANGED <<micVars, loopVars, sttVars, future, workVars>>

(* An interruption or a cancellation leaves the transcriber as it is.      *)
Abandons ==
    /\ at = "capture" /\ at' = "ready"
    /\ UNCHANGED <<micVars, loopVars, sttVars, future, workVars>>

Finalizes ==
    /\ at = "finalize" /\ at' = "wait"
    /\ running' = FALSE
    /\ UNCHANGED <<micVars, loopVars, buffer, events, lastPartial, future, workVars>>

(* The worker is done, or 0.2 s have passed.                               *)
StopsWaiting ==
    /\ at = "wait" /\ at' = "final" /\ future' = FALSE
    /\ UNCHANGED <<micVars, loopVars, sttVars, workVars>>

(* A transcription that raises has no text.                                *)
TranscribesAll ==
    /\ at = "final" /\ at' = "ready"
    /\ \E text \in {Text(buffer), {}} :
           /\ events' = Append(events, [text |-> text, final |-> TRUE, turn |-> turn])
           /\ result' = (IF started THEN text ELSE {})
    /\ buffer' = <<>>
    /\ UNCHANGED <<micVars, turn, detector, started, taken, partial, running, lastPartial,
                   future, workVars>>

-----------------------------------------------------------------------------
(* The worker compares its text without the lock and appends it under it.  *)

Transcribes ==
    /\ jobs # <<>> /\ worker.at = "transcribe"
    /\ \E text \in {Text(Head(jobs).audio), {}} :
           IF text = {} \/ text = lastPartial
           THEN jobs' = Tail(jobs) /\ UNCHANGED worker
           ELSE worker' = [at |-> "append", text |-> text] /\ UNCHANGED jobs
    /\ UNCHANGED <<micVars, at, loopVars, sttVars, future>>

(* Mutant: the job does not ask whether its turn is still the one.         *)
EmitsAlways ==
    LET job == Head(jobs) IN
    /\ worker.at = "append"
    /\ worker' = NoWork /\ jobs' = Tail(jobs)
    /\ IF running
       THEN /\ events' = Append(events, [text |-> worker.text, final |-> FALSE,
                                         turn |-> job.turn])
            /\ lastPartial' = worker.text
       ELSE UNCHANGED <<events, lastPartial>>
    /\ UNCHANGED <<micVars, at, loopVars, running, buffer, future>>

Emits ==
    LET job == Head(jobs) IN
    /\ worker.at = "append"
    /\ worker' = NoWork /\ jobs' = Tail(jobs)
    /\ IF running /\ job.turn = turn
       THEN /\ events' = Append(events, [text |-> worker.text, final |-> FALSE,
                                         turn |-> job.turn])
            /\ lastPartial' = worker.text
       ELSE UNCHANGED <<events, lastPartial>>
    /\ UNCHANGED <<micVars, at, loopVars, running, buffer, future>>

CaptureLoop ==
    \/ OpensMicrophone \/ ClosesMicrophone \/ BeginsTurn \/ TakesChunk \/ Submits
    \/ DrainsEvents \/ EndsTurn \/ Abandons \/ Finalizes \/ StopsWaiting \/ TranscribesAll

Next ==
    \/ \E loud \in BOOLEAN : Records(loud)
    \/ DropsOldest \/ CaptureLoop \/ Transcribes \/ Emits

Spec == Init /\ [][Next]_vars

-----------------------------------------------------------------------------
Numbers(s) == {s[i].n : i \in DOMAIN s}
Rising(s) == \A i, j \in DOMAIN s : i < j => s[i].n < s[j].n

(* "stale results from an earlier turn cannot overwrite a newer turn"      *)
(* (stt.py:294): a worker that outlives its turn adds nothing to the next, *)
(* and what the loop takes for the words of a turn was said in it.         *)
NoStaleResult ==
    /\ \A i \in DOMAIN events : events[i].turn = turn
    /\ \A text \in {partial, result, lastPartial} : text \subseteq Numbers(taken)

(* What is lost of a turn is lost from its past: its chunks are in the     *)
(* order of the microphone, however the callback and the loop meet at the  *)
(* queue, and the final transcript, its last event, hears them all up to   *)
(* the cap of the buffer, whatever the partial ones have heard.            *)
FinalIsWhole ==
    /\ Rising(taken)
    /\ \A i \in DOMAIN events : events[i].final => i = Len(events)
    /\ result # {} =>
          result = Text(SubSeq(taken, 1 + (IF Len(taken) > MaxBuffer
                                           THEN Len(taken) - MaxBuffer ELSE 0), Len(taken)))

(* What keeps them.  The turn, the queue and the chunk in hand are one line of rising numbers... *)
Sounds == [n : Nat, loud : BOOLEAN]
Ahead(s, t) == \A i \in DOMAIN s, j \in DOMAIN t : s[i].n < t[j].n
LineInv ==
    /\ recorded \in Nat /\ {taken, queue, coming} \subseteq Seq(Sounds)
    /\ mic # "full" => coming = <<>>
    /\ at = "off" => mic = "closed"
    /\ Rising(taken) /\ Rising(queue) /\ Rising(coming)
    /\ Ahead(taken, queue) /\ Ahead(taken, coming) /\ Ahead(queue, coming)
    /\ \A s \in {taken, queue, coming} : \A i \in DOMAIN s : s[i].n <= recorded

(* ... the buffer is the end of the turn, but for the chunk in hand...     *)
KeptInv ==
    LET heard == Len(taken) - (IF at = "submit" THEN 1 ELSE 0) IN
    /\ buffer \in Seq(Sounds) /\ (at = "submit" => taken # <<>>)
    /\ at \notin {"off", "ready"} =>
          /\ Len(buffer) = (IF heard > MaxBuffer THEN MaxBuffer ELSE heard)
          /\ \A i \in DOMAIN buffer : buffer[i] = taken[i + heard - Len(buffer)]

(* ... and what was to be transcribed, or is, or has been, is of its turn. *)
WordsInv ==
    /\ turn \in Nat /\ running \in BOOLEAN
    /\ events \in Seq([text : SUBSET Nat, final : BOOLEAN, turn : Nat])
    /\ jobs \in Seq([audio : Seq(Sounds), turn : Nat])
    /\ worker \in [at : {"transcribe", "append"}, text : SUBSET Nat]
    /\ at \in {"wait", "final"} => ~running
    /\ \A i \in DOMAIN events :
          /\ events[i].turn = turn /\ events[i].text \subseteq Numbers(taken)
          /\ events[i].final => i = Len(events) /\ ~running /\ at \in {"off", "ready"}
    /\ \A i \in DOMAIN jobs :
          /\ jobs[i].turn <= turn
          /\ jobs[i].turn = turn => Numbers(jobs[i].audio) \subseteq Numbers(taken)
    /\ worker.at = "append" => jobs # <<>> /\ worker.text \subseteq Numbers(Head(jobs).audio)
    /\ \A text \in {partial, result, lastPartial} : text \subseteq Numbers(taken)
    /\ result # {} => at \in {"off", "ready"}
ListenInv == LineInv /\ KeptInv /\ WordsInv /\ FinalIsWhole
=============================================================================
