-------------------------- MODULE SynthesizerProofs --------------------------
(***************************************************************************)
(* The safety half of NoReplyIsLost, for any threads, duties, engines,     *)
(* number of calls and of cancellations: every step of the synthesizer is, *)
(* to the thread Main, a step of Utterance or none.                        *)
(***************************************************************************)
EXTENDS Synthesizer, TLAPS

Places == {"idle", "enter", "ensure", "lock", "loading", "build", "check", "play", "wait",
           "monitor", "sleep", "stop"}
CallRecords ==
    [at : Places, kind : {"speak", "interruptible", "build"}, text : Texts, engine : Engines]
Results == {"nothing", "success", "interrupted", "failed", "raised"}
Sounds == {"nothing", "sounding", "cut", "all"}

Shape ==
    /\ call \in [Threads -> CallRecords]
    /\ told \in [Threads -> Results]
    /\ device \in Threads \cup {Nobody}
    /\ heard \in [Threads -> Sounds]
    /\ excused \in [Threads -> BOOLEAN]

Playing == {"check", "play", "wait", "monitor", "sleep", "stop"}
Sounding == {"wait", "monitor", "sleep", "stop"}

\* What is played has words.
CallInv(t) == call[t].at \in Playing => call[t].kind # "build" /\ call[t].text = "words"

\* A sound is what the device plays, starts when its thread's call plays it, and
\* is cut during the call only if the call is excused.
SoundInv(t) ==
    /\ device = t <=> heard[t] = "sounding"
    /\ Busy(t) /\ call[t].at \notin Sounding => heard[t] = "nothing"
    /\ call[t].at \in Sounding => heard[t] \in {"sounding", "all"} \/ excused[t]

SpeechInv == Shape /\ \A t \in Threads : CallInv(t) /\ SoundInv(t)

-----------------------------------------------------------------------------
(* A step of one thread, and what the others may notice of it: their sound *)
(* is cut and they are excused.                                            *)

Bystands(u) ==
    /\ call'[u] = call[u] /\ told'[u] = told[u]
    /\ excused'[u] \in {excused[u], excused[u] \/ Busy(u)}
    /\ \/ heard'[u] = heard[u] /\ (device' = u <=> device = u)
       \/ /\ heard[u] = "sounding" /\ heard'[u] = "cut" /\ device' # u
          /\ excused'[u] = (excused[u] \/ Busy(u))

\* What is proved of the thread that takes the step.
Fine(t) == CallInv(t)' /\ SoundInv(t)' /\ (t = Main => [Caller!Next]_(Caller!vars))

LEMMA BystandersAreFine ==
    ASSUME SpeechInv, NEW u \in Threads, Bystands(u)
    PROVE  Fine(u)
<1>1. excused[u] \in BOOLEAN /\ CallInv(u) /\ SoundInv(u) /\ Busy(u) \in BOOLEAN
  BY DEF SpeechInv, Shape, Busy
<1>2. CallInv(u)' /\ SoundInv(u)' /\ Busy(u)' = Busy(u)
  BY <1>1 DEF Bystands, CallInv, SoundInv, Busy, Sounding
<1>3. ASSUME u = Main PROVE [Caller!Next]_(Caller!vars)
  <2>1. CASE Busy(u) /\ excused'[u] # excused[u]
    <3>1. Caller!Excuse
      BY <1>1, <1>2, <1>3, <2>1 DEF Bystands, Caller!Excuse
    <3>. QED
      BY <3>1 DEF Caller!Next
  <2>2. CASE excused'[u] = excused[u] /\ heard'[u] = "cut" /\ heard[u] = "sounding"
    <3>1. Caller!Stops
      BY <1>2, <1>3, <2>2 DEF Bystands, Caller!Stops
    <3>. QED
      BY <3>1 DEF Caller!Next
  <2>3. CASE excused'[u] = excused[u] /\ heard'[u] = heard[u]
    BY <1>2, <1>3, <2>3 DEF Bystands, Caller!vars
  <2>. QED
    BY <1>1, <2>1, <2>2, <2>3 DEF Bystands
<1>. QED
  BY <1>2, <1>3 DEF Fine

LEMMA StepIsFine ==
    ASSUME SpeechInv, NEW t \in Threads, Shape', Fine(t),
           \A u \in Threads \ {t} : Bystands(u)
    PROVE  SpeechInv' /\ [Caller!Next]_(Caller!vars)
<1>1. \A u \in Threads : Fine(u)
  BY BystandersAreFine
<1>. QED
  BY <1>1, SynthesizerAssumption DEF SpeechInv, Fine

-----------------------------------------------------------------------------
(* What a step makes of the call of its thread: it goes on, or starts over *)
(* with Chatterbox, or ends with a result.                                 *)
GoesOn(t, step) == GoesTo(t, step) /\ UNCHANGED told
StartsOver(t) ==
    /\ call' = [call EXCEPT ![t].engine = "chatterbox", ![t].at = "enter"]
    /\ UNCHANGED told
Ends(t, r) == GoesTo(t, "idle") /\ told' = [told EXCEPT ![t] = r]

Quiet == UNCHANGED <<device, heard, excused>>

\* The call stays the thread's, with its duty and its text, and so do the others'.
SameCall(t) ==
    /\ call' \in [Threads -> CallRecords] /\ told' \in [Threads -> Results]
    /\ \A u \in Threads \ {t} : call'[u] = call[u] /\ told'[u] = told[u]
    /\ call'[t].kind = call[t].kind /\ call'[t].text = call[t].text

Answer == {"success", "silence", "interrupted", "failed", "raised"}

LEMMA AnswersCases ==
    ASSUME NEW t, NEW result \in Answer, Answers(t, result)
    PROVE  \/ StartsOver(t) /\ result \in {"failed", "silence"}
           \/ Ends(t, IF result = "silence" THEN "success" ELSE result)
BY DEF Answers, StartsOver, Ends

LEMMA GoesOnKeeps ==
    ASSUME Shape, NEW t \in Threads, NEW step \in Places, GoesOn(t, step)
    PROVE  SameCall(t) /\ call'[t].at = step /\ told'[t] = told[t]
BY DEF Shape, CallRecords, GoesOn, GoesTo, SameCall

LEMMA StartsOverKeeps ==
    ASSUME Shape, NEW t \in Threads, StartsOver(t)
    PROVE  SameCall(t) /\ call'[t].at = "enter" /\ told'[t] = told[t]
<1>1. "enter" \in Places /\ "chatterbox" \in Engines
  BY DEF Places, Engines
<1>. QED
  BY <1>1 DEF Shape, CallRecords, StartsOver, SameCall

LEMMA EndsKeeps ==
    ASSUME Shape, NEW t \in Threads, NEW r \in Results, Ends(t, r)
    PROVE  SameCall(t) /\ call'[t].at = "idle" /\ told'[t] = r
<1>1. "idle" \in Places
  BY DEF Places
<1>. QED
  BY <1>1 DEF Shape, CallRecords, Ends, GoesTo, SameCall

\* A silent step of a thread in the midst of its call.
LEMMA QuietGoes ==
    ASSUME SpeechInv, NEW t \in Threads, Busy(t), SameCall(t), Quiet,
           call'[t].at # "idle", told'[t] = told[t],
           call'[t].at \in Playing => call[t].kind # "build" /\ call[t].text = "words",
           call'[t].at \in Sounding <=> call[t].at \in Sounding
    PROVE  SpeechInv' /\ [Caller!Next]_(Caller!vars)
<1>1. Shape'
  BY DEF SpeechInv, Shape, SameCall, Quiet
<1>2. \A u \in Threads \ {t} : Bystands(u)
  BY DEF Bystands, SameCall, Quiet
<1>3. CallInv(t)' /\ SoundInv(t)'
  BY DEF SpeechInv, CallInv, SoundInv, SameCall, Quiet, Busy
<1>4. t = Main => UNCHANGED Caller!vars
  BY DEF SameCall, Quiet, Busy, Caller!vars
<1>. QED
  BY <1>1, <1>2, <1>3, <1>4, StepIsFine DEF Fine

\* A call ends and touches no sound: it succeeds only when it owes nothing, an
\* interruption or a failure is silent, and an exception may leave the sound.
LEMMA QuietEnds ==
    ASSUME SpeechInv, NEW t \in Threads, Busy(t), NEW r \in Results \ {"nothing"},
           Ends(t, r), UNCHANGED <<device, heard>>,
           excused' \in [Threads -> BOOLEAN],
           \A u \in Threads \ {t} : excused'[u] = excused[u],
           excused'[t] = excused[t] \/ (excused'[t] = TRUE /\ r \in {"success", "raised"}),
           r \in {"interrupted", "failed"} => heard[t] # "sounding",
           r = "success" =>
              \/ excused'[t]
              \/ /\ heard[t] # "sounding"
                 /\ call[t].kind = "build" \/ call[t].text = "empty" \/ heard[t] = "all"
    PROVE  SpeechInv' /\ [Caller!Next]_(Caller!vars)
<1>1. SameCall(t) /\ call'[t].at = "idle" /\ told'[t] = r
  BY EndsKeeps DEF SpeechInv
<1>2. Shape'
  BY <1>1 DEF SpeechInv, Shape, SameCall
<1>3. \A u \in Threads \ {t} : Bystands(u)
  BY <1>1 DEF Bystands, SameCall
<1>4. CallInv(t)' /\ SoundInv(t)'
  BY <1>1 DEF SpeechInv, CallInv, SoundInv, Busy, Playing, Sounding
<1>5. ASSUME t = Main PROVE Caller!Next
  <2>1. CASE r = "success"
    <3>1. Caller!Succeeds
      BY <1>1, <1>5, <2>1 DEF SameCall, Busy, Caller!Succeeds
    <3>. QED
      BY <3>1 DEF Caller!Next
  <2>2. CASE r = "raised"
    <3>1. Caller!Raises
      BY <1>1, <1>5, <2>2 DEF SameCall, Busy, Caller!Raises
    <3>. QED
      BY <3>1 DEF Caller!Next
  <2>3. CASE r \in {"interrupted", "failed"}
    <3>1. Caller!GivesUp
      BY <1>1, <1>5, <2>3 DEF SameCall, Busy, Caller!GivesUp
    <3>. QED
      BY <3>1 DEF Caller!Next
  <2>. QED
    BY <2>1, <2>2, <2>3 DEF Results
<1>. QED
  BY <1>2, <1>3, <1>4, <1>5, StepIsFine DEF Fine

\* Before it sounds, an answer without success ends the call or starts it over.
LEMMA QuietAnswers ==
    ASSUME SpeechInv, NEW t \in Threads, Busy(t), call[t].at \notin Sounding,
           NEW result \in Answer, Answers(t, result), Quiet,
           result \in {"success", "silence"} => call[t].kind = "build" \/ call[t].text = "empty"
    PROVE  SpeechInv' /\ [Caller!Next]_(Caller!vars)
<1>1. CASE StartsOver(t)
  <2>1. SameCall(t) /\ call'[t].at = "enter" /\ told'[t] = told[t]
    BY <1>1, StartsOverKeeps DEF SpeechInv
  <2>2. "enter" \notin Playing \cup Sounding \cup {"idle"}
    BY DEF Playing, Sounding
  <2>. QED
    BY <2>1, <2>2, QuietGoes
<1>2. CASE Ends(t, IF result = "silence" THEN "success" ELSE result)
  <2> DEFINE r == IF result = "silence" THEN "success" ELSE result
  <2>1. r \in Results \ {"nothing"} /\ (r = "success" => result \in {"success", "silence"})
    BY DEF Answer, Results
  <2>2. heard[t] = "nothing"
    BY DEF SpeechInv, SoundInv
  <2>3. excused' \in [Threads -> BOOLEAN] /\ excused' = excused /\ UNCHANGED <<device, heard>>
    BY DEF SpeechInv, Shape, Quiet
  <2>4. Ends(t, r)
    BY <1>2
  <2> HIDE DEF r
  <2>. QED
    BY <2>1, <2>2, <2>3, <2>4, QuietEnds
<1>. QED
  BY <1>1, <1>2, AnswersCases

-----------------------------------------------------------------------------
(* Every action, from the entry of a call to its end. *)

LEMMA InitSpeaks == Init => SpeechInv /\ Caller!Init
<1> SUFFICES ASSUME Init PROVE SpeechInv /\ Caller!Init
  OBVIOUS
<1>1. [at |-> "idle", kind |-> "build", text |-> "empty", engine |-> "chatterbox"]
        \in CallRecords
  BY DEF CallRecords, Places, Texts, Engines
<1>2. Shape
  BY <1>1 DEF Init, Shape, Results, Sounds
<1>3. \A t \in Threads : CallInv(t) /\ SoundInv(t)
  BY SynthesizerAssumption DEF Init, SoundInv, CallInv, Playing, Sounding, Busy
<1>. QED
  BY <1>2, <1>3, SynthesizerAssumption DEF SpeechInv, Init, Caller!Init, Busy

LEMMA PrepareSteps ==
    ASSUME SpeechInv, NEW t \in Threads,
           FindsModel(t) \/ LoadsModel(t) \/ PreparesVoices(t) \/ Enters(t)
    PROVE  SpeechInv' /\ [Caller!Next]_(Caller!vars)
<1> USE DEF Places, Playing, Sounding
<1>1. Quiet /\ call[t].at \in {"enter", "ensure", "lock", "loading"}
  BY DEF FindsModel, LoadsModel, PreparesVoices, Enters, Quiet, soundVars
<1>2. ASSUME NEW step \in {"build", "ensure", "lock", "loading"}, GoesOn(t, step)
      PROVE  SpeechInv' /\ [Caller!Next]_(Caller!vars)
  BY <1>1, <1>2, GoesOnKeeps, QuietGoes DEF Busy, SpeechInv
<1>3. ASSUME NEW r \in {"interrupted", "failed", "raised"}, Answers(t, r)
      PROVE  SpeechInv' /\ [Caller!Next]_(Caller!vars)
  BY <1>1, <1>3, QuietAnswers DEF Busy, Answer
<1>4. CASE FindsModel(t) \/ PreparesVoices(t)
  BY <1>2, <1>4 DEF FindsModel, PreparesVoices, GoesOn
<1>5. CASE LoadsModel(t)
  <2>1. GoesOn(t, "loading") \/ Answers(t, Failure(t))
    BY <1>5 DEF LoadsModel, GoesOn
  <2>. QED
    BY <1>2, <1>3, <2>1 DEF Failure
<1>6. CASE Enters(t)
  <2>1. Answers(t, "interrupted") \/ GoesOn(t, "build") \/ GoesOn(t, "ensure")
    BY <1>6 DEF Enters, GoesOn
  <2>. QED
    BY <1>2, <1>3, <2>1
<1>. QED
  BY <1>4, <1>5, <1>6

\* The audio of a text with words is there.
LEMMA AudioSteps ==
    ASSUME SpeechInv, NEW t \in Threads, call[t].at = "build",
           call[t].text = "words", HasAudio(t), Quiet
    PROVE  SpeechInv' /\ [Caller!Next]_(Caller!vars)
<1>1. CASE call[t].kind = "build"
  BY <1>1, QuietAnswers DEF HasAudio, Busy, Sounding, Answer
<1>2. CASE call[t].kind # "build"
  <2>1. GoesOn(t, "check") \/ GoesOn(t, "play")
    BY <1>2 DEF HasAudio, GoesOn
  <2>. QED
    BY <1>2, <2>1, GoesOnKeeps, QuietGoes DEF SpeechInv, Places, Playing, Sounding, Busy
<1>. QED
  BY <1>1, <1>2

LEMMA BuildSteps ==
    ASSUME SpeechInv, NEW t \in Threads, MultiBuilds(t) \/ ChatterboxBuilds(t)
    PROVE  SpeechInv' /\ [Caller!Next]_(Caller!vars)
<1>1. /\ call[t].at = "build" /\ Busy(t) /\ call[t].at \notin Sounding
      /\ UNCHANGED <<device, heard>>
  BY DEF MultiBuilds, EdgeSwallows, ChatterboxBuilds, Busy, Sounding, soundVars
<1>2. Shape /\ call[t].text \in Texts /\ heard[t] = "nothing"
  BY <1>1 DEF SpeechInv, Shape, SoundInv, CallRecords
<1>3. ASSUME UNCHANGED excused, NEW result \in {"silence", "failed", "raised"},
             Answers(t, result), result = "silence" => call[t].text = "empty"
      PROVE  SpeechInv' /\ [Caller!Next]_(Caller!vars)
  BY <1>1, <1>3, QuietAnswers DEF Quiet, Answer
<1>4. ASSUME UNCHANGED excused, HasAudio(t), call[t].text # "empty"
      PROVE  SpeechInv' /\ [Caller!Next]_(Caller!vars)
  BY <1>1, <1>2, <1>4, AudioSteps DEF Quiet, Texts
<1>5. ASSUME Answers(t, "silence"),
             excused' = [excused EXCEPT ![t] = excused[t] \/ call[t].kind # "build"]
      PROVE  SpeechInv' /\ [Caller!Next]_(Caller!vars)
  <2>1. CASE call[t].kind = "build"
    <3>1. UNCHANGED excused
      BY <1>2, <1>5, <2>1 DEF Shape
    <3>. QED
      BY <1>1, <1>5, <2>1, <3>1, QuietAnswers DEF Quiet, Answer
  <2>2. CASE call[t].kind # "build"
    <3>1. Ends(t, "success")
      BY <1>5, <2>2 DEF Answers, Ends
    <3>2. /\ excused' \in [Threads -> BOOLEAN] /\ excused'[t] = TRUE
          /\ \A u \in Threads \ {t} : excused'[u] = excused[u]
      BY <1>2, <1>5, <2>2 DEF Shape
    <3>. QED
      BY <1>1, <1>2, <3>1, <3>2, QuietEnds DEF Results
  <2>. QED
    BY <2>1, <2>2
<1>6. CASE MultiBuilds(t)
  BY <1>3, <1>4, <1>5, <1>6 DEF MultiBuilds, EdgeSwallows, NoAudio
<1>7. CASE ChatterboxBuilds(t)
  BY <1>3, <1>4, <1>7 DEF ChatterboxBuilds, NoAudio, Failure
<1>. QED
  BY <1>6, <1>7

\* What the silence of the device, or its use by another, leaves of a sound.
LEMMA CutBystanders ==
    ASSUME SpeechInv, NEW t \in Threads, NEW d \in {t, Nobody}, SameCall(t), device' = d,
           excused' = CutBy(t), \A u \in Threads \ {t} : heard'[u] = Silenced[u]
    PROVE  \A u \in Threads \ {t} : Bystands(u)
<1> TAKE u \in Threads \ {t}
<1>1. excused'[u] = (excused[u] \/ (u = device /\ Busy(u))) /\ excused[u] \in BOOLEAN
  BY DEF CutBy, SpeechInv, Shape
<1>2. heard'[u] = IF u = device THEN "cut" ELSE heard[u]
  BY DEF Silenced
<1>3. device' # u /\ (device = u <=> heard[u] = "sounding")
  BY SynthesizerAssumption DEF SpeechInv, SoundInv
<1>. QED
  BY <1>1, <1>2, <1>3 DEF Bystands, SameCall, Busy

LEMMA PlaySteps ==
    ASSUME SpeechInv, NEW t \in Threads,
           Checks(t) \/ Waits(t) \/ Monitors(t) \/ Sleeps(t)
    PROVE  SpeechInv' /\ [Caller!Next]_(Caller!vars)
<1>1. Quiet /\ call[t].at \in Playing /\ Busy(t)
  BY DEF Checks, Waits, Monitors, Sleeps, Quiet, soundVars, Playing, Busy
<1>2. Shape /\ SoundInv(t) /\ call[t].kind # "build" /\ call[t].text = "words"
  BY <1>1 DEF SpeechInv, CallInv
<1>3. ASSUME call[t].at \in Sounding, NEW r \in {"success", "interrupted"},
             device # t, Answers(t, r)
      PROVE  SpeechInv' /\ [Caller!Next]_(Caller!vars)
  <2>1. Ends(t, r)
    BY <1>3, AnswersCases DEF Answer
  <2>2. heard[t] # "sounding" /\ (heard[t] = "all" \/ excused[t])
    BY <1>2, <1>3 DEF SoundInv
  <2>3. /\ excused' \in [Threads -> BOOLEAN] /\ excused' = excused
        /\ UNCHANGED <<device, heard>>
    BY <1>1, <1>2 DEF Quiet, Shape
  <2>4. r \in Results \ {"nothing"}
    BY DEF Results
  <2>. QED
    BY <1>1, <2>1, <2>2, <2>3, <2>4, QuietEnds
<1>4. ASSUME NEW step \in Playing, GoesOn(t, step),
             step \in Sounding <=> call[t].at \in Sounding
      PROVE  SpeechInv' /\ [Caller!Next]_(Caller!vars)
  BY <1>1, <1>2, <1>4, GoesOnKeeps, QuietGoes DEF Playing, Places
<1>5. CASE Checks(t)
  <2>1. call[t].at = "check"
    BY <1>5 DEF Checks
  <2>2. Answers(t, "interrupted") \/ GoesOn(t, "play")
    BY <1>5 DEF Checks, GoesOn
  <2>. QED
    BY <1>1, <1>4, <2>1, <2>2, QuietAnswers DEF Playing, Sounding, Answer
<1>6. CASE Waits(t) \/ Sleeps(t)
  BY <1>3, <1>6 DEF Waits, Sleeps, Sounding
<1>7. CASE Monitors(t)
  <2>1. call[t].at = "monitor"
    BY <1>7 DEF Monitors
  <2>2. GoesOn(t, "stop") \/ (device # t /\ Answers(t, "success"))
    BY <1>7 DEF Monitors, GoesOn
  <2>. QED
    BY <1>3, <1>4, <2>1, <2>2 DEF Playing, Sounding
<1>. QED
  BY <1>5, <1>6, <1>7

LEMMA StartSteps ==
    ASSUME SpeechInv, NEW t \in Threads, Plays(t)
    PROVE  SpeechInv' /\ [Caller!Next]_(Caller!vars)
<1>1. call[t].at = "play" /\ Busy(t) /\ call[t].at \in Playing /\ call[t].at \notin Sounding
  BY DEF Plays, Busy, Playing, Sounding
<1>2. /\ Shape /\ heard[t] = "nothing" /\ device # t
      /\ call[t].kind # "build" /\ call[t].text = "words"
  BY <1>1 DEF SpeechInv, CallInv, SoundInv
<1>3. CASE (Answers(t, "failed") \/ Answers(t, "raised")) /\ UNCHANGED <<soundVars, excused>>
  BY <1>1, <1>3, QuietAnswers DEF Answer, Quiet, soundVars
<1>4. ASSUME NEW step \in {"wait", "monitor"}, GoesOn(t, step), device' = t,
             heard' = [Silenced EXCEPT ![t] = "sounding"], excused' = CutBy(t)
      PROVE  SpeechInv' /\ [Caller!Next]_(Caller!vars)
  <2>1. SameCall(t) /\ call'[t].at = step /\ told'[t] = told[t]
    BY <1>2, <1>4, GoesOnKeeps DEF Places
  <2>2. Silenced \in [Threads -> Sounds]
    BY <1>2 DEF Shape, Silenced, Sounds
  <2>3. /\ heard' \in [Threads -> Sounds] /\ heard'[t] = "sounding"
        /\ \A u \in Threads \ {t} : heard'[u] = Silenced[u]
    BY <1>4, <2>2 DEF Sounds
  <2>4. excused' \in [Threads -> BOOLEAN] /\ excused'[t] = excused[t]
    BY <1>2, <1>4 DEF Shape, CutBy, Busy
  <2>5. Shape'
    BY <1>4, <2>1, <2>3, <2>4 DEF Shape, SameCall
  <2>6. CallInv(t)' /\ SoundInv(t)'
    BY <1>2, <1>4, <2>1, <2>3 DEF CallInv, SoundInv, SameCall, Sounding, Busy
  <2>7. \A u \in Threads \ {t} : Bystands(u)
    BY <1>4, <2>1, <2>3, CutBystanders
  <2>8. ASSUME t = Main PROVE Caller!Next
    <3>1. Caller!Starts
      BY <1>1, <1>2, <2>1, <2>3, <2>4, <2>8 DEF SameCall, Busy, Caller!Starts
    <3>. QED
      BY <3>1 DEF Caller!Next
  <2>. QED
    BY <2>5, <2>6, <2>7, <2>8, StepIsFine DEF Fine
<1>5. \/ (Answers(t, "failed") \/ Answers(t, "raised")) /\ UNCHANGED <<soundVars, excused>>
      \/ /\ GoesOn(t, "wait") \/ GoesOn(t, "monitor")
         /\ device' = t /\ heard' = [Silenced EXCEPT ![t] = "sounding"] /\ excused' = CutBy(t)
  BY DEF Plays, GoesOn
<1>. QED
  BY <1>3, <1>4, <1>5

LEMMA StopSteps ==
    ASSUME SpeechInv, NEW t \in Threads, StopsSound(t)
    PROVE  SpeechInv' /\ [Caller!Next]_(Caller!vars)
<1>1. /\ call[t].at = "stop" /\ Busy(t) /\ Shape /\ SoundInv(t)
      /\ heard' = Silenced /\ device' = Nobody /\ excused' = CutBy(t)
  BY DEF StopsSound, Busy, SpeechInv
<1>2. Ends(t, "interrupted")
  BY AnswersCases DEF StopsSound, Answer
<1>3. SameCall(t) /\ call'[t].at = "idle" /\ told'[t] = "interrupted"
  BY <1>1, <1>2, EndsKeeps DEF Results
<1>4. /\ heard' \in [Threads -> Sounds]
      /\ heard'[t] = IF heard[t] = "sounding" THEN "cut" ELSE heard[t]
  BY <1>1 DEF Shape, Silenced, Sounds, SoundInv
<1>5. excused' \in [Threads -> BOOLEAN] /\ excused'[t] = excused[t]
  BY <1>1 DEF Shape, CutBy, Busy
<1>6. Shape'
  BY <1>1, <1>3, <1>4, <1>5 DEF Shape, SameCall
<1>7. CallInv(t)' /\ SoundInv(t)'
  BY <1>1, <1>3, <1>4, SynthesizerAssumption DEF CallInv, SoundInv, Busy, Playing, Sounding
<1>8. \A u \in Threads \ {t} : Bystands(u)
  BY <1>1, <1>3, CutBystanders
<1>9. ASSUME t = Main PROVE Caller!Next
  <2>1. Caller!GivesUp
    BY <1>1, <1>3, <1>4, <1>5, <1>9 DEF SameCall, Busy, Caller!GivesUp
  <2>. QED
    BY <2>1 DEF Caller!Next
<1>. QED
  BY <1>6, <1>7, <1>8, <1>9, StepIsFine DEF Fine

LEMMA FailSteps ==
    ASSUME SpeechInv, NEW t \in Threads, MonitorFails(t)
    PROVE  SpeechInv' /\ [Caller!Next]_(Caller!vars)
<1>1. /\ Shape /\ SoundInv(t) /\ CallInv(t) /\ call[t].at = "monitor" /\ Busy(t)
      /\ device' = device /\ heard' = heard
      /\ excused' = [excused EXCEPT ![t] = TRUE]
  BY DEF SpeechInv, MonitorFails, Busy, soundVars
<1>2. /\ excused' \in [Threads -> BOOLEAN] /\ excused'[t] = TRUE /\ excused[t] \in BOOLEAN
      /\ \A u \in Threads \ {t} : excused'[u] = excused[u]
  BY <1>1 DEF Shape
<1>3. ASSUME NEW r \in {"success", "raised"}, Answers(t, r)
      PROVE  SpeechInv' /\ [Caller!Next]_(Caller!vars)
  <2>1. Ends(t, r) /\ r \in Results \ {"nothing"}
    BY <1>3, AnswersCases DEF Answer, Results
  <2>. QED
    BY <1>1, <1>2, <2>1, QuietEnds
<1>4. CASE GoesOn(t, "sleep")
  <2>1. SameCall(t) /\ call'[t].at = "sleep" /\ told'[t] = told[t]
    BY <1>1, <1>4, GoesOnKeeps DEF Places
  <2>2. Shape'
    BY <1>1, <1>2, <2>1 DEF Shape, SameCall
  <2>3. CallInv(t)' /\ SoundInv(t)'
    BY <1>1, <1>2, <2>1 DEF CallInv, SoundInv, SameCall, Playing, Sounding, Busy
  <2>4. \A u \in Threads \ {t} : Bystands(u)
    BY <1>1, <1>2, <2>1 DEF Bystands, SameCall
  <2>5. ASSUME t = Main PROVE [Caller!Next]_(Caller!vars)
    <3>1. CASE excused[t] = TRUE
      BY <1>1, <1>2, <2>1, <2>5, <3>1 DEF SameCall, Busy, Caller!vars
    <3>2. CASE excused[t] = FALSE
      <4>1. Caller!Excuse
        BY <1>1, <1>2, <2>1, <2>5, <3>2 DEF SameCall, Busy, Caller!Excuse
      <4>. QED
        BY <4>1 DEF Caller!Next
    <3>. QED
      BY <1>2, <3>1, <3>2
  <2>. QED
    BY <2>2, <2>3, <2>4, <2>5, StepIsFine DEF Fine
<1>. QED
  BY <1>3, <1>4 DEF MonitorFails, GoesOn

LEMMA BeginSteps ==
    ASSUME SpeechInv, NEW t \in Threads, NEW x \in Texts,
           NEW e \in Selected, NEW k \in Duties[t], Begins(t, k, x, e)
    PROVE  SpeechInv' /\ [Caller!Next]_(Caller!vars)
<1> DEFINE begun == [at |-> "enter", kind |-> k, text |-> x, engine |-> e]
<1>1. /\ ~Busy(t) /\ call' = [call EXCEPT ![t] = begun]
      /\ heard' = [heard EXCEPT ![t] = "nothing"]
      /\ device' = IF device = t THEN Nobody ELSE device
      /\ excused' = [excused EXCEPT ![t] = FALSE]
      /\ UNCHANGED told
  BY DEF Begins
<1>2. k \in {"speak", "interruptible", "build"}
  BY SynthesizerAssumption
<1>3. begun \in CallRecords
  BY <1>2 DEF CallRecords, Places, Engines, Selected
<1>4. Shape /\ \A u \in Threads : SoundInv(u)
  BY DEF SpeechInv
<1>5. begun.at = "enter" /\ begun.kind = k /\ begun.text = x
  OBVIOUS
<1> HIDE DEF begun
<1>6. /\ call'[t] = begun /\ \A u \in Threads \ {t} : call'[u] = call[u]
      /\ heard'[t] = "nothing" /\ \A u \in Threads \ {t} : heard'[u] = heard[u]
      /\ excused'[t] = FALSE /\ \A u \in Threads \ {t} : excused'[u] = excused[u]
  BY <1>1, <1>4 DEF Shape
<1>7. Shape'
  BY <1>1, <1>3, <1>4 DEF Shape, Sounds
<1>8. CallInv(t)' /\ SoundInv(t)'
  BY <1>1, <1>5, <1>6, SynthesizerAssumption DEF CallInv, SoundInv, Playing, Sounding
<1>9. \A u \in Threads \ {t} : Bystands(u)
  BY <1>1, <1>6, SynthesizerAssumption DEF Bystands
<1>10. ASSUME t = Main PROVE Caller!Next
  <2>1. Caller!Begin
    BY <1>1, <1>5, <1>6, <1>10 DEF Busy, Caller!Begin
  <2>. QED
    BY <2>1 DEF Caller!Next
<1>. QED
  BY <1>7, <1>8, <1>9, <1>10, StepIsFine DEF Fine

\* Cancelled from outside, every caller is excused and what sounds is cut.
LEMMA CancelSteps ==
    ASSUME SpeechInv, NEW e \in Engines, CancelEngine(e), UNCHANGED <<call, told>>
    PROVE  SpeechInv' /\ [Caller!Next]_(Caller!vars)
<1>1. /\ Shape /\ heard' = Silenced /\ device' = Nobody
      /\ excused' = [t \in Threads |-> excused[t] \/ Busy(t)]
  BY DEF SpeechInv, CancelEngine
<1>2. \A u \in Threads : Bystands(u)
  <2> TAKE u \in Threads
  <2>1. /\ heard'[u] = (IF u = device THEN "cut" ELSE heard[u]) /\ device' # u
        /\ excused'[u] = (excused[u] \/ Busy(u)) /\ excused[u] \in BOOLEAN
    BY <1>1, SynthesizerAssumption DEF Silenced, Shape
  <2>2. device = u <=> heard[u] = "sounding"
    BY DEF SpeechInv, SoundInv
  <2>. QED
    BY <2>1, <2>2 DEF Bystands
<1>3. Shape'
  BY <1>1 DEF Shape, Silenced, Sounds, Busy
<1>. QED
  BY <1>2, <1>3, BystandersAreFine, SynthesizerAssumption DEF SpeechInv, Fine

\* The device comes to the end of the audio.
LEMMA EndOfSound ==
    ASSUME SpeechInv, SoundEnds
    PROVE  SpeechInv' /\ [Caller!Next]_(Caller!vars)
<1>1. /\ Shape /\ device \in Threads /\ heard[device] = "sounding" /\ device' = Nobody
      /\ heard' = [heard EXCEPT ![device] = "all"] /\ UNCHANGED <<call, told, excused>>
      /\ SoundInv(device) /\ CallInv(device)
  BY DEF SpeechInv, Shape, SoundInv, SoundEnds
<1>2. heard'[device] = "all" /\ \A u \in Threads \ {device} : heard'[u] = heard[u]
  BY <1>1 DEF Shape
<1>3. Shape'
  BY <1>1 DEF Shape, Sounds
<1>4. \A u \in Threads : CallInv(u)' /\ SoundInv(u)'
  <2> TAKE u \in Threads
  <2>1. CallInv(u) /\ SoundInv(u)
    BY DEF SpeechInv
  <2>2. CASE u = device
    BY <1>1, <1>2, <2>1, <2>2, SynthesizerAssumption DEF CallInv, SoundInv, Busy
  <2>3. CASE u # device
    BY <1>1, <1>2, <2>1, <2>3, SynthesizerAssumption DEF CallInv, SoundInv, Busy
  <2>. QED
    BY <2>2, <2>3
<1>5. [Caller!Next]_(Caller!vars)
  <2>1. CASE device = Main
    <3>1. Caller!Stops
      BY <1>1, <1>2, <2>1 DEF Caller!Stops, Busy
    <3>. QED
      BY <3>1 DEF Caller!Next
  <2>2. CASE device # Main
    BY <1>1, <1>2, <2>2, SynthesizerAssumption DEF Caller!vars, Busy
  <2>. QED
    BY <2>1, <2>2
<1>. QED
  BY <1>3, <1>4, <1>5 DEF SpeechInv

LEMMA SpeechStep ==
    ASSUME SpeechInv, [Next]_vars
    PROVE  SpeechInv' /\ [Caller!Next]_(Caller!vars)
<1>1. ASSUME NEW t \in Threads, Step(t)
      PROVE  SpeechInv' /\ [Caller!Next]_(Caller!vars)
  BY <1>1, PrepareSteps, BuildSteps, PlaySteps, StartSteps, StopSteps DEF Step
<1>2. CASE Cancels \/ CancelsOther
  BY <1>2, CancelSteps DEF Cancels, CancelsOther, Engines
<1>3. CASE ResetInterrupt \/ UNCHANGED vars
  <2>1. UNCHANGED <<call, told, device, heard, excused>>
    BY <1>3 DEF ResetInterrupt, vars, soundVars
  <2>. QED
    BY <2>1 DEF SpeechInv, Shape, SoundInv, CallInv, Busy, Caller!vars
<1>. QED
  BY <1>1, <1>2, <1>3, FailSteps, BeginSteps, EndOfSound DEF Next

(* Every step of the synthesizer keeps the promise of Utterance to Main,   *)
(* whichever engines are configured and whatever the other threads call:   *)
(* no call of speak or speak_interruptible reports success while something *)
(* it was to say has not been heard, unless it was cancelled, cut by       *)
(* another thread, could not listen, or Edge-TTS swallowed its error; and  *)
(* it reports an interruption or a failure only in silence.  That the call *)
(* returns is left to the model checker.                                   *)
THEOREM PromiseKept == Spec => Caller!Init /\ [][Caller!Next]_(Caller!vars)
<1>1. Init => SpeechInv /\ Caller!Init
  BY InitSpeaks
<1>2. SpeechInv /\ [Next]_vars => SpeechInv' /\ [Caller!Next]_(Caller!vars)
  BY SpeechStep
<1>. QED
  BY <1>1, <1>2, PTL DEF Spec
=============================================================================
