# F.R.I.D.A.Y. in TLA+

A specification of the parts of F.R.I.D.A.Y. that decide: what a task may do,
when a user has to be asked, what counts as done, which jobs run when, what is
heard and spoken, what survives a crash, and what is trusted before it is used.
The modules are translated from the Python code under `src/src/friday/`;
`PROJECT.json` maps every definition to the lines it stands for. TLC checks
small instances, TLAPS proves the main results for every value of the constants.

## The system

F.R.I.D.A.Y. is a local assistant. A goal, typed or spoken, becomes a task of
the `AgentOrchestrator`, which plans it with a language model, asks the policy
engine about every step, asks the user where the policy says so, executes the
step with a registered tool, verifies the outcome and recovers from failures.
Around it are two voice engines, a job scheduler, plugins, a pipeline that
proposes changes to its own source, memory, and clients of online services.

| Component | State it keeps | Operations | Interacts with | What is hard | Correct when |
|---|---|---|---|---|---|
| Orchestrator (`agent/`) | tasks: status, plan, index, budgets, authorized steps, pending authorization | `run`, `resume_with_voice`, the execute loop | policy, executor, evaluator, recovery, steering, trajectory recorder | several tasks on one object, answers at any time, failures that lead back into the loop, one budget over retries and replans | no effect before consent, no false completion, finished is final, every call returns |
| Task state machine (`agent/state.py`) | `Task.status` | `transition` | orchestrator, its callbacks | an illegal transition raises in the middle of the loop | only allowed transitions |
| Fast path (`agent/fastpath.py`) | none | `match` | orchestrator | a dozen rules that overlap | nothing is closed but at a word |
| Policy, confirmation, voice authentication (`security/`) | tiers, pending actions, enrolled voice | `evaluate`, create and consume a confirmation | orchestrator, plugins, skills | lifetime and single use of a confirmation | a decision is never weaker than the tier |
| Jobs (`jobs/`) | jobs, next runs, failure counters | register, unregister, poll, trigger, `mark_completed`, start, stop | orchestrator, network monitor | two threads without a lock, stale due lists, timeouts that leave a run behind, restart | due jobs run, budgets are kept, next runs lie in the window |
| Voice session (`interaction/session.py`) | turn state, pending task, follow-up window | wake, listen, think, speak, barge-in | orchestrator, speech input and output | events in any order, stale answers, cancellation | an answer reaches the task that asked |
| Speech output (`interaction/`) | queue, generation, playing chunk | speak, cancel, flush | voice session | producer, synthesizer and player threads, stale chunks | nothing of a cancelled turn is heard |
| Gemini live session (`interaction/gemini_live.py`) | count of pending sentences, two queues, flags, deadlines | receive, synthesize, play, barge in, tool calls, countdown, clean-up | synthesizer, tools | five threads of control on one count | the conversation closes after silence, and only then |
| Speech synthesizer, director (`interaction/tts.py`, `speech_director.py`) | model, voice, events, the audio that plays | build, speak, cancel, reset; render | both voice engines | two threads on one model and one loudspeaker, engines that fail by errors named or not, cancellation at any point | a reply counts as spoken only if it was |
| Speech input (`interaction/stt.py`, `audio_input.py`, `vad.py`) | bounded queue, buffer, events, one worker | capture, submit, finalize | voice session | transcriptions that outlive their turn | the final transcript hears the whole turn |
| Network monitor, gates (`online/`) | network state, answers cached | probe, ask, tell subscribers | jobs, tools | state read without the lock | not known to be online counts as offline |
| Google services (`online/`, `security/google_auth.py`) | token files, keyring, credentials, scopes | authenticate, read, write | Google, the user | declined and unsaved consents, expiry, revocation, loss and restart in any order | the user is asked once |
| Models (`models/`) | registry, provider cache | route, generate, provision | providers | providers that come and go between two steps | a request is answered if it could be |
| Plugins (`plugins/`) | lifecycle state, registry, instances | load, hot swap, roll back, remove | sandbox | half-done swaps, records nobody looks at, failing rollbacks | tested before it is active |
| Self-development (`development/`) | ids, worktrees, branches, reports | propose, validate, canary | git, sandbox | failure between stages, leftovers of earlier runs | what passed was tested with its own files |
| Skills, learning | versions, metrics, candidates | learn, promote, run, edit, roll back | orchestrator | measures and versions that no longer belong together | a skill is a version there has been |
| Crash recovery, backup (`lifecycle/`, `backup/`) | checkpoint file, backups | checkpoint, detect, reconcile; back up, restore | app | crash between two writes, a write that fails, a file that cannot be read | no task forgotten, a listed backup is complete |
| Startup and shutdown (`app.py`) | pid file, orb, engines | start, fall back, exit, crash | all | stale and reused pids | one instance |
| Memory, context (`memory/`, `context/`) | rows, full-text index, confidences | store, recall, decay, expire, prime | planner | reads outside the transaction | what is remembered is found |
| Browser, desktop (`browser/`, `computer/`) | current page and history; the screen | open, read, go; resolve, click, type | tools | a shared page; a screen that changes | acts on what was named |
| Terminal and containers (`tools/`, `sandbox/`) | virtual environment, clones, containers | run, install, clone, build | operating system | time-outs that leave half a result | reports are true |

## Modules

| Module | Models |
|---|---|
| `TaskLifecycle` | `_ALLOWED_TRANSITIONS`: what the status of a task may do; `Transition` of the orchestrator consults it. |
| `Orchestrator` | `AgentOrchestrator` with everything it calls, for any number of tasks and threads. |
| `OrchestratorProofs` | the inductive invariant of `Orchestrator` and the theorems. |
| `MCOrchestrator` | instances of it for TLC. |
| `JobScheduler`, `MCJobScheduler` | `JobScheduler`, `TriggerMonitor` and `JobExecutor` as threads over one dictionary of jobs. |
| `SpeechText` | from the text of a response to the sentences that are synthesized: the segmenter and the buffer of `StreamingTts`. |
| `VoiceSession`, `MCVoiceSession` | `VoiceSession` on both of its paths, with the microphone, the turn detector, `StreamingTts`, its sink and the interruption manager. |
| `GeminiLive` | one conversation of `GeminiLiveSession`. |
| `Utterance` | what a caller of a synthesizer is promised. The abstract specification of the next. |
| `Synthesizer`, `MCSynthesizer` | `SpeechSynthesizer` with its two engines, called by any number of threads. |
| `Listening` | microphone queue, voice detector and `StreamingTranscriber`. |
| `SpeechDirector` | tags and prosody of what is said. |
| `FastPath` | `FastPathRouter.match`. |
| `Boot` | `app.py` from the pid file to the exit. |
| `Recovery` | checkpoints, crash, recovery plan; backups. |
| `Connectivity` | network monitor and the gates that ask it. |
| `GoogleAccounts` | the credentials of calendar, mail and tools. |
| `Models`, `Provisioning` | the router with Gemini's chain of models; the registry and the provisioner. |
| `Memory` | storing, decay, and what primes the planner. |
| `Plugins`, `Upgrades`, `Skills` | what F.R.I.D.A.Y. learns or changes of itself, and the gates it passes. |
| `Desktop`, `Browser`, `Sandboxes` | the tools that act on a desktop, in a browser and in a shell. |
| `Parts`, `MCParts` | the modules from `Listening` on as one specification, and its instances for TLC. |
| `PartsProofs`, `StoresProofs` | the theorems about the parts: those that act, and those that keep something on disk. |
| `JobSchedulerProofs`, `VoiceSessionProofs`, `GeminiLiveProofs`, `SynthesizerProofs` | the theorems about the modules they are named after. |
| `SequenceLemmas` | the lemmas about sequences the proofs share. |

The parts from `Listening` on do not call each other in `src/`, or only through
a tool's result, so their product would show nothing. `Parts` takes one of
them per behaviour: `which` names it, the registers `r1`, `r2`, ... are its
variables in the order it declares them, and every property of it reads "if
this part was chosen, then". What each needs of the others is a choice in it:
whether a test run passes, whether a model answers.

### Orchestrator

`pc[t]` is the place in `_execute_plan` where the thread that serves task `t`
stands, the other functions over tasks are the fields of `Task` and `Step`; the
rest (the steering counter, the shutdown flag, the recorder's current
trajectory) belongs to the orchestrator and is shared by all tasks; `usurped`
notes whose place in the recorder another task has taken. One action
is one stretch of the loop between two places where another thread can be seen
to run: a status change, whose callback runs user code, a tool call, a call of
the model. `Call` is `run()` or `resume_with_voice()` entered by a caller with
any utterance; `Work` is the loop.

Plans and replans are any sequences of tools up to `MaxPlan`, an error or a
direct answer: what the language model returns is not assumed. A tool may
return success, failure, or raise; the verdict is the one the evaluator derives
from the outcome and from the tool's verifier. The tools of the instances are
the kinds the code tells apart (a tier each, critical, with a verifier, unknown
to the policy, not registered, the shutdown tool).

Left out, or folded:

- the up to three handler calls of the aggressive retry of the executor are one tool call;
- an unclear voice answer changes only `last_message`, so it is no step;
- `_replan_requested` and `_paused` are written and never read;
- the token and tool-call budgets of `check_budgets` are never incremented;
- the policy is asked without path and scopes, as the orchestrator does;
- the contents of a trajectory but for its outcome, messages and observations;
- a second `resume_with_voice` for a task whose thread is still inside the loop.

### JobScheduler

`registered`, `enabled`, `planned`, `left` and `failures` are the fields of the
jobs; `left[j]` is the time until `next_run`, in a week that repeats, so no run is cut
off by a horizon. The polling threads and the trigger thread each have a `pc`,
a due list and a job at hand. `mark_completed` is two steps, `Count` and
`Apply`, because nothing is locked and another thread may count in between; it
acts on the job object it looked up (`held`), which may be replaced or removed
meanwhile. A thread that iterates the dictionary remembers its size: if it
changes, Python raises, which ends the polling thread and makes the trigger
thread start over. `orphans` are the runs `JobExecutor` gave up waiting for.
`factory` says whether the scheduler was made with an orchestrator factory; by
default it was not, and then a due job is passed over and nothing is reported.

Left out or folded: the three conditions of `TriggerMonitor` are one signal;
its own start and stop; `fail_count`, which always equals
`consecutive_failures`, and the run counter; cron, daily and hourly triggers,
which behave like an interval of another length; a fresh job that comes with
failures from the registry; jobs whose trigger nothing fires (`event:...`, `startup`).
A window without days is excluded by assumption.

### SpeechText and VoiceSession

Three kinds of threads act: `run_loop`, whose place is `pc`; a thread per call
of the agent that acknowledges a long task, `ack[t]`; and one outside thread
that calls `interruption.interrupt()`, `cancel()` or `request_shutdown()` at any
time, `outer`. Where the code gives up a lock or looks at a flag another thread
writes, the model has two steps: the generation is incremented before the
callbacks run, `StreamingTts.cancel` sets its flag before it stops the sink,
and a chunk is checked (`Synthesize`) before it is put (`Put`). A turn is one
call of the agent, and a task has the name of the turn that created it, so
`pending = t` says the session waits for an answer to the task of turn `t`.
`pipeline` says whether the event-driven pipeline could be built; without it the
legacy path records files. `mic` is the session's own input stream; the wake-word
listener, an acknowledgment and an announcement open one each (`OpenStreams`), and
`unclosed` notes a stream whose `stop()` failed, so that its `close()` was skipped. Generations are only compared for equality, so the
model keeps `stale`, and resets it where the code captures the generation.

Text is a sequence of sentences with a length each, since the segmenter joins
short ones with the next: `Segment` is the loop of `segment()`, `Joined` what
`_buffer += text_delta` does to a buffer that was stripped. `AgentForm` is what
the agent callback returns: a task, as the session and its tests expect, or its
text, as in `app.py`; what the user may say is one of five kinds of utterance
(a goal, one that names the assistant, one the fast path takes, "stop", another command).

Left out, or folded:

- what is said and how it is recognized: capture returns what was said, or nothing;
- the frames of a barge-in: one choice in `Interrupted` while a chunk plays;
- the turn detector's interrupt and continuation tokens: it is told that the
  system is silent while capture runs, and a continuation token only keeps listening
  while the user speaks;
- the voice control callbacks other than "stop", which do not touch the session;
- the bounded queue of frames, and a microphone lost while it is open, which is a
  capture that ends;
- an exception inside playback, which the code counts as a delivered response.

### GeminiLive

The event loop (receiver and countdown, which interleave where they await), the
callback of the microphone, the synthesis and the playback thread, and the
clean-up of `run_loop` are threads of control of their own. `pending`,
`ttsQ` and `audioQ` are the count and the queues; a sentence is its number.
Where the code leaves `tts_lock`, or tests a deadline and then uses it, there
are two steps (`ReadsDeadline`, `ExtendsDeadline`); a cut is four, `cutting`
names who is in it. A worker may die of an error its `except` tuple does not name (`"dead"`); what
is queued for it then stays in the count. Deadlines are armed or not and an armed one passes at any
time. `Capacity` is `maxsize` of `audio_play_queue`, ten in the code: the
instances use one, which fills with the same interleaving. What the server
sends, and what the user says into it, is a choice. Left out: audio frames, the
thresholds of the voice detector, the wording of the farewell.

### Utterance and Synthesizer

`Utterance` is what a call promises: it ends, by an answer or an exception; it reports
success only if all was heard, and an interruption or a failure only when it is silent,
or its caller is excused. `Synthesizer` follows each thread's call through the engine
it selected (`call[t].at`), the model it loads under a lock, the audio it plays on the
one loudspeaker, the second engine (none, Gemini or Edge-TTS, `multilingual`) and the
fallback from it. An error is of a kind the code's `except` tuples name or not:
what is not named (PortAudio's, the Gemini API's) reaches the caller, `"raised"`.
`NoReplyIsLost` is the refinement, for the thread `Main`, with what the call returned as
`told`, while the other thread plays too, as an acknowledgment does. Excused is a call
that was cancelled, that was cut by another thread's sound, that had no microphone to listen on, or
whose error Edge-TTS swallowed: of the last three the code tells its caller a success (Findings).

### Listening

The callback's chunks pass the bounded queue, which drops its oldest, to the
loop of the session and from there to the buffer of the transcriber; its worker
takes a copy and a turn id, and emits only into the turn it began in. A
chunk is a number and whether it is loud; a text is the set of the numbers that
were heard, which reads in their order (the chunks of a turn rise, as `FinalIsWhole` says).

### Boot, Recovery

`Boot`: a process is its pid; `pidFile` holds a pid, nothing, or half a write.
A crash runs neither `finally` nor the exit handler, and the pid of a process
that is gone may belong to another program. `overlapped` notes that two copies
were between test and write of the file at once, which `_acquire_lock` does not
exclude. `Recovery`: checkpoints are read, truncated and written in
three steps, a backup copies one item a step and writes its metadata last; the
program dies between any two, and a read or a write may also fail while it lives on
(`WriteFails`). `recorded` notes what the last finished checkpoint said of a task, `lost`
the tasks with none since the file was last torn or could not be read.

### Connectivity, GoogleAccounts, Models, Provisioning

`Connectivity`: the threads that ask and probe, with the read of `_state`
outside the lock as a step of its own; a monitor that is made with `assume_online` begins
online or offline. `GoogleAccounts`: a token is its scopes,
whether it can be refreshed, and a serial; files and keyring survive a restart; a question may
be declined or fail, and its answer may not be saved, each counted in `losses`.
`Models`: a request carries the roles left to try and what was healthy all through it; roles
without a model or without an entry in the chain are among them, and an error the code does not
name ends the request as `"broken"`. `Provisioning`: the registry, its file, what is installed,
what failed its check, and the errors of Ollama that escape.

### Memory, Plugins, Upgrades, Skills

`Memory`: a transaction is row, index, commit; a decay pass reads first and
writes one row at a time. `Plugins`: states and gates as the code's, with
`tested` and `running` as history, and `forced`, the versions `hot_swap` disabled although they
were not active. `Upgrades`: several proposals, what git, the directories, a removal that
fails and a dead process leave of each. `Skills`: a version is its number, text and measures.

### Desktop, Browser, Sandboxes, SpeechDirector, FastPath

`Desktop`: what is on the screen changes between looking and acting; a text is the names
and roles that occur in it (`Phrase`), and a target that is resolved again is looked for by the
sentence that describes it (`Sentence`), which has words of its own (`Incidental`); a result
notes what it hit and whether others touched the desktop meanwhile. `Browser`: calls of
several threads on one page and history. `Sandboxes`: calls that time out leave
clones, environments and processes. `SpeechDirector` and `FastPath`: pure
functions over texts of a few tokens, each token one kind the rules tell apart
("quit" stands for "exit" too, two names for the table of applications); `indented` says that
blanks stand before a sentence.

## Runs

| Run | Shows |
|---|---|
| `core` | one task, every kind of tool, plans of two steps, five loop steps: the safety properties, that every call returns, and on which status changes it raises |
| `pair` | two tasks and two threads on one orchestrator: the inductive invariant, and what the one place of the trajectory recorder makes of two tasks |
| `replan_ask` | a statement of the documents the code does not keep (see Findings) |
| `jobs` | a timed job and a triggered one, two polling loops that may count the same job and the trigger thread, with and without a factory: an exhausted job is withdrawn |
| `job_restart` | two polling loops alive after stop and start, a window over midnight, with and without a factory: next runs are sound, due jobs do not starve, stopped loops end |
| `voice` | two turns, both paths, a call from outside at any point: a response is heard in order, to its end, and nothing of another; the microphone is handed over; an answer goes to a task that waits |
| `voice_ends` | one turn and one call from outside: every turn ends, and so does a session that is to stop |
| `live` | two sentences, one cut by the user and one by the server, workers that die: the count of pending sentences is backed, sentences are heard in order and once |
| `live_window` | two sentences, which the server may cut: after an answer the countdown begins |
| `live_returns` | the clean-up can wait for ever (see Findings) |
| `replies` | two threads on one synthesizer, the second one playing or building, every second engine, errors named or not at any step, a cancellation: `Utterance` is implemented |
| `parts` | sixteen modules, each on its own |

What `parts` shows, by module: `Boot` `OneInstance`; `FastPath`
`ClosesOnCommand`; `Listening` `NoStaleResult` (a late transcription reaches no
later turn) and `FinalIsWhole`; `Recovery` `NothingForgotten` and
`ListedIsComplete`; `Connectivity` `FailsClosed`; `Models` `AnsweredIfAny`;
`Provisioning` `EnsuredRoleIsServed`; `GoogleAccounts` `ConsentIsKept`; `Memory`
`IndexIsComplete`; `Plugins` `ActiveWasTested`; `Upgrades` `PassedWasTested`;
`Skills` `KnownVersion`; `Desktop` `ActsOnTheNamed`; `Sandboxes` `ReportsAreTrue`;
`Browser` `ReadsItsPage`; `SpeechDirector` `Settles`. The comment above each
says what is excepted. The type invariants are stated in every module; in the runs the
orchestrator's is a part of `IInv`, the others are not repeated.

The bounds, and why they are enough. `MaxPlan` 2 gives a step before and a step
after the one looked at; `MaxSteps` 5 lets a plan of two steps run, fail, be
retried and be replanned before the budget ends it, and 2 in `pair` lets the budget bite early;
`MaxAttempts` 2 gives a retry and the attempt after which recovery stops;
two threads are what it takes for two tasks to interleave. The week of two days
of two or three hours has every case of `_next_window_start`: earlier today, a later
day, over midnight. `MaxRetries` 2 separates the first failure from the last;
`FailureCap` 3 is above both thresholds, and counters above it are only
compared with them. Two polling loops are what a restart leaves alive.
The response of the voice runs, a short sentence and two long ones, has every
case of the buffer: joined with the next, kept for the next delta, flushed at the end. Two turns give a question and its answer, in one conversation or in
two, and a call from outside that comes late for the first response meets the second. What two
such calls can do, a cancellation that meets an interruption, is left to the proofs of the four
properties, which hold for any number of calls. `MaxTurn` 2 frames is above `SilenceToEnd`, so
that the cap and the silence end a turn each; the frames, like the
acknowledgment's delay, are an order and no real time.

Two sentences in `live` and `live_window` let one wait while the other is built or
played, and be cut by either side; `live_window` leaves out the cut by the user, which
takes its steps through the same `CutSteps` as the server's. In `replies` two calls of two
threads and one cancellation meet at every step of loading, building and
playing. In `parts`: three starts of two pids make a stale file, a reused number
and a copy that comes in between; two turns of four chunks with room for two
overflow queue and buffer; two tasks and one crash tear a checkpoint that names
another task; a change during one request, after a start in any state, takes away a model or its fallback;
three models of two kinds can fail, be replaced and come back; two consents and one
loss separate the first question from the second; four memories with a budget of
four leave one out; three versions, two of them trusted, and seven calls swap
and roll back twice; two proposals, one commit and one accident reuse an id;
three edits and two versions roll back over an edit; three controls, of which one
name is a part of another, a word of the resolver's own, and the name of a control elsewhere; three threads, which is what it takes to push the index of
the history past its end; texts of three tokens, of which two are
searched for tags, so that stripping one brings another into the part that is searched.

Fairness. `Orchestrator`: weak fairness of `Work(t)` only, because a thread
inside a call goes on running; nothing is assumed of callers, of the user's
answers or of which outcome a tool or the model has. Tool calls return: the
executor waits for them without a limit, so a call that never comes back is outside
`CallsReturn`. `JobScheduler`: weak fairness of each polling thread, with a
run that returns, because the loop calls the orchestrator inline; none of the
trigger thread, of time, or of callers. `NoStarvation` holds only while a loop
is alive: a factory that raises, or a dictionary that changes size under
`get_due_jobs`, ends the polling thread for good. It also needs a factory, which is not
the default (Findings).

`VoiceSession`: weak fairness of the session's own thread. The agent, the
recognition and the wake-word listener return, which the first owes to
`CallsReturn` and the last to its thirty seconds; nothing is assumed of the
acknowledgment thread, the outside thread or the user, except that the
user has `MaxTurns` turns to say. `ShutdownEnds` sets apart the capture that
gets stuck when the transcript names the assistant (`HardCap`).

`GeminiLive`: weak fairness of every thread and of the end of a sound; strong
fairness of `MicStops`, since stopping the stream waits for a callback that
comes again and again but always returns. Nothing is assumed of the server or
the user. `Synthesizer`: weak fairness of each thread inside a call and of the
end of a sound; nothing of those who call and cancel. `Parts` states no liveness and no fairness.

Deadlock is not checked where the system really stops: a session, a conversation or
an orchestrator whose tasks are finished, and parts whose bounds are used up.

## Proofs

`OrchestratorProofs` proves, for any tasks, tools, tiers, budgets and numbers
of threads (assumption: `OrchestratorAssumption`, the shape of the constants):

| Theorem | Statement |
|---|---|
| `Invariance` | `IInv` is an invariant |
| `TypeCorrect` | the type invariant, with `steps_used <= max_steps` and bounded retries |
| `Consent` | no tool runs before policy and user cleared its step |
| `AnswersBind` | a waiting task waits for its current, unauthorized step |
| `HonestCompletion` | a completed task has every step of its plan verified |
| `Finality` | a finished task never changes |
| `KnownRaises` | the loop's status changes raise in three cases and in no other |
| `TrajectoriesTell` | a trajectory tells how its task ended, unless another task took its place in the recorder |

The argument. Each safety property speaks about one place of the loop, and
holds there because of what held several steps earlier; `IInv` adds what
carries it along. `StatusMatchesPlace` says which statuses a thread's place
admits, so that no transition is illegal where the code does not expect it;
`AtTool` that the index points at a step of the right kind;
`AuthorizedIsCleared` that an authorized step has been cleared by the policy
or by the answers the policy asks for, which is what remains true across a
retry; `PendingStage` which answers a stage of the dialogue presupposes;
`PassedSoFar` that every step before the current one passed, which is what
completion collects. All of them are statements about one task, so the step
lemmas show that an action preserves its own task's and leaves the others
alone (`OthersStay`), and types are proved once (`TypeStep`). `IInv` is an
invariant of the `pair` run too. `KnownRaises` follows from it place by place.
`TrajectoriesTell` adds what the recorder's one place holds (`SlotInv`): a task that no
other took it from is in it from its start to its end, and what is in it is unsaved.

`PartsProofs.OnlyOneRuns` says `OneInstance` for any set of process numbers, without
an assumption. `OneInstance` is not inductive: that the pid file names the only
process that is up is what keeps the next one out. `LockInv` says so
(`Locked`), and counts the process between test and write among those that are
past the test, so that it is alone as long as `overlapped` is false. A step that
leaves the file alone keeps it (`MovesOn`, `StandsStill`), the test of the file
finds nobody or sets `overlapped` (`PassesLocked`), the write names the only one
there can be (`WindowLocked`), and an exit removes the file of the only one
(`ExitsLocked`). Crashes, foreign processes and reused numbers change only what
the file may wrongly refuse, never what it may wrongly admit.

The other theorems. Each component has its invariant beside its property, or in
its proof module, and TLC checks it on the run's instance or a smaller one.

| Theorem | Property | What the invariant adds |
|---|---|---|
| `JobSchedulerProofs.TypeCorrect`, `WithdrawnAlways` | `TypeOK`, `Withdrawn` | the type invariant carries `held`, the threads that counted and have not applied |
| `JobSchedulerProofs.ScheduleSound` | `ScheduleIsSound` | that `_next_window_start` finds an opening: some window opens every week, so the least distance to one exists and lies inside it |
| `VoiceSessionProofs.MicrophoneHandedOver` | `MicrophoneIsHandedOver` | `MicInv`: at which places each path has the microphone |
| `VoiceSessionProofs.ResumesAreWanted` | `ResumesAWaitingTask` | `PendingInv`: the task the session remembers is one that asked and has not been answered |
| `VoiceSessionProofs.OnlyThisResponseAlways`, `HeardToTheEndAlways` | `OnlyThisResponse`, `HeardToTheEnd` | `ChunkInv`: a synthesis under way belongs to the response, or what it puts is dropped with the sink. `StageInv`, `LineInv`: see below |
| `GeminiLiveProofs.SoundsInOrder` | `HeardInOrder` | `StageInv`, `OrderInv`: the two queues and the hands of the two threads are one ascending line of sentences |
| `GeminiLiveProofs.CountIsBacked` | `PendingIsBacked` | which thread holds a sentence, and which of them still owes the count a step |
| `SynthesizerProofs.PromiseKept` | safety half of `NoReplyIsLost` | `SpeechInv`: what a call that is not excused knows of its sound; for any threads that play and any second engine |
| `PartsProofs.OnlyOneRuns` | `OneInstance` | `LockInv`, as above |
| `PartsProofs.ClosedOnCommand` | `ClosesOnCommand` | that the route is the one `match` gives the text that was heard; see below |
| `PartsProofs.RenderingSettles` | `Settles` | no invariant but that the sentence is a sentence: what stripping, prosody and deciding make of a text (`Rendered`, `RenderedAgain`, and `RenderedText` for one with blanks in front) |
| `PartsProofs.GateFailsClosed` | `FailsClosed` | `ProbedInv`: a state, an answer in a thread's hand and a cached one all rest on a probe that succeeded |
| `PartsProofs.EnsuredRolesAreServed` | `EnsuredRoleIsServed` | `ServedInv`: the registry's and the loop's entries, and what is doubted |
| `PartsProofs.ConsentsAreKept` | `ConsentIsKept` | `ConsentInv`: what is stored for each store once it was asked for, and that every question that failed or was not saved, and every loss, was counted |
| `PartsProofs.ActivesWereTested` | `ActiveWasTested` | `PassedInv`: the same of every version with an instance, and that a disabled one has one unless it was forced |
| `PartsProofs.PagesAreOwn` | `ReadsItsPage` | `OwnInv`: that the current page is the thread's until another call moves it |
| `PartsProofs.ReportsHold` | `ReportsAreTrue` | `FilledInv`: what a call in progress has made and nobody may take away before it replies |
| `PartsProofs.AnsweredIfPossible` | `AnsweredIfAny` | `RequestInv`: every chain of roles ends at its last resort (`ChainsEndAtTheLastResort`), and Gemini's at its last model |
| `PartsProofs.ResultsAreOfTheirTurn` | `NoStaleResult` | `WordsInv`: a job of this turn has audio of this turn, and what the worker holds is its job's |
| `PartsProofs.FinalsAreWhole` | `FinalIsWhole` | `LineInv`: turn, queue and the callback's hand are one line of rising numbers; `KeptInv`: the buffer is the end of the turn but for the chunk in hand |
| `PartsProofs.HitsAreNamed` | `ActsOnTheNamed` | `NamedInv`: no description has more names in it than the first target's, and a control that was found stays while nobody else acts |
| `StoresProofs.VersionsAreKnown` | `KnownVersion` | `HistoryInv`: the same of every version a rollback may choose |
| `StoresProofs.IndexStaysComplete` | `IndexIsComplete` | `StoredInv`: outside a transaction row and index agree; inside, the crash gives back what was there |
| `StoresProofs.PassedWereTested` | `PassedWasTested` | `OwnTreeInv`: ids of proposals in progress are alone, and their trees hold their own files |
| `StoresProofs.TasksAreSorted` | `NothingForgotten` | `TasksInv`: what is read, truncated and to be written adds up, between the three steps of a checkpoint, to what was recorded of the tasks that are not lost |
| `StoresProofs.BackupsAreComplete` | `ListedIsComplete` | `BackupsInv`: the backup in progress holds the items it has passed, and a backup without metadata is not listed |

They hold for every value of the constants within the assumptions of the
modules, which TLC evaluates on every run. Beyond the shape of the constants these say:
an authority is a number from 0 to 100 (`BudgetAssumption`), as the four the code
writes are; the set of proposals is finite and so are the commits
(`ProposalsAssumption`); the mark of "no token" is no token (`NoTokenAssumption`)
and "none" is no registry entry (`EntriesAssumption`); of the names of controls, that a name contains itself and
containment is transitive (`DesktopAssumption`), which is all that "contains" has to be;
fast, reasoning and vision have a model, as the settings demand (`ConfiguredAssumption`).
A sentence of a response stands for its place in it, a number with a length
(`VoiceSessionAssumption`); a tag has no comma and a sentence gets at most one,
as every configuration says (`WordsAssumption`).

The voice path. A response may be in seven places at once: what was heard, the
chunks ahead of the player, the sink, the chunk in hand, the sentences that
are ready, the buffer, and the deltas still to come. `Line` joins them (`Chain`).
`LineInv` says that the line is in the order of the response, and holds all of it but
what the engine muted unless the response was called off. Every step moves a
part one place on, which leaves the line as it is (`SameLine`: feeding, the segmenter,
putting, draining, playing), takes out what a stop drops (`DroppedLine`), or mutes a
chunk (`MutedLine`), and `StageInv` says which places are empty where the response begins and
ends. What `Segment` makes of buffer and delta is shown to say what they said
(`SegmentKeeps`, `FeedKeeps`): its loop joins, keeps or hands on, and loses nothing.

Closing. A route that closes something comes from one of two rules
(`RulesThatClose`), both of which look at the whole text (`AppOf`); the text they look at is
normalized, and a normalized text without "don" is what was said, since that is what an
apostrophe leaves (`NormalizedAsSaid`).

Rendering. `Only`, the filter behind `re.findall`, is written with `FlattenSeq`,
since `SelectSeq` cannot be unfolded by the provers. A rendered text is clean words
with at most one permitted tag before them; `Strip` takes exactly that tag off,
and a permitted tag in front is the first that is seen, hence kept. A text with blanks
in front keeps its tags at first, and is then one of any kind (`RenderedText`).

Sequences. The induction theorems of the library take an operator as parameter,
which no installed prover instantiates. `SequenceLemmas` does without them: a set of
numbers has a least one because `<` is well-founded (`LeastNumber`), hence a set
that holds the first number and every next one holds all (`Induction`), and steps
given as functions can be iterated (`Iteration`). With property and steps as
data, the function inside `FlattenSeq` is shown to exist, and what it does to types,
halves, heads and single parts follows. The same `LeastNumber` finds the newest version
that qualifies and the first free id in `StoresProofs`.

Only model-checked are the liveness properties (`CallsReturn`, `NoStarvation`,
`WindowOpens` and the others), and with them the fairness half of `Utterance`, which are
beyond the prover.

## Findings

Kept as runs:

- `replan_ask`: a replanned step that needs consent makes `run()` raise, with the authorization left pending.
- `live_returns`: when a live conversation closes while the playback queue is
  full, the playback thread may see the cleared flag and end before the clean-up
  puts its `None` into that queue; the put never returns, and neither does the wake word.

Stated in the modules, found violated with TLC in the same way, and not kept as
runs:

- `Orchestrator`: `ApprovalBindsArguments` (recovery rewrites the arguments of an
  approved step), `StopMeansStop` (a replan overrides the decision to stop),
  `RedNeedsVoiceAndPassphrase` (a RED tool runs on the passphrase alone),
  `ShutdownIsConfirmed` (the fast path authorizes the shutdown itself),
  `NoBareSuccess` (a fast path step passes on its bare return).
- `JobScheduler`: `HonoursMaxRetries` (two threads fail the same job beyond its
  budget), `WindowIsKept`, `StopStops`, `BudgetEndsTheRun`, `OnceIsPlanned` (the
  trigger is compared with `"once:"` itself), `OutsideWindowIsRescheduled`.
- `VoiceSession`: `WakeWordFirst` (the result of the wake-word listener is not
  looked at), `FollowUpResumes` (`app.py` passes an agent that returns text, so no
  task ever waits), `OneStreamAtATime` (session.py:218 stops the session's stream "while the
  wake-word listener uses its own"; an announcement and an acknowledgment open a second one,
  and a stream whose `stop()` fails is never closed), `HardCap` (a transcript that names the assistant keeps
  capture open beyond the cap), `AckBeforeResponse`, `NoTurnAfterShutdown`,
  `OneSentenceAChunk` (the stripped buffer glues sentences together) and
  `CancelledIsSilent` (a cancellation between the agent's answer and the start of
  the speech is forgotten).
- `SpeechDirector`: `Idempotent`, the docstring's `render(render(text)) == render(text)`:
  "[angry] Hello there my friend, [angry] [happy] x" is rendered without a tag, and that with
  "[happy]" in front, because stripping brings the last tag into the forty
  characters that are searched. `Settles` is what remains true.
- `FastPath`: `SearchIsSearch` ("google goodbye" shuts down).
- `Connectivity`: `ForceCheckIsFresh` (while the monitor knows a state,
  `force_check` does not probe).
- `GoogleAccounts`: `ReauthIsForced` (google_auth.py:55, "force re-auth": a refused refresh is
  a `RefreshError`, which the tuple above does not name, so a tool with a revoked grant fails
  instead of asking).
- `Skills`: `RunsWhatItSays` (the steps do not go back with the text).
- `Desktop`: `VerifiedIsChange`. `Memory`: `ConfidenceInRange`. `Browser`:
  `OneBrowser` (nothing remembers that one was launched). `Sandboxes`:
  `TimeoutIsEnforced` (a container outlives its time-out).

What the properties except, because the code does not do better:

- the recorder has one place (`OutcomeIsOwn`): when a second task starts before the first has
  ended, its own outcome is written into the file of whichever is in that place, and the
  first may complete without a trajectory;
- without a factory, which is the default of `JobScheduler`, `_execute_job` returns before
  `mark_completed` (scheduler.py:377), so a due job stays due for ever (`NoStarvation`);
- errors that no `except` names. `sounddevice.PortAudioError` and `google.genai.errors.APIError`
  derive from none of the classes of the tuples. In `gemini_live.py:360` and `:386` they end
  a worker thread: what is queued stays counted and the countdown never begins (`WindowOpens`). Out of
  `speak_interruptible` (tts.py:594, 911, 1123, 1322) they escape with the audio sounding on. In
  `gemini_backend.py:99` and `:198` they pass by both chains of fallback: a real 503 of Gemini is
  raised at once (`AnsweredIfAny` holds of the errors the code names);
- replies that are reported as spoken and were not (`NoReplyIsLost`): Edge-TTS, the second engine of
  `default.yaml:50`, returns silence for a failure, which its `speak` calls a success; an acknowledgment
  that plays over a reply cuts it;
- a checkpoint whose writing fails leaves a torn file, which the next one takes for empty: the other
  tasks are forgotten without a crash (`NothingForgotten`);
- `hot_swap` disables a record whatever its state, and `rollback` makes a disabled one active without
  the gates: a version that failed, or was never loaded, becomes active untested and without an instance
  (`ActiveWasTested`). A plugin's module and factory run before its tests do;
- `remove_worktree` reports nothing and may leave the directory (`PassedWasTested` holds nevertheless);
- `re_resolve_after_ui_change` says "Use the original description" and looks for the resolver's own
  sentence about the previous target, so a control named like one of its words ("on", "Button") is taken
  with a confidence of 0.85, and one found by its id is not looked for by that id (`ActsOnTheNamed`);
- tags after leading blanks stay: `render(" [happy] hi")` is "[happy] [happy] hi" (`Settles`).

Seen while modelling, not stated: "don't" is normalized to "don t", so "don't
shut down" shuts down; an announcement that raises swallows the "stop" it announces;
`report.stage` stays CANDIDATE when a
proposal is rejected; a plugin that fails after `activate()` leaves a running
instance; the default `run_tests` is refused by the allowlist of its own mode;
`startup()` of `startup_shutdown.py` fails at its first call.

## Not modelled

Recognition, synthesis and language models by themselves, the audio they
exchange, geometry and OCR are data. External: Google, git, containers, the
operating system's processes, the devices. Without a caller in `src/`, or
without state that decides: `JobRegistry`, `ConversationManager`,
`startup_shutdown.py`, confirmations and voice authentication,
`development/rollback.py`, the resource monitor, observability, hardware, the
user interface, the scripts. Handlers of other tools are their result. Of the
policy engine the path and scope branches are left out, since the orchestrator
never passes them. What is folded in each module is said at its head or above.

## Plan

Modelled: every component that keeps state the program decides by. Proved: every
safety property of the runs but those listed under Proofs. What is worth doing next:

1. The type invariants of the parts, of `VoiceSession` and of `GeminiLive` as theorems of their own.
