-------------------------------- MODULE Boot --------------------------------
(***************************************************************************)
(* How F.R.I.D.A.Y. starts and ends (src/friday/app.py): the pid file that *)
(* keeps a second copy from starting, the orb window it launches, the two  *)
(* voice engines with the fallback from the live one to the standard one,  *)
(* the text mode, and the way out, by return, by exception or by a crash   *)
(* that runs neither the finally clause nor the exit handler.              *)
(*                                                                         *)
(* A process is named by its pid: the operating system gives the pid of a  *)
(* process that is gone to another program (Foreign) or to the next copy.  *)
(***************************************************************************)
EXTENDS Naturals, FiniteSets

CONSTANTS Pids,        \* the process numbers of the operating system
          Nobody,      \* an absent pid file
          MaxStarts    \* bound: how often the user starts the program

NobodyAssumption == Nobody \notin Pids

VARIABLES
  at,          \* at[p]: the step process p is at, "gone" when there is none
  brain,       \* brain[p]: "gemini" or "qwen"
  orb,         \* orb[p]: the orb window p started is still open
  voices,      \* voices[p]: the voices of p that use the loudspeaker unasked:
               \* "greeting" (a thread), "live", "standard"
  pidFile,     \* data/friday.pid: Nobody, "torn" (truncated), or a pid
  foreign,     \* pids that belong to other programs
  starts,      \* how often the program was started
  overlapped   \* two copies were between the test and the write at once

vars == <<at, brain, orb, voices, pidFile, foreign, starts, overlapped>>

InWindow == {"checked", "truncated"}
Up == {"locked", "text", "voice", "model", "live", "standard", "talking", "finally", "atexit"}

Alive(pid) == pid \in foreign \/ (pid \in Pids /\ at[pid] # "gone")

Init ==
  /\ at = [p \in Pids |-> "gone"]
  /\ brain = [p \in Pids |-> "qwen"]
  /\ orb = [p \in Pids |-> FALSE]
  /\ voices = [p \in Pids |-> {}]
  /\ pidFile = Nobody
  /\ foreign = {}
  /\ starts = 0
  /\ overlapped = FALSE

Goes(p, from, to) == at[p] = from /\ at' = [at EXCEPT ![p] = to]

(***************************************************************************)
(* _acquire_lock and main.                                                 *)
(***************************************************************************)

\* The user starts the program; the command line chooses the brain.
Starts(p, b) ==
  /\ p \notin foreign /\ starts < MaxStarts
  /\ Goes(p, "gone", "main")
  /\ starts' = starts + 1
  /\ brain' = [brain EXCEPT ![p] = b]
  /\ orb' = [orb EXCEPT ![p] = FALSE]
  /\ UNCHANGED <<voices, pidFile, foreign, overlapped>>

\* A live process with the number in the file stops this one (sys.exit before
\* the exit handler is registered); a file that is no number is passed over.
FindsAnother(p) ==
  /\ pidFile \in Pids /\ Alive(pidFile)
  /\ Goes(p, "main", "gone")
  /\ UNCHANGED <<brain, orb, voices, pidFile, foreign, starts, overlapped>>

\* Mutant: the pid in the file is read and not looked for.
PassesAnyway(p) ==
  /\ Goes(p, "main", "checked")
  /\ overlapped' = (overlapped \/ \E q \in Pids \ {p} : at[q] \in InWindow)
  /\ UNCHANGED <<brain, orb, voices, pidFile, foreign, starts>>

Passes(p) ==
  /\ ~(pidFile \in Pids /\ Alive(pidFile))
  /\ Goes(p, "main", "checked")
  /\ overlapped' = (overlapped \/ \E q \in Pids \ {p} : at[q] \in InWindow)
  /\ UNCHANGED <<brain, orb, voices, pidFile, foreign, starts>>

Checks(p) == FindsAnother(p) \/ Passes(p)

\* write_text opens the file, which empties it, and then writes the pid.
Truncates(p) ==
  /\ Goes(p, "checked", "truncated")
  /\ pidFile' = "torn"
  /\ UNCHANGED <<brain, orb, voices, foreign, starts, overlapped>>

WritesPid(p) ==
  /\ Goes(p, "truncated", "locked")
  /\ pidFile' = p
  /\ UNCHANGED <<brain, orb, voices, foreign, starts, overlapped>>

(***************************************************************************)
(* run_text.                                                               *)
(***************************************************************************)

\* The orchestrator is built and the model is reachable, or the mode ends.
TextMode(p) ==
  /\ \E to \in {"text", "atexit"} : Goes(p, "locked", to)
  /\ UNCHANGED <<brain, orb, voices, pidFile, foreign, starts, overlapped>>

\* "exit", the end of the input, a shutdown by a tool, or an error of a task.
TextEnds(p) ==
  /\ Goes(p, "text", "atexit")
  /\ UNCHANGED <<brain, orb, voices, pidFile, foreign, starts, overlapped>>

(***************************************************************************)
(* run_voice.                                                              *)
(***************************************************************************)

\* The orb server and the orb's own process, which may fail to start.
LaunchesOrb(p) ==
  /\ Goes(p, "locked", "voice")
  /\ \E ok \in BOOLEAN : orb' = [orb EXCEPT ![p] = ok]
  /\ UNCHANGED <<brain, voices, pidFile, foreign, starts, overlapped>>

\* build_orchestrator raises, or the fast model is out of reach: both leave
\* through the finally clause.
ModelUnreachable(p) ==
  /\ Goes(p, "voice", "finally")
  /\ UNCHANGED <<brain, orb, voices, pidFile, foreign, starts, overlapped>>

ModelReady(p) ==
  /\ Goes(p, "voice", "model")
  /\ UNCHANGED <<brain, orb, voices, pidFile, foreign, starts, overlapped>>

\* The live engine greets from a thread of its own and starts its loop.
StartsLive(p) ==
  /\ brain[p] = "gemini"
  /\ Goes(p, "model", "live")
  /\ voices' = [voices EXCEPT ![p] = {"greeting", "live"}]
  /\ UNCHANGED <<brain, orb, pidFile, foreign, starts, overlapped>>

\* Building the live session, or its loop, raises: the standard pipeline takes
\* over, while the greeting that was started goes on.
LiveFails(p) ==
  /\ brain[p] = "gemini" /\ at[p] \in {"model", "live"}
  /\ at' = [at EXCEPT ![p] = "standard"]
  /\ voices' = [voices EXCEPT ![p] = @ \ {"live"}]
  /\ UNCHANGED <<brain, orb, pidFile, foreign, starts, overlapped>>

LiveReturns(p) ==
  /\ Goes(p, "live", "finally")
  /\ voices' = [voices EXCEPT ![p] = @ \ {"live"}]
  /\ UNCHANGED <<brain, orb, pidFile, foreign, starts, overlapped>>

TakesStandard(p) ==
  /\ brain[p] = "qwen"
  /\ Goes(p, "model", "standard")
  /\ UNCHANGED <<brain, orb, voices, pidFile, foreign, starts, overlapped>>

\* The pipeline (whose failure only selects the legacy path), the session, the
\* greeting, then the loop.
StartsSession(p) ==
  /\ Goes(p, "standard", "talking")
  /\ voices' = [voices EXCEPT ![p] = @ \union {"standard"}]
  /\ UNCHANGED <<brain, orb, pidFile, foreign, starts, overlapped>>

\* A component cannot be built, or the session ends or raises.
StandardEnds(p) ==
  /\ at[p] \in {"standard", "talking"}
  /\ at' = [at EXCEPT ![p] = "finally"]
  /\ voices' = [voices EXCEPT ![p] = @ \ {"standard"}]
  /\ UNCHANGED <<brain, orb, pidFile, foreign, starts, overlapped>>

GreetingEnds(p) ==
  /\ "greeting" \in voices[p]
  /\ voices' = [voices EXCEPT ![p] = @ \ {"greeting"}]
  /\ UNCHANGED <<at, brain, orb, pidFile, foreign, starts, overlapped>>

ClosesOrb(p) ==
  /\ Goes(p, "finally", "atexit")
  /\ orb' = [orb EXCEPT ![p] = FALSE]
  /\ UNCHANGED <<brain, voices, pidFile, foreign, starts, overlapped>>

(***************************************************************************)
(* The end of the process, and the world around it.                        *)
(***************************************************************************)

\* The exit handler unlinks the file whoever wrote it; a daemon thread that
\* still greets dies with the process.
Exits(p) ==
  /\ Goes(p, "atexit", "gone")
  /\ pidFile' = Nobody
  /\ voices' = [voices EXCEPT ![p] = {}]
  /\ UNCHANGED <<brain, orb, foreign, starts, overlapped>>

\* Killed: no finally clause, no exit handler, and the orb is left behind.
Crashes(p) ==
  /\ at[p] # "gone"
  /\ at' = [at EXCEPT ![p] = "gone"]
  /\ voices' = [voices EXCEPT ![p] = {}]
  /\ UNCHANGED <<brain, orb, pidFile, foreign, starts, overlapped>>

OthersComeAndGo(p) ==
  /\ at[p] = "gone"
  /\ foreign' = IF p \in foreign THEN foreign \ {p} ELSE foreign \union {p}
  /\ UNCHANGED <<at, brain, orb, voices, pidFile, starts, overlapped>>

Steps(p) ==
  \/ Checks(p) \/ Truncates(p) \/ WritesPid(p)
  \/ TextMode(p) \/ TextEnds(p)
  \/ LaunchesOrb(p) \/ ModelUnreachable(p) \/ ModelReady(p)
  \/ StartsLive(p) \/ LiveFails(p) \/ LiveReturns(p) \/ TakesStandard(p)
  \/ StartsSession(p) \/ StandardEnds(p) \/ GreetingEnds(p) \/ ClosesOrb(p)
  \/ Exits(p)

Next ==
  \E p \in Pids :
    \/ \E b \in {"gemini", "qwen"} : Starts(p, b)
    \/ Steps(p)
    \/ Crashes(p)
    \/ OthersComeAndGo(p)

Spec == Init /\ [][Next]_vars

(***************************************************************************)
(* Properties.                                                             *)
(***************************************************************************)

\* Every variable keeps its type (the state run_voice and _acquire_lock keep).
TypeOK ==
  /\ at \in [Pids -> {"gone", "main"} \union InWindow \union Up]
  /\ brain \in [Pids -> {"gemini", "qwen"}]
  /\ orb \in [Pids -> BOOLEAN]
  /\ voices \in [Pids -> SUBSET {"greeting", "live", "standard"}]
  /\ pidFile \in Pids \union {Nobody, "torn"}
  /\ foreign \subseteq Pids
  /\ starts \in 0 .. MaxStarts
  /\ overlapped \in BOOLEAN

\* The pid file keeps a second copy out through every exit, crash and reuse of
\* a process number, unless two copies were between the test of the file and
\* its write at the same time (_acquire_lock).
OneInstance == overlapped \/ Cardinality({p \in Pids : at[p] \in Up}) <= 1

\* A process that is past the test of the pid file.
Past(p) == at[p] \in InWindow \union Up

\* Unless two copies were in the window at once, there is one process past the
\* test, and from the moment it has written the file the file names it.
Locked ==
  /\ \A p, q \in Pids : Past(p) /\ Past(q) => p = q
  /\ \A p \in Pids : at[p] \in Up => pidFile = p

\* The invariant of the lock.
LockInv ==
  /\ at \in [Pids -> {"gone", "main"} \union InWindow \union Up]
  /\ overlapped \in BOOLEAN
  /\ ~overlapped => Locked

=============================================================================
