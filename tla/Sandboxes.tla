------------------------------ MODULE Sandboxes ------------------------------
(***************************************************************************)
(* Where commands and untrusted code run: the terminal tools with their    *)
(* sandbox directory (src/friday/tools/terminal.py, terminal_sandbox.py),  *)
(* the container of a plugin (sandbox/docker_sandbox.py) and the compose   *)
(* services (tools/docker_tools.py).  Every call makes a sandbox object of *)
(* its own; the directory, its virtual environment and its clones are      *)
(* those of all threads, and outlive the process.                          *)
(***************************************************************************)
EXTENDS Integers, FiniteSets

CONSTANTS Callers, \* threads that call the tools
          Repos,   \* repositories that are cloned
          NoRepo,  \* no repository
          MaxCalls \* bound: calls

NoRepoAssumption == NoRepo \notin Repos

VARIABLES
  venv,      \* the .venv directory: "none", "half" or "whole"
  clone,     \* clone[r]: its directory, the same way
  leftover,  \* repositories that a process goes on cloning after its time-out
  call,      \* call[c]: [tool, mode, repo, step, path, whole, number]
  reply,     \* reply[c]: [tool, ok, code, repo, where, whole] of the last call
  containers,\* numbers of the calls whose container runs
  timedOut,  \* numbers of the calls that were answered with a time-out
  services,  \* whether the compose services are up
  calls

vars == <<venv, clone, leftover, call, reply, containers, timedOut, services, calls>>
disk == <<venv, clone, leftover>>

SandboxMode == {"autonomous", "build", "clone", "development"}
VenvModes == {"build", "development"}

\* What the allowlists permit of the commands that the tools run.
Allowed(mode) ==
  {"python"} \union (IF mode \in VenvModes THEN {"pip install", "make"} ELSE {})
             \union (IF mode \in {"clone", "development"} THEN {"git clone"} ELSE {})
             \union (IF mode = "development" THEN {"pytest"} ELSE {})

\* The tools: the command each runs, and the modes of its sandbox.
Tools == {"run", "clone", "install", "tests", "build", "container", "up", "down"}
Command(tool) == CASE tool = "run" -> "python" [] tool = "clone" -> "git clone"
                   [] tool = "install" -> "pip install" [] tool = "tests" -> "pytest"
                   [] tool = "build" -> "make"
Docker == {"container", "up", "down"}
ModesOf(tool) == CASE tool = "run" -> SandboxMode [] tool = "clone" -> {"clone"}
                   [] tool \in {"install", "tests", "build"} -> {"build"}
                   [] tool \in Docker -> {"build"}

NoCall == [tool |-> "none", mode |-> "autonomous", repo |-> NoRepo, step |-> "idle",
           path |-> FALSE, whole |-> FALSE, number |-> 0]
NoReply == [tool |-> "none", ok |-> FALSE, code |-> 0, repo |-> NoRepo, where |-> "none",
            whole |-> FALSE]

Init ==
  /\ venv = "none" /\ clone = [r \in Repos |-> "none"] /\ leftover = {}
  /\ call = [c \in Callers |-> NoCall] /\ reply = [c \in Callers |-> NoReply]
  /\ containers = {} /\ timedOut = {} /\ services = FALSE
  /\ calls = 0

Answers(c, ok, code, where) ==
  /\ reply' = [reply EXCEPT ![c] = [tool |-> call[c].tool, ok |-> ok, code |-> code,
                                    repo |-> call[c].repo, where |-> where, whole |-> call[c].whole]]
  /\ call' = [call EXCEPT ![c] = NoCall]

Step(c, step) == call' = [call EXCEPT ![c].step = step]

(***************************************************************************)
(* TerminalSandbox.                                                        *)
(***************************************************************************)

\* __init__: a mode that builds makes the virtual environment unless its
\* directory is there, however it got there.
Opens(c, tool, mode, repo) ==
  /\ call[c].step = "idle" /\ calls < MaxCalls /\ calls' = calls + 1
  /\ mode \in ModesOf(tool) /\ (repo # NoRepo <=> tool = "clone")
  /\ LET makes == tool \notin Docker /\ mode \in VenvModes /\ venv = "none"
     IN  /\ call' = [call EXCEPT ![c] =
                       [tool |-> tool, mode |-> mode, repo |-> repo, number |-> calls',
                        step |-> IF makes THEN "creates" ELSE "ready",
                        path |-> mode \in VenvModes, whole |-> venv = "whole"]]
         /\ venv' = IF makes THEN "half" ELSE venv
  /\ UNCHANGED <<clone, leftover, reply, containers, timedOut, services>>

\* _create_venv: an error leaves what is there, and this sandbox without a path.
CreatesVenv(c, ok) ==
  /\ call[c].step = "creates"
  /\ venv' = IF ok THEN "whole" ELSE venv
  /\ call' = [call EXCEPT ![c].step = "ready", ![c].path = ok, ![c].whole = ok]
  /\ UNCHANGED <<clone, leftover, reply, containers, timedOut, services, calls>>

\* Mutant: a target that is there counts as cloned.
StartsOnWhatIsThere(c) ==
  /\ call[c].step = "ready" /\ call[c].tool \notin Docker
  /\ IF \/ Command(call[c].tool) \notin Allowed(call[c].mode)
        \/ call[c].tool = "clone" /\ clone[call[c].repo] # "none"
     THEN Answers(c, call[c].tool = "clone", 1, "none")
     ELSE Step(c, "runs") /\ UNCHANGED reply
  /\ UNCHANGED <<disk, containers, timedOut, services, calls>>

\* execute, after clone_repository has looked for the target.
Starts(c) ==
  /\ call[c].step = "ready" /\ call[c].tool \notin Docker
  /\ IF \/ Command(call[c].tool) \notin Allowed(call[c].mode)
        \/ call[c].tool = "clone" /\ clone[call[c].repo] # "none"
     THEN Answers(c, FALSE, 1, "none")
     ELSE Step(c, "runs") /\ UNCHANGED reply
  /\ UNCHANGED <<disk, containers, timedOut, services, calls>>

\* git makes the directory, or finds that it has come into being meanwhile.
GitCreates(c) ==
  /\ call[c].step = "runs" /\ call[c].tool = "clone"
  /\ IF clone[call[c].repo] = "none"
     THEN /\ clone' = [clone EXCEPT ![call[c].repo] = "half"]
          /\ Step(c, "clones") /\ UNCHANGED reply
     ELSE Answers(c, FALSE, 128, "none") /\ UNCHANGED clone
  /\ UNCHANGED <<venv, leftover, containers, timedOut, services, calls>>

GitEnds(c, ok) ==
  /\ call[c].step = "clones"
  /\ clone' = [clone EXCEPT ![call[c].repo] = IF ok THEN "whole" ELSE "none"]
  /\ Answers(c, ok, IF ok THEN 0 ELSE 128, "none")
  /\ UNCHANGED <<venv, leftover, containers, timedOut, services, calls>>

\* Which environment a command finds: the one of the path, if it is there.
Finds(c) ==
  IF ~call[c].path \/ venv = "none" THEN {"host"}
  ELSE IF venv = "whole" THEN {"venv"} ELSE {"venv", "host"}

CommandEnds(c, ok) ==
  /\ call[c].step = "runs" /\ call[c].tool # "clone"
  /\ \E where \in Finds(c) : Answers(c, ok, IF ok THEN 0 ELSE 1, where)
  /\ UNCHANGED <<disk, containers, timedOut, services, calls>>

\* TimeoutExpired kills the process that was started, a shell where one is used:
\* what the shell has started may go on.
TimesOut(c) ==
  /\ call[c].step \in {"runs", "clones"}
  /\ \/ UNCHANGED leftover
     \/ call[c].step = "clones" /\ leftover' = leftover \union {call[c].repo}
  /\ Answers(c, FALSE, 124, "none")
  /\ timedOut' = timedOut \union {call[c].number}
  /\ UNCHANGED <<venv, clone, containers, services, calls>>

LeftoverEnds(r, ok) ==
  /\ r \in leftover
  /\ leftover' = leftover \ {r}
  /\ clone' = [clone EXCEPT ![r] = IF ok THEN "whole" ELSE "none"]
  /\ UNCHANGED <<venv, call, reply, containers, timedOut, services, calls>>

(***************************************************************************)
(* DockerSandbox and the compose tools.                                    *)
(***************************************************************************)

\* docker run starts the container of the code.
StartsContainer(c) ==
  /\ call[c].step = "ready" /\ call[c].tool = "container"
  /\ containers' = containers \union {call[c].number}
  /\ Step(c, "contained")
  /\ UNCHANGED <<disk, reply, timedOut, services, calls>>

\* It answers by its end, or by the time-out of the docker command; the daemon
\* does not know of that.
ContainerAnswers(c, ok) ==
  /\ call[c].step = "contained"
  /\ \/ /\ containers' = containers \ {call[c].number}
        /\ Answers(c, ok, IF ok THEN 0 ELSE 1, "container")
        /\ UNCHANGED timedOut
     \/ /\ ~ok /\ UNCHANGED containers
        /\ Answers(c, FALSE, -1, "none")
        /\ timedOut' = timedOut \union {call[c].number}
  /\ UNCHANGED <<disk, services, calls>>

ContainerEnds(n) ==
  /\ n \in containers \ {call[c].number : c \in Callers}
  /\ containers' = containers \ {n}
  /\ UNCHANGED <<disk, call, reply, timedOut, services, calls>>

\* compose up, restart and down: what a failed one has done is not known.
Composes(c, ok) ==
  /\ call[c].step = "ready" /\ call[c].tool \in {"up", "down"}
  /\ LET wanted == call[c].tool = "up"
     IN  services' \in IF ok THEN {wanted} ELSE {wanted, services}
  /\ Answers(c, ok, IF ok THEN 0 ELSE 1, "none")
  /\ UNCHANGED <<disk, containers, timedOut, calls>>

\* The process dies: what was begun on the disk and by the daemon stays.
Dies ==
  /\ \E c \in Callers : call[c].step # "idle"
  /\ call' = [c \in Callers |-> NoCall] /\ reply' = [c \in Callers |-> NoReply]
  /\ UNCHANGED <<disk, containers, timedOut, services, calls>>

Next ==
  \/ \E c \in Callers :
       \/ \E tool \in Tools, mode \in SandboxMode, repo \in Repos \union {NoRepo} :
            Opens(c, tool, mode, repo)
       \/ Starts(c) \/ GitCreates(c) \/ TimesOut(c) \/ StartsContainer(c)
       \/ \E ok \in BOOLEAN : \/ CreatesVenv(c, ok) \/ GitEnds(c, ok) \/ CommandEnds(c, ok)
                              \/ ContainerAnswers(c, ok) \/ Composes(c, ok)
  \/ \E r \in Repos, ok \in BOOLEAN : LeftoverEnds(r, ok)
  \/ \E n \in containers : ContainerEnds(n)
  \/ Dies

Spec == Init /\ [][Next]_vars

(***************************************************************************)
(* Properties.                                                             *)
(***************************************************************************)

\* Every variable keeps its type (TerminalSandbox, DockerSandbox).
TypeOK ==
  /\ venv \in {"none", "half", "whole"} /\ clone \in [Repos -> {"none", "half", "whole"}]
  /\ leftover \subseteq Repos
  /\ \A c \in Callers :
       /\ call[c].tool \in Tools \union {"none"} /\ call[c].mode \in SandboxMode
       /\ call[c].step \in {"idle", "creates", "ready", "runs", "clones", "contained"}
       /\ reply[c].code \in {-1, 0, 1, 124, 128} /\ reply[c].ok \in BOOLEAN
       /\ reply[c].where \in {"none", "venv", "host", "container"}
  /\ containers \subseteq 1 .. MaxCalls /\ timedOut \subseteq 1 .. MaxCalls
  /\ services \in BOOLEAN

\* What a reply reports is so, whatever time-outs, kills and other threads do: a
\* repository whose clone is done is there, and whole; dependencies that were
\* installed are in the sandbox's environment whenever that was whole when the
\* call came, or made for it (clone_repository, install_dependencies).
ReportsAreTrue ==
  \A c \in Callers :
    /\ reply[c].tool = "clone" /\ reply[c].ok => clone[reply[c].repo] = "whole"
    /\ reply[c].tool = "install" /\ reply[c].ok /\ reply[c].whole => reply[c].where = "venv"

\* What the sandbox provides by its own account: "timeout enforcement for
\* plugins".  The code of a plugin that timed out runs no more.
TimeoutIsEnforced == containers \intersect timedOut = {}

\* What keeps it so: a directory that git is still filling is half a clone, and
\* one process fills it; an environment that was whole is whole.
CallRecord ==
  [tool : Tools \union {"none"}, mode : SandboxMode, repo : Repos \union {NoRepo},
   step : {"idle", "creates", "ready", "runs", "clones", "contained"},
   path : BOOLEAN, whole : BOOLEAN, number : Int]
ReplyRecord ==
  [tool : Tools \union {"none"}, ok : BOOLEAN, code : Int, repo : Repos \union {NoRepo},
   where : {"none", "venv", "host", "container"}, whole : BOOLEAN]
CallIsSound(c) ==
  /\ call[c].tool = "clone" => call[c].repo \in Repos
  /\ call[c].step = "contained" => call[c].tool = "container"
  /\ call[c].tool = "install" /\ call[c].whole => call[c].path /\ venv = "whole"
  /\ call[c].step = "clones" =>
       /\ call[c].tool = "clone"
       /\ clone[call[c].repo] = "half" /\ call[c].repo \notin leftover
       /\ \A d \in Callers \ {c} : call[d].step = "clones" => call[d].repo # call[c].repo
ReplyIsTrue(c) ==
  /\ reply[c].tool = "clone" => reply[c].repo \in Repos
  /\ reply[c].tool = "clone" /\ reply[c].ok => clone[reply[c].repo] = "whole"
  /\ reply[c].tool = "install" /\ reply[c].ok /\ reply[c].whole => reply[c].where = "venv"
FilledInv ==
  /\ venv \in {"none", "half", "whole"} /\ clone \in [Repos -> {"none", "half", "whole"}]
  /\ leftover \subseteq Repos
  /\ call \in [Callers -> CallRecord] /\ reply \in [Callers -> ReplyRecord]
  /\ calls \in Nat
  /\ \A r \in leftover : clone[r] = "half"
  /\ \A c \in Callers : CallIsSound(c) /\ ReplyIsTrue(c)

=============================================================================
