---------------------------- MODULE Orchestrator ----------------------------
(***************************************************************************)
(* AgentOrchestrator (agent/orchestrator.py): run() plans a goal,          *)
(* _execute_plan() is the authorize / execute / verify / recover loop, and *)
(* resume_with_voice() continues a task that waits for the user's consent. *)
(* PolicyEngine, Executor, Evaluator, RecoveryManager, SteeringController, *)
(* TrajectoryRecorder and TaskStateMachine are the parts it calls; each is *)
(* modelled by its effect on the state below.                              *)
(*                                                                         *)
(* One action is one stretch of _execute_plan between two places where     *)
(* another thread can be seen to run: a status change (its callback runs   *)
(* user code), a tool call, a call to the model.                           *)
(***************************************************************************)
EXTENDS Naturals, Sequences, FiniteSets

CONSTANTS
    Tasks,          \* tasks (TaskManager.create)
    Actions,        \* tool names a plan can mention
    Registered,     \* those ToolRegistry.get finds
    Known,          \* those in policy.KNOWN_TOOLS
    Tier,           \* Tier[a] : the tier PolicyEngine.evaluate works with
    Critical,       \* tools declared critical=True
    HasVerifier,    \* tools declared with a verify callback
    Relabelable,    \* tools taking text_label, called without one
    Shutdown,       \* the name of the shutdown tool
    FastActions,    \* tools FastPathRouter.match can return
    ConfirmTiers,   \* settings.security.confirm_required_tiers
    AutoTiers,      \* settings.security.auto_approve_tiers
    MaxSteps,       \* Task.max_steps
    MaxAttempts,    \* RecoveryManager.max_attempts
    MaxPlan,        \* bound: the longest plan the model returns
    MaxThreads      \* bound: threads inside run()/resume_with_voice() at once

Tiers == {"GREEN", "YELLOW", "ORANGE", "RED"}
NonTools == {"direct_answer", "error"}

ASSUME OrchestratorAssumption ==
    /\ Registered \subseteq Actions /\ Known \subseteq Actions
    /\ Critical \subseteq Registered /\ HasVerifier \subseteq Registered
    /\ Relabelable \subseteq Registered
    /\ FastActions \subseteq Actions
    /\ Actions \cap NonTools = {}
    /\ Tier \in [Actions -> Tiers]
    /\ "none" \notin Tasks
    /\ MaxSteps \in Nat /\ MaxAttempts \in Nat /\ MaxPlan \in Nat \ {0} /\ MaxThreads \in Nat

VARIABLES
    status,         \* Task.status
    pc,             \* where the thread serving the task stands
    plan,           \* Task.plan, the actions of its steps
    idx,            \* Task.current_step_index, counted from 1
    stepsUsed,      \* Task.steps_used
    retries,        \* Task.retries, by step index
    authorized,     \* indices of the plan's steps with Step.authorized
    relabelled,     \* indices whose arguments RE_RESOLVE_TARGET rewrote
    toolVerified,   \* indices with Step._tool_verified
    verified,       \* indices with Step.verified = True
    isFastpath,     \* Task.is_fastpath
    result,         \* outcome of the last tool call of the task
    pendingAuth,    \* Task.pending_auth: step index and stage
    steeringFails,  \* SteeringController._verification_failure_count
    shutdown,       \* tools.system.SHUTDOWN_REQUESTED
    current,        \* TrajectoryRecorder._current: the task it records
    outcome,        \* outcome in the file <task id>.jsonl
    \* history variables, read by properties only
    consent,        \* <<i, f>> : the user gave factor f for step i of the plan
    evidence,       \* indices whose last verdict rested on an observation
    usurped,        \* tasks whose place in the recorder another task took
    stopped         \* recover() has answered STOP_SAFELY to the task

task == <<status, pc, plan, idx, stepsUsed, retries, isFastpath, result, pendingAuth>>
flags == <<authorized, relabelled, toolVerified, verified, consent, evidence>>
recorder == <<current, outcome, usurped>>
shared == <<steeringFails, shutdown, recorder>>
vars == <<task, flags, shared, stopped>>

None == "none"
NoPending == [step |-> 0, stage |-> None]
Idle == {"new", "idle", "raised"}
Outcomes == {None, "SUCCESS", "FAILURE", "BLOCKED", "BUDGET_EXCEEDED"}
Factors == {"voice", "passphrase", "builtin"}

TL == INSTANCE TaskLifecycle

-----------------------------------------------------------------------------
(* PolicyEngine.evaluate as the orchestrator calls it: no scopes, no path. *)
NeedsConfirmation(tier) ==
    \/ tier \in ConfirmTiers
    \/ tier \in {"ORANGE", "YELLOW"} \ AutoTiers

Policy(a) ==
    CASE a \notin Known -> "DENY"
      [] a \in Known /\ Tier[a] = "RED" -> "REQUIRE_SECOND_FACTOR"
      [] a \in Known /\ Tier[a] # "RED" /\ NeedsConfirmation(Tier[a]) -> "REQUIRE_CONFIRMATION"
      [] OTHER -> "ALLOW"

(* The plans Planner.plan and Planner.replan return: nothing, one error or *)
(* one direct answer, or the model's tool calls in order.                  *)
Plans == {<<>>, <<"direct_answer">>, <<"error">>}
            \cup UNION {[1..n -> Actions] : n \in 1..MaxPlan}

(* RecoveryManager.recover: what each failure category asks for. *)
Strategy(category) ==
    CASE category \in {"transient", "dialog_interrupted"} -> "WAIT_AND_RETRY"
      [] category = "target_not_found" -> "RE_RESOLVE_TARGET"
      [] category = "permission" -> "ASK_USER"
      [] category = "invalid_arg" -> "REPAIR_INPUT"
      [] category = "budget_exceeded" -> "STOP_SAFELY"
      [] OTHER -> "REPLAN"

Categories == {"transient", "dialog_interrupted", "target_not_found",
               "permission", "invalid_arg", "budget_exceeded", "unknown"}

(* The if/elif chain _execute_plan runs on the recovery action. *)
Response(strategy, needsReplan, steeringReplan) ==
    CASE strategy \in {"WAIT_AND_RETRY", "RE_RESOLVE_TARGET"} -> "top"
      [] strategy \notin {"WAIT_AND_RETRY", "RE_RESOLVE_TARGET"}
         /\ (strategy = "REPLAN" \/ needsReplan \/ steeringReplan) -> "replan"
      [] strategy = "REPAIR_INPUT" /\ ~needsReplan /\ ~steeringReplan -> "top"
      [] strategy = "ASK_USER" /\ ~needsReplan /\ ~steeringReplan -> "block"
      [] OTHER -> "fail"

-----------------------------------------------------------------------------
Init ==
    /\ status = [t \in Tasks |-> "PENDING"]
    /\ pc = [t \in Tasks |-> "new"]
    /\ plan = [t \in Tasks |-> <<>>]
    /\ idx = [t \in Tasks |-> 1]
    /\ stepsUsed = [t \in Tasks |-> 0]
    /\ retries = [t \in Tasks |-> [i \in 1..MaxPlan |-> 0]]
    /\ isFastpath = [t \in Tasks |-> FALSE]
    /\ result = [t \in Tasks |-> None]
    /\ pendingAuth = [t \in Tasks |-> NoPending]
    /\ authorized = [t \in Tasks |-> {}]
    /\ relabelled = [t \in Tasks |-> {}]
    /\ toolVerified = [t \in Tasks |-> {}]
    /\ verified = [t \in Tasks |-> {}]
    /\ consent = [t \in Tasks |-> {}]
    /\ evidence = [t \in Tasks |-> {}]
    /\ steeringFails = 0
    /\ shutdown = FALSE
    /\ current = None
    /\ outcome = [t \in Tasks |-> None]
    /\ usurped = {}
    /\ stopped = [t \in Tasks |-> FALSE]

(* TaskStateMachine.transition(task, new), after which the thread goes on   *)
(* at next; on an illegal move it raises ValueError out of the call and     *)
(* leaves the status alone.                                                 *)
Transition(t, new, next) ==
    IF new \in TL!Allowed[status[t]]
    THEN /\ status' = [status EXCEPT ![t] = new]
         /\ pc' = [pc EXCEPT ![t] = next]
    ELSE /\ pc' = [pc EXCEPT ![t] = "raised"]
         /\ UNCHANGED status

Raises(t, new) == new \notin TL!Allowed[status[t]]

(* TrajectoryRecorder.finish: writes the file of the task being recorded,   *)
(* whichever task the caller is about.                                      *)
FinishTrajectory(t, o) ==
    /\ outcome' = IF current = None THEN outcome ELSE [outcome EXCEPT ![current] = o]
    /\ usurped' = usurped \cup ({current} \ {t, None})
    /\ current' = None

-----------------------------------------------------------------------------
(* The step under execution. *)
Step(t) == plan[t][idx[t]]

\* The thread may start work only if fewer than MaxThreads are at work.
ThreadFree == Cardinality({t \in Tasks : pc[t] \notin Idle}) < MaxThreads

(* A new plan is a list of new Step objects: no flag of an old one survives. *)
NewSteps(t, p, auth) ==
    /\ plan' = [plan EXCEPT ![t] = p]
    /\ idx' = [idx EXCEPT ![t] = 1]
    /\ authorized' = [authorized EXCEPT ![t] = auth]
    /\ consent' = [consent EXCEPT ![t] = {<<i, "builtin">> : i \in auth}]
    /\ relabelled' = [relabelled EXCEPT ![t] = {}]
    /\ toolVerified' = [toolVerified EXCEPT ![t] = {}]
    /\ verified' = [verified EXCEPT ![t] = {}]
    /\ evidence' = [evidence EXCEPT ![t] = {}]

(* run(): a task is created, its trajectory started, and its plan comes from *)
(* the fast path (one step, the shutdown tool already authorized) or, when   *)
(* the fast path does not match, from the planner.                           *)
Start(t) ==
    /\ pc[t] = "new" /\ ThreadFree
    /\ status' = [status EXCEPT ![t] = "PLANNING"]
    /\ pc' = [pc EXCEPT ![t] = "top"]
    /\ current' = t
    /\ usurped' = usurped \cup ({current} \ {None})
    /\ UNCHANGED <<stepsUsed, retries, result, pendingAuth, steeringFails,
                   shutdown, outcome, stopped>>

RunFastPath(t) ==
    /\ Start(t)
    /\ \E a \in FastActions :
          NewSteps(t, <<a>>, IF a = Shutdown THEN {1} ELSE {})
    /\ isFastpath' = [isFastpath EXCEPT ![t] = TRUE]

RunPlanner(t) ==
    /\ Start(t)
    /\ \E p \in Plans : NewSteps(t, p, {})
    /\ UNCHANGED isFastpath

-----------------------------------------------------------------------------
(* The head of the loop.  max_steps is compared, and the time may run out at *)
(* any moment: seen by the loop, the trajectory stays open; seen only by     *)
(* Task.check_budgets, a moment later, it is finished.                       *)
StopOverBudget(t) ==
    /\ pc[t] = "top" /\ idx[t] <= Len(plan[t])
    /\ Transition(t, "FAILED", "idle")
    /\ \/ UNCHANGED recorder
       \/ stepsUsed[t] < MaxSteps /\ FinishTrajectory(t, "BUDGET_EXCEEDED")
    /\ UNCHANGED <<plan, idx, stepsUsed, retries, isFastpath, result,
                   pendingAuth, flags, steeringFails, shutdown, stopped>>

\* Mutant: Task.steps_used is not incremented.
TakeStepUncounted(t) ==
    /\ pc[t] = "top" /\ idx[t] <= Len(plan[t])
    /\ stepsUsed[t] < MaxSteps
    /\ UNCHANGED <<plan, idx, stepsUsed, retries, isFastpath, result, flags,
                   steeringFails, shutdown, stopped>>

(* The loop takes up the step at idx. *)
TakeStep(t) ==
    /\ pc[t] = "top" /\ idx[t] <= Len(plan[t])
    /\ stepsUsed[t] < MaxSteps
    /\ stepsUsed' = [stepsUsed EXCEPT ![t] = @ + 1]
    /\ UNCHANGED <<plan, idx, retries, isFastpath, result, flags,
                   steeringFails, shutdown, stopped>>

\* Mutant: the task is not EXECUTING while it answers.
BeginAnswerQuietly(t) ==
    /\ TakeStep(t)
    /\ Step(t) = "direct_answer"
    /\ pc' = [pc EXCEPT ![t] = "answer"]
    /\ UNCHANGED <<status, pendingAuth, recorder>>

BeginAnswer(t) ==
    /\ TakeStep(t)
    /\ Step(t) = "direct_answer"
    /\ Transition(t, "EXECUTING", "answer")
    /\ UNCHANGED <<pendingAuth, recorder>>

VerifyAnswer(t) ==
    /\ pc[t] = "answer"
    /\ Transition(t, "VERIFYING", "answered")
    /\ UNCHANGED <<plan, idx, stepsUsed, retries, isFastpath, result,
                   pendingAuth, flags, shared, stopped>>

FinishAnswer(t) ==
    /\ pc[t] = "answered"
    /\ Transition(t, "COMPLETED", "idle")
    /\ FinishTrajectory(t, "SUCCESS")
    /\ UNCHANGED <<plan, idx, stepsUsed, retries, isFastpath, result,
                   pendingAuth, flags, steeringFails, shutdown, stopped>>

ReportPlanError(t) ==
    /\ TakeStep(t)
    /\ Step(t) = "error"
    /\ Transition(t, "FAILED", "idle")
    /\ FinishTrajectory(t, "FAILURE")
    /\ UNCHANGED pendingAuth

(* An unauthorized step is put to the policy engine.  DENY blocks the task;  *)
(* the transition raises before the trajectory is finished.                  *)
DenyStep(t) ==
    /\ TakeStep(t)
    /\ Step(t) \in Actions /\ idx[t] \notin authorized[t]
    /\ Policy(Step(t)) = "DENY"
    /\ Transition(t, "BLOCKED", "idle")
    /\ IF Raises(t, "BLOCKED") THEN UNCHANGED recorder
                               ELSE FinishTrajectory(t, "BLOCKED")
    /\ UNCHANGED pendingAuth

(* The user has to consent: pending_auth is set before the transition, and   *)
(* run() returns to its caller.                                              *)
AskConsent(t) ==
    /\ TakeStep(t)
    /\ Step(t) \in Actions /\ idx[t] \notin authorized[t]
    /\ Policy(Step(t)) \in {"REQUIRE_CONFIRMATION", "REQUIRE_SECOND_FACTOR"}
    /\ pendingAuth' = [pendingAuth EXCEPT ![t] =
            [step |-> idx[t],
             stage |-> IF Policy(Step(t)) = "REQUIRE_CONFIRMATION"
                       THEN "voice" ELSE "passphrase"]]
    /\ Transition(t, "AWAITING_AUTHORIZATION", "idle")
    /\ UNCHANGED recorder

(* Authorized or allowed: the step starts executing. *)
StartTool(t) ==
    /\ TakeStep(t)
    /\ Step(t) \in Actions
    /\ idx[t] \in authorized[t] \/ Policy(Step(t)) = "ALLOW"
    /\ Transition(t, "EXECUTING", IF Step(t) \in Registered THEN "tool" ELSE "missing")
    /\ UNCHANGED <<pendingAuth, recorder>>

MissingTool(t) ==
    /\ pc[t] = "missing"
    /\ Transition(t, "FAILED", "idle")
    /\ FinishTrajectory(t, "FAILURE")
    /\ UNCHANGED <<plan, idx, stepsUsed, retries, isFastpath, result,
                   pendingAuth, flags, steeringFails, shutdown, stopped>>

-----------------------------------------------------------------------------
(* Executor.execute.  A listed exception becomes an error result; any other  *)
(* leaves run() with the task still EXECUTING.                               *)
ToolEscapes(t) ==
    /\ pc[t] = "tool" /\ Step(t) # Shutdown
    /\ pc' = [pc EXCEPT ![t] = "raised"]
    /\ UNCHANGED <<status, plan, idx, stepsUsed, retries, isFastpath, result,
                   pendingAuth, flags, shared, stopped>>

ToolReturns(t) ==
    /\ pc[t] = "tool" /\ Step(t) # Shutdown /\ ~shutdown
    /\ \E r \in {"ok", "error"} : result' = [result EXCEPT ![t] = r]
    /\ Transition(t, "VERIFYING", "verify")
    /\ UNCHANGED <<plan, idx, stepsUsed, retries, isFastpath, pendingAuth,
                   flags, shared, stopped>>

(* Once shutdown is requested, by this tool or before it returned, the task  *)
(* completes without being verified.                                         *)
ToolShutsDown(t) ==
    /\ pc[t] = "tool" /\ (Step(t) = Shutdown \/ shutdown)
    /\ shutdown' = TRUE
    /\ \E r \in {"ok", "error"} : result' = [result EXCEPT ![t] = r]
    /\ Transition(t, "COMPLETED", "idle")
    /\ FinishTrajectory(t, "SUCCESS")
    /\ UNCHANGED <<plan, idx, stepsUsed, retries, isFastpath, pendingAuth,
                   flags, steeringFails, stopped>>

(* Evaluator._decide.  The tool's own verifier speaks once per step; after   *)
(* that, or if it raises, a failed call fails, a fast path step passes, and  *)
(* any other step passes or fails on its observation.                        *)
Checks(t) ==
    IF Step(t) \in HasVerifier /\ idx[t] \notin toolVerified[t]
    THEN {"pass", "fail", "raise"} ELSE {"none"}

Verdicts(t, check) ==
    CASE check = "pass" -> {TRUE}
      [] check = "fail" -> {FALSE}
      [] check \in {"raise", "none"} /\ result[t] = "error" -> {FALSE}
      [] check \in {"raise", "none"} /\ result[t] # "error" /\ isFastpath[t] -> {TRUE}
      [] OTHER -> BOOLEAN

\* Every verdict of the evaluator asks for a new plan exactly when it fails.
NeedsReplan(passed) == ~passed

Judge(t, passed) ==
    /\ pc[t] = "verify"
    /\ \E check \in Checks(t) :
          /\ passed \in Verdicts(t, check)
          /\ toolVerified' = [toolVerified EXCEPT ![t] =
                IF check = "none" THEN @ ELSE @ \cup {idx[t]}]
          /\ verified' = [verified EXCEPT ![t] =
                IF passed THEN @ \cup {idx[t]} ELSE @ \ {idx[t]}]
          /\ evidence' = [evidence EXCEPT ![t] =
                IF passed /\ (check = "pass" \/ ~isFastpath[t])
                THEN @ \cup {idx[t]} ELSE @ \ {idx[t]}]
    /\ UNCHANGED <<plan, stepsUsed, retries, isFastpath, result, pendingAuth,
                   authorized, relabelled, consent, shutdown, recorder, stopped>>

(* The step passed: on to the next one, unless shutdown was requested, when  *)
(* run() returns with the task still VERIFYING.                              *)
PassStep(t) ==
    /\ Judge(t, TRUE)
    /\ steeringFails' = 0
    /\ idx' = [idx EXCEPT ![t] = @ + 1]
    /\ pc' = [pc EXCEPT ![t] = IF shutdown THEN "idle" ELSE "top"]
    /\ UNCHANGED status

FailStep(t) ==
    /\ Judge(t, FALSE)
    /\ Transition(t, "RECOVERING", "recover")
    /\ UNCHANGED <<idx, steeringFails>>

(* SteeringController.on_verification_failure, RecoveryManager.classify and  *)
(* recover, and the branch _execute_plan takes on their answers.             *)
Recover(t) ==
    /\ pc[t] = "recover"
    /\ \E category \in Categories :
         LET exhausted == retries[t][idx[t]] >= MaxAttempts
             strategy  == IF exhausted THEN "STOP_SAFELY" ELSE Strategy(category)
             steering  == steeringFails + 1 >= 2
             response  == Response(strategy, NeedsReplan(FALSE), steering)
         IN /\ retries' = IF exhausted THEN retries
                          ELSE [retries EXCEPT ![t][idx[t]] = @ + 1]
            /\ steeringFails' = IF steering THEN 0 ELSE steeringFails + 1
            /\ stopped' = [stopped EXCEPT ![t] = @ \/ strategy = "STOP_SAFELY"]
            /\ relabelled' = [relabelled EXCEPT ![t] =
                  IF strategy = "RE_RESOLVE_TARGET" /\ Step(t) \in Relabelable
                  THEN @ \cup {idx[t]} ELSE @]
            /\ IF response \in {"top", "replan"}
               THEN /\ pc' = [pc EXCEPT ![t] = response]
                    /\ UNCHANGED <<status, recorder>>
               ELSE /\ Transition(t, IF response = "block" THEN "BLOCKED" ELSE "FAILED", "idle")
                    /\ IF response = "block" THEN UNCHANGED recorder
                                             ELSE FinishTrajectory(t, "FAILURE")
    /\ UNCHANGED <<plan, idx, stepsUsed, isFastpath, result, pendingAuth,
                   authorized, toolVerified, verified, consent, evidence, shutdown>>

(* Planner.replan answered: the loop restarts on the new plan, or gives up.  *)
Replan(t) ==
    /\ pc[t] = "replan"
    /\ \E p \in Plans \ {<<>>} : NewSteps(t, p, {})
    /\ steeringFails' = 0
    /\ pc' = [pc EXCEPT ![t] = "top"]
    /\ UNCHANGED <<status, stepsUsed, retries, isFastpath, result, pendingAuth,
                   shutdown, recorder, stopped>>

\* Mutant: an empty replan falls through to the end of the loop.
ReplanFallsThrough(t) ==
    /\ pc[t] = "replan"
    /\ NewSteps(t, <<>>, {})
    /\ steeringFails' = 0
    /\ pc' = [pc EXCEPT ![t] = "top"]
    /\ UNCHANGED <<status, stepsUsed, retries, isFastpath, result, pendingAuth,
                   shutdown, recorder, stopped>>

ReplanIsEmpty(t) ==
    /\ pc[t] = "replan"
    /\ NewSteps(t, <<>>, {})
    /\ steeringFails' = 0
    /\ Transition(t, "FAILED", "idle")
    /\ FinishTrajectory(t, "FAILURE")
    /\ UNCHANGED <<stepsUsed, retries, isFastpath, result, pendingAuth,
                   shutdown, stopped>>

\* Mutant: the trajectory is finished before the task completes.
CompletePlanLate(t) ==
    /\ pc[t] = "top" /\ idx[t] > Len(plan[t])
    /\ FinishTrajectory(t, "SUCCESS")
    /\ Transition(t, "COMPLETED", "idle")
    /\ UNCHANGED <<plan, idx, stepsUsed, retries, isFastpath, result,
                   pendingAuth, flags, steeringFails, shutdown, stopped>>

(* The loop is over: every step of the plan has passed, or there was none.   *)
CompletePlan(t) ==
    /\ pc[t] = "top" /\ idx[t] > Len(plan[t])
    /\ Transition(t, "COMPLETED", "idle")
    /\ IF Raises(t, "COMPLETED") THEN UNCHANGED recorder
                                 ELSE FinishTrajectory(t, "SUCCESS")
    /\ UNCHANGED <<plan, idx, stepsUsed, retries, isFastpath, result,
                   pendingAuth, flags, steeringFails, shutdown, stopped>>

-----------------------------------------------------------------------------
(* resume_with_voice(task, text).  What the text is to the code: does it     *)
(* contain a DENY_WORD, an APPROVE_WORD, is it the passphrase?  An unclear   *)
(* answer only changes last_message, which is not modelled.                  *)
Utterances == [deny : BOOLEAN, approve : BOOLEAN, passphrase : BOOLEAN]

\* Mutant: the status of the task is not looked at.
ResumableAlways(t) ==
    /\ pc[t] = "idle" /\ ThreadFree
    /\ UNCHANGED <<plan, idx, stepsUsed, retries, isFastpath, result,
                   relabelled, toolVerified, verified, evidence, shared, stopped>>

Resumable(t) ==
    /\ pc[t] = "idle" /\ status[t] = "AWAITING_AUTHORIZATION" /\ ThreadFree
    /\ UNCHANGED <<plan, idx, stepsUsed, retries, isFastpath, result,
                   relabelled, toolVerified, verified, evidence, shared, stopped>>

Grant(t, factor) ==
    consent' = [consent EXCEPT ![t] = @ \cup {<<pendingAuth[t].step, factor>>}]

\* Mutant: the step is authorized, but the loop is not entered again.
AuthorizeOnly(t) ==
    /\ authorized' = [authorized EXCEPT ![t] = @ \cup {pendingAuth[t].step}]
    /\ pendingAuth' = [pendingAuth EXCEPT ![t] = NoPending]
    /\ UNCHANGED <<status, pc>>

\* step.authorized = True, and back into the loop.
Authorize(t) ==
    /\ authorized' = [authorized EXCEPT ![t] = @ \cup {pendingAuth[t].step}]
    /\ pendingAuth' = [pendingAuth EXCEPT ![t] = NoPending]
    /\ pc' = [pc EXCEPT ![t] = "top"]
    /\ UNCHANGED status

Block(t) ==
    /\ pendingAuth' = [pendingAuth EXCEPT ![t] = NoPending]
    /\ Transition(t, "BLOCKED", "idle")
    /\ UNCHANGED <<authorized, consent>>

IsCritical(a) == a \in Registered /\ (a \in Critical \/ Tier[a] = "RED")

Refuse(t, text) ==
    /\ Resumable(t)
    /\ text.deny
    /\ Block(t)

AskPassphrase(t, text) ==
    /\ Resumable(t)
    /\ ~text.deny /\ pendingAuth[t].stage = "voice" /\ text.approve
    /\ IsCritical(plan[t][pendingAuth[t].step])
    /\ pendingAuth' = [pendingAuth EXCEPT ![t].stage = "passphrase"]
    /\ Grant(t, "voice")
    /\ UNCHANGED <<status, pc, authorized>>

\* Mutant: a spoken yes is enough for a critical tool.
ApproveAny(t, text) ==
    /\ Resumable(t)
    /\ ~text.deny /\ pendingAuth[t].stage = "voice" /\ text.approve
    /\ Grant(t, "voice")
    /\ Authorize(t)

Approve(t, text) ==
    /\ Resumable(t)
    /\ ~text.deny /\ pendingAuth[t].stage = "voice" /\ text.approve
    /\ ~IsCritical(plan[t][pendingAuth[t].step])
    /\ Grant(t, "voice")
    /\ Authorize(t)

AcceptPassphrase(t, text) ==
    /\ Resumable(t)
    /\ ~text.deny /\ pendingAuth[t].stage = "passphrase" /\ text.passphrase
    /\ Grant(t, "passphrase")
    /\ Authorize(t)

RejectPassphrase(t, text) ==
    /\ Resumable(t)
    /\ ~text.deny /\ pendingAuth[t].stage = "passphrase" /\ ~text.passphrase
    /\ Block(t)

-----------------------------------------------------------------------------
\* What a caller does.
Call(t) ==
    \/ RunFastPath(t) \/ RunPlanner(t)
    \/ \E text \in Utterances :
          \/ Refuse(t, text) \/ AskPassphrase(t, text) \/ Approve(t, text)
          \/ AcceptPassphrase(t, text) \/ RejectPassphrase(t, text)

\* What the thread inside run() or resume_with_voice() does.
Work(t) ==
    \/ StopOverBudget(t) \/ BeginAnswer(t) \/ VerifyAnswer(t) \/ FinishAnswer(t)
    \/ ReportPlanError(t) \/ DenyStep(t) \/ AskConsent(t) \/ StartTool(t)
    \/ MissingTool(t) \/ ToolEscapes(t) \/ ToolReturns(t) \/ ToolShutsDown(t)
    \/ PassStep(t) \/ FailStep(t) \/ Recover(t) \/ Replan(t) \/ ReplanIsEmpty(t)
    \/ CompletePlan(t)

Next == \E t \in Tasks : Call(t) \/ Work(t)

Spec == Init /\ [][Next]_vars

\* A thread inside a call keeps running; callers owe nothing.
FairSpec == Spec /\ \A t \in Tasks : WF_vars(Work(t))

-----------------------------------------------------------------------------
(* Types: every variable stays in the range the code gives it; in particular *)
(* steps_used never passes max_steps and no retry count passes max_attempts. *)
Pcs == Idle \cup {"top", "answer", "answered", "missing", "tool", "verify",
                  "recover", "replan"}
Pending == [step : 0..MaxPlan, stage : {None, "voice", "passphrase"}]

PlaceTypes ==
    /\ status \in [Tasks -> TL!Statuses]
    /\ pc \in [Tasks -> Pcs]

WorkTypes ==
    /\ plan \in [Tasks -> Plans]
    /\ idx \in [Tasks -> 1..(MaxPlan + 1)]
    /\ stepsUsed \in [Tasks -> 0..MaxSteps]
    /\ retries \in [Tasks -> [1..MaxPlan -> 0..MaxAttempts]]
    /\ isFastpath \in [Tasks -> BOOLEAN]
    /\ result \in [Tasks -> {None, "ok", "error"}]
    /\ pendingAuth \in [Tasks -> Pending]

FlagTypes ==
    /\ authorized \in [Tasks -> SUBSET (1..MaxPlan)]
    /\ relabelled \in [Tasks -> SUBSET (1..MaxPlan)]
    /\ toolVerified \in [Tasks -> SUBSET (1..MaxPlan)]
    /\ verified \in [Tasks -> SUBSET (1..MaxPlan)]
    /\ consent \in [Tasks -> SUBSET ((1..MaxPlan) \X Factors)]
    /\ evidence \in [Tasks -> SUBSET (1..MaxPlan)]

SharedTypes ==
    /\ steeringFails \in 0..1
    /\ shutdown \in BOOLEAN
    /\ current \in Tasks \cup {None}
    /\ outcome \in [Tasks -> Outcomes]
    /\ usurped \subseteq Tasks
    /\ stopped \in [Tasks -> BOOLEAN]

TypeOK == PlaceTypes /\ WorkTypes /\ FlagTypes /\ SharedTypes

\* The factors the policy and the tool's declaration ask of the user.
Required(a) ==
    CASE Policy(a) = "REQUIRE_SECOND_FACTOR" -> {"passphrase"}
      [] Policy(a) = "REQUIRE_CONFIRMATION" /\ IsCritical(a) -> {"voice", "passphrase"}
      [] Policy(a) = "REQUIRE_CONFIRMATION" /\ ~IsCritical(a) -> {"voice"}
      [] OTHER -> {}

\* Step i of task t was cleared by the policy and the user, or built in.
Cleared(t, i) ==
    \/ <<i, "builtin">> \in consent[t]
    \/ /\ Policy(plan[t][i]) # "DENY"
       /\ \A f \in Required(plan[t][i]) : <<i, f>> \in consent[t]

(* No tool runs before its step was cleared: the policy does not deny it and  *)
(* the user gave every factor it asks for, for this very step of this very    *)
(* plan (a retry inherits the consent, a replanned step does not).  The one   *)
(* exception is the shutdown step the fast path authorizes by itself.         *)
ConsentBeforeEffect ==
    \A t \in Tasks : pc[t] = "tool" => Cleared(t, idx[t])

(* The answer a waiting task gets binds to the step the loop stands at: a     *)
(* task that waits has recorded that step, which no one has authorized yet    *)
(* and which is a tool call.                                                  *)
Waiting(t) == status[t] = "AWAITING_AUTHORIZATION" /\ pc[t] = "idle"

WaitsForCurrentStep ==
    \A t \in Tasks : Waiting(t) =>
        /\ pendingAuth[t].step = idx[t]
        /\ pendingAuth[t].stage \in {"voice", "passphrase"}
        /\ idx[t] \in 1..Len(plan[t]) /\ Step(t) \in Actions
        /\ idx[t] \notin authorized[t]

(* A task is COMPLETED only if it answered directly, was cut short by a       *)
(* shutdown, or ran a plan of which every step passed its verification: a     *)
(* failure never turns into success through a replan or a retry.              *)
NoFalseCompletion ==
    \A t \in Tasks : status[t] = "COMPLETED" =>
        \/ shutdown
        \/ plan[t] = <<"direct_answer">>
        \/ plan[t] # <<>> /\ \A i \in 1..Len(plan[t]) : i \in verified[t]

(* Nothing happens to a task once it is finished, and no thread is left       *)
(* working for it: FAILED, which the table lets go to RECOVERING or PLANNING, *)
(* is final as well.                                                          *)
FinishedIsFinal ==
    [][\A t \in Tasks : status[t] \in TL!Finished =>
            /\ status'[t] = status[t]
            /\ pc[t] \in Idle /\ pc'[t] = pc[t]]_vars

(* Every call returns: the loop ends in a status, a question or an exception  *)
(* however often steps fail, retry and replan, because of max_steps.          *)
CallsReturn == \A t \in Tasks : pc[t] \notin Idle ~> pc[t] \in Idle

\* What a trajectory says at its end and the status that goes with it.
Tells(o, s) ==
    \/ o = "SUCCESS" /\ s = "COMPLETED"
    \/ o \in {"FAILURE", "BUDGET_EXCEEDED"} /\ s = "FAILED"
    \/ o = "BLOCKED" /\ s = "BLOCKED"

(* The trajectory of a task whose place in the recorder no other task took    *)
(* tells how it ended, and a completed one has its trajectory.  The recorder  *)
(* has one place: the next task that starts takes it, and the next that ends  *)
(* writes what is in it.  What a task that lost its place is said to have     *)
(* come to is then not its own end but that of another task.                  *)
OutcomeIsOwn ==
    \A t \in Tasks :
        /\ outcome[t] # None => \E u \in Tasks : Tells(outcome[t], status[u])
        /\ t \notin usurped =>
              /\ outcome[t] # None => Tells(outcome[t], status[t])
              /\ status[t] = "COMPLETED" => outcome[t] = "SUCCESS"

(* Of all the status changes the loop makes, in whatever order failures,      *)
(* retries, replans and answers bring it there, the table of state.py refuses *)
(* three, on which the call raises: a plan without steps is complete while    *)
(* the task is PLANNING, a later step that the policy denies is blocked from  *)
(* VERIFYING or RECOVERING, and a replanned step asks for consent in          *)
(* RECOVERING.  Else a call raises only what a tool does.                     *)
RaisesAreKnown ==
    \A t \in Tasks : pc[t] = "raised" =>
        \/ status[t] = "EXECUTING" /\ Step(t) \in Registered
        \/ status[t] = "PLANNING" /\ plan[t] = <<>>
        \/ /\ status[t] \in {"VERIFYING", "RECOVERING"}
           /\ Step(t) \in Actions /\ Policy(Step(t)) = "DENY"
        \/ /\ status[t] = "RECOVERING" /\ Step(t) \in Actions /\ idx[t] \notin authorized[t]
           /\ Policy(Step(t)) \in {"REQUIRE_CONFIRMATION", "REQUIRE_SECOND_FACTOR"}

-----------------------------------------------------------------------------
(* The inductive invariant behind ConsentBeforeEffect, WaitsForCurrentStep   *)
(* and NoFalseCompletion: what holds of each task by itself, in named parts. *)

\* The status a task may have while its thread stands at a given place.
StatusAt(at) ==
    CASE at = "new" -> {"PENDING"}
      [] at = "top" -> {"PLANNING", "AWAITING_AUTHORIZATION", "VERIFYING", "RECOVERING"}
      [] at \in {"answer", "missing", "tool"} -> {"EXECUTING"}
      [] at \in {"answered", "verify"} -> {"VERIFYING"}
      [] at \in {"recover", "replan"} -> {"RECOVERING"}
      [] at = "idle" -> TL!Finished \cup {"AWAITING_AUTHORIZATION", "VERIFYING"}
      [] OTHER -> TL!Statuses \ TL!Finished

StatusMatchesPlace(t) == status[t] \in StatusAt(pc[t])

\* Past the head of the loop the index points at a step of the right kind.
AtTool(t) ==
    /\ pc[t] \in {"missing", "tool", "verify", "recover"} =>
          idx[t] <= Len(plan[t]) /\ Step(t) \in Actions
    /\ pc[t] \in {"answer", "answered"} =>
          idx[t] <= Len(plan[t]) /\ Step(t) = "direct_answer"

\* The plan's authorized steps were cleared.
AuthorizedIsCleared(t) ==
    \A i \in authorized[t] : i <= Len(plan[t]) /\ Cleared(t, i)

\* What the stage of a pending authorization says about the answers so far.
PendingStage(t) ==
    Waiting(t) =>
        \/ /\ pendingAuth[t].stage = "voice"
           /\ Policy(Step(t)) = "REQUIRE_CONFIRMATION"
        \/ /\ pendingAuth[t].stage = "passphrase"
           /\ Policy(Step(t)) = "REQUIRE_SECOND_FACTOR"
        \/ /\ pendingAuth[t].stage = "passphrase"
           /\ Policy(Step(t)) = "REQUIRE_CONFIRMATION"
           /\ <<idx[t], "voice">> \in consent[t]

\* Every step before the current one passed; only a fresh task has no plan.
PassedSoFar(t) ==
    /\ \A i \in 1..(idx[t] - 1) : i \in verified[t]
    /\ idx[t] <= Len(plan[t]) + 1
    /\ pc[t] = "top" /\ plan[t] = <<>> => status[t] = "PLANNING"

IInv ==
    /\ TypeOK
    /\ ConsentBeforeEffect
    /\ WaitsForCurrentStep
    /\ NoFalseCompletion
    /\ \A t \in Tasks :
          /\ StatusMatchesPlace(t)
          /\ AtTool(t)
          /\ AuthorizedIsCleared(t)
          /\ PendingStage(t)
          /\ PassedSoFar(t)

-----------------------------------------------------------------------------
(* What documents and tests say of the program and the code does not do.     *)

(* README: a RED action requires voice confirmation and the passphrase.      *)
RedNeedsVoiceAndPassphrase ==
    \A t \in Tasks : pc[t] = "tool" /\ Step(t) \in Known /\ Tier[Step(t)] = "RED" =>
        /\ <<idx[t], "voice">> \in consent[t]
        /\ <<idx[t], "passphrase">> \in consent[t]

(* CHANGELOG: the fast path shutdown requires voice confirmation.            *)
ShutdownIsConfirmed ==
    \A t \in Tasks : pc[t] = "tool" /\ Step(t) = Shutdown =>
        <<idx[t], "voice">> \in consent[t]

(* README: an approval binds to the parameters it was asked about.           *)
ApprovalBindsArguments ==
    \A t \in Tasks : pc[t] = "tool" /\ idx[t] \in authorized[t] => idx[t] \notin relabelled[t]

(* Test: after the maximum of retries, recovery must stop safely.            *)
StopMeansStop == \A t \in Tasks : stopped[t] => pc[t] # "tool"

(* README: a failed verification triggers a replan, which works for every    *)
(* plan the model returns, one that needs the user's consent included.       *)
ReplanCanAsk ==
    \A t \in Tasks : ~(pc[t] = "raised" /\ pendingAuth[t] # NoPending)

(* CHANGELOG: the evaluator reports no success on a bare tool return.        *)
NoBareSuccess == \A t \in Tasks : verified[t] \subseteq evidence[t]
=============================================================================
