------------------------- MODULE OrchestratorProofs -------------------------
(***************************************************************************)
(* Proofs about Orchestrator for any set of tasks and tools, any policy    *)
(* and any budgets.                                                        *)
(***************************************************************************)
EXTENDS Orchestrator, TLAPS

\* A plan the planner returns is a list of at most MaxPlan step names.
LEMMA PlanFacts ==
    ASSUME NEW p \in Plans
    PROVE  /\ p \in Seq(Actions \cup NonTools)
           /\ Len(p) \in 0..MaxPlan
           /\ DOMAIN p = 1..Len(p)
<1> USE OrchestratorAssumption DEF NonTools
<1>1. CASE p = <<>>
  BY <1>1
<1>2. ASSUME NEW x \in NonTools, p = <<x>>
      PROVE  /\ p \in Seq(Actions \cup NonTools)
             /\ Len(p) \in 0..MaxPlan
             /\ DOMAIN p = 1..Len(p)
  <2>1. p \in Seq(Actions \cup NonTools) /\ Len(p) = 1
    BY <1>2
  <2>. QED BY <2>1
<1>3. CASE \E n \in 1..MaxPlan : p \in [1..n -> Actions]
  <2>1. PICK n \in 1..MaxPlan : p \in [1..n -> Actions]
    BY <1>3
  <2>2. p \in Seq(Actions) /\ Len(p) = n
    BY <2>1
  <2>. QED BY <2>1, <2>2
<1>. QED BY <1>1, <1>2, <1>3 DEF Plans

\* A direct answer is a plan by itself.
LEMMA AnswerPlan ==
    ASSUME NEW p \in Plans, NEW i \in 1..(MaxPlan + 1), i <= Len(p), p[i] = "direct_answer"
    PROVE  p = <<"direct_answer">>
<1> USE OrchestratorAssumption DEF NonTools
<1>1. CASE p = <<>>
  BY <1>1
<1>2. CASE p = <<"error">>
  BY <1>2
<1>3. ASSUME NEW n \in 1..MaxPlan, p \in [1..n -> Actions] PROVE FALSE
  <2>1. Len(p) = n /\ i \in 1..n
    BY <1>3, PlanFacts
  <2>. QED
    BY <1>3, <2>1
<1>. QED
  BY <1>1, <1>2, <1>3 DEF Plans

\* The plans the orchestrator builds itself are among them.
LEMMA OwnPlans == <<>> \in Plans /\ \A a \in Actions : <<a>> \in Plans
<1>1. \A a \in Actions : <<a>> \in [1..1 -> Actions]
  OBVIOUS
<1>2. 1 \in 1..MaxPlan
  BY OrchestratorAssumption
<1>. QED BY <1>1, <1>2 DEF Plans

\* The values the actions assign belong to the sets of TypeOK.
LEMMA Members ==
    /\ "PENDING" \in TL!Statuses /\ "PLANNING" \in TL!Statuses /\ "AWAITING_AUTHORIZATION" \in TL!Statuses
    /\ "EXECUTING" \in TL!Statuses /\ "VERIFYING" \in TL!Statuses /\ "COMPLETED" \in TL!Statuses
    /\ "FAILED" \in TL!Statuses /\ "BLOCKED" \in TL!Statuses /\ "RECOVERING" \in TL!Statuses
    /\ "new" \in Pcs /\ "idle" \in Pcs /\ "raised" \in Pcs /\ "top" \in Pcs
    /\ "answer" \in Pcs /\ "answered" \in Pcs /\ "missing" \in Pcs /\ "tool" \in Pcs
    /\ "verify" \in Pcs /\ "recover" \in Pcs /\ "replan" \in Pcs
    /\ None \in Outcomes /\ "SUCCESS" \in Outcomes /\ "FAILURE" \in Outcomes /\ "BLOCKED" \in Outcomes /\ "BUDGET_EXCEEDED" \in Outcomes
    /\ "voice" \in Factors /\ "passphrase" \in Factors /\ "builtin" \in Factors
    /\ NoPending \in Pending
BY OrchestratorAssumption
   DEF TL!Statuses, Pcs, Idle, Outcomes, Factors, NoPending, Pending, None

LEMMA InitTypeOK == Init => TypeOK
<1> SUFFICES ASSUME Init PROVE TypeOK
  OBVIOUS
<1> USE OrchestratorAssumption, OwnPlans, Members DEF Init
<1>1. PlaceTypes
  BY DEF PlaceTypes
<1>2. WorkTypes
  BY DEF WorkTypes
<1>3. FlagTypes
  BY DEF FlagTypes
<1>4. SharedTypes
  <2>1. steeringFails \in 0..1 /\ current \in Tasks \cup {None} /\ outcome \in [Tasks -> Outcomes]
    OBVIOUS
  <2>2. shutdown \in BOOLEAN /\ stopped \in [Tasks -> BOOLEAN]
    OBVIOUS
  <2>. QED
    BY <2>1, <2>2 DEF SharedTypes
<1>. QED
  BY <1>1, <1>2, <1>3, <1>4 DEF TypeOK

-----------------------------------------------------------------------------
(* What the pieces the actions are made of do to the types. *)

LEMMA TransitionTypes ==
    ASSUME PlaceTypes, NEW t \in Tasks, NEW new \in TL!Statuses, NEW next \in Pcs,
           Transition(t, new, next)
    PROVE  PlaceTypes'
BY Members DEF PlaceTypes, Transition

LEMMA FinishTypes ==
    ASSUME SharedTypes, NEW t \in Tasks, NEW o \in Outcomes, FinishTrajectory(t, o),
           UNCHANGED <<steeringFails, shutdown, stopped>>
    PROVE  SharedTypes'
BY DEF SharedTypes, FinishTrajectory

LEMMA NewStepsTypes ==
    ASSUME WorkTypes, FlagTypes, NEW t \in Tasks, NEW p \in Plans,
           NEW auth \in SUBSET (1..MaxPlan), NewSteps(t, p, auth)
    PROVE  /\ FlagTypes'
           /\ plan' \in [Tasks -> Plans]
           /\ idx' \in [Tasks -> 1..(MaxPlan + 1)]
<1>1. {<<i, "builtin">> : i \in auth} \in SUBSET ((1..MaxPlan) \X Factors)
  BY Members
<1>2. plan' \in [Tasks -> Plans] /\ idx' \in [Tasks -> 1..(MaxPlan + 1)]
  BY OrchestratorAssumption DEF NewSteps, WorkTypes
<1>3. FlagTypes'
  BY <1>1 DEF NewSteps, FlagTypes
<1>. QED
  BY <1>2, <1>3

LEMMA UnchangedTypes ==
    /\ PlaceTypes /\ UNCHANGED <<status, pc>> => PlaceTypes'
    /\ WorkTypes /\ UNCHANGED <<plan, idx, stepsUsed, retries, isFastpath, result, pendingAuth>>
          => WorkTypes'
    /\ FlagTypes /\ UNCHANGED flags => FlagTypes'
    /\ SharedTypes /\ UNCHANGED <<shared, stopped>> => SharedTypes'
BY DEF PlaceTypes, WorkTypes, FlagTypes, SharedTypes, flags, shared, recorder


\* Where the loop stands at a step, the index is one of the plan's.
LEMMA HeadIndex ==
    ASSUME TypeOK, NEW t \in Tasks, idx[t] <= Len(plan[t])
    PROVE  idx[t] \in 1..MaxPlan /\ idx[t] \in 1..Len(plan[t])
<1>1. plan[t] \in Plans /\ idx[t] \in 1..(MaxPlan + 1)
  BY DEF TypeOK, WorkTypes
<1>2. Len(plan[t]) \in 0..MaxPlan
  BY <1>1, PlanFacts
<1>. QED
  BY <1>1, <1>2, OrchestratorAssumption

LEMMA ToolIndex ==
    ASSUME TypeOK, NEW t \in Tasks, AtTool(t), pc[t] \in {"missing", "tool", "verify", "recover"}
    PROVE  idx[t] \in 1..MaxPlan /\ idx[t] \in 1..Len(plan[t]) /\ Step(t) \in Actions
<1>1. idx[t] <= Len(plan[t]) /\ Step(t) \in Actions
  BY DEF AtTool
<1>2. idx[t] \in 1..MaxPlan /\ idx[t] \in 1..Len(plan[t])
  BY <1>1, HeadIndex
<1>. QED
  BY <1>1, <1>2

LEMMA PendingIndex ==
    ASSUME TypeOK, WaitsForCurrentStep, NEW t \in Tasks,
           status[t] = "AWAITING_AUTHORIZATION", pc[t] = "idle"
    PROVE  /\ pendingAuth[t].step = idx[t]
           /\ idx[t] \in 1..MaxPlan /\ idx[t] \in 1..Len(plan[t]) /\ Step(t) \in Actions
<1>1. idx[t] \in 1..Len(plan[t]) /\ Step(t) \in Actions /\ pendingAuth[t].step = idx[t]
  BY DEF WaitsForCurrentStep, Waiting
<1>2. Len(plan[t]) \in Nat /\ idx[t] \in Nat
  BY PlanFacts, OrchestratorAssumption DEF TypeOK, WorkTypes
<1>. QED
  BY <1>1, <1>2, HeadIndex

LEMMA StartTypes ==
    ASSUME TypeOK, NEW t \in Tasks, Start(t)
    PROVE  /\ PlaceTypes' /\ SharedTypes'
           /\ /\ plan' \in [Tasks -> Plans]
              /\ idx' \in [Tasks -> 1..(MaxPlan + 1)]
              /\ isFastpath' \in [Tasks -> BOOLEAN]
              => WorkTypes'
<1>1. PlaceTypes'
  BY Members DEF TypeOK, PlaceTypes, Start
<1>2. SharedTypes'
  BY DEF TypeOK, SharedTypes, Start
<1>. QED
  BY <1>1, <1>2 DEF TypeOK, WorkTypes, Start

LEMMA TakeStepTypes ==
    ASSUME TypeOK, NEW t \in Tasks, TakeStep(t)
    PROVE  /\ FlagTypes'
           /\ pendingAuth' \in [Tasks -> Pending] => WorkTypes'
           /\ UNCHANGED <<steeringFails, shutdown, stopped>>
           /\ idx[t] \in 1..MaxPlan
<1>1. FlagTypes' /\ UNCHANGED <<steeringFails, shutdown, stopped>>
  BY UnchangedTypes DEF TypeOK, TakeStep
<1>2. stepsUsed' \in [Tasks -> 0..MaxSteps]
  BY OrchestratorAssumption DEF TypeOK, WorkTypes, TakeStep
<1>3. pendingAuth' \in [Tasks -> Pending] => WorkTypes'
  BY <1>2 DEF TypeOK, WorkTypes, TakeStep
<1>4. idx[t] \in 1..MaxPlan
  BY HeadIndex DEF TakeStep
<1>. QED
  BY <1>1, <1>3, <1>4

\* Where recovery sends the thread: back to the loop, to the planner, or out.
LEMMA RecoverMoves ==
    ASSUME NEW t \in Tasks, Recover(t)
    PROVE  \/ \E next \in {"top", "replan"} : pc' = [pc EXCEPT ![t] = next] /\ UNCHANGED status
           \/ \E new \in {"BLOCKED", "FAILED"} : Transition(t, new, "idle")
BY DEF Recover

LEMMA RecoverRetries ==
    ASSUME WorkTypes, NEW t \in Tasks, idx[t] \in 1..MaxPlan, Recover(t)
    PROVE  retries' \in [Tasks -> [1..MaxPlan -> 0..MaxAttempts]]
<1>1. retries \in [Tasks -> [1..MaxPlan -> 0..MaxAttempts]]
  BY DEF WorkTypes
<1>2. retries[t] \in [1..MaxPlan -> 0..MaxAttempts] /\ retries[t][idx[t]] \in 0..MaxAttempts
  BY <1>1
<1>3. \/ UNCHANGED retries
      \/ /\ ~(retries[t][idx[t]] >= MaxAttempts)
         /\ retries' = [retries EXCEPT ![t][idx[t]] = @ + 1]
  BY DEF Recover
<1>4. ASSUME ~(retries[t][idx[t]] >= MaxAttempts),
             retries' = [retries EXCEPT ![t][idx[t]] = @ + 1]
      PROVE  retries' \in [Tasks -> [1..MaxPlan -> 0..MaxAttempts]]
  <2>1. retries[t][idx[t]] + 1 \in 0..MaxAttempts
    BY <1>2, <1>4, OrchestratorAssumption
  <2>2. [retries[t] EXCEPT ![idx[t]] = @ + 1] \in [1..MaxPlan -> 0..MaxAttempts]
    BY <1>2, <2>1
  <2>. QED
    BY <1>1, <1>4, <2>2
<1>. QED
  BY <1>1, <1>3, <1>4

LEMMA GrantTypes ==
    ASSUME TypeOK, WaitsForCurrentStep, NEW t \in Tasks, Resumable(t),
           NEW factor \in Factors, Grant(t, factor)
    PROVE  consent' \in [Tasks -> SUBSET ((1..MaxPlan) \X Factors)]
<1>1. pendingAuth[t].step \in 1..MaxPlan
  BY PendingIndex DEF Resumable
<1>. QED
  BY <1>1 DEF Grant, TypeOK, FlagTypes

LEMMA AuthorizeTypes ==
    ASSUME TypeOK, WaitsForCurrentStep, NEW t \in Tasks, Resumable(t),
           NEW factor \in Factors, Grant(t, factor), Authorize(t)
    PROVE  TypeOK'
<1>1. pendingAuth[t].step \in 1..MaxPlan
  BY PendingIndex DEF Resumable
<1>2. PlaceTypes' /\ SharedTypes'
  BY Members, UnchangedTypes DEF TypeOK, Authorize, Resumable, PlaceTypes
<1>3. authorized' \in [Tasks -> SUBSET (1..MaxPlan)]
  BY <1>1 DEF TypeOK, FlagTypes, Authorize
<1>4. FlagTypes'
  BY <1>3, GrantTypes DEF TypeOK, FlagTypes, Resumable
<1>5. pendingAuth' \in [Tasks -> Pending]
  BY Members DEF TypeOK, WorkTypes, Authorize
<1>6. WorkTypes'
  BY <1>5 DEF TypeOK, WorkTypes, Resumable
<1>. QED
  BY <1>2, <1>4, <1>6 DEF TypeOK

LEMMA BlockTypes ==
    ASSUME TypeOK, NEW t \in Tasks, Resumable(t), Block(t)
    PROVE  TypeOK'
<1>1. PlaceTypes'
  BY Members, TransitionTypes DEF TypeOK, Block
<1>2. FlagTypes' /\ SharedTypes'
  BY UnchangedTypes DEF TypeOK, Block, Resumable, flags
<1>3. pendingAuth' \in [Tasks -> Pending]
  BY Members DEF TypeOK, WorkTypes, Block
<1>4. WorkTypes'
  BY <1>3 DEF TypeOK, WorkTypes, Resumable
<1>. QED
  BY <1>1, <1>2, <1>4 DEF TypeOK

-----------------------------------------------------------------------------
\* A step of any action keeps the types, given where the thread stands.
LEMMA TypeStep ==
    TypeOK /\ (\A t \in Tasks : AtTool(t)) /\ WaitsForCurrentStep /\ [Next]_vars => TypeOK'
<1> SUFFICES ASSUME TypeOK, \A t \in Tasks : AtTool(t), WaitsForCurrentStep, [Next]_vars
             PROVE  TypeOK'
  OBVIOUS
<1> USE DEF TypeOK
<1>1. ASSUME NEW t \in Tasks, RunFastPath(t)
      PROVE  TypeOK'
  <2>1. PICK a \in FastActions :
           NewSteps(t, <<a>>, IF a = Shutdown THEN {1} ELSE {})
    BY <1>1 DEF RunFastPath
  <2>2. <<a>> \in Plans /\ (IF a = Shutdown THEN {1} ELSE {}) \in SUBSET (1..MaxPlan)
    BY OwnPlans, OrchestratorAssumption
  <2>3. FlagTypes' /\ plan' \in [Tasks -> Plans] /\ idx' \in [Tasks -> 1..(MaxPlan + 1)]
    BY <2>1, <2>2, NewStepsTypes
  <2>4. isFastpath' \in [Tasks -> BOOLEAN] /\ Start(t)
    BY <1>1 DEF RunFastPath, WorkTypes
  <2>. QED
    BY <2>3, <2>4, StartTypes
<1>2. ASSUME NEW t \in Tasks, RunPlanner(t)
      PROVE  TypeOK'
  <2>1. PICK p \in Plans : NewSteps(t, p, {})
    BY <1>2 DEF RunPlanner
  <2>2. FlagTypes' /\ plan' \in [Tasks -> Plans] /\ idx' \in [Tasks -> 1..(MaxPlan + 1)]
    BY <2>1, NewStepsTypes
  <2>3. isFastpath' \in [Tasks -> BOOLEAN] /\ Start(t)
    BY <1>2 DEF RunPlanner, WorkTypes
  <2>. QED
    BY <2>2, <2>3, StartTypes
<1>3. ASSUME NEW t \in Tasks, StopOverBudget(t)
      PROVE  TypeOK'
  <2>1. PlaceTypes' /\ WorkTypes' /\ FlagTypes'
    BY <1>3, Members, TransitionTypes, UnchangedTypes DEF StopOverBudget
  <2>2. CASE UNCHANGED recorder
    BY <1>3, <2>1, <2>2, UnchangedTypes DEF StopOverBudget, shared, recorder
  <2>3. CASE FinishTrajectory(t, "BUDGET_EXCEEDED")
    BY <1>3, <2>1, <2>3, Members, FinishTypes DEF StopOverBudget
  <2>. QED
    BY <1>3, <2>2, <2>3 DEF StopOverBudget
<1>4. ASSUME NEW t \in Tasks, BeginAnswer(t)
      PROVE  TypeOK'
  <2>1. PlaceTypes'
    BY <1>4, Members, TransitionTypes DEF BeginAnswer
  <2>2. FlagTypes' /\ WorkTypes' /\ SharedTypes'
    BY <1>4, TakeStepTypes, UnchangedTypes DEF BeginAnswer, WorkTypes, shared, recorder
  <2>. QED
    BY <2>1, <2>2
<1>5. ASSUME NEW t \in Tasks, VerifyAnswer(t)
      PROVE  TypeOK'
  BY <1>5, Members, TransitionTypes, UnchangedTypes DEF VerifyAnswer
<1>6. ASSUME NEW t \in Tasks, FinishAnswer(t)
      PROVE  TypeOK'
  BY <1>6, Members, TransitionTypes, FinishTypes, UnchangedTypes DEF FinishAnswer
<1>7. ASSUME NEW t \in Tasks, ReportPlanError(t)
      PROVE  TypeOK'
  <2>1. PlaceTypes' /\ SharedTypes'
    BY <1>7, Members, TransitionTypes, FinishTypes, TakeStepTypes DEF ReportPlanError
  <2>2. FlagTypes' /\ WorkTypes'
    BY <1>7, TakeStepTypes DEF ReportPlanError, WorkTypes
  <2>. QED
    BY <2>1, <2>2
<1>8. ASSUME NEW t \in Tasks, DenyStep(t)
      PROVE  TypeOK'
  <2>1. PlaceTypes'
    BY <1>8, Members, TransitionTypes DEF DenyStep
  <2>2. FlagTypes' /\ WorkTypes' /\ UNCHANGED <<steeringFails, shutdown, stopped>>
    BY <1>8, TakeStepTypes DEF DenyStep, WorkTypes
  <2>3. SharedTypes'
    <3>1. CASE Raises(t, "BLOCKED")
      BY <1>8, <2>2, <3>1, UnchangedTypes DEF DenyStep, shared, recorder
    <3>2. CASE ~Raises(t, "BLOCKED")
      BY <1>8, <2>2, <3>2, Members, FinishTypes DEF DenyStep
    <3>. QED
      BY <3>1, <3>2
  <2>. QED
    BY <2>1, <2>2, <2>3
<1>9. ASSUME NEW t \in Tasks, AskConsent(t)
      PROVE  TypeOK'
  <2>1. PlaceTypes'
    BY <1>9, Members, TransitionTypes DEF AskConsent
  <2>2. [step |-> idx[t],
         stage |-> IF Policy(Step(t)) = "REQUIRE_CONFIRMATION"
                   THEN "voice" ELSE "passphrase"] \in Pending
    BY <1>9, TakeStepTypes DEF AskConsent, Pending
  <2>3. pendingAuth' \in [Tasks -> Pending]
    BY <1>9, <2>2 DEF AskConsent, WorkTypes
  <2>4. FlagTypes' /\ WorkTypes' /\ SharedTypes'
    BY <1>9, <2>3, TakeStepTypes, UnchangedTypes DEF AskConsent, shared, recorder
  <2>. QED
    BY <2>1, <2>4
<1>10. ASSUME NEW t \in Tasks, StartTool(t)
       PROVE  TypeOK'
  <2>1. PlaceTypes'
    <3>1. CASE Step(t) \in Registered
      BY <1>10, <3>1, Members, TransitionTypes DEF StartTool
    <3>2. CASE Step(t) \notin Registered
      BY <1>10, <3>2, Members, TransitionTypes DEF StartTool
    <3>. QED
      BY <3>1, <3>2
  <2>2. FlagTypes' /\ WorkTypes' /\ SharedTypes'
    BY <1>10, TakeStepTypes, UnchangedTypes DEF StartTool, WorkTypes, shared, recorder
  <2>. QED
    BY <2>1, <2>2
<1>11. ASSUME NEW t \in Tasks, MissingTool(t)
       PROVE  TypeOK'
  BY <1>11, Members, TransitionTypes, FinishTypes, UnchangedTypes DEF MissingTool
<1>12. ASSUME NEW t \in Tasks, ToolEscapes(t)
       PROVE  TypeOK'
  <2>1. PlaceTypes'
    BY <1>12, Members DEF ToolEscapes, PlaceTypes
  <2>. QED
    BY <1>12, <2>1, UnchangedTypes DEF ToolEscapes
<1>13. ASSUME NEW t \in Tasks, ToolReturns(t)
       PROVE  TypeOK'
  <2>1. PlaceTypes' /\ FlagTypes' /\ SharedTypes'
    BY <1>13, Members, TransitionTypes, UnchangedTypes DEF ToolReturns
  <2>2. result' \in [Tasks -> {None, "ok", "error"}]
    BY <1>13 DEF ToolReturns, WorkTypes
  <2>. QED
    BY <1>13, <2>1, <2>2 DEF ToolReturns, WorkTypes
<1>14. ASSUME NEW t \in Tasks, ToolShutsDown(t)
       PROVE  TypeOK'
  <2>1. PlaceTypes' /\ FlagTypes'
    BY <1>14, Members, TransitionTypes, UnchangedTypes DEF ToolShutsDown
  <2>2. result' \in [Tasks -> {None, "ok", "error"}]
    BY <1>14 DEF ToolShutsDown, WorkTypes
  <2>3. WorkTypes'
    BY <1>14, <2>2 DEF ToolShutsDown, WorkTypes
  <2>4. SharedTypes'
    BY <1>14, Members DEF ToolShutsDown, FinishTrajectory, SharedTypes
  <2>. QED
    BY <2>1, <2>3, <2>4
<1>15. ASSUME NEW t \in Tasks, PassStep(t)
       PROVE  TypeOK'
  <2>1. idx[t] \in 1..MaxPlan
    BY <1>15, ToolIndex DEF PassStep, Judge
  <2>2. PlaceTypes'
    BY <1>15, Members DEF PassStep, PlaceTypes
  <2>3. FlagTypes'
    BY <1>15, <2>1 DEF PassStep, Judge, FlagTypes
  <2>4. idx' \in [Tasks -> 1..(MaxPlan + 1)]
    BY <1>15, <2>1, OrchestratorAssumption DEF PassStep, WorkTypes
  <2>5. WorkTypes'
    BY <1>15, <2>4 DEF PassStep, Judge, WorkTypes
  <2>6. SharedTypes'
    BY <1>15 DEF PassStep, Judge, SharedTypes, recorder
  <2>. QED
    BY <2>2, <2>3, <2>5, <2>6
<1>16. ASSUME NEW t \in Tasks, FailStep(t)
       PROVE  TypeOK'
  <2>1. idx[t] \in 1..MaxPlan
    BY <1>16, ToolIndex DEF FailStep, Judge
  <2>2. PlaceTypes'
    BY <1>16, Members, TransitionTypes DEF FailStep
  <2>3. FlagTypes'
    BY <1>16, <2>1 DEF FailStep, Judge, FlagTypes
  <2>4. WorkTypes' /\ SharedTypes'
    BY <1>16, UnchangedTypes DEF FailStep, Judge, shared, recorder
  <2>. QED
    BY <2>2, <2>3, <2>4
<1>17. ASSUME NEW t \in Tasks, Recover(t)
       PROVE  TypeOK'
  <2>1. idx[t] \in 1..MaxPlan
    BY <1>17, ToolIndex DEF Recover
  <2>3. retries' \in [Tasks -> [1..MaxPlan -> 0..MaxAttempts]]
    BY <1>17, <2>1, RecoverRetries
  <2>4. WorkTypes'
    BY <1>17, <2>3 DEF Recover, WorkTypes
  <2>5. relabelled' \in [Tasks -> SUBSET (1..MaxPlan)]
    BY <1>17, <2>1 DEF Recover, FlagTypes
  <2>6. FlagTypes'
    BY <1>17, <2>5 DEF Recover, FlagTypes
  <2>7. PlaceTypes'
    <3>1. CASE \E next \in {"top", "replan"} :
                  pc' = [pc EXCEPT ![t] = next] /\ UNCHANGED status
      BY <3>1, Members DEF PlaceTypes
    <3>2. CASE \E new \in {"BLOCKED", "FAILED"} : Transition(t, new, "idle")
      BY <3>2, Members, TransitionTypes
    <3>. QED
      BY <1>17, <3>1, <3>2, RecoverMoves
  <2>8. steeringFails' \in 0..1 /\ stopped' \in [Tasks -> BOOLEAN]
    BY <1>17 DEF Recover, SharedTypes
  <2>9. current' \in Tasks \cup {None} /\ outcome' \in [Tasks -> Outcomes] /\ usurped' \subseteq Tasks
    <3>1. UNCHANGED recorder \/ FinishTrajectory(t, "FAILURE")
      BY <1>17 DEF Recover
    <3>. QED
      BY <3>1, Members DEF FinishTrajectory, SharedTypes, recorder
  <2>10. SharedTypes'
    BY <1>17, <2>8, <2>9 DEF Recover, SharedTypes
  <2>. QED
    BY <2>4, <2>6, <2>7, <2>10
<1>18. ASSUME NEW t \in Tasks, Replan(t)
       PROVE  TypeOK'
  <2>1. PICK p \in Plans \ {<<>>} : NewSteps(t, p, {})
    BY <1>18 DEF Replan
  <2>2. FlagTypes' /\ plan' \in [Tasks -> Plans] /\ idx' \in [Tasks -> 1..(MaxPlan + 1)]
    BY <2>1, NewStepsTypes
  <2>3. WorkTypes'
    BY <1>18, <2>2 DEF Replan, WorkTypes
  <2>4. PlaceTypes' /\ SharedTypes'
    BY <1>18, Members DEF Replan, PlaceTypes, SharedTypes, recorder
  <2>. QED
    BY <2>2, <2>3, <2>4
<1>19. ASSUME NEW t \in Tasks, ReplanIsEmpty(t)
       PROVE  TypeOK'
  <2>1. FlagTypes' /\ plan' \in [Tasks -> Plans] /\ idx' \in [Tasks -> 1..(MaxPlan + 1)]
    BY <1>19, OwnPlans, NewStepsTypes DEF ReplanIsEmpty
  <2>2. WorkTypes'
    BY <1>19, <2>1 DEF ReplanIsEmpty, WorkTypes
  <2>3. PlaceTypes'
    BY <1>19, Members, TransitionTypes DEF ReplanIsEmpty
  <2>4. SharedTypes'
    BY <1>19, Members DEF ReplanIsEmpty, FinishTrajectory, SharedTypes
  <2>. QED
    BY <2>1, <2>2, <2>3, <2>4
<1>20. ASSUME NEW t \in Tasks, CompletePlan(t)
       PROVE  TypeOK'
  <2>1. PlaceTypes' /\ FlagTypes' /\ WorkTypes'
    BY <1>20, Members, TransitionTypes, UnchangedTypes DEF CompletePlan
  <2>2. SharedTypes'
    <3>1. CASE Raises(t, "COMPLETED")
      BY <1>20, <3>1, UnchangedTypes DEF CompletePlan, shared, recorder
    <3>2. CASE ~Raises(t, "COMPLETED")
      BY <1>20, <3>2, Members, FinishTypes DEF CompletePlan
    <3>. QED
      BY <3>1, <3>2
  <2>. QED
    BY <2>1, <2>2
<1>21. ASSUME NEW t \in Tasks, NEW text \in Utterances, Refuse(t, text)
       PROVE  TypeOK'
  BY <1>21, BlockTypes DEF Refuse
<1>22. ASSUME NEW t \in Tasks, NEW text \in Utterances, AskPassphrase(t, text)
       PROVE  TypeOK'
  <2>1. PlaceTypes' /\ SharedTypes'
    BY <1>22, UnchangedTypes DEF AskPassphrase, Resumable
  <2>2. pendingAuth' \in [Tasks -> Pending]
    BY <1>22 DEF AskPassphrase, WorkTypes, Pending
  <2>3. WorkTypes'
    BY <1>22, <2>2 DEF AskPassphrase, Resumable, WorkTypes
  <2>4. FlagTypes'
    BY <1>22, GrantTypes, Members DEF AskPassphrase, Resumable, FlagTypes
  <2>. QED
    BY <2>1, <2>3, <2>4
<1>23. ASSUME NEW t \in Tasks, NEW text \in Utterances, Approve(t, text)
       PROVE  TypeOK'
  BY <1>23, AuthorizeTypes, Members DEF Approve
<1>24. ASSUME NEW t \in Tasks, NEW text \in Utterances, AcceptPassphrase(t, text)
       PROVE  TypeOK'
  BY <1>24, AuthorizeTypes, Members DEF AcceptPassphrase
<1>25. ASSUME NEW t \in Tasks, NEW text \in Utterances, RejectPassphrase(t, text)
       PROVE  TypeOK'
  BY <1>25, BlockTypes DEF RejectPassphrase
<1>26. CASE UNCHANGED vars
  BY <1>26, UnchangedTypes DEF vars, task
<1>. QED
  BY <1>1, <1>2, <1>3, <1>4, <1>5, <1>6, <1>7, <1>8, <1>9, <1>10, <1>11, <1>12, <1>13, <1>14, <1>15, <1>16, <1>17, <1>18, <1>19, <1>20, <1>21, <1>22, <1>23, <1>24, <1>25, <1>26
     DEF Next, Call, Work

-----------------------------------------------------------------------------
(* The inductive invariant speaks of one task at a time, and an action on a  *)
(* task leaves the others alone.                                             *)

TaskInv(t) ==
    /\ StatusMatchesPlace(t)
    /\ AtTool(t)
    /\ AuthorizedIsCleared(t)
    /\ pc[t] = "tool" => Cleared(t, idx[t])
    /\ Waiting(t) =>
          /\ pendingAuth[t].step = idx[t]
          /\ pendingAuth[t].stage \in {"voice", "passphrase"}
          /\ idx[t] \in 1..Len(plan[t]) /\ Step(t) \in Actions
          /\ idx[t] \notin authorized[t]
    /\ PendingStage(t)
    /\ PassedSoFar(t)
    /\ status[t] = "COMPLETED" =>
          \/ shutdown
          \/ plan[t] = <<"direct_answer">>
          \/ plan[t] # <<>> /\ \A i \in 1..Len(plan[t]) : i \in verified[t]

LEMMA InvByTask ==
    /\ IInv <=> TypeOK /\ \A t \in Tasks : TaskInv(t)
    /\ IInv' <=> TypeOK' /\ \A t \in Tasks : TaskInv(t)'
BY DEF IInv, TaskInv, ConsentBeforeEffect, WaitsForCurrentStep, NoFalseCompletion

\* What TaskInv reads of a task does not change.
SameTask(u) ==
    /\ status'[u] = status[u] /\ pc'[u] = pc[u]
    /\ plan'[u] = plan[u] /\ idx'[u] = idx[u]
    /\ pendingAuth'[u] = pendingAuth[u]
    /\ authorized'[u] = authorized[u] /\ consent'[u] = consent[u]
    /\ verified'[u] = verified[u]
    /\ shutdown => shutdown'

LEMMA SameTaskInv ==
    ASSUME NEW u \in Tasks, TaskInv(u), SameTask(u)
    PROVE  TaskInv(u)'
<1> USE DEF SameTask, TaskInv
<1>1. Cleared(u, idx[u])' <=> Cleared(u, idx[u])
  BY DEF Cleared
<1>2. StatusMatchesPlace(u)' /\ AtTool(u)' /\ PassedSoFar(u)'
  BY DEF StatusMatchesPlace, AtTool, PassedSoFar, Step
<1>3. AuthorizedIsCleared(u)'
  BY DEF AuthorizedIsCleared, Cleared
<1>4. PendingStage(u)'
  BY DEF PendingStage, Waiting, Step
<1>. QED
  BY <1>1, <1>2, <1>3, <1>4 DEF Waiting, Step

LEMMA InitInv == Init => IInv
<1> SUFFICES ASSUME Init PROVE IInv
  OBVIOUS
<1>1. TypeOK
  BY InitTypeOK
<1>2. ASSUME NEW t \in Tasks PROVE TaskInv(t)
  BY DEF TaskInv, Init, StatusMatchesPlace, StatusAt, AtTool, AuthorizedIsCleared,
         Waiting, PendingStage, PassedSoFar
<1>. QED
  BY <1>1, <1>2, InvByTask

LEMMA OthersStay ==
    ASSUME TypeOK, NEW t \in Tasks, Call(t) \/ Work(t)
    PROVE  \A u \in Tasks \ {t} : SameTask(u)
<1> SUFFICES ASSUME NEW u \in Tasks \ {t} PROVE SameTask(u)
  OBVIOUS
<1> USE DEF TypeOK, PlaceTypes, WorkTypes, FlagTypes, SameTask, flags, shared, recorder
<1>1. CASE RunFastPath(t)
  BY <1>1 DEF RunFastPath, Start, NewSteps
<1>2. CASE RunPlanner(t)
  BY <1>2 DEF RunPlanner, Start, NewSteps
<1>3. CASE StopOverBudget(t)
  BY <1>3 DEF StopOverBudget, Transition
<1>4. CASE BeginAnswer(t)
  BY <1>4 DEF BeginAnswer, TakeStep, Transition
<1>5. CASE VerifyAnswer(t)
  BY <1>5 DEF VerifyAnswer, Transition
<1>6. CASE FinishAnswer(t)
  BY <1>6 DEF FinishAnswer, Transition
<1>7. CASE ReportPlanError(t)
  BY <1>7 DEF ReportPlanError, TakeStep, Transition
<1>8. CASE DenyStep(t)
  BY <1>8 DEF DenyStep, TakeStep, Transition
<1>9. CASE AskConsent(t)
  BY <1>9 DEF AskConsent, TakeStep, Transition
<1>10. CASE StartTool(t)
  BY <1>10 DEF StartTool, TakeStep, Transition
<1>11. CASE MissingTool(t)
  BY <1>11 DEF MissingTool, Transition
<1>12. CASE ToolEscapes(t)
  BY <1>12 DEF ToolEscapes
<1>13. CASE ToolReturns(t)
  BY <1>13 DEF ToolReturns, Transition
<1>14. CASE ToolShutsDown(t)
  BY <1>14 DEF ToolShutsDown, Transition
<1>15. CASE PassStep(t)
  BY <1>15 DEF PassStep, Judge
<1>16. CASE FailStep(t)
  BY <1>16 DEF FailStep, Judge, Transition
<1>17. CASE Recover(t)
  <2>1. status'[u] = status[u] /\ pc'[u] = pc[u]
    <3>1. CASE \E next \in {"top", "replan"} :
                  pc' = [pc EXCEPT ![t] = next] /\ UNCHANGED status
      BY <3>1
    <3>2. CASE \E new \in {"BLOCKED", "FAILED"} : Transition(t, new, "idle")
      BY <3>2 DEF Transition
    <3>. QED
      BY <1>17, <3>1, <3>2, RecoverMoves
  <2>. QED
    BY <1>17, <2>1 DEF Recover
<1>18. CASE Replan(t)
  BY <1>18 DEF Replan, NewSteps
<1>19. CASE ReplanIsEmpty(t)
  BY <1>19 DEF ReplanIsEmpty, NewSteps, Transition
<1>20. CASE CompletePlan(t)
  BY <1>20 DEF CompletePlan, Transition
<1>21. ASSUME NEW text \in Utterances, Refuse(t, text) PROVE SameTask(u)
  BY <1>21 DEF Refuse, Resumable, Block, Transition
<1>22. ASSUME NEW text \in Utterances, AskPassphrase(t, text) PROVE SameTask(u)
  BY <1>22 DEF AskPassphrase, Resumable, Grant
<1>23. ASSUME NEW text \in Utterances, Approve(t, text) PROVE SameTask(u)
  BY <1>23 DEF Approve, Resumable, Grant, Authorize
<1>24. ASSUME NEW text \in Utterances, AcceptPassphrase(t, text) PROVE SameTask(u)
  BY <1>24 DEF AcceptPassphrase, Resumable, Grant, Authorize
<1>25. ASSUME NEW text \in Utterances, RejectPassphrase(t, text) PROVE SameTask(u)
  BY <1>25 DEF RejectPassphrase, Resumable, Block, Transition
<1>. QED
  BY <1>1, <1>2, <1>3, <1>4, <1>5, <1>6, <1>7, <1>8, <1>9, <1>10, <1>11, <1>12, <1>13, <1>14, <1>15, <1>16, <1>17, <1>18, <1>19, <1>20, <1>21, <1>22, <1>23, <1>24, <1>25
     DEF Call, Work

-----------------------------------------------------------------------------
(* What the actions have in common for the task they are about. *)

TrulyDone(t) ==
    \/ shutdown
    \/ plan[t] = <<"direct_answer">>
    \/ plan[t] # <<>> /\ \A i \in 1..Len(plan[t]) : i \in verified[t]

\* A transition reaches its place or raises out of a task that is not finished.
LEMMA TransitionPlace ==
    ASSUME PlaceTypes, NEW t \in Tasks, StatusMatchesPlace(t), pc[t] # "idle", pc[t] # "new",
           NEW new, NEW next, new \in StatusAt(next), Transition(t, new, next)
    PROVE  /\ StatusMatchesPlace(t)'
           /\ \/ /\ pc'[t] = next /\ status'[t] = new
                 /\ new \in TL!Allowed[status[t]]
              \/ /\ pc'[t] = "raised" /\ status'[t] = status[t]
                 /\ status[t] \in TL!Statuses \ TL!Finished
<1>1. status[t] \in TL!Statuses /\ pc[t] \in Pcs
  BY DEF PlaceTypes
<1>2. status[t] \notin TL!Finished
  BY <1>1 DEF StatusMatchesPlace, StatusAt, Pcs, Idle, TL!Statuses, TL!Finished
<1>3. CASE new \in TL!Allowed[status[t]]
  BY <1>3 DEF Transition, PlaceTypes, StatusMatchesPlace
<1>4. CASE new \notin TL!Allowed[status[t]]
  <2>1. pc'[t] = "raised" /\ status'[t] = status[t]
    BY <1>4 DEF Transition, PlaceTypes
  <2>2. StatusAt("raised") = TL!Statuses \ TL!Finished
    BY DEF StatusAt
  <2>. QED
    BY <1>1, <1>2, <2>1, <2>2 DEF StatusMatchesPlace
<1>. QED
  BY <1>3, <1>4

\* A step that leaves the plan, its progress and its clearances alone, and
\* after which the task neither waits nor stands at the head of the loop.
LEMMA QuietStep ==
    ASSUME NEW t \in Tasks, TaskInv(t), StatusMatchesPlace(t)', AtTool(t)',
           UNCHANGED <<plan, idx, authorized, consent, verified>>,
           pc'[t] # "top", ~Waiting(t)',
           pc'[t] = "tool" => Cleared(t, idx[t]),
           status'[t] = "COMPLETED" => TrulyDone(t)'
    PROVE  TaskInv(t)'
<1>1. pc'[t] = "tool" => Cleared(t, idx[t])'
  BY DEF Cleared
<1>2. AuthorizedIsCleared(t)'
  BY DEF TaskInv, AuthorizedIsCleared, Cleared
<1>3. PendingStage(t)' /\ PassedSoFar(t)'
  BY DEF TaskInv, PendingStage, PassedSoFar
<1>. QED
  BY <1>1, <1>2, <1>3 DEF TaskInv, TrulyDone

\* The same for a transition out of the loop that does not complete the task.
LEMMA LeaveLoop ==
    ASSUME TypeOK, NEW t \in Tasks, TaskInv(t), pc[t] # "idle", pc[t] # "new",
           NEW new \in {"FAILED", "BLOCKED"}, Transition(t, new, "idle"),
           UNCHANGED <<plan, idx, authorized, consent, verified>>
    PROVE  TaskInv(t)'
<1>1. new \in StatusAt("idle") /\ StatusMatchesPlace(t) /\ PlaceTypes
  BY DEF StatusAt, TL!Finished, TaskInv, TypeOK
<1>2. /\ StatusMatchesPlace(t)'
      /\ \/ pc'[t] = "idle" /\ status'[t] = new
         \/ /\ pc'[t] = "raised" /\ status'[t] = status[t]
            /\ status[t] \in TL!Statuses \ TL!Finished
  BY <1>1, TransitionPlace
<1>3. AtTool(t)' /\ ~Waiting(t)' /\ pc'[t] # "top" /\ pc'[t] # "tool" /\ status'[t] # "COMPLETED"
  BY <1>2 DEF AtTool, Waiting, TL!Finished
<1>. QED
  BY <1>2, <1>3, QuietStep

-----------------------------------------------------------------------------
(* Every action keeps the invariant of the task it is about. *)

LEMMA HeadOfLoop ==
    ASSUME TypeOK, NEW t \in Tasks, TaskInv(t), TakeStep(t)
    PROVE  /\ pc[t] = "top" /\ PlaceTypes /\ StatusMatchesPlace(t)
           /\ idx[t] \in 1..MaxPlan /\ idx[t] \in 1..Len(plan[t])
           /\ UNCHANGED <<plan, idx, flags, shutdown>>
BY HeadIndex DEF TypeOK, TaskInv, TakeStep

LEMMA StartKeepsInv ==
    ASSUME TypeOK, NEW t \in Tasks, NEW p \in Plans, NEW auth \in SUBSET {1},
           auth # {} => Len(p) = 1, Start(t), NewSteps(t, p, auth)
    PROVE  TaskInv(t)'
<1>1. status'[t] = "PLANNING" /\ pc'[t] = "top"
  BY DEF TypeOK, PlaceTypes, Start
<1>2. /\ plan'[t] = p /\ idx'[t] = 1 /\ authorized'[t] = auth
      /\ consent'[t] = {<<i, "builtin">> : i \in auth}
  BY DEF TypeOK, WorkTypes, FlagTypes, NewSteps
<1>3. StatusMatchesPlace(t)' /\ AtTool(t)' /\ ~Waiting(t)' /\ PendingStage(t)'
  BY <1>1 DEF StatusMatchesPlace, StatusAt, AtTool, Waiting, PendingStage
<1>4. AuthorizedIsCleared(t)'
  <2>1. \A i \in auth : i = 1 /\ i <= Len(p) /\ <<i, "builtin">> \in consent'[t]
    BY <1>2
  <2>. QED
    BY <1>2, <2>1 DEF AuthorizedIsCleared, Cleared
<1>5. PassedSoFar(t)'
  BY <1>1, <1>2, PlanFacts DEF PassedSoFar
<1>. QED
  BY <1>1, <1>3, <1>4, <1>5 DEF TaskInv

LEMMA AskKeepsInv ==
    ASSUME TypeOK, NEW t \in Tasks, TaskInv(t), AskConsent(t)
    PROVE  TaskInv(t)'
<1>1. /\ TakeStep(t) /\ Step(t) \in Actions /\ idx[t] \notin authorized[t]
      /\ Policy(Step(t)) \in {"REQUIRE_CONFIRMATION", "REQUIRE_SECOND_FACTOR"}
      /\ Transition(t, "AWAITING_AUTHORIZATION", "idle")
  BY DEF AskConsent
<1>2. /\ pc[t] = "top" /\ PlaceTypes /\ StatusMatchesPlace(t)
      /\ idx[t] \in 1..Len(plan[t])
      /\ UNCHANGED <<plan, idx, flags, shutdown>>
  BY <1>1, HeadOfLoop
<1>3. pendingAuth'[t].step = idx[t]
  BY DEF AskConsent, TypeOK, WorkTypes
<1>4. pendingAuth'[t].stage = IF Policy(Step(t)) = "REQUIRE_CONFIRMATION"
                              THEN "voice" ELSE "passphrase"
  BY DEF AskConsent, TypeOK, WorkTypes
<1>5. "AWAITING_AUTHORIZATION" \in StatusAt("idle")
  BY DEF StatusAt
<1>6. /\ StatusMatchesPlace(t)'
      /\ \/ pc'[t] = "idle" /\ status'[t] = "AWAITING_AUTHORIZATION"
         \/ /\ pc'[t] = "raised" /\ status'[t] = status[t]
            /\ status[t] \in TL!Statuses \ TL!Finished
  BY <1>1, <1>2, <1>5, TransitionPlace
<1>7. AtTool(t)' /\ status'[t] # "COMPLETED" /\ pc'[t] # "tool" /\ pc'[t] # "top"
  BY <1>6 DEF AtTool, TL!Finished
<1>8. Step(t)' = Step(t)
  BY <1>2 DEF Step
<1>9. PendingStage(t)'
  BY <1>1, <1>4, <1>8 DEF PendingStage
<1>10. AuthorizedIsCleared(t)' /\ PassedSoFar(t)'
  BY <1>2, <1>7 DEF TaskInv, AuthorizedIsCleared, Cleared, PassedSoFar, flags
<1>11. idx'[t] \in 1..Len(plan[t])' /\ Step(t)' \in Actions /\ idx'[t] \notin authorized'[t]
  BY <1>1, <1>2, <1>8 DEF flags
<1>. QED
  BY <1>2, <1>3, <1>4, <1>6, <1>7, <1>9, <1>10, <1>11 DEF TaskInv

\* Nothing to clear where the policy allows; the factors add up otherwise.
LEMMA RequiredFactors ==
    ASSUME NEW a
    PROVE  /\ Policy(a) = "ALLOW" => Required(a) = {}
           /\ Policy(a) = "REQUIRE_CONFIRMATION" /\ ~IsCritical(a) => Required(a) = {"voice"}
           /\ Policy(a) = "REQUIRE_CONFIRMATION" => Required(a) \subseteq {"voice", "passphrase"}
           /\ Policy(a) = "REQUIRE_SECOND_FACTOR" => Required(a) = {"passphrase"}
BY DEF Required

LEMMA StartToolKeepsInv ==
    ASSUME TypeOK, NEW t \in Tasks, TaskInv(t), StartTool(t)
    PROVE  TaskInv(t)'
<1> DEFINE next == IF Step(t) \in Registered THEN "tool" ELSE "missing"
<1>1. /\ TakeStep(t) /\ Step(t) \in Actions
      /\ idx[t] \in authorized[t] \/ Policy(Step(t)) = "ALLOW"
      /\ Transition(t, "EXECUTING", next)
  BY DEF StartTool
<1>2. /\ pc[t] = "top" /\ PlaceTypes /\ StatusMatchesPlace(t)
      /\ idx[t] \in 1..MaxPlan /\ idx[t] \in 1..Len(plan[t])
      /\ UNCHANGED <<plan, idx, flags, shutdown>>
  BY <1>1, HeadOfLoop
<1>3. Cleared(t, idx[t])
  <2>1. CASE idx[t] \in authorized[t]
    BY <2>1 DEF TaskInv, AuthorizedIsCleared
  <2>2. CASE Policy(Step(t)) = "ALLOW"
    BY <2>2, RequiredFactors DEF Cleared, Step
  <2>. QED
    BY <1>1, <2>1, <2>2
<1>4. next \in {"tool", "missing"} /\ "EXECUTING" \in StatusAt(next)
  BY DEF StatusAt
<1>5. /\ StatusMatchesPlace(t)'
      /\ \/ pc'[t] = next /\ status'[t] = "EXECUTING"
         \/ /\ pc'[t] = "raised" /\ status'[t] = status[t]
            /\ status[t] \in TL!Statuses \ TL!Finished
  <2> HIDE DEF next
  <2>. QED
    BY <1>1, <1>2, <1>4, TransitionPlace
<1>6. AtTool(t)'
  BY <1>1, <1>2, <1>4, <1>5 DEF AtTool, Step
<1>7. ~Waiting(t)' /\ status'[t] # "COMPLETED" /\ pc'[t] # "top"
  BY <1>4, <1>5 DEF Waiting, TL!Finished
<1>. QED
  BY <1>2, <1>3, <1>5, <1>6, <1>7, QuietStep DEF flags

LEMMA AuthorizeKeepsInv ==
    ASSUME TypeOK, WaitsForCurrentStep, NEW t \in Tasks, TaskInv(t), Resumable(t),
           NEW f \in Factors, Grant(t, f), Authorize(t),
           \/ f = "voice" /\ pendingAuth[t].stage = "voice" /\ ~IsCritical(Step(t))
           \/ f = "passphrase" /\ pendingAuth[t].stage = "passphrase"
    PROVE  TaskInv(t)'
<1>1. /\ status[t] = "AWAITING_AUTHORIZATION" /\ pc[t] = "idle" /\ Waiting(t)
      /\ UNCHANGED <<plan, idx, verified>>
  BY DEF Resumable, Waiting
<1>2. /\ pendingAuth[t].step = idx[t]
      /\ idx[t] \in 1..MaxPlan /\ idx[t] \in 1..Len(plan[t]) /\ Step(t) \in Actions
  BY <1>1, PendingIndex
<1>3. /\ consent'[t] = consent[t] \cup {<<idx[t], f>>}
      /\ authorized'[t] = authorized[t] \cup {idx[t]}
      /\ pc'[t] = "top" /\ status'[t] = "AWAITING_AUTHORIZATION"
  BY <1>1, <1>2 DEF Grant, Authorize, TypeOK, FlagTypes, PlaceTypes
<1>4. Policy(Step(t)) # "DENY" /\ \A g \in Required(Step(t)) : <<idx[t], g>> \in consent'[t]
  <2>1. PendingStage(t)
    BY DEF TaskInv
  <2>2. CASE f = "voice" /\ pendingAuth[t].stage = "voice" /\ ~IsCritical(Step(t))
    BY <1>1, <1>3, <2>1, <2>2, RequiredFactors DEF PendingStage
  <2>3. CASE f = "passphrase" /\ pendingAuth[t].stage = "passphrase"
    BY <1>1, <1>3, <2>1, <2>3, RequiredFactors DEF PendingStage
  <2>. QED
    BY <2>2, <2>3
<1>5. Cleared(t, idx[t])'
  BY <1>1, <1>4 DEF Cleared, Step
<1>6. AuthorizedIsCleared(t)'
  <2>1. SUFFICES ASSUME NEW i \in authorized'[t]
                 PROVE  i <= Len(plan[t]) /\ Cleared(t, i)'
    BY <1>1 DEF AuthorizedIsCleared
  <2>2. CASE i = idx[t]
    BY <1>1, <1>2, <1>5, <2>2, PlanFacts DEF TypeOK, WorkTypes
  <2>3. CASE i \in authorized[t]
    <3>1. i <= Len(plan[t]) /\ Cleared(t, i)
      BY <2>3 DEF TaskInv, AuthorizedIsCleared
    <3>. QED
      BY <1>1, <1>3, <3>1 DEF Cleared
  <2>. QED
    BY <1>3, <2>2, <2>3
<1>7. StatusMatchesPlace(t)' /\ AtTool(t)' /\ ~Waiting(t)' /\ PendingStage(t)'
  BY <1>3 DEF StatusMatchesPlace, StatusAt, AtTool, Waiting, PendingStage
<1>8. plan[t] # <<>>
  BY <1>2
<1>9. PassedSoFar(t)'
  BY <1>1, <1>8 DEF TaskInv, PassedSoFar
<1>. QED
  BY <1>3, <1>6, <1>7, <1>9 DEF TaskInv

LEMMA BlockKeepsInv ==
    ASSUME TypeOK, NEW t \in Tasks, TaskInv(t), Resumable(t), Block(t)
    PROVE  TaskInv(t)'
<1>1. /\ status[t] = "AWAITING_AUTHORIZATION" /\ pc[t] = "idle"
      /\ UNCHANGED <<plan, idx, authorized, consent, verified>>
  BY DEF Resumable, Block
<1>2. "BLOCKED" \in TL!Allowed[status[t]]
  BY <1>1 DEF TL!Allowed, TL!Statuses
<1>3. pc'[t] = "idle" /\ status'[t] = "BLOCKED"
  BY <1>1, <1>2 DEF Block, Transition, TypeOK, PlaceTypes
<1>4. StatusMatchesPlace(t)' /\ AtTool(t)' /\ ~Waiting(t)'
  BY <1>3 DEF StatusMatchesPlace, StatusAt, AtTool, Waiting, TL!Finished
<1>. QED
  BY <1>1, <1>3, <1>4, QuietStep

LEMMA PassphraseKeepsInv ==
    ASSUME TypeOK, WaitsForCurrentStep, NEW t \in Tasks, TaskInv(t),
           NEW text \in Utterances, AskPassphrase(t, text)
    PROVE  TaskInv(t)'
<1>1. /\ Waiting(t) /\ pendingAuth[t].stage = "voice" /\ Resumable(t) /\ Grant(t, "voice")
      /\ status[t] = "AWAITING_AUTHORIZATION" /\ pc[t] = "idle"
      /\ UNCHANGED <<plan, idx, verified, status, pc, authorized>>
  BY DEF AskPassphrase, Resumable, Waiting
<1>2. pendingAuth[t].step = idx[t] /\ idx[t] \in 1..Len(plan[t]) /\ Step(t) \in Actions
  BY <1>1, PendingIndex
<1>3. pendingAuth'[t].step = idx[t] /\ pendingAuth'[t].stage = "passphrase"
  BY <1>2 DEF AskPassphrase, TypeOK, WorkTypes, Pending
<1>4. consent'[t] = consent[t] \cup {<<idx[t], "voice">>}
  BY <1>1, <1>2 DEF Grant, TypeOK, FlagTypes
<1>5. Policy(Step(t)) = "REQUIRE_CONFIRMATION"
  BY <1>1 DEF TaskInv, PendingStage
<1>6. PendingStage(t)'
  BY <1>1, <1>3, <1>4, <1>5 DEF PendingStage, Step
<1>7. AuthorizedIsCleared(t)'
  BY <1>1, <1>4 DEF TaskInv, AuthorizedIsCleared, Cleared
<1>8. StatusMatchesPlace(t)' /\ AtTool(t)' /\ PassedSoFar(t)'
  BY <1>1 DEF TaskInv, StatusMatchesPlace, AtTool, PassedSoFar
<1>9. Step(t)' \in Actions /\ idx'[t] \in 1..Len(plan[t])' /\ idx'[t] \notin authorized'[t]
  BY <1>1, <1>2 DEF TaskInv, Step
<1>. QED
  BY <1>1, <1>2, <1>3, <1>6, <1>7, <1>8, <1>9 DEF TaskInv

LEMMA AnswerKeepsInv ==
    ASSUME TypeOK, NEW t \in Tasks, TaskInv(t),
           BeginAnswer(t) \/ VerifyAnswer(t) \/ FinishAnswer(t)
    PROVE  TaskInv(t)'
<1>1. PlaceTypes /\ StatusMatchesPlace(t)
  BY DEF TypeOK, TaskInv
<1>2. CASE BeginAnswer(t)
  <2>1. /\ pc[t] = "top" /\ idx[t] \in 1..Len(plan[t]) /\ idx[t] \in 1..MaxPlan
        /\ UNCHANGED <<plan, idx, authorized, consent, verified>>
        /\ Step(t) = "direct_answer" /\ Transition(t, "EXECUTING", "answer")
    BY <1>2, HeadOfLoop DEF BeginAnswer, flags
  <2>2. "EXECUTING" \in StatusAt("answer")
    BY DEF StatusAt
  <2>3. /\ StatusMatchesPlace(t)'
        /\ \/ pc'[t] = "answer" /\ status'[t] = "EXECUTING"
           \/ /\ pc'[t] = "raised" /\ status'[t] = status[t]
              /\ status[t] \in TL!Statuses \ TL!Finished
    BY <1>1, <2>1, <2>2, TransitionPlace
  <2>4. AtTool(t)' /\ ~Waiting(t)' /\ status'[t] # "COMPLETED"
    BY <2>1, <2>3 DEF AtTool, Waiting, Step, TL!Finished
  <2>. QED
    BY <2>1, <2>3, <2>4, QuietStep
<1>3. CASE VerifyAnswer(t)
  <2>1. /\ pc[t] = "answer" /\ Transition(t, "VERIFYING", "answered")
        /\ UNCHANGED <<plan, idx, authorized, consent, verified>>
    BY <1>3 DEF VerifyAnswer, flags
  <2>2. "VERIFYING" \in StatusAt("answered")
    BY DEF StatusAt
  <2>3. /\ StatusMatchesPlace(t)'
        /\ \/ pc'[t] = "answered" /\ status'[t] = "VERIFYING"
           \/ /\ pc'[t] = "raised" /\ status'[t] = status[t]
              /\ status[t] \in TL!Statuses \ TL!Finished
    BY <1>1, <2>1, <2>2, TransitionPlace
  <2>4. AtTool(t)' /\ ~Waiting(t)' /\ status'[t] # "COMPLETED"
    BY <2>1, <2>3 DEF TaskInv, AtTool, Waiting, Step, TL!Finished
  <2>. QED
    BY <2>1, <2>3, <2>4, QuietStep
<1>4. CASE FinishAnswer(t)
  <2>1. /\ pc[t] = "answered" /\ Transition(t, "COMPLETED", "idle")
        /\ UNCHANGED <<plan, idx, authorized, consent, verified>>
    BY <1>4 DEF FinishAnswer, flags
  <2>2. "COMPLETED" \in StatusAt("idle")
    BY DEF StatusAt, TL!Finished
  <2>3. /\ StatusMatchesPlace(t)'
        /\ \/ pc'[t] = "idle" /\ status'[t] = "COMPLETED"
           \/ /\ pc'[t] = "raised" /\ status'[t] = status[t]
              /\ status[t] \in TL!Statuses \ TL!Finished
    BY <1>1, <2>1, <2>2, TransitionPlace
  <2>4. AtTool(t)' /\ ~Waiting(t)'
    BY <2>3 DEF AtTool, Waiting
  <2>5. plan[t] = <<"direct_answer">>
    <3>1. idx[t] <= Len(plan[t]) /\ plan[t][idx[t]] = "direct_answer"
      BY <2>1 DEF TaskInv, AtTool, Step
    <3>2. plan[t] \in Plans /\ idx[t] \in 1..(MaxPlan + 1)
      BY DEF TypeOK, WorkTypes
    <3>. QED
      BY <3>1, <3>2, AnswerPlan
  <2>6. TrulyDone(t)'
    BY <2>1, <2>5 DEF TrulyDone
  <2>. QED
    BY <2>1, <2>3, <2>4, <2>6, QuietStep
<1>. QED
  BY <1>2, <1>3, <1>4

LEMMA ToolKeepsInv ==
    ASSUME TypeOK, NEW t \in Tasks, TaskInv(t),
           ToolEscapes(t) \/ ToolReturns(t) \/ ToolShutsDown(t)
    PROVE  TaskInv(t)'
<1>1. /\ PlaceTypes /\ StatusMatchesPlace(t) /\ pc[t] = "tool"
      /\ UNCHANGED <<plan, idx, authorized, consent, verified>>
      /\ status[t] = "EXECUTING"
  BY DEF TypeOK, TaskInv, ToolEscapes, ToolReturns, ToolShutsDown, flags,
         StatusMatchesPlace, StatusAt
<1>2. CASE ToolEscapes(t)
  <2>1. pc'[t] = "raised" /\ status'[t] = "EXECUTING"
    BY <1>1, <1>2 DEF ToolEscapes, PlaceTypes
  <2>2. StatusMatchesPlace(t)' /\ AtTool(t)' /\ ~Waiting(t)'
    BY <2>1 DEF StatusMatchesPlace, StatusAt, AtTool, Waiting, TL!Statuses, TL!Finished
  <2>. QED
    BY <1>1, <2>1, <2>2, QuietStep
<1>3. CASE ToolReturns(t)
  <2>1. "VERIFYING" \in StatusAt("verify") /\ Transition(t, "VERIFYING", "verify")
    BY <1>3 DEF StatusAt, ToolReturns
  <2>2. /\ StatusMatchesPlace(t)'
        /\ \/ pc'[t] = "verify" /\ status'[t] = "VERIFYING"
           \/ /\ pc'[t] = "raised" /\ status'[t] = status[t]
              /\ status[t] \in TL!Statuses \ TL!Finished
    BY <1>1, <2>1, TransitionPlace
  <2>3. AtTool(t)' /\ ~Waiting(t)' /\ status'[t] # "COMPLETED"
    BY <1>1, <2>2 DEF TaskInv, AtTool, Waiting, Step
  <2>. QED
    BY <1>1, <2>2, <2>3, QuietStep
<1>4. CASE ToolShutsDown(t)
  <2>1. "COMPLETED" \in StatusAt("idle") /\ Transition(t, "COMPLETED", "idle")
    BY <1>4 DEF StatusAt, TL!Finished, ToolShutsDown
  <2>2. /\ StatusMatchesPlace(t)'
        /\ \/ pc'[t] = "idle" /\ status'[t] = "COMPLETED"
           \/ /\ pc'[t] = "raised" /\ status'[t] = status[t]
              /\ status[t] \in TL!Statuses \ TL!Finished
    BY <1>1, <2>1, TransitionPlace
  <2>3. AtTool(t)' /\ ~Waiting(t)'
    BY <2>2 DEF AtTool, Waiting
  <2>4. TrulyDone(t)'
    BY <1>4 DEF TrulyDone, ToolShutsDown
  <2>. QED
    BY <1>1, <2>2, <2>3, <2>4, QuietStep
<1>. QED
  BY <1>2, <1>3, <1>4

LEMMA PassKeepsInv ==
    ASSUME TypeOK, NEW t \in Tasks, TaskInv(t), PassStep(t)
    PROVE  TaskInv(t)'
<1>1. /\ pc[t] = "verify" /\ status[t] = "VERIFYING" /\ StatusMatchesPlace(t)
      /\ UNCHANGED <<plan, authorized, consent, status>>
  BY DEF TaskInv, PassStep, Judge, StatusMatchesPlace, StatusAt
<1>2. idx[t] \in 1..MaxPlan /\ idx[t] \in 1..Len(plan[t])
  BY <1>1, ToolIndex DEF TaskInv
<1>3. idx'[t] = idx[t] + 1 /\ pc'[t] \in {"idle", "top"}
  BY DEF PassStep, TypeOK, WorkTypes, PlaceTypes
<1>4. verified'[t] = verified[t] \cup {idx[t]}
  BY DEF PassStep, Judge, TypeOK, FlagTypes
<1>5. StatusMatchesPlace(t)' /\ AtTool(t)' /\ ~Waiting(t)' /\ PendingStage(t)'
  BY <1>1, <1>3 DEF StatusMatchesPlace, StatusAt, AtTool, Waiting, PendingStage
<1>6. AuthorizedIsCleared(t)'
  BY <1>1 DEF TaskInv, AuthorizedIsCleared, Cleared
<1>7. PassedSoFar(t)'
  <2>1. idx'[t] <= Len(plan[t]) + 1 /\ plan[t] # <<>>
    BY <1>2, <1>3, PlanFacts DEF TypeOK, WorkTypes
  <2>2. \A i \in 1..(idx'[t] - 1) : i \in verified'[t]
    BY <1>2, <1>3, <1>4 DEF TaskInv, PassedSoFar
  <2>. QED
    BY <1>1, <2>1, <2>2 DEF PassedSoFar
<1>. QED
  BY <1>1, <1>3, <1>5, <1>6, <1>7 DEF TaskInv

LEMMA FailKeepsInv ==
    ASSUME TypeOK, NEW t \in Tasks, TaskInv(t), FailStep(t)
    PROVE  TaskInv(t)'
<1>1. /\ pc[t] = "verify" /\ PlaceTypes /\ StatusMatchesPlace(t)
      /\ UNCHANGED <<plan, idx, authorized, consent>>
      /\ Transition(t, "RECOVERING", "recover")
  BY DEF TypeOK, TaskInv, FailStep, Judge
<1>2. idx[t] \in 1..MaxPlan /\ idx[t] \in 1..Len(plan[t]) /\ Step(t) \in Actions
  BY <1>1, ToolIndex DEF TaskInv
<1>3. verified'[t] = verified[t] \ {idx[t]}
  BY DEF FailStep, Judge, TypeOK, FlagTypes
<1>4. "RECOVERING" \in StatusAt("recover")
  BY DEF StatusAt
<1>5. /\ StatusMatchesPlace(t)'
      /\ \/ pc'[t] = "recover" /\ status'[t] = "RECOVERING"
         \/ /\ pc'[t] = "raised" /\ status'[t] = status[t]
            /\ status[t] \in TL!Statuses \ TL!Finished
  BY <1>1, <1>4, TransitionPlace
<1>6. AtTool(t)' /\ ~Waiting(t)' /\ PendingStage(t)' /\ status'[t] # "COMPLETED"
  BY <1>1, <1>5 DEF TaskInv, AtTool, Waiting, PendingStage, Step, TL!Finished
<1>7. AuthorizedIsCleared(t)'
  BY <1>1 DEF TaskInv, AuthorizedIsCleared, Cleared
<1>8. PassedSoFar(t)'
  BY <1>1, <1>2, <1>3, <1>5 DEF TaskInv, PassedSoFar
<1>. QED
  BY <1>5, <1>6, <1>7, <1>8 DEF TaskInv

LEMMA RecoverKeepsInv ==
    ASSUME TypeOK, NEW t \in Tasks, TaskInv(t), Recover(t)
    PROVE  TaskInv(t)'
<1>1. /\ pc[t] = "recover" /\ PlaceTypes /\ StatusMatchesPlace(t)
      /\ UNCHANGED <<plan, idx, authorized, consent, verified, shutdown>>
      /\ status[t] = "RECOVERING"
  BY DEF TypeOK, TaskInv, Recover, StatusMatchesPlace, StatusAt
<1>2. CASE \E next \in {"top", "replan"} :
              pc' = [pc EXCEPT ![t] = next] /\ UNCHANGED status
  <2>1. pc'[t] \in {"top", "replan"} /\ status'[t] = "RECOVERING"
    BY <1>1, <1>2 DEF PlaceTypes
  <2>2. StatusMatchesPlace(t)' /\ AtTool(t)' /\ ~Waiting(t)' /\ PendingStage(t)'
    BY <2>1 DEF StatusMatchesPlace, StatusAt, AtTool, Waiting, PendingStage
  <2>3. AuthorizedIsCleared(t)'
    BY <1>1 DEF TaskInv, AuthorizedIsCleared, Cleared
  <2>4. plan[t] # <<>>
    <3>1. idx[t] \in 1..Len(plan[t])
      BY <1>1, ToolIndex DEF TaskInv
    <3>. QED
      BY <3>1
  <2>5. PassedSoFar(t)'
    BY <1>1, <2>4 DEF TaskInv, PassedSoFar
  <2>. QED
    BY <2>1, <2>2, <2>3, <2>5 DEF TaskInv
<1>3. CASE \E new \in {"BLOCKED", "FAILED"} : Transition(t, new, "idle")
  BY <1>1, <1>3, LeaveLoop
<1>. QED
  BY <1>2, <1>3, RecoverMoves

LEMMA ReplanKeepsInv ==
    ASSUME TypeOK, NEW t \in Tasks, TaskInv(t), Replan(t) \/ ReplanIsEmpty(t)
    PROVE  TaskInv(t)'
<1>1. /\ pc[t] = "replan" /\ PlaceTypes /\ StatusMatchesPlace(t)
      /\ status[t] = "RECOVERING"
  BY DEF TypeOK, TaskInv, Replan, ReplanIsEmpty, StatusMatchesPlace, StatusAt
<1>2. CASE Replan(t)
  <2>1. PICK p \in Plans \ {<<>>} : NewSteps(t, p, {})
    BY <1>2 DEF Replan
  <2>2. plan'[t] = p /\ idx'[t] = 1 /\ authorized'[t] = {} /\ p # <<>>
    BY <2>1 DEF NewSteps, TypeOK, WorkTypes, FlagTypes
  <2>3. pc'[t] = "top" /\ status'[t] = "RECOVERING"
    BY <1>1, <1>2 DEF Replan, PlaceTypes
  <2>4. StatusMatchesPlace(t)' /\ AtTool(t)' /\ ~Waiting(t)' /\ PendingStage(t)'
    BY <2>3 DEF StatusMatchesPlace, StatusAt, AtTool, Waiting, PendingStage
  <2>5. AuthorizedIsCleared(t)' /\ PassedSoFar(t)'
    BY <2>2, PlanFacts DEF AuthorizedIsCleared, PassedSoFar
  <2>. QED
    BY <2>3, <2>4, <2>5 DEF TaskInv
<1>3. CASE ReplanIsEmpty(t)
  <2>1. plan'[t] = <<>> /\ idx'[t] = 1 /\ authorized'[t] = {}
    BY <1>3 DEF ReplanIsEmpty, NewSteps, TypeOK, WorkTypes, FlagTypes
  <2>2. "FAILED" \in TL!Allowed[status[t]]
    BY <1>1 DEF TL!Allowed, TL!Statuses
  <2>3. pc'[t] = "idle" /\ status'[t] = "FAILED"
    BY <1>1, <1>3, <2>2 DEF ReplanIsEmpty, Transition, PlaceTypes
  <2>4. StatusMatchesPlace(t)' /\ AtTool(t)' /\ ~Waiting(t)' /\ PendingStage(t)'
    BY <2>3 DEF StatusMatchesPlace, StatusAt, AtTool, Waiting, PendingStage, TL!Finished
  <2>5. AuthorizedIsCleared(t)' /\ PassedSoFar(t)'
    BY <2>1, <2>3 DEF AuthorizedIsCleared, PassedSoFar
  <2>. QED
    BY <2>3, <2>4, <2>5 DEF TaskInv
<1>. QED
  BY <1>2, <1>3

LEMMA CompleteKeepsInv ==
    ASSUME TypeOK, NEW t \in Tasks, TaskInv(t), CompletePlan(t)
    PROVE  TaskInv(t)'
<1>1. /\ pc[t] = "top" /\ idx[t] > Len(plan[t]) /\ Transition(t, "COMPLETED", "idle")
      /\ UNCHANGED <<plan, idx, authorized, consent, verified>>
      /\ PlaceTypes /\ StatusMatchesPlace(t)
  BY DEF TypeOK, TaskInv, CompletePlan, flags
<1>2. "COMPLETED" \in StatusAt("idle")
  BY DEF StatusAt, TL!Finished
<1>3. /\ StatusMatchesPlace(t)'
      /\ \/ /\ pc'[t] = "idle" /\ status'[t] = "COMPLETED"
            /\ "COMPLETED" \in TL!Allowed[status[t]]
         \/ /\ pc'[t] = "raised" /\ status'[t] = status[t]
            /\ status[t] \in TL!Statuses \ TL!Finished
  BY <1>1, <1>2, TransitionPlace
<1>4. AtTool(t)' /\ ~Waiting(t)'
  BY <1>3 DEF AtTool, Waiting
<1>5. ASSUME status'[t] = "COMPLETED" PROVE TrulyDone(t)'
  <2>1. "COMPLETED" \in TL!Allowed[status[t]]
    BY <1>3, <1>5 DEF TL!Finished
  <2>2. status[t] # "PLANNING"
    BY <2>1 DEF TL!Allowed, TL!Statuses
  <2>3. plan[t] # <<>>
    BY <1>1, <2>2 DEF TaskInv, PassedSoFar
  <2>4. idx[t] \in Nat /\ Len(plan[t]) \in Nat
    BY PlanFacts, OrchestratorAssumption DEF TypeOK, WorkTypes
  <2>5. \A i \in 1..Len(plan[t]) : i \in verified[t]
    BY <1>1, <2>4 DEF TaskInv, PassedSoFar
  <2>. QED
    BY <1>1, <2>3, <2>5 DEF TrulyDone
<1>. QED
  BY <1>1, <1>3, <1>4, <1>5, QuietStep

LEMMA EndKeepsInv ==
    ASSUME TypeOK, NEW t \in Tasks, TaskInv(t),
           StopOverBudget(t) \/ ReportPlanError(t) \/ DenyStep(t) \/ MissingTool(t)
    PROVE  TaskInv(t)'
<1>1. pc[t] # "idle" /\ pc[t] # "new"
  BY DEF StopOverBudget, ReportPlanError, DenyStep, MissingTool, TakeStep
<1>2. UNCHANGED <<plan, idx, authorized, consent, verified>>
  BY DEF StopOverBudget, ReportPlanError, DenyStep, MissingTool, TakeStep, flags
<1>3. \E new \in {"FAILED", "BLOCKED"} : Transition(t, new, "idle")
  BY DEF StopOverBudget, ReportPlanError, DenyStep, MissingTool
<1>. QED
  BY <1>1, <1>2, <1>3, LeaveLoop

LEMMA CallKeepsInv ==
    ASSUME TypeOK, WaitsForCurrentStep, NEW t \in Tasks, TaskInv(t), Call(t)
    PROVE  TaskInv(t)'
<1>1. CASE RunFastPath(t)
  <2>1. PICK a \in FastActions :
           NewSteps(t, <<a>>, IF a = Shutdown THEN {1} ELSE {})
    BY <1>1 DEF RunFastPath
  <2>2. /\ <<a>> \in Plans /\ Len(<<a>>) = 1
        /\ (IF a = Shutdown THEN {1} ELSE {}) \in SUBSET {1}
    BY OwnPlans, OrchestratorAssumption
  <2>3. Start(t)
    BY <1>1 DEF RunFastPath
  <2>. QED
    BY <2>1, <2>2, <2>3, StartKeepsInv
<1>2. CASE RunPlanner(t)
  <2>1. PICK p \in Plans : NewSteps(t, p, {})
    BY <1>2 DEF RunPlanner
  <2>2. Start(t)
    BY <1>2 DEF RunPlanner
  <2>. QED
    BY <2>1, <2>2, StartKeepsInv
<1>3. ASSUME NEW text \in Utterances, Refuse(t, text) \/ RejectPassphrase(t, text)
      PROVE  TaskInv(t)'
  BY <1>3, BlockKeepsInv DEF Refuse, RejectPassphrase
<1>4. ASSUME NEW text \in Utterances, AskPassphrase(t, text)
      PROVE  TaskInv(t)'
  BY <1>4, PassphraseKeepsInv
<1>5. ASSUME NEW text \in Utterances, Approve(t, text)
      PROVE  TaskInv(t)'
  <2>1. /\ Resumable(t) /\ Grant(t, "voice") /\ Authorize(t)
        /\ pendingAuth[t].stage = "voice" /\ ~IsCritical(plan[t][pendingAuth[t].step])
    BY <1>5 DEF Approve
  <2>2. pendingAuth[t].step = idx[t]
    BY <2>1, PendingIndex DEF Resumable
  <2>3. ~IsCritical(Step(t)) /\ "voice" \in Factors
    BY <2>1, <2>2 DEF Step, Factors
  <2>. QED
    BY <2>1, <2>3, AuthorizeKeepsInv
<1>6. ASSUME NEW text \in Utterances, AcceptPassphrase(t, text)
      PROVE  TaskInv(t)'
  BY <1>6, Members, AuthorizeKeepsInv DEF AcceptPassphrase
<1>. QED
  BY <1>1, <1>2, <1>3, <1>4, <1>5, <1>6 DEF Call

LEMMA WorkKeepsInv ==
    ASSUME TypeOK, NEW t \in Tasks, TaskInv(t), Work(t)
    PROVE  TaskInv(t)'
BY AnswerKeepsInv, EndKeepsInv, AskKeepsInv, StartToolKeepsInv, ToolKeepsInv,
   PassKeepsInv, FailKeepsInv, RecoverKeepsInv, ReplanKeepsInv, CompleteKeepsInv
   DEF Work

LEMMA InvStep == IInv /\ [Next]_vars => IInv'
<1> SUFFICES ASSUME IInv, [Next]_vars PROVE IInv'
  OBVIOUS
<1>1. TypeOK /\ WaitsForCurrentStep /\ \A u \in Tasks : TaskInv(u) /\ AtTool(u)
  BY InvByTask DEF IInv
<1>2. TypeOK'
  BY <1>1, TypeStep
<1>3. ASSUME NEW t \in Tasks, Call(t) \/ Work(t)
      PROVE  \A u \in Tasks : TaskInv(u)'
  <2>1. TaskInv(t)'
    BY <1>1, <1>3, CallKeepsInv, WorkKeepsInv
  <2>2. \A u \in Tasks \ {t} : TaskInv(u)'
    BY <1>1, <1>3, OthersStay, SameTaskInv
  <2>. QED
    BY <2>1, <2>2
<1>4. CASE UNCHANGED vars
  <2>1. \A u \in Tasks : SameTask(u)
    BY <1>4 DEF SameTask, vars, task, flags, shared, recorder
  <2>. QED
    BY <1>1, <1>2, <2>1, SameTaskInv, InvByTask
<1>. QED
  BY <1>2, <1>3, <1>4, InvByTask DEF Next

-----------------------------------------------------------------------------
(* IInv is an invariant of the orchestrator, whatever its tasks, tools,      *)
(* tiers, budgets and answers.                                               *)
THEOREM Invariance == Spec => []IInv
<1>1. Init => IInv
  BY InitInv
<1>2. IInv /\ [Next]_vars => IInv'
  BY InvStep
<1>. QED
  BY <1>1, <1>2, PTL DEF Spec

(* steps_used never passes max_steps, no retry count passes max_attempts,    *)
(* and every other variable stays in its range.                              *)
THEOREM TypeCorrect == Spec => []TypeOK
<1>1. IInv => TypeOK
  BY DEF IInv
<1>. QED
  BY <1>1, Invariance, PTL

(* No tool runs before the policy and the user cleared its step.             *)
THEOREM Consent == Spec => []ConsentBeforeEffect
<1>1. IInv => ConsentBeforeEffect
  BY DEF IInv
<1>. QED
  BY <1>1, Invariance, PTL

(* An answer of the user goes to the step the loop stands at.                *)
THEOREM AnswersBind == Spec => []WaitsForCurrentStep
<1>1. IInv => WaitsForCurrentStep
  BY DEF IInv
<1>. QED
  BY <1>1, Invariance, PTL

(* No failure ever turns into a completed task.                              *)
THEOREM HonestCompletion == Spec => []NoFalseCompletion
<1>1. IInv => NoFalseCompletion
  BY DEF IInv
<1>. QED
  BY <1>1, Invariance, PTL

-----------------------------------------------------------------------------
\* Only a task that is not finished is worked on or called for.
LEMMA ActsOnUnfinished ==
    ASSUME TypeOK, NEW t \in Tasks, TaskInv(t), Call(t) \/ Work(t)
    PROVE  status[t] \notin TL!Finished
<1>1. status[t] \in StatusAt(pc[t]) /\ pc[t] \in Pcs
  BY DEF TaskInv, StatusMatchesPlace, TypeOK, PlaceTypes
<1>2. CASE Work(t)
  <2>1. pc[t] \in Pcs \ Idle
    BY <1>1, <1>2
       DEF Work, StopOverBudget, BeginAnswer, VerifyAnswer, FinishAnswer, ReportPlanError,
           DenyStep, AskConsent, StartTool, TakeStep, MissingTool, ToolEscapes, ToolReturns,
           ToolShutsDown, PassStep, FailStep, Judge, Recover, Replan, ReplanIsEmpty,
           CompletePlan, Idle
  <2>. QED
    BY <1>1, <2>1 DEF StatusAt, Pcs, Idle, TL!Finished
<1>3. CASE Call(t)
  <2>1. pc[t] = "new" \/ status[t] = "AWAITING_AUTHORIZATION"
    BY <1>3 DEF Call, RunFastPath, RunPlanner, Start, Refuse, AskPassphrase, Approve,
                AcceptPassphrase, RejectPassphrase, Resumable
  <2>. QED
    BY <1>1, <2>1 DEF StatusAt, TL!Finished
<1>. QED
  BY <1>2, <1>3

\* A thread never asks for help: the verdict of a failure always asks for a replan.
LEMMA RecoverGoesOn ==
    ASSUME NEW strategy, NEW steering
    PROVE  Response(strategy, NeedsReplan(FALSE), steering) \in {"top", "replan"}
BY DEF Response, NeedsReplan

\* A task that was called for has started.
LEMMA LeavesNew ==
    ASSUME TypeOK, NEW t \in Tasks, Call(t) \/ Work(t)
    PROVE  pc'[t] # "new"
<1>1. CASE Call(t)
  BY <1>1 DEF Call, RunFastPath, RunPlanner, Start, Refuse, AskPassphrase, Approve,
              AcceptPassphrase, RejectPassphrase, Resumable, Block, Authorize, Transition,
              TypeOK, PlaceTypes
<1>2. CASE Work(t)
  BY <1>2, RecoverGoesOn
     DEF Work, StopOverBudget, BeginAnswer, VerifyAnswer, FinishAnswer, ReportPlanError,
         DenyStep, AskConsent, StartTool, TakeStep, MissingTool, ToolEscapes, ToolReturns,
         ToolShutsDown, PassStep, FailStep, Judge, Recover, Replan, ReplanIsEmpty,
         CompletePlan, Transition, TypeOK, PlaceTypes
<1>. QED
  BY <1>1, <1>2

(* A finished task stays as it is and no thread works for it.                *)
THEOREM Finality == Spec => FinishedIsFinal
<1> DEFINE Final == \A t \in Tasks : status[t] \in TL!Finished =>
                       /\ status'[t] = status[t]
                       /\ pc[t] \in Idle /\ pc'[t] = pc[t]
<1>1. IInv /\ [Next]_vars => Final
  <2> SUFFICES ASSUME IInv, [Next]_vars, NEW u \in Tasks, status[u] \in TL!Finished
               PROVE  /\ status'[u] = status[u]
                      /\ pc[u] \in Idle /\ pc'[u] = pc[u]
    OBVIOUS
  <2>1. TypeOK /\ \A t \in Tasks : TaskInv(t)
    BY InvByTask
  <2>2. pc[u] \in Idle
    <3>1. status[u] \in StatusAt(pc[u]) /\ pc[u] \in Pcs
      BY <2>1 DEF TaskInv, StatusMatchesPlace, TypeOK, PlaceTypes
    <3>. QED
      BY <3>1 DEF StatusAt, Pcs, Idle, TL!Finished
  <2>3. SameTask(u)
    <3>1. CASE UNCHANGED vars
      BY <3>1 DEF SameTask, vars, task, flags, shared, recorder
    <3>2. ASSUME NEW t \in Tasks, Call(t) \/ Work(t) PROVE SameTask(u)
      <4>1. t # u
        BY <2>1, <3>2, ActsOnUnfinished
      <4>. QED
        BY <2>1, <3>2, <4>1, OthersStay
    <3>. QED
      BY <3>1, <3>2 DEF Next
  <2>. QED
    BY <2>2, <2>3 DEF SameTask
<1>2. Final => [Final]_vars
  OBVIOUS
<1>. QED
  BY <1>1, <1>2, Invariance, PTL DEF Spec, FinishedIsFinal

-----------------------------------------------------------------------------
\* What is known of a task beyond the invariant where a transition may raise: only
\* a first step is taken from PLANNING, only an authorized one after a question.
HeadKnown(t) ==
    /\ pc[t] = "top" /\ status[t] = "PLANNING" => idx[t] = 1
    /\ pc[t] = "top" /\ status[t] = "AWAITING_AUTHORIZATION" => idx[t] <= Len(plan[t])
    /\ pc[t] = "tool" => Step(t) \in Registered

RaiseKnown(t) ==
    pc[t] = "raised" =>
        \/ status[t] = "EXECUTING" /\ Step(t) \in Registered
        \/ status[t] = "PLANNING" /\ plan[t] = <<>>
        \/ /\ status[t] \in {"VERIFYING", "RECOVERING"}
           /\ Step(t) \in Actions /\ Policy(Step(t)) = "DENY"
        \/ /\ status[t] = "RECOVERING" /\ Step(t) \in Actions /\ idx[t] \notin authorized[t]
           /\ Policy(Step(t)) \in {"REQUIRE_CONFIRMATION", "REQUIRE_SECOND_FACTOR"}

KnownInv == \A t \in Tasks : HeadKnown(t) /\ RaiseKnown(t)

\* A transition the table allows does not raise.
LEMMA Passes ==
    ASSUME PlaceTypes, NEW t \in Tasks, NEW new, NEW next, Transition(t, new, next),
           new \in TL!Allowed[status[t]]
    PROVE  pc'[t] = next /\ status'[t] = new
BY DEF Transition, PlaceTypes

\* One step of a task keeps what is known of it.
LEMMA KnownStep ==
    ASSUME TypeOK, NEW t \in Tasks, TaskInv(t), HeadKnown(t), RaiseKnown(t), Call(t) \/ Work(t)
    PROVE  HeadKnown(t)' /\ RaiseKnown(t)'
<1> USE DEF PlaceTypes, HeadKnown, RaiseKnown
<1>1. /\ PlaceTypes /\ status[t] \in StatusAt(pc[t])
      /\ \A at : StatusAt(at) \subseteq TL!Statuses
  BY DEF TaskInv, StatusMatchesPlace, TypeOK, StatusAt, TL!Finished, TL!Statuses
<1>2. pc[t] \in {"top", "missing", "replan", "recover"} => "FAILED" \in TL!Allowed[status[t]]
  BY <1>1 DEF StatusAt, TL!Allowed, TL!Statuses
<1>3. pc[t] \in {"answered", "tool"} => "COMPLETED" \in TL!Allowed[status[t]]
  BY <1>1 DEF StatusAt, TL!Allowed, TL!Statuses
<1>4. /\ pc[t] = "top" => "EXECUTING" \in TL!Allowed[status[t]]
      /\ pc[t] \in {"answer", "tool"} => "VERIFYING" \in TL!Allowed[status[t]]
      /\ pc[t] = "verify" => "RECOVERING" \in TL!Allowed[status[t]]
      /\ status[t] = "AWAITING_AUTHORIZATION" => "BLOCKED" \in TL!Allowed[status[t]]
  BY <1>1 DEF StatusAt, TL!Allowed, TL!Statuses
<1>5. CASE RunFastPath(t) \/ RunPlanner(t)
  <2>1. pc'[t] = "top" /\ status'[t] = "PLANNING" /\ idx'[t] = 1
    BY <1>1, <1>5 DEF RunFastPath, RunPlanner, Start, NewSteps, TypeOK, WorkTypes
  <2>. QED
    BY <2>1
<1>6. CASE StopOverBudget(t) \/ MissingTool(t) \/ FinishAnswer(t) \/ ToolShutsDown(t)
  <2>1. \/ "FAILED" \in TL!Allowed[status[t]] /\ Transition(t, "FAILED", "idle")
        \/ "COMPLETED" \in TL!Allowed[status[t]] /\ Transition(t, "COMPLETED", "idle")
    BY <1>2, <1>3, <1>6 DEF StopOverBudget, MissingTool, FinishAnswer, ToolShutsDown
  <2>2. pc'[t] = "idle"
    BY <1>1, <2>1, Passes
  <2>. QED
    BY <2>2
<1>7. CASE ReportPlanError(t) \/ ReplanIsEmpty(t)
  <2>1. "FAILED" \in TL!Allowed[status[t]] /\ Transition(t, "FAILED", "idle")
    BY <1>2, <1>7 DEF ReportPlanError, TakeStep, ReplanIsEmpty
  <2>2. pc'[t] = "idle"
    BY <1>1, <2>1, Passes
  <2>. QED
    BY <2>2
<1>8. CASE BeginAnswer(t) \/ VerifyAnswer(t) \/ ToolReturns(t) \/ FailStep(t)
  <2>1. \/ "EXECUTING" \in TL!Allowed[status[t]] /\ Transition(t, "EXECUTING", "answer")
        \/ "VERIFYING" \in TL!Allowed[status[t]] /\ Transition(t, "VERIFYING", "answered")
        \/ "VERIFYING" \in TL!Allowed[status[t]] /\ Transition(t, "VERIFYING", "verify")
        \/ "RECOVERING" \in TL!Allowed[status[t]] /\ Transition(t, "RECOVERING", "recover")
    BY <1>4, <1>8 DEF BeginAnswer, TakeStep, VerifyAnswer, ToolReturns, FailStep, Judge
  <2>2. pc'[t] \in {"answer", "answered", "verify", "recover"}
    BY <1>1, <2>1, Passes
  <2>. QED
    BY <2>2
<1>9. CASE StartTool(t)
  <2>1. /\ pc'[t] = IF Step(t) \in Registered THEN "tool" ELSE "missing"
        /\ UNCHANGED <<plan, idx>>
    BY <1>1, <1>4, <1>9, Passes DEF StartTool, TakeStep
  <2>. QED
    BY <2>1 DEF Step
<1>10. CASE DenyStep(t)
  <2>1. /\ pc[t] = "top" /\ Step(t) \in Actions /\ Policy(Step(t)) = "DENY"
        /\ Transition(t, "BLOCKED", "idle") /\ UNCHANGED <<plan, idx>>
    BY <1>10 DEF DenyStep, TakeStep
  <2>2. status[t] \in {"PLANNING", "AWAITING_AUTHORIZATION"} => "BLOCKED" \in TL!Allowed[status[t]]
    BY DEF TL!Allowed, TL!Statuses
  <2>3. \/ pc'[t] = "idle"
        \/ pc'[t] = "raised" /\ status'[t] = status[t] /\ status[t] \in {"VERIFYING", "RECOVERING"}
    BY <1>1, <2>1, <2>2 DEF Transition, StatusAt
  <2>. QED
    BY <2>1, <2>3 DEF Step
<1>11. CASE AskConsent(t)
  <2>1. /\ pc[t] = "top" /\ Step(t) \in Actions /\ idx[t] \notin authorized[t]
        /\ Policy(Step(t)) \in {"REQUIRE_CONFIRMATION", "REQUIRE_SECOND_FACTOR"}
        /\ Transition(t, "AWAITING_AUTHORIZATION", "idle") /\ UNCHANGED <<plan, idx, authorized>>
    BY <1>11 DEF AskConsent, TakeStep, flags
  <2>2. status[t] \in {"PLANNING", "AWAITING_AUTHORIZATION", "VERIFYING"} =>
            "AWAITING_AUTHORIZATION" \in TL!Allowed[status[t]]
    BY DEF TL!Allowed, TL!Statuses
  <2>3. \/ pc'[t] = "idle"
        \/ pc'[t] = "raised" /\ status'[t] = status[t] /\ status[t] = "RECOVERING"
    BY <1>1, <2>1, <2>2 DEF Transition, StatusAt
  <2>. QED
    BY <2>1, <2>3 DEF Step
<1>12. CASE ToolEscapes(t)
  <2>1. /\ pc[t] = "tool" /\ pc'[t] = "raised" /\ UNCHANGED <<status, plan, idx>>
    BY <1>1, <1>12 DEF ToolEscapes
  <2>2. status[t] = "EXECUTING"
    BY <1>1, <2>1 DEF StatusAt
  <2>. QED
    BY <2>1, <2>2 DEF Step
<1>13. CASE PassStep(t)
  <2>1. /\ pc[t] = "verify" /\ pc'[t] \in {"idle", "top"} /\ UNCHANGED status
    BY <1>1, <1>13 DEF PassStep, Judge
  <2>2. status'[t] = "VERIFYING"
    BY <1>1, <2>1 DEF StatusAt
  <2>. QED
    BY <2>1, <2>2
<1>14. CASE Recover(t) \/ Replan(t)
  <2>1. /\ pc[t] \in {"recover", "replan"} /\ pc'[t] \in {"top", "replan"} /\ UNCHANGED status
    BY <1>1, <1>14, RecoverGoesOn DEF Recover, Replan
  <2>2. status'[t] = "RECOVERING"
    BY <1>1, <2>1 DEF StatusAt
  <2>. QED
    BY <2>1, <2>2
<1>15. CASE CompletePlan(t)
  <2>1. /\ pc[t] = "top" /\ idx[t] > Len(plan[t])
        /\ Transition(t, "COMPLETED", "idle") /\ UNCHANGED <<plan, idx>>
    BY <1>15 DEF CompletePlan
  <2>2. status[t] \in {"VERIFYING", "RECOVERING"} => "COMPLETED" \in TL!Allowed[status[t]]
    BY DEF TL!Allowed, TL!Statuses
  <2>3. plan[t] \in Plans /\ Len(plan[t]) \in Nat /\ idx[t] \in Nat
    BY OrchestratorAssumption, PlanFacts DEF TypeOK, WorkTypes
  <2>4. status[t] # "AWAITING_AUTHORIZATION"
    BY <2>1, <2>3
  <2>5. status[t] = "PLANNING" => plan[t] = <<>>
    <3>1. status[t] = "PLANNING" => Len(plan[t]) = 0
      BY <2>1, <2>3
    <3>. QED
      BY <2>3, <3>1, PlanFacts
  <2>6. pc'[t] = "idle" \/ (pc'[t] = "raised" /\ status'[t] = status[t] /\ status[t] = "PLANNING")
    BY <1>1, <2>1, <2>2, <2>4 DEF Transition, StatusAt
  <2>. QED
    BY <2>1, <2>5, <2>6
<1>16. ASSUME NEW text \in Utterances, Refuse(t, text) \/ RejectPassphrase(t, text)
       PROVE  HeadKnown(t)' /\ RaiseKnown(t)'
  <2>1. pc'[t] = "idle"
    BY <1>1, <1>4, <1>16, Passes DEF Refuse, RejectPassphrase, Resumable, Block
  <2>. QED
    BY <2>1
<1>17. ASSUME NEW text \in Utterances,
              AskPassphrase(t, text) \/ Approve(t, text) \/ AcceptPassphrase(t, text)
       PROVE  HeadKnown(t)' /\ RaiseKnown(t)'
  <2>1. /\ status[t] = "AWAITING_AUTHORIZATION" /\ pc[t] = "idle" /\ pc'[t] \in {"idle", "top"}
        /\ UNCHANGED <<status, plan, idx>>
    BY <1>1, <1>17 DEF AskPassphrase, Approve, AcceptPassphrase, Resumable, Authorize
  <2>2. idx[t] <= Len(plan[t])
    BY <2>1 DEF TaskInv, Waiting
  <2>. QED
    BY <2>1, <2>2
<1>. QED
  BY <1>5, <1>6, <1>7, <1>8, <1>9, <1>10, <1>11, <1>12, <1>13, <1>14, <1>15, <1>16, <1>17
     DEF Call, Work

(* Every exception out of the loop is a tool's, or one of the three refusals *)
(* of the table of state.py (RaisesAreKnown).                                *)
THEOREM KnownRaises == Spec => []RaisesAreKnown
<1>1. Init => KnownInv
  BY DEF Init, KnownInv, HeadKnown, RaiseKnown
<1>2. IInv /\ KnownInv /\ [Next]_vars => KnownInv'
  <2> SUFFICES ASSUME IInv, KnownInv, [Next]_vars, NEW u \in Tasks
               PROVE  HeadKnown(u)' /\ RaiseKnown(u)'
    BY DEF KnownInv
  <2>1. TypeOK /\ \A t \in Tasks : TaskInv(t)
    BY InvByTask
  <2>2. CASE SameTask(u)
    BY <2>2 DEF SameTask, KnownInv, HeadKnown, RaiseKnown, Step
  <2>3. CASE UNCHANGED vars
    <3>1. SameTask(u)
      BY <2>3 DEF SameTask, vars, task, flags, shared, recorder
    <3>. QED
      BY <2>2, <3>1
  <2>4. ASSUME NEW t \in Tasks, Call(t) \/ Work(t) PROVE HeadKnown(u)' /\ RaiseKnown(u)'
    <3>1. CASE t = u
      BY <2>1, <2>4, <3>1, KnownStep DEF KnownInv
    <3>2. CASE t # u
      BY <2>1, <2>2, <2>4, <3>2, OthersStay
    <3>. QED
      BY <3>1, <3>2
  <2>. QED
    BY <2>3, <2>4 DEF Next
<1>3. KnownInv => RaisesAreKnown
  BY DEF KnownInv, RaiseKnown, RaisesAreKnown
<1>. QED
  BY <1>1, <1>2, <1>3, Invariance, PTL DEF Spec

-----------------------------------------------------------------------------
\* The trajectory is finished in a step that ends the task the same way.
Writes(t) ==
    /\ pc[t] # "new"
    /\ \E o \in Outcomes \ {None}, s \in TL!Finished :
          /\ FinishTrajectory(t, o) /\ Tells(o, s)
          /\ status' = [status EXCEPT ![t] = s]

\* A task that starts takes the recorder's place.
Enters(t) ==
    /\ pc[t] = "new" /\ current' = t /\ usurped' = usurped \cup ({current} \ {None})
    /\ outcome' = outcome /\ status'[t] = "PLANNING"

\* Whether the recorder writes, a step ends the task first; else it only takes the
\* recorder's place when the task starts, and completes no task.
LEMMA RecorderSteps ==
    ASSUME TypeOK, NEW t \in Tasks, TaskInv(t), Call(t) \/ Work(t)
    PROVE  \/ Writes(t)
           \/ Enters(t)
           \/ pc[t] # "new" /\ UNCHANGED recorder /\ status'[t] # "COMPLETED"
<1> USE DEF TypeOK, PlaceTypes
<1>1. status[t] \in StatusAt(pc[t])
  BY DEF TaskInv, StatusMatchesPlace
<1>2. ASSUME NEW s \in {"COMPLETED", "FAILED", "BLOCKED"}, Transition(t, s, "idle"),
             s \in TL!Allowed[status[t]], NEW o \in Outcomes \ {None}, Tells(o, s),
             FinishTrajectory(t, o), pc[t] # "new"
      PROVE  Writes(t)
  BY <1>2 DEF Writes, Transition, TL!Finished
<1>3. /\ Tells("SUCCESS", "COMPLETED") /\ Tells("FAILURE", "FAILED")
      /\ Tells("BUDGET_EXCEEDED", "FAILED") /\ Tells("BLOCKED", "BLOCKED")
      /\ \A o \in {"SUCCESS", "FAILURE", "BUDGET_EXCEEDED", "BLOCKED"} : o \in Outcomes \ {None}
  BY DEF Tells, Outcomes, None
<1>4. pc[t] \in {"top", "missing", "replan", "recover"} => "FAILED" \in TL!Allowed[status[t]]
  BY <1>1 DEF StatusAt, TL!Allowed, TL!Statuses
<1>5. pc[t] \in {"answered", "tool"} => "COMPLETED" \in TL!Allowed[status[t]]
  BY <1>1 DEF StatusAt, TL!Allowed, TL!Statuses
<1>6. ASSUME NEW new, NEW next, Transition(t, new, next), new # "COMPLETED", pc[t] # "idle"
      PROVE  status'[t] # "COMPLETED"
  <2>1. status[t] # "COMPLETED"
    BY <1>1, <1>6 DEF StatusAt, TL!Finished, TL!Statuses
  <2>. QED
    BY <1>6, <2>1 DEF Transition
<1>7. CASE RunFastPath(t) \/ RunPlanner(t)
  BY <1>7 DEF RunFastPath, RunPlanner, Start, Enters
<1>8. CASE StopOverBudget(t)
  BY <1>8, <1>2, <1>3, <1>4, <1>6 DEF StopOverBudget
<1>9. CASE FinishAnswer(t)
  BY <1>9, <1>2, <1>3, <1>5 DEF FinishAnswer
<1>10. CASE ReportPlanError(t)
  BY <1>10, <1>2, <1>3, <1>4 DEF ReportPlanError, TakeStep
<1>11. CASE DenyStep(t)
  BY <1>11, <1>2, <1>3, <1>6 DEF DenyStep, TakeStep, Raises
<1>12. CASE MissingTool(t)
  BY <1>12, <1>2, <1>3, <1>4 DEF MissingTool
<1>13. CASE ToolShutsDown(t)
  BY <1>13, <1>2, <1>3, <1>5 DEF ToolShutsDown
<1>14. CASE Recover(t)
  <2>1. UNCHANGED <<status, recorder>> /\ pc[t] = "recover"
    BY <1>14, RecoverGoesOn DEF Recover
  <2>2. status[t] # "COMPLETED"
    BY <1>1, <2>1 DEF StatusAt
  <2>. QED
    BY <2>1, <2>2
<1>15. CASE ReplanIsEmpty(t)
  BY <1>15, <1>2, <1>3, <1>4 DEF ReplanIsEmpty
<1>16. CASE CompletePlan(t)
  <2>1. CASE Raises(t, "COMPLETED")
    <3>1. UNCHANGED <<status, recorder>> /\ pc[t] = "top"
      BY <1>16, <2>1 DEF CompletePlan, Raises, Transition
    <3>2. status[t] # "COMPLETED"
      BY <1>1, <3>1 DEF StatusAt
    <3>. QED
      BY <3>1, <3>2
  <2>2. CASE ~Raises(t, "COMPLETED")
    BY <1>16, <2>2, <1>2, <1>3 DEF CompletePlan, Raises
  <2>. QED
    BY <2>1, <2>2
<1>17. CASE BeginAnswer(t) \/ VerifyAnswer(t) \/ AskConsent(t) \/ StartTool(t)
            \/ ToolReturns(t) \/ FailStep(t)
  <2>1. /\ pc[t] \notin {"new", "idle"} /\ UNCHANGED recorder
        /\ \E new \in TL!Statuses \ {"COMPLETED"}, next \in Pcs : Transition(t, new, next)
    BY <1>17, Members
       DEF BeginAnswer, VerifyAnswer, AskConsent, StartTool, TakeStep, ToolReturns, FailStep,
           Judge, shared, recorder
  <2>. QED
    BY <1>6, <2>1
<1>18. CASE ToolEscapes(t) \/ PassStep(t) \/ Replan(t)
  <2>1. pc[t] \in {"tool", "verify", "replan"} /\ UNCHANGED <<status, recorder>>
    BY <1>18 DEF ToolEscapes, PassStep, Judge, Replan, shared, recorder
  <2>2. status[t] # "COMPLETED"
    BY <1>1, <2>1 DEF StatusAt
  <2>. QED
    BY <2>1, <2>2
<1>19. ASSUME NEW text \in Utterances,
              \/ Refuse(t, text) \/ AskPassphrase(t, text) \/ Approve(t, text)
              \/ AcceptPassphrase(t, text) \/ RejectPassphrase(t, text)
       PROVE  pc[t] # "new" /\ UNCHANGED recorder /\ status'[t] # "COMPLETED"
  <2>1. /\ pc[t] = "idle" /\ status[t] = "AWAITING_AUTHORIZATION" /\ UNCHANGED recorder
        /\ UNCHANGED status \/ Transition(t, "BLOCKED", "idle")
    BY <1>19 DEF Refuse, AskPassphrase, Approve, AcceptPassphrase, RejectPassphrase,
                 Resumable, Block, Authorize, shared, recorder
  <2>. QED
    BY <2>1 DEF Transition
<1>. QED
  BY <1>7, <1>8, <1>9, <1>10, <1>11, <1>12, <1>13, <1>14, <1>15, <1>16, <1>17, <1>18, <1>19
     DEF Call, Work

\* Who is recorded: a task that has its place in the recorder is recorded until its
\* file is written, and no task that has not started has one.
SlotInv ==
    \A t \in Tasks :
        /\ outcome[t] # None => \E u \in Tasks : Tells(outcome[t], status[u])
        /\ current = t => pc[t] # "new"
        /\ pc[t] = "new" => outcome[t] = None /\ t \notin usurped
        /\ t \notin usurped =>
              /\ pc[t] # "new" /\ outcome[t] = None => current = t
              /\ outcome[t] # None => Tells(outcome[t], status[t])
              /\ status[t] = "COMPLETED" => outcome[t] = "SUCCESS"

\* A step of a task keeps it.
LEMMA SlotStep ==
    ASSUME TypeOK, NEW t \in Tasks, TaskInv(t), SlotInv, Call(t) \/ Work(t)
    PROVE  SlotInv'
<1>1. status[t] \notin TL!Finished
  BY ActsOnUnfinished
<1>2. \A u \in Tasks : pc'[u] # "new" \/ (u # t /\ pc[u] = "new")
  <2>1. pc'[t] # "new"
    BY LeavesNew
  <2>. QED
    BY <2>1, OthersStay DEF SameTask
<1>3. \A u \in Tasks \ {t} : status'[u] = status[u] /\ pc'[u] = pc[u]
  BY OthersStay DEF SameTask
<1>4. \A o, s : Tells(o, s) => s \in TL!Finished
  BY DEF Tells, TL!Finished
<1>5. \A u \in Tasks : outcome[u] # None =>
          \E v \in Tasks \ {t} : Tells(outcome[u], status[v]) /\ Tells(outcome[u], status'[v])
  BY <1>1, <1>3, <1>4 DEF SlotInv
<1>6. t \notin usurped /\ pc[t] # "new" => outcome[t] = None /\ current = t
  BY <1>1, <1>4 DEF SlotInv
<1>7. None \notin Tasks /\ current \in Tasks \cup {None} /\ outcome \in [Tasks -> Outcomes]
  BY OrchestratorAssumption DEF TypeOK, SharedTypes, None
<1>8. CASE Writes(t)
  <2>1. PICK o \in Outcomes \ {None}, s \in TL!Finished :
          FinishTrajectory(t, o) /\ Tells(o, s) /\ status' = [status EXCEPT ![t] = s]
    BY <1>8 DEF Writes
  <2>2. status'[t] = s /\ pc[t] # "new" /\ current' = None
    BY <1>8, <2>1 DEF Writes, FinishTrajectory, TypeOK, PlaceTypes
  <2>3. CASE current = None
    <3>1. outcome' = outcome /\ usurped' = usurped /\ t \in usurped
      BY <1>6, <1>7, <2>1, <2>2, <2>3 DEF FinishTrajectory
    <3>. QED
      BY <1>2, <1>3, <1>5, <1>7, <2>2, <2>3, <3>1 DEF SlotInv
  <2>4. CASE current = t
    <3>1. usurped' = usurped /\ outcome' = [outcome EXCEPT ![t] = o]
      BY <1>7, <2>1, <2>4 DEF FinishTrajectory
    <3>2. outcome'[t] = o /\ \A u \in Tasks \ {t} : outcome'[u] = outcome[u]
      BY <1>7, <3>1
    <3>3. s = "COMPLETED" => o = "SUCCESS"
      BY <2>1 DEF Tells
    <3>. QED
      BY <1>2, <1>3, <1>5, <1>7, <2>1, <2>2, <2>4, <3>1, <3>2, <3>3 DEF SlotInv
  <2>5. CASE current \in Tasks \ {t}
    <3>1. /\ usurped' = usurped \cup {current} /\ outcome' = [outcome EXCEPT ![current] = o]
          /\ t \in usurped
      BY <1>6, <1>7, <2>1, <2>2, <2>5 DEF FinishTrajectory
    <3>2. outcome'[current] = o /\ \A u \in Tasks \ {current} : outcome'[u] = outcome[u]
      BY <1>7, <2>5, <3>1
    <3>3. pc[current] # "new"
      BY <2>5 DEF SlotInv
    <3>. QED
      BY <1>2, <1>3, <1>5, <1>7, <2>1, <2>2, <2>5, <3>1, <3>2, <3>3 DEF SlotInv
  <2>. QED
    BY <1>7, <2>3, <2>4, <2>5
<1>9. CASE Enters(t)
  <2>1. /\ pc[t] = "new" /\ current' = t /\ outcome' = outcome /\ status'[t] = "PLANNING"
        /\ usurped' = usurped \cup ({current} \ {None})
        /\ t \notin usurped /\ outcome[t] = None /\ current # t
    BY <1>9 DEF Enters, SlotInv
  <2>2. pc'[t] # "new"
    BY <1>2
  <2>. QED
    BY <1>2, <1>3, <1>5, <1>7, <2>1, <2>2 DEF SlotInv
<1>10. CASE pc[t] # "new" /\ UNCHANGED recorder /\ status'[t] # "COMPLETED"
  <2>1. current' = current /\ outcome' = outcome /\ usurped' = usurped
    BY <1>10 DEF recorder
  <2>. QED
    BY <1>2, <1>3, <1>5, <1>6, <1>10, <2>1 DEF SlotInv
<1>. QED
  BY <1>8, <1>9, <1>10, RecorderSteps

(* However many tasks share the recorder's one place: of a task that no other *)
(* took it from, the saved trajectory tells how it ended, and a trajectory    *)
(* that is written for another tells how some task ended (OutcomeIsOwn).      *)
THEOREM TrajectoriesTell == Spec => []OutcomeIsOwn
<1>1. Init => SlotInv
  BY OrchestratorAssumption DEF Init, SlotInv, None
<1>2. IInv /\ SlotInv /\ [Next]_vars => SlotInv'
  <2> SUFFICES ASSUME IInv, SlotInv, [Next]_vars PROVE SlotInv'
    OBVIOUS
  <2>1. TypeOK /\ \A t \in Tasks : TaskInv(t)
    BY InvByTask
  <2>2. CASE UNCHANGED vars
    BY <2>2 DEF vars, task, shared, recorder, SlotInv
  <2>3. ASSUME NEW t \in Tasks, Call(t) \/ Work(t) PROVE SlotInv'
    BY <2>1, <2>3, SlotStep
  <2>. QED
    BY <2>2, <2>3 DEF Next
<1>3. SlotInv => OutcomeIsOwn
  BY DEF SlotInv, OutcomeIsOwn
<1>. QED
  BY <1>1, <1>2, <1>3, Invariance, PTL DEF Spec

=============================================================================
