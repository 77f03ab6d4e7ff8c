---------------------------- MODULE JobScheduler ----------------------------
(***************************************************************************)
(* Proactive jobs (jobs/).  JobScheduler keeps the jobs and a polling      *)
(* thread that runs the due ones; TriggerMonitor is a second thread that   *)
(* runs jobs when the machine is idle, the network changes or a resource   *)
(* runs short, through JobExecutor, which abandons a run that takes too    *)
(* long.  Both report to mark_completed, and nothing is locked.            *)
(*                                                                         *)
(* Time is a week of Days days of Hours hours that repeats; Job.next_run   *)
(* is kept as the time left until it.                                      *)
(***************************************************************************)
EXTENDS Naturals, FiniteSets

CONSTANTS
    Jobs,           \* job ids
    NoJob,          \* no job at hand
    Loops,          \* threads start() may create (bound: how many live at once)
    Monitor,        \* the TriggerMonitor thread
    Kind,           \* Kind[j] : "interval", "once" or "monitored" trigger
    Policy,         \* Policy[j] : Job.failure_policy
    Period,         \* Period[j] : seconds of an interval trigger
    OpensAt,        \* OpensAt[j] : ExecutionWindow.start_time
    ClosesAt,       \* ClosesAt[j] : ExecutionWindow.end_time
    OpenDays,       \* OpenDays[j] : ExecutionWindow.days
    Hours, Days,    \* hours of a day, days of a week
    Backoff,        \* JobBudget.backoff_seconds
    MaxRetries,     \* JobBudget.max_retries
    Factories,      \* what orchestrator_factory can be: "given", "none"
    FailureCap      \* bound: consecutive failures are counted up to here

Threads == Loops \cup {Monitor}
DisableAfter == 3

ASSUME JobSchedulerAssumption ==
    /\ NoJob \notin Jobs /\ Monitor \notin Loops
    /\ IsFiniteSet(Jobs)
    /\ Hours \in Nat \ {0} /\ Days \in Nat \ {0}
    /\ Backoff \in Nat \ {0} /\ MaxRetries \in Nat \ {0}
    /\ FailureCap \in Nat /\ FailureCap > MaxRetries /\ FailureCap >= DisableAfter
    /\ Kind \in [Jobs -> {"interval", "once", "monitored"}]
    /\ Policy \in [Jobs -> {"retry", "skip", "disable", "alert"}]
    /\ Period \in [Jobs -> Nat \ {0}]
    /\ OpensAt \in [Jobs -> 0..(Hours - 1)]
    /\ ClosesAt \in [Jobs -> 0..(Hours - 1)]
    /\ OpenDays \in [Jobs -> (SUBSET (0..(Days - 1))) \ {{}}]
    /\ Factories \subseteq {"given", "none"}

VARIABLES
    now,            \* the hour of the week
    factory,        \* JobScheduler.orchestrator_factory, None by default
    registered,     \* keys of JobScheduler.jobs
    enabled,        \* jobs with Job.enabled
    planned,        \* jobs with a next_run
    left,           \* left[j] : time until next_run, 0 once it has passed
    failures,       \* Job.consecutive_failures
    running,        \* JobScheduler._running
    signal,         \* a condition TriggerMonitor watches holds and is not served
    pc,             \* where each thread stands
    due,            \* a loop's due list; for the monitor, the jobs it has passed
    size,           \* len(jobs) when the thread began to iterate over them
    job,            \* the job the thread executes
    good,           \* threads whose execution succeeded
    held,           \* threads whose mark_completed holds a job still registered
    orphans         \* jobs with a run that timed out and goes on

jobVars == <<registered, enabled, planned, left, failures>>
threadVars == <<pc, due, size, job, good, held, orphans>>
vars == <<now, factory, jobVars, running, signal, threadVars>>

-----------------------------------------------------------------------------
(* Execution windows and next_run. *)

Clock(t) == t % Hours
Weekday(t) == (t \div Hours) % Days

\* _in_execution_window
InWindow(j, t) ==
    /\ Weekday(t) \in OpenDays[j]
    /\ IF OpensAt[j] <= ClosesAt[j]
       THEN Clock(t) \in OpensAt[j]..ClosesAt[j]
       ELSE Clock(t) >= OpensAt[j] \/ Clock(t) <= ClosesAt[j]

\* Mutant: The next window opens at the hour the job was planned for.
NextWindowStartSameHour(j, t) ==
    LET ahead == {n \in 1..Days : Weekday(t + n * Hours) \in OpenDays[j]}
        first == CHOOSE n \in ahead : \A m \in ahead : n <= m
    IN  IF Clock(t) < OpensAt[j] /\ Weekday(t) \in OpenDays[j]
        THEN t + (OpensAt[j] - Clock(t))
        ELSE t + first * Hours

\* _next_window_start
NextWindowStart(j, t) ==
    LET ahead == {n \in 1..Days : Weekday(t + n * Hours) \in OpenDays[j]}
        first == CHOOSE n \in ahead : \A m \in ahead : n <= m
    IN  IF Clock(t) < OpensAt[j] /\ Weekday(t) \in OpenDays[j]
        THEN t + (OpensAt[j] - Clock(t))
        ELSE t + first * Hours - Clock(t) + OpensAt[j]

\* The time parse_trigger gives an interval trigger, moved into the window.
NextRun(j) ==
    LET t == now + Period[j]
    IN  (IF InWindow(j, t) THEN t ELSE NextWindowStart(j, t)) - now

\* parse_trigger gives a time to no other kind: the branch for "once:" compares
\* the whole trigger with the prefix.
Timed(j) == Kind[j] = "interval"

\* _schedule_next and _schedule_next_in_window
ScheduleNext(js) ==
    /\ planned' = (planned \ js) \cup {j \in js : Timed(j)}
    /\ left' = [j \in Jobs |-> IF j \in js THEN IF Timed(j) THEN NextRun(j) ELSE 0
                                           ELSE left[j]]

Due(j) == j \in registered \cap enabled \cap planned /\ left[j] = 0

-----------------------------------------------------------------------------
Init ==
    /\ now \in 0..(Hours * Days - 1)
    /\ factory \in Factories
    /\ registered = {} /\ enabled = {} /\ planned = {}
    /\ left = [j \in Jobs |-> 0]
    /\ failures = [j \in Jobs |-> 0]
    /\ running = FALSE /\ signal = FALSE
    /\ pc = [t \in Threads |-> IF t = Monitor THEN "top" ELSE "off"]
    /\ due = [t \in Threads |-> {}]
    /\ size = [t \in Threads |-> 0]
    /\ job = [t \in Threads |-> NoJob]
    /\ good = {} /\ held = {} /\ orphans = {}

Tick ==
    /\ now' = (now + 1) % (Hours * Days)
    /\ left' = [j \in Jobs |-> IF left[j] = 0 THEN 0 ELSE left[j] - 1]
    /\ UNCHANGED <<factory, registered, enabled, planned, failures, running, signal, threadVars>>

\* register() of a new Job object, which replaces one with the same id.
Register(j) ==
    /\ registered' = registered \cup {j}
    /\ \/ enabled' = enabled \cup {j} /\ ScheduleNext({j})
       \/ /\ enabled' = enabled \ {j}
          /\ planned' = planned \ {j} /\ left' = [left EXCEPT ![j] = 0]
    /\ failures' = [failures EXCEPT ![j] = 0]
    /\ held' = {t \in held : job[t] # j}
    /\ UNCHANGED <<now, factory, running, signal, pc, due, size, job, good, orphans>>

Unregister(j) ==
    /\ j \in registered
    /\ registered' = registered \ {j}
    /\ enabled' = enabled \ {j} /\ planned' = planned \ {j}
    /\ left' = [left EXCEPT ![j] = 0]
    /\ failures' = [failures EXCEPT ![j] = 0]
    /\ held' = {t \in held : job[t] # j}
    /\ due' = [due EXCEPT ![Monitor] = @ \ {j}]
    /\ UNCHANGED <<now, factory, running, signal, pc, size, job, good, orphans>>

\* start() by a caller that stopped the scheduler before; an earlier loop may
\* still be alive, because stop() waits five seconds and the loop sleeps ten.
Start(l) ==
    /\ ~running /\ pc[l] = "off"
    /\ running' = TRUE
    /\ pc' = [pc EXCEPT ![l] = "top"]
    /\ UNCHANGED <<now, factory, jobVars, signal, due, size, job, good, held, orphans>>

Stop ==
    /\ running
    /\ running' = FALSE
    /\ UNCHANGED <<now, factory, jobVars, signal, threadVars>>

-----------------------------------------------------------------------------
(* The polling thread, _run_loop. *)
\* Mutant: The loop does not look at _running.
LoopTopAlways(l) ==
    /\ pc[l] = "top"
    /\ pc' = [pc EXCEPT ![l] = "scan"]
    /\ size' = [size EXCEPT ![l] = Cardinality(registered)]
    /\ UNCHANGED <<now, factory, jobVars, running, signal, due, job, good, held, orphans>>

LoopTop(l) ==
    /\ pc[l] = "top"
    /\ \/ /\ running
          /\ pc' = [pc EXCEPT ![l] = "scan"]
          /\ size' = [size EXCEPT ![l] = Cardinality(registered)]
       \/ /\ ~running
          /\ pc' = [pc EXCEPT ![l] = "off"]
          /\ UNCHANGED size
    /\ UNCHANGED <<now, factory, jobVars, running, signal, due, job, good, held, orphans>>

\* get_due_jobs: those outside their window are scheduled anew.
GetDueJobs(l) ==
    /\ pc[l] = "scan" /\ Cardinality(registered) = size[l]
    /\ LET ready == {j \in Jobs : Due(j)}
       IN  /\ due' = [due EXCEPT ![l] = {j \in ready : InWindow(j, now)}]
           /\ ScheduleNext({j \in ready : ~InWindow(j, now)})
    /\ pc' = [pc EXCEPT ![l] = "next"]
    /\ size' = [size EXCEPT ![l] = 0]
    /\ UNCHANGED <<now, factory, registered, enabled, failures, running, signal,
                   job, good, held, orphans>>

\* A job was added or removed while the dictionary was iterated: RuntimeError,
\* which nothing in the thread catches.
ScanRaises(l) ==
    /\ pc[l] = "scan" /\ Cardinality(registered) # size[l]
    /\ pc' = [pc EXCEPT ![l] = "off"]
    /\ size' = [size EXCEPT ![l] = 0]
    /\ UNCHANGED <<now, factory, jobVars, running, signal, due, job, good, held, orphans>>

\* _execute_job up to the call of the orchestrator.  enabled is not read again.
\* Without a factory the job is passed over and stays due; a factory that raises
\* ends the thread.
ExecuteJob(l) ==
    /\ pc[l] = "next"
    /\ \E j \in due[l] :
          \/ /\ factory = "none"
             /\ due' = [due EXCEPT ![l] = @ \ {j}]
             /\ UNCHANGED <<pc, job>>
          \/ /\ factory = "given"
             /\ due' = [due EXCEPT ![l] = @ \ {j}]
             /\ pc' = [pc EXCEPT ![l] = "run"]
             /\ job' = [job EXCEPT ![l] = j]
          \/ /\ factory = "given"
             /\ due' = [due EXCEPT ![l] = {}]
             /\ pc' = [pc EXCEPT ![l] = "off"]
             /\ UNCHANGED job
    /\ UNCHANGED <<now, factory, jobVars, running, signal, size, good, held, orphans>>

ListDone(l) ==
    /\ pc[l] = "next" /\ due[l] = {}
    /\ pc' = [pc EXCEPT ![l] = "top"]
    /\ UNCHANGED <<now, factory, jobVars, running, signal, due, size, job, good, held, orphans>>

-----------------------------------------------------------------------------
(* The trigger thread, _monitor_loop and _trigger_jobs. *)

Notice ==
    /\ ~signal
    /\ signal' = TRUE
    /\ UNCHANGED <<now, factory, jobVars, running, threadVars>>

TriggerJobs ==
    /\ pc[Monitor] = "top" /\ signal
    /\ pc' = [pc EXCEPT ![Monitor] = "next"]
    /\ size' = [size EXCEPT ![Monitor] = Cardinality(registered)]
    /\ UNCHANGED <<now, factory, jobVars, running, signal, due, job, good, held, orphans>>

\* One turn of the loop over the jobs: the job is passed over (not for this
\* trigger, disabled, capability missing, factory raises), or executed.  Without
\* an orchestrator JobExecutor reports failure at once.
TriggerJob(j) ==
    /\ pc[Monitor] = "next" /\ Cardinality(registered) = size[Monitor]
    /\ j \in registered \ due[Monitor]
    /\ due' = [due EXCEPT ![Monitor] = @ \cup {j}]
    /\ \/ UNCHANGED <<pc, job, good>>
       \/ /\ j \in enabled /\ Kind[j] = "monitored"
          /\ \/ factory = "given" /\ pc' = [pc EXCEPT ![Monitor] = "run"]
             \/ factory = "none" /\ pc' = [pc EXCEPT ![Monitor] = "count"]
          /\ job' = [job EXCEPT ![Monitor] = j]
          /\ good' = good \ {Monitor}
    /\ UNCHANGED <<now, factory, jobVars, running, signal, size, held, orphans>>

TriggerDone ==
    /\ pc[Monitor] = "next" /\ Cardinality(registered) = size[Monitor]
    /\ registered \subseteq due[Monitor]
    /\ pc' = [pc EXCEPT ![Monitor] = "top"]
    /\ due' = [due EXCEPT ![Monitor] = {}]
    /\ size' = [size EXCEPT ![Monitor] = 0]
    /\ signal' = FALSE
    /\ UNCHANGED <<now, factory, jobVars, running, job, good, held, orphans>>

\* The dictionary changed size under the iteration: the check that called
\* _trigger_jobs swallows the error before it resets its own state, so the same
\* condition usually triggers again; the resource check has reset already.
TriggerRaises ==
    /\ pc[Monitor] = "next" /\ Cardinality(registered) # size[Monitor]
    /\ pc' = [pc EXCEPT ![Monitor] = "top"]
    /\ due' = [due EXCEPT ![Monitor] = {}]
    /\ size' = [size EXCEPT ![Monitor] = 0]
    /\ signal' \in BOOLEAN
    /\ UNCHANGED <<now, factory, jobVars, running, job, good, held, orphans>>

-----------------------------------------------------------------------------
(* Executing a job and reporting it. *)

\* The run ends: done and verified in time, or not.
RunEnds(t) ==
    /\ pc[t] = "run"
    /\ good' \in {good \cup {t}, good \ {t}}
    /\ pc' = [pc EXCEPT ![t] = "count"]
    /\ UNCHANGED <<now, factory, jobVars, running, signal, due, size, job, held, orphans>>

\* JobExecutor._run_with_timeout gives up waiting; the thread goes on.
RunTimesOut ==
    /\ pc[Monitor] = "run"
    /\ good' = good \ {Monitor}
    /\ orphans' = orphans \cup {job[Monitor]}
    /\ pc' = [pc EXCEPT ![Monitor] = "count"]
    /\ UNCHANGED <<now, factory, jobVars, running, signal, due, size, job, held>>

OrphanEnds(j) ==
    /\ j \in orphans
    /\ orphans' = orphans \ {j}
    /\ UNCHANGED <<now, factory, jobVars, running, signal, pc, due, size, job, good, held>>

\* mark_completed: a job no longer registered is left alone, the counters of
\* another one are updated.
Count(t) ==
    /\ pc[t] = "count"
    /\ \/ /\ job[t] \notin registered
          /\ pc' = [pc EXCEPT ![t] = "next"]
          /\ job' = [job EXCEPT ![t] = NoJob]
          /\ good' = good \ {t}
          /\ UNCHANGED <<failures, held>>
       \/ /\ job[t] \in registered
          /\ failures' = [failures EXCEPT ![job[t]] =
                            CASE t \in good -> 0
                              [] t \notin good /\ @ < FailureCap -> @ + 1
                              [] OTHER -> @]
          /\ pc' = [pc EXCEPT ![t] = "apply"]
          /\ held' = held \cup {t}
          /\ UNCHANGED <<job, good>>
    /\ UNCHANGED <<now, factory, registered, enabled, planned, left, running, signal,
                   due, size, orphans>>

\* Mutant: The retry budget admits one failure too many.
ExhaustedLate(j) ==
    \/ Policy[j] = "retry" /\ failures[j] > MaxRetries
    \/ Policy[j] = "disable" /\ failures[j] >= DisableAfter

\* The failure policy withdraws the job.
Exhausted(j) ==
    \/ Policy[j] = "retry" /\ failures[j] >= MaxRetries
    \/ Policy[j] = "disable" /\ failures[j] >= DisableAfter

\* The thread is done with its job and takes up its list again.
Reported(t) ==
    /\ pc' = [pc EXCEPT ![t] = "next"]
    /\ job' = [job EXCEPT ![t] = NoJob]
    /\ good' = good \ {t} /\ held' = held \ {t}
    /\ UNCHANGED <<now, factory, registered, failures, running, signal, due, size, orphans>>

Failed(t, policy) == t \notin good /\ Policy[job[t]] = policy

Withdraw(t) ==
    enabled' = IF t \notin good /\ Exhausted(job[t]) THEN enabled \ {job[t]} ELSE enabled

RetryLater(j) ==
    /\ planned' = planned \cup {j}
    /\ left' = [left EXCEPT ![j] = Backoff]

\* Mutant: the failure policy SKIP leaves next_run as it is.
ApplySkipKeepsNextRun(t) ==
    /\ pc[t] = "apply"
    /\ \/ t \notin held /\ UNCHANGED <<enabled, planned, left>>
       \/ /\ t \in held
          /\ Withdraw(t)
          /\ \/ Failed(t, "skip") /\ UNCHANGED <<planned, left>>
             \/ ~Failed(t, "skip") /\ ScheduleNext({job[t]})
    /\ Reported(t)

\* mark_completed: the failure policy, then the next run.  A failed job with
\* policy RETRY runs again after the backoff, whatever its window.
Apply(t) ==
    /\ pc[t] = "apply"
    /\ \/ t \notin held /\ UNCHANGED <<enabled, planned, left>>
       \/ /\ t \in held
          /\ Withdraw(t)
          /\ \/ Failed(t, "retry") /\ RetryLater(job[t])
             \/ ~Failed(t, "retry") /\ ScheduleNext({job[t]})
    /\ Reported(t)

-----------------------------------------------------------------------------
Loop(l) ==
    \/ LoopTop(l) \/ GetDueJobs(l) \/ ScanRaises(l) \/ ExecuteJob(l) \/ ListDone(l)
    \/ RunEnds(l) \/ Count(l) \/ Apply(l)

Trigger ==
    \/ TriggerJobs \/ TriggerDone \/ TriggerRaises \/ (\E j \in Jobs : TriggerJob(j))
    \/ RunEnds(Monitor) \/ RunTimesOut \/ Count(Monitor) \/ Apply(Monitor)

Next ==
    \/ Tick \/ Stop \/ Notice
    \/ \E j \in Jobs : Register(j) \/ Unregister(j) \/ OrphanEnds(j)
    \/ \E l \in Loops : Start(l) \/ Loop(l)
    \/ Trigger

Spec == Init /\ [][Next]_vars

\* A thread that can step does, and orchestrator.run() returns: the loop runs
\* it inline.  Nothing is assumed of callers, time or the machine's state.
FairSpec == Spec /\ \A l \in Loops : WF_vars(Loop(l))

-----------------------------------------------------------------------------
(* Properties. *)

Pcs == {"off", "top", "scan", "next", "run", "count", "apply"}
AtJob == {"run", "count", "apply"}

\* Types; only a registered job is enabled or has a next run, and a thread has a
\* job at hand exactly while it executes or reports one.
TypeOK ==
    /\ now \in 0..(Hours * Days - 1)
    /\ factory \in Factories
    /\ registered \subseteq Jobs
    /\ enabled \subseteq registered /\ planned \subseteq registered
    /\ left \in [Jobs -> Nat]
    /\ failures \in [Jobs -> 0..FailureCap]
    /\ running \in BOOLEAN /\ signal \in BOOLEAN
    /\ pc \in [Threads -> Pcs] /\ pc[Monitor] \notin {"off", "scan"}
    /\ due \in [Threads -> SUBSET Jobs]
    /\ size \in [Threads -> Nat]
    /\ job \in [Threads -> Jobs \cup {NoJob}]
    /\ good \subseteq Threads
    /\ held \subseteq Threads
    /\ orphans \subseteq Jobs
    /\ \A t \in Threads : (job[t] \in Jobs) <=> (pc[t] \in AtJob)
    /\ \A t \in held : pc[t] = "apply" /\ job[t] \in registered

\* A job that has used up what its failure policy allows is disabled, unless the
\* thread that counted a failure has still to apply the policy: whatever the
\* scheduler and the trigger thread report in between, none of them is lost.
Withdrawn ==
    \A j \in registered \cap enabled :
        \/ failures[j] = 0
        \/ Policy[j] \in {"skip", "alert"}
        \/ Policy[j] = "retry" /\ failures[j] < MaxRetries
        \/ Policy[j] = "disable" /\ failures[j] < DisableAfter
        \/ \E t \in held : job[t] = j /\ t \notin good

\* An enabled interval job always has a next run, and a next run that no retry
\* has set falls inside the job's execution window.
ScheduleIsSound ==
    \A j \in registered :
        /\ Timed(j) /\ j \in enabled => j \in planned
        /\ Policy[j] # "retry" /\ j \in planned /\ left[j] > 0
              => InWindow(j, now + left[j])

LoopUp == running /\ \E l \in Loops : pc[l] # "off"

\* A job that is due does not stay due while a loop is alive: it is run and given
\* another time, or moved to a later one, or disabled, or removed.  A scheduler
\* made without a factory is excused: it passes the job over at every poll.
NoStarvation ==
    \A j \in Jobs :
        (factory = "given" /\ Due(j)) ~> (~Due(j) \/ ~LoopUp)

\* A stopped scheduler's loops come to an end unless it is started again first.
StoppedLoopsEnd == ~running ~> (running \/ \A l \in Loops : pc[l] = "off")

-----------------------------------------------------------------------------
(* What comments, docs and the changelog say, and the code does not do. *)

Started(t, j) == pc[t] = "next" /\ pc'[t] = "run" /\ job'[t] = j

\* scheduler.py:76, "Time window when job is allowed to execute.": no job starts
\* outside its window.
WindowIsKept ==
    [][\A t \in Threads, j \in Jobs : Started(t, j) => InWindow(j, now)]_vars

\* scheduler.py:362, "Stop the scheduler.": nothing is started once it is stopped.
StopStops == [][~running => \A l \in Loops, j \in Jobs : ~Started(l, j)]_vars

\* CHANGELOG.md:68, "mark_completed honors max_retries": a job does not fail more
\* often in a row than its retry budget.
HonoursMaxRetries ==
    \A j \in registered : Policy[j] = "retry" => failures[j] <= MaxRetries

\* executor.py:5, "Executes triggered Jobs safely, enforcing execution budgets":
\* a run reported as over its time budget does not go on.
BudgetEndsTheRun == orphans = {}

\* scheduler.py:88, "trigger: cron:0 7 * * * | ... | once:2024-01-01": registering
\* an enabled once job gives it a next run.
OnceIsPlanned ==
    [][\A j \in Jobs : /\ Kind[j] = "once" /\ j \notin registered
                       /\ j \in registered' /\ j \in enabled'
                       => j \in planned']_vars

\* scheduler.py:181, "Outside window - reschedule to next window": a due job the
\* window keeps from running keeps a next run.
OutsideWindowIsRescheduled ==
    [][\A l \in Loops, j \in Jobs :
          pc[l] = "scan" /\ pc'[l] = "next" /\ Due(j) => j \in planned']_vars
=============================================================================
