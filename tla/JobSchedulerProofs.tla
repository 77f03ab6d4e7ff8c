-------------------------- MODULE JobSchedulerProofs --------------------------
(***************************************************************************)
(* Proofs about JobScheduler, for any set of jobs and of polling threads,  *)
(* any windows and policies, and a week of any length.                     *)
(***************************************************************************)
EXTENDS JobScheduler, FiniteSetTheorems, WellFoundedInduction, TLAPS

-----------------------------------------------------------------------------
(* Arithmetic: quotients, remainders, the least of some numbers.           *)

LEMMA LeastNumber ==
  ASSUME NEW S \in SUBSET Nat, S # {}
  PROVE  \E x \in S : \A y \in S : x <= y
<1> DEFINE R == OpToRel(<, Nat)
<1>1. \A x, y \in Nat : <<y, x>> \in R <=> y < x
  BY DEF OpToRel
<1>2. IsWellFoundedOn(R, Nat)
  BY NatLessThanWellFounded
<1> HIDE DEF R
<1>3. \E x \in S : \A y \in S : <<y, x>> \notin R
  BY <1>2, WFMin, Zenon
<1>4. PICK x \in S : \A y \in S : <<y, x>> \notin R
  BY <1>3
<1>5. ASSUME NEW y \in S PROVE x <= y
  <2>1. x \in Nat /\ y \in Nat
    OBVIOUS
  <2>2. ~(y < x)
    BY <1>1, <1>4, <2>1, Zenon
  <2>. QED BY <2>1, <2>2
<1>. QED BY <1>5

LEMMA Division ==
  ASSUME NEW t \in Nat, NEW n \in Nat \ {0}
  PROVE  /\ t \div n \in Nat /\ t % n \in 0..(n - 1)
         /\ t = n * (t \div n) + (t % n)
OBVIOUS

LEMMA NextMultiple ==
  ASSUME NEW n \in Nat \ {0}, NEW q \in Int, NEW p \in Int, q < p
  PROVE  n * q + n <= n * p
<1>1. n * (p - q) >= n * 1
  OBVIOUS
<1>. QED BY <1>1

LEMMA DivisionIsUnique ==
  ASSUME NEW n \in Nat \ {0}, NEW q \in Nat, NEW r \in 0..(n - 1)
  PROVE  (n * q + r) \div n = q /\ (n * q + r) % n = r
<1> DEFINE t == n * q + r
<1>1. t \in Nat
  OBVIOUS
<1>2. t \div n \in Nat /\ t % n \in 0..(n - 1) /\ t = n * (t \div n) + (t % n)
  BY <1>1, Division
<1>3. ~ (t \div n < q)
  BY <1>2, NextMultiple
<1>4. ~ (q < t \div n)
  BY <1>2, NextMultiple
<1>. QED BY <1>2, <1>3, <1>4

-----------------------------------------------------------------------------
(* The calendar: hours of the day, days of the week, execution windows.    *)

\* The hour r of day q of all days.
LEMMA HourOfDay ==
  ASSUME NEW q \in Nat, NEW r \in 0..(Hours - 1)
  PROVE  /\ Hours * q + r \in Nat
         /\ Clock(Hours * q + r) = r
         /\ Weekday(Hours * q + r) = q % Days
<1>1. Hours \in Nat \ {0}
  BY JobSchedulerAssumption
<1>2. (Hours * q + r) \div Hours = q /\ (Hours * q + r) % Hours = r
  BY <1>1, DivisionIsUnique
<1>3. Hours * q + r \in Nat
  BY <1>1
<1>. QED BY <1>2, <1>3 DEF Clock, Weekday

LEMMA TimeIsAnHourOfADay ==
  ASSUME NEW t \in Nat
  PROVE  \E q \in Nat, r \in 0..(Hours - 1) : t = Hours * q + r
<1>1. Hours \in Nat \ {0}
  BY JobSchedulerAssumption
<1>2. /\ t \div Hours \in Nat /\ t % Hours \in 0..(Hours - 1)
      /\ t = Hours * (t \div Hours) + (t % Hours)
  BY <1>1, Division
<1>. QED BY <1>2

\* Every weekday comes within Days days.
LEMMA WeekdayComes ==
  ASSUME NEW q \in Nat, NEW d \in 0..(Days - 1)
  PROVE  \E n \in 1..Days : (q + n) % Days = d
<1> DEFINE a == q \div Days
           b == q % Days
<1>1. a \in Nat /\ b \in 0..(Days - 1) /\ q = Days * a + b /\ Days \in Nat \ {0}
  BY Division, JobSchedulerAssumption
<1> HIDE DEF a, b
<1>2. CASE d > b
  <2>1. d - b \in 1..Days /\ q + (d - b) = Days * a + d
    BY <1>1, <1>2
  <2>2. (Days * a + d) % Days = d
    BY <1>1, DivisionIsUnique
  <2>. QED BY <2>1, <2>2
<1>3. CASE d <= b
  <2>1. (d - b) + Days \in 1..Days
    BY <1>1, <1>3
  <2>2. q + ((d - b) + Days) = Days * (a + 1) + d
    BY <1>1
  <2>3. (Days * (a + 1) + d) % Days = d
    BY <1>1, DivisionIsUnique
  <2>. QED BY <2>1, <2>2, <2>3
<1>. QED BY <1>1, <1>2, <1>3

\* The week repeats.
LEMMA NextWeekday ==
  ASSUME NEW q \in Nat
  PROVE  (q + Days) % Days = q % Days
<1> DEFINE a == q \div Days
           b == q % Days
<1>1. a \in Nat /\ b \in 0..(Days - 1) /\ q = Days * a + b /\ Days \in Nat \ {0}
  BY Division, JobSchedulerAssumption
<1> HIDE DEF a, b
<1>2. q + Days = Days * (a + 1) + b
  BY <1>1
<1>3. (Days * (a + 1) + b) % Days = b
  BY <1>1, DivisionIsUnique
<1>. QED BY <1>2, <1>3 DEF b

LEMMA WeekRepeats ==
  ASSUME NEW j, NEW t \in Nat
  PROVE  InWindow(j, Hours * Days + t) <=> InWindow(j, t)
<1>1. PICK q \in Nat, r \in 0..(Hours - 1) : t = Hours * q + r
  BY TimeIsAnHourOfADay
<1>2. Hours * Days + t = Hours * (q + Days) + r
  BY <1>1, JobSchedulerAssumption
<1>3. q + Days \in Nat
  BY JobSchedulerAssumption
<1>4. Clock(Hours * Days + t) = Clock(t)
  BY <1>1, <1>2, <1>3, HourOfDay
<1>5. Weekday(Hours * Days + t) = Weekday(t)
  BY <1>1, <1>2, <1>3, HourOfDay, NextWeekday
<1>. QED BY <1>4, <1>5 DEF InWindow

\* A window is open at the hour it opens, on its days.
LEMMA OpensInWindow ==
  ASSUME NEW j \in Jobs, NEW q \in Nat, q % Days \in OpenDays[j]
  PROVE  InWindow(j, Hours * q + OpensAt[j])
<1>1. OpensAt[j] \in 0..(Hours - 1) /\ ClosesAt[j] \in 0..(Hours - 1) /\ Hours \in Nat \ {0}
  BY JobSchedulerAssumption
<1>2. /\ Clock(Hours * q + OpensAt[j]) = OpensAt[j]
      /\ Weekday(Hours * q + OpensAt[j]) = q % Days
  BY <1>1, HourOfDay
<1>. QED BY <1>1, <1>2 DEF InWindow

\* _next_window_start finds a later time, and one inside the window.
LEMMA NextWindowStartIsInWindow ==
  ASSUME NEW j \in Jobs, NEW t \in Nat
  PROVE  /\ NextWindowStart(j, t) \in Nat
         /\ NextWindowStart(j, t) > t
         /\ InWindow(j, NextWindowStart(j, t))
<1>1. OpensAt[j] \in 0..(Hours - 1) /\ Hours \in Nat \ {0} /\ Days \in Nat \ {0}
  BY JobSchedulerAssumption
<1>2. PICK q \in Nat, r \in 0..(Hours - 1) : t = Hours * q + r
  BY TimeIsAnHourOfADay
<1>3. Clock(t) = r /\ Weekday(t) = q % Days
  BY <1>2, HourOfDay
<1>4. CASE Clock(t) < OpensAt[j] /\ Weekday(t) \in OpenDays[j]
  <2>1. NextWindowStart(j, t) = t + (OpensAt[j] - Clock(t))
    BY <1>4 DEF NextWindowStart
  <2>2. NextWindowStart(j, t) = Hours * q + OpensAt[j] /\ NextWindowStart(j, t) > t
    BY <1>1, <1>2, <1>3, <1>4, <2>1
  <2>3. InWindow(j, Hours * q + OpensAt[j])
    BY <1>3, <1>4, OpensInWindow
  <2>. QED BY <1>1, <2>2, <2>3
<1>5. CASE ~(Clock(t) < OpensAt[j] /\ Weekday(t) \in OpenDays[j])
  <2> DEFINE ahead == {n \in 1..Days : Weekday(t + n * Hours) \in OpenDays[j]}
             first == CHOOSE n \in ahead : \A m \in ahead : n <= m
  <2>1. \A n \in Nat : t + n * Hours = Hours * (q + n) + r
    BY <1>1, <1>2
  <2>2. \A n \in Nat : Weekday(t + n * Hours) = (q + n) % Days
    BY <2>1, HourOfDay
  <2>3. ahead # {}
    <3>1. PICK d \in 0..(Days - 1) : d \in OpenDays[j]
      BY JobSchedulerAssumption
    <3>2. PICK n \in 1..Days : (q + n) % Days = d
      BY WeekdayComes
    <3>3. n \in Nat
      BY <1>1
    <3>4. Weekday(t + n * Hours) \in OpenDays[j]
      BY <2>2, <3>1, <3>2, <3>3, Zenon
    <3>. QED BY <3>4, Zenon
  <2>4. first \in ahead
    <3>1. ahead \in SUBSET Nat
      BY <1>1
    <3>2. \E n \in ahead : \A m \in ahead : n <= m
      BY <2>3, <3>1, LeastNumber
    <3>. QED BY <3>2
  <2> HIDE DEF first
  <2>5. first \in Nat /\ first \in 1..Days /\ (q + first) % Days \in OpenDays[j]
    <3>1. first \in 1..Days /\ Weekday(t + first * Hours) \in OpenDays[j]
      BY <2>4, Zenon
    <3>2. first \in Nat
      BY <1>1, <3>1
    <3>. QED BY <2>2, <3>1, <3>2, Zenon
  <2>6. NextWindowStart(j, t) = t + first * Hours - Clock(t) + OpensAt[j]
    BY <1>5 DEF NextWindowStart, first
  <2>7. NextWindowStart(j, t) = Hours * (q + first) + OpensAt[j]
    BY <1>1, <1>2, <1>3, <2>5, <2>6
  <2>8. Hours * q + Hours <= Hours * (q + first)
    BY <1>1, <2>5, NextMultiple
  <2>9. NextWindowStart(j, t) > t /\ NextWindowStart(j, t) \in Nat
    BY <1>1, <1>2, <2>5, <2>7, <2>8
  <2>10. InWindow(j, Hours * (q + first) + OpensAt[j])
    <3>1. q + first \in Nat
      BY <2>5
    <3>. QED BY <2>5, <3>1, OpensInWindow, Zenon
  <2>. QED BY <2>7, <2>9, <2>10
<1>. QED BY <1>4, <1>5

\* The next run of an interval job is later than now and inside its window.
LEMMA NextRunIsInWindow ==
  ASSUME NEW j \in Jobs, now \in Nat
  PROVE  NextRun(j) \in Nat \ {0} /\ InWindow(j, now + NextRun(j))
<1> DEFINE t == now + Period[j]
<1>1. Period[j] \in Nat \ {0} /\ t \in Nat /\ t > now
  BY JobSchedulerAssumption
<1>2. CASE InWindow(j, t)
  <2>1. NextRun(j) = t - now
    BY <1>2 DEF NextRun
  <2>. QED BY <1>1, <1>2, <2>1
<1>3. CASE ~InWindow(j, t)
  <2>1. NextRun(j) = NextWindowStart(j, t) - now
    BY <1>3 DEF NextRun
  <2> HIDE DEF t
  <2>2. /\ NextWindowStart(j, t) \in Nat /\ NextWindowStart(j, t) > t
        /\ InWindow(j, NextWindowStart(j, t))
    BY <1>1, NextWindowStartIsInWindow
  <2>3. now + NextRun(j) = NextWindowStart(j, t)
    BY <2>1, <2>2
  <2>. QED BY <1>1, <2>1, <2>2, <2>3
<1>. QED BY <1>2, <1>3

-----------------------------------------------------------------------------
(* Types.                                                                  *)

LEMMA WeekIsPositive == Hours * Days \in Nat \ {0}
<1>1. Hours \in Nat \ {0} /\ Days \in Nat \ {0}
  BY JobSchedulerAssumption
<1>. QED BY <1>1

LEMMA InitTyped == Init => TypeOK
<1> SUFFICES ASSUME Init PROVE TypeOK
  OBVIOUS
<1>1. failures \in [Jobs -> 0..FailureCap] /\ left \in [Jobs -> Nat]
  BY JobSchedulerAssumption DEF Init
<1>2. /\ pc \in [Threads -> Pcs] /\ pc[Monitor] \notin {"off", "scan"}
      /\ \A t \in Threads : pc[t] \notin AtJob
  BY DEF Init, Threads, Pcs, AtJob
<1>3. /\ due \in [Threads -> SUBSET Jobs] /\ size \in [Threads -> Nat]
      /\ job \in [Threads -> Jobs \cup {NoJob}] /\ \A t \in Threads : job[t] \notin Jobs
  BY JobSchedulerAssumption DEF Init
<1>. QED BY <1>1, <1>2, <1>3 DEF Init, TypeOK

\* What _schedule_next does to the two variables it changes.
LEMMA ScheduleNextTyped ==
  ASSUME TypeOK, NEW js \in SUBSET Jobs, ScheduleNext(js)
  PROVE  /\ left' \in [Jobs -> Nat]
         /\ planned' = (planned \ js) \cup {j \in js : Timed(j)}
         /\ \A j \in js : Timed(j) => left'[j] > 0 /\ InWindow(j, now + left'[j])
         /\ \A j \in js : ~Timed(j) => left'[j] = 0
         /\ \A j \in Jobs \ js : left'[j] = left[j]
<1>1. now \in Nat /\ left \in [Jobs -> Nat]
  BY WeekIsPositive DEF TypeOK
<1>2. \A j \in Jobs : NextRun(j) \in Nat \ {0} /\ InWindow(j, now + NextRun(j))
  BY <1>1, NextRunIsInWindow
<1>. QED BY <1>1, <1>2 DEF ScheduleNext

LEMMA NextTyped == TypeOK /\ [Next]_vars => TypeOK'
<1> SUFFICES ASSUME TypeOK, [Next]_vars PROVE TypeOK'
  OBVIOUS
<1> USE DEF TypeOK, jobVars, threadVars
<1>1. CASE UNCHANGED vars
  BY <1>1 DEF vars
<1>2. CASE Tick
  <2>1. (now + 1) % (Hours * Days) \in 0..(Hours * Days - 1)
    BY WeekIsPositive
  <2>2. left' \in [Jobs -> Nat]
    BY <1>2 DEF Tick
  <2>. QED BY <1>2, <2>1, <2>2 DEF Tick
<1>3. CASE Stop \/ Notice
  BY <1>3 DEF Stop, Notice
<1>4. ASSUME NEW j \in Jobs, Register(j) PROVE TypeOK'
  <2>1. left' \in [Jobs -> Nat] /\ planned' \subseteq registered' /\ enabled' \subseteq registered'
    <3>1. CASE enabled' = enabled \cup {j} /\ ScheduleNext({j})
      BY <1>4, <3>1, ScheduleNextTyped DEF Register
    <3>2. CASE /\ enabled' = enabled \ {j}
               /\ planned' = planned \ {j} /\ left' = [left EXCEPT ![j] = 0]
      BY <1>4, <3>2 DEF Register
    <3>. QED BY <1>4, <3>1, <3>2 DEF Register
  <2>2. /\ registered' = registered \cup {j} /\ failures' = [failures EXCEPT ![j] = 0]
        /\ held' = {t \in held : job[t] # j}
        /\ UNCHANGED <<now, factory, running, signal, pc, due, size, job, good, orphans>>
    BY <1>4 DEF Register
  <2>3. failures' \in [Jobs -> 0..FailureCap]
    BY <2>2, JobSchedulerAssumption
  <2>. QED BY <2>1, <2>2, <2>3
<1>5. ASSUME NEW j \in Jobs, Unregister(j) PROVE TypeOK'
  BY <1>5, JobSchedulerAssumption DEF Unregister, Threads
<1>6. ASSUME NEW j \in Jobs, OrphanEnds(j) PROVE TypeOK'
  BY <1>6 DEF OrphanEnds
<1>7. ASSUME NEW l \in Loops, Start(l) PROVE TypeOK'
  BY <1>7, JobSchedulerAssumption DEF Start, Threads, Pcs, AtJob
<1>8. ASSUME NEW l \in Loops, LoopTop(l) \/ ScanRaises(l) PROVE TypeOK'
  <2>1. Cardinality(registered) \in Nat
    BY JobSchedulerAssumption, FS_Subset, FS_CardinalityType
  <2>2. /\ size' \in [Threads -> Nat]
        /\ \E to \in {"scan", "off"} : pc' = [pc EXCEPT ![l] = to]
        /\ pc[l] \in {"top", "scan"}
        /\ UNCHANGED <<now, factory, jobVars, running, signal, due, job, good, held, orphans>>
    BY <1>8, <2>1 DEF LoopTop, ScanRaises, Threads
  <2>. QED BY <2>2, JobSchedulerAssumption DEF Threads, Pcs, AtJob
<1>9. ASSUME NEW l \in Loops, GetDueJobs(l) PROVE TypeOK'
  <2> DEFINE missed == {j \in {i \in Jobs : Due(i)} : ~InWindow(j, now)}
  <2>1. ScheduleNext(missed) /\ missed \in SUBSET registered
    BY <1>9 DEF GetDueJobs, Due
  <2> HIDE DEF missed
  <2>2. left' \in [Jobs -> Nat] /\ planned' \subseteq registered'
    BY <1>9, <2>1, ScheduleNextTyped DEF GetDueJobs
  <2>3. due' \in [Threads -> SUBSET Jobs]
    BY <1>9 DEF GetDueJobs, Threads
  <2>. QED BY <1>9, <2>2, <2>3, JobSchedulerAssumption DEF GetDueJobs, Threads, Pcs, AtJob
<1>10. ASSUME NEW l \in Loops, ExecuteJob(l) \/ ListDone(l) PROVE TypeOK'
  BY <1>10, JobSchedulerAssumption DEF ExecuteJob, ListDone, Threads, Pcs, AtJob
<1>11. ASSUME NEW t \in Threads, RunEnds(t) PROVE TypeOK'
  BY <1>11 DEF RunEnds, Pcs, AtJob
<1>12. ASSUME NEW t \in Threads, Count(t) PROVE TypeOK'
  <2>1. pc[t] = "count" /\ job[t] \in Jobs
    BY <1>12 DEF Count, AtJob
  <2>2. failures' \in [Jobs -> 0..FailureCap]
    BY <1>12, <2>1, JobSchedulerAssumption DEF Count
  <2>3. CASE job[t] \notin registered
    <3>1. /\ pc' = [pc EXCEPT ![t] = "next"] /\ job' = [job EXCEPT ![t] = NoJob]
          /\ good' = good \ {t}
          /\ UNCHANGED <<failures, held, now, factory, registered, enabled, planned, left, running,
                         signal, due, size, orphans>>
      BY <1>12, <2>3 DEF Count
    <3>2. t \notin held
      BY <2>1
    <3>. QED BY <2>1, <3>1, <3>2, JobSchedulerAssumption DEF Pcs, AtJob
  <2>4. CASE job[t] \in registered
    <3>1. /\ pc' = [pc EXCEPT ![t] = "apply"] /\ held' = held \cup {t}
          /\ UNCHANGED <<job, good, now, factory, registered, enabled, planned, left, running, signal,
                         due, size, orphans>>
      BY <1>12, <2>4 DEF Count
    <3>. QED BY <2>1, <2>2, <2>4, <3>1 DEF Pcs, AtJob
  <2>. QED BY <2>3, <2>4
<1>13. ASSUME NEW t \in Threads, Apply(t) PROVE TypeOK'
  <2>1. pc[t] = "apply" /\ Reported(t)
    BY <1>13 DEF Apply
  <2>2. /\ left' \in [Jobs -> Nat]
        /\ planned' \subseteq registered /\ enabled' \subseteq registered
    <3>1. CASE t \notin held
      BY <1>13, <3>1 DEF Apply
    <3>2. CASE t \in held
      <4>1. job[t] \in registered
        BY <3>2
      <4>2. enabled' \subseteq registered
        BY <1>13, <3>2 DEF Apply, Withdraw
      <4>3. CASE RetryLater(job[t])
        BY <4>1, <4>2, <4>3, JobSchedulerAssumption DEF RetryLater
      <4>4. CASE ScheduleNext({job[t]})
        BY <4>1, <4>2, <4>4, ScheduleNextTyped
      <4>. QED BY <1>13, <3>2, <4>3, <4>4 DEF Apply
    <3>. QED BY <3>1, <3>2
  <2>. QED BY <2>1, <2>2, JobSchedulerAssumption DEF Reported, Pcs, AtJob
<1>14. CASE TriggerJobs
  <2>1. Cardinality(registered) \in Nat
    BY JobSchedulerAssumption, FS_Subset, FS_CardinalityType
  <2>. QED BY <1>14, <2>1 DEF TriggerJobs, Threads, Pcs, AtJob
<1>15. ASSUME NEW j \in Jobs, TriggerJob(j) PROVE TypeOK'
  BY <1>15 DEF TriggerJob, Threads, Pcs, AtJob
<1>16. CASE TriggerDone \/ TriggerRaises
  <2>1. /\ pc[Monitor] = "next" /\ pc' = [pc EXCEPT ![Monitor] = "top"]
        /\ due' = [due EXCEPT ![Monitor] = {}] /\ size' = [size EXCEPT ![Monitor] = 0]
        /\ signal' \in BOOLEAN
        /\ UNCHANGED <<now, factory, jobVars, running, job, good, held, orphans>>
    BY <1>16 DEF TriggerDone, TriggerRaises
  <2>. QED BY <2>1 DEF Threads, Pcs, AtJob
<1>17. CASE RunTimesOut
  BY <1>17 DEF RunTimesOut, Threads, Pcs, AtJob
<1>18. Monitor \in Threads /\ Loops \subseteq Threads
  BY DEF Threads
<1>. QED
  BY <1>1, <1>2, <1>3, <1>4, <1>5, <1>6, <1>7, <1>8, <1>9, <1>10, <1>11, <1>12, <1>13, <1>14,
     <1>15, <1>16, <1>17, <1>18 DEF Next, Loop, Trigger

\* Only a registered job is enabled or planned, and a thread that reports a job
\* holds the registered one, whatever is registered and unregistered meanwhile.
THEOREM TypeCorrect == Spec => []TypeOK
BY InitTyped, NextTyped, PTL DEF Spec

-----------------------------------------------------------------------------
(* Failures and the policies that withdraw a job.                          *)

\* What Withdrawn leaves to the thread that still holds the job.
Within(j) ==
    \/ failures[j] = 0
    \/ Policy[j] \in {"skip", "alert"}
    \/ Policy[j] = "retry" /\ failures[j] < MaxRetries
    \/ Policy[j] = "disable" /\ failures[j] < DisableAfter

Pending(j) == \E t \in held : job[t] = j /\ t \notin good

LEMMA WithdrawnIs == Withdrawn <=> \A j \in registered \cap enabled : Within(j) \/ Pending(j)
BY DEF Withdrawn, Within, Pending

\* A failure that does not exhaust the policy leaves the job within it.
LEMMA NotExhausted ==
  ASSUME TypeOK, NEW j \in Jobs, ~Exhausted(j)
  PROVE  Within(j)
<1>1. Policy[j] \in {"retry", "skip", "disable", "alert"} /\ failures[j] \in Nat
  BY JobSchedulerAssumption DEF TypeOK
<1>2. MaxRetries \in Nat
  BY JobSchedulerAssumption
<1>. QED BY <1>1, <1>2 DEF Exhausted, Within, DisableAfter

\* Steps that count nothing and leave the threads holding a job alone.
LEMMA NothingCounted ==
  ASSUME TypeOK, Withdrawn, enabled' \cap registered' \subseteq enabled \cap registered,
         failures' = failures, held \subseteq held',
         \A t \in held : job'[t] = job[t] /\ (t \in good' => t \in good)
  PROVE  Withdrawn'
<1> SUFFICES ASSUME NEW j \in (registered \cap enabled)'
             PROVE  (Within(j) \/ Pending(j))'
  BY DEF Withdrawn, Within, Pending
<1>1. Within(j) \/ Pending(j)
  BY WithdrawnIs
<1>2. Within(j) => Within(j)'
  BY DEF Within
<1>3. Pending(j) => Pending(j)'
  BY DEF Pending
<1>. QED BY <1>1, <1>2, <1>3

LEMMA NextWithdraws == TypeOK /\ Withdrawn /\ [Next]_vars => Withdrawn'
<1> SUFFICES ASSUME TypeOK, Withdrawn, [Next]_vars PROVE Withdrawn'
  OBVIOUS
<1>0. \A t \in held : pc[t] = "apply" /\ job[t] \in registered /\ job[t] \in Jobs
  BY DEF TypeOK
<1>1. CASE UNCHANGED vars \/ Tick \/ Stop \/ Notice
  BY <1>1, NothingCounted DEF vars, jobVars, threadVars, Tick, Stop, Notice
<1>2. ASSUME NEW j \in Jobs, Register(j) \/ Unregister(j) PROVE Withdrawn'
  <2>1. /\ failures' = [failures EXCEPT ![j] = 0]
        /\ held' = {t \in held : job[t] # j}
        /\ registered' \ {j} = registered \ {j} /\ enabled' \ {j} = enabled \ {j}
        /\ UNCHANGED <<job, good>>
    BY <1>2 DEF Register, Unregister, ScheduleNext
  <2>2. failures \in [Jobs -> Nat] /\ registered \subseteq Jobs /\ registered' \subseteq Jobs
    BY <1>2, JobSchedulerAssumption DEF TypeOK, Register, Unregister
  <2>3. ASSUME NEW i \in (registered \cap enabled)' PROVE (Within(i) \/ Pending(i))'
    <3>1. CASE i = j
      BY <2>1, <2>2, <3>1 DEF Within
    <3>2. CASE i # j
      <4>1. Within(i) \/ Pending(i)
        BY <2>1, <3>2, WithdrawnIs
      <4>2. Within(i) => Within(i)'
        BY <2>1, <2>2, <3>2 DEF Within
      <4>3. Pending(i) => Pending(i)'
        BY <2>1, <3>2 DEF Pending
      <4>. QED BY <4>1, <4>2, <4>3
    <3>. QED BY <3>1, <3>2
  <2>. QED BY <2>3 DEF Withdrawn, Within, Pending
<1>3. ASSUME NEW j \in Jobs, OrphanEnds(j) PROVE Withdrawn'
  BY <1>3, NothingCounted DEF OrphanEnds, jobVars
<1>4. ASSUME NEW l \in Loops,
             Start(l) \/ LoopTop(l) \/ ScanRaises(l) \/ GetDueJobs(l) \/ ListDone(l)
      PROVE  Withdrawn'
  BY <1>4, NothingCounted DEF Start, LoopTop, ScanRaises, GetDueJobs, ListDone, jobVars
<1>5. ASSUME NEW l \in Loops, ExecuteJob(l) PROVE Withdrawn'
  <2>1. pc[l] = "next" /\ \A t \in Threads : t # l => job'[t] = job[t]
    BY <1>5 DEF ExecuteJob, TypeOK
  <2>2. \A t \in held : t \in Threads /\ t # l
    BY <1>0, <2>1 DEF TypeOK
  <2>. QED BY <1>5, <2>1, <2>2, NothingCounted DEF ExecuteJob, jobVars
<1>6. ASSUME NEW t \in Threads, RunEnds(t) PROVE Withdrawn'
  <2>1. pc[t] = "run" /\ good' \subseteq good \cup {t}
        /\ UNCHANGED <<jobVars, job, held>>
    BY <1>6 DEF RunEnds
  <2>2. t \notin held
    BY <1>0, <2>1
  <2>. QED BY <2>1, <2>2, NothingCounted DEF jobVars
<1>7. ASSUME NEW t \in Threads, Count(t) PROVE Withdrawn'
  <2>1. pc[t] = "count" /\ job[t] \in Jobs /\ t \notin held
    BY <1>0, <1>7 DEF Count, AtJob, TypeOK
  <2>2. CASE job[t] \notin registered
    <3>1. /\ job' = [job EXCEPT ![t] = NoJob] /\ good' = good \ {t}
          /\ UNCHANGED <<failures, held, registered, enabled>>
      BY <1>7, <2>2 DEF Count
    <3>2. \A s \in held : job'[s] = job[s]
      BY <2>1, <3>1 DEF TypeOK
    <3>. QED BY <3>1, <3>2, NothingCounted
  <2>3. CASE job[t] \in registered
    <3>1. /\ failures' = [failures EXCEPT ![job[t]] =
                            CASE t \in good -> 0
                              [] t \notin good /\ @ < FailureCap -> @ + 1
                              [] OTHER -> @]
          /\ held' = held \cup {t}
          /\ UNCHANGED <<job, good, registered, enabled>>
      BY <1>7, <2>3 DEF Count
    <3>2. ASSUME NEW i \in (registered \cap enabled)' PROVE (Within(i) \/ Pending(i))'
      <4>1. i \in Jobs /\ (Within(i) \/ Pending(i))
        BY <3>1, WithdrawnIs DEF TypeOK
      <4>2. Pending(i) => Pending(i)'
        BY <3>1 DEF Pending
      <4>3. CASE i # job[t]
        <5>1. failures'[i] = failures[i]
          BY <3>1, <4>3, <4>1 DEF TypeOK
        <5>2. Within(i) => Within(i)'
          BY <5>1 DEF Within
        <5>. QED BY <4>1, <4>2, <5>2
      <4>4. CASE i = job[t] /\ t \in good
        <5>1. failures'[i] = 0
          BY <2>1, <3>1, <4>4 DEF TypeOK
        <5>. QED BY <5>1 DEF Within
      <4>5. CASE i = job[t] /\ t \notin good
        BY <3>1, <4>5 DEF Pending
      <4>. QED BY <4>3, <4>4, <4>5
    <3>. QED BY <3>2 DEF Withdrawn, Within, Pending
  <2>. QED BY <2>2, <2>3
<1>8. ASSUME NEW t \in Threads, Apply(t) PROVE Withdrawn'
  <2>1. /\ job' = [job EXCEPT ![t] = NoJob] /\ good' = good \ {t} /\ held' = held \ {t}
        /\ UNCHANGED <<registered, failures>>
    BY <1>8 DEF Apply, Reported
  <2>2. \A s \in held : s # t => job'[s] = job[s]
    BY <2>1 DEF TypeOK
  <2>3. CASE t \notin held
    BY <1>8, <2>1, <2>2, <2>3, NothingCounted DEF Apply
  <2>4. CASE t \in held
    <3>1. enabled' = IF t \notin good /\ Exhausted(job[t]) THEN enabled \ {job[t]} ELSE enabled
      BY <1>8, <2>4 DEF Apply, Withdraw
    <3>2. ASSUME NEW i \in (registered \cap enabled)' PROVE (Within(i) \/ Pending(i))'
      <4>1. i \in Jobs /\ i \in registered \cap enabled
        BY <2>1, <3>1 DEF TypeOK
      <4>2. Within(i) \/ Pending(i)
        BY <4>1, WithdrawnIs
      <4>3. Within(i) => Within(i)'
        BY <2>1 DEF Within
      <4>4. CASE i = job[t] /\ t \notin good
        <5>1. ~Exhausted(i)
          BY <3>1, <4>4
        <5>. QED BY <4>1, <4>3, <5>1, NotExhausted
      <4>5. CASE ~(i = job[t] /\ t \notin good)
        <5>1. Pending(i) => Pending(i)'
          BY <2>1, <2>2, <4>5 DEF Pending
        <5>. QED BY <4>2, <4>3, <5>1
      <4>. QED BY <4>4, <4>5
    <3>. QED BY <3>2 DEF Withdrawn, Within, Pending
  <2>. QED BY <2>3, <2>4
<1>9. CASE TriggerJobs \/ TriggerDone \/ TriggerRaises
  BY <1>9, NothingCounted DEF TriggerJobs, TriggerDone, TriggerRaises, jobVars
<1>10. ASSUME NEW j \in Jobs, TriggerJob(j) PROVE Withdrawn'
  <2>1. /\ pc[Monitor] = "next" /\ good' \subseteq good
        /\ \A t \in Threads : t # Monitor => job'[t] = job[t]
        /\ UNCHANGED <<jobVars, held>>
    BY <1>10 DEF TriggerJob, TypeOK
  <2>2. \A t \in held : t \in Threads /\ t # Monitor
    BY <1>0, <2>1 DEF TypeOK
  <2>. QED BY <2>1, <2>2, NothingCounted DEF jobVars
<1>11. CASE RunTimesOut
  <2>1. /\ good' \subseteq good /\ UNCHANGED <<jobVars, job, held>>
    BY <1>11 DEF RunTimesOut
  <2>. QED BY <2>1, NothingCounted DEF jobVars
<1>12. Monitor \in Threads /\ Loops \subseteq Threads
  BY DEF Threads
<1>. QED
  BY <1>1, <1>2, <1>3, <1>4, <1>5, <1>6, <1>7, <1>8, <1>9, <1>10, <1>11, <1>12
     DEF Next, Loop, Trigger

\* A job that failed as often as its policy allows is disabled, or is about to be
\* by the thread that counted the failure: mark_completed of the polling threads
\* and of the trigger thread, interleaved in any way, loses no withdrawal.
THEOREM WithdrawnAlways == Spec => []Withdrawn
<1>1. Init => Withdrawn
  BY DEF Init, Withdrawn
<1>. QED BY <1>1, TypeCorrect, NextWithdraws, PTL DEF Spec

-----------------------------------------------------------------------------
(* The schedule.                                                           *)

\* ScheduleIsSound of one job.
Sound(j) ==
    /\ Timed(j) /\ j \in enabled => j \in planned
    /\ Policy[j] # "retry" /\ j \in planned /\ left[j] > 0 => InWindow(j, now + left[j])

LEMMA ScheduleIs == ScheduleIsSound <=> \A j \in registered : Sound(j)
BY DEF ScheduleIsSound, Sound

\* Steps that move no job's next run.
LEMMA NothingScheduled ==
  ASSUME TypeOK, ScheduleIsSound, UNCHANGED <<now, factory, registered, enabled, planned, left>>
  PROVE  ScheduleIsSound'
BY DEF ScheduleIsSound, Timed, InWindow, Clock, Weekday

\* _schedule_next of some jobs leaves every schedule sound.
LEMMA ScheduleNextIsSound ==
  ASSUME TypeOK, NEW js \in SUBSET Jobs, ScheduleNext(js), now' = now,
         registered' \subseteq Jobs, registered' \ js \subseteq registered,
         enabled' \ js \subseteq enabled, ScheduleIsSound
  PROVE  ScheduleIsSound'
<1>1. /\ planned' = (planned \ js) \cup {j \in js : Timed(j)}
      /\ \A j \in js : Timed(j) => left'[j] > 0 /\ InWindow(j, now + left'[j])
      /\ \A j \in js : ~Timed(j) => left'[j] = 0
      /\ \A j \in Jobs \ js : left'[j] = left[j]
  BY ScheduleNextTyped
<1> SUFFICES ASSUME NEW j \in registered'
             PROVE  /\ Timed(j) /\ j \in enabled' => j \in planned'
                    /\ Policy[j] # "retry" /\ j \in planned' /\ left'[j] > 0
                          => InWindow(j, now + left'[j])
  BY DEF ScheduleIsSound, Timed, InWindow, Clock, Weekday
<1>2. CASE j \in js
  BY <1>1, <1>2
<1>3. CASE j \notin js
  <2>1. Sound(j) /\ j \in Jobs
    BY <1>3, ScheduleIs
  <2>. QED BY <1>1, <1>3, <2>1 DEF Sound
<1>. QED BY <1>2, <1>3

\* The clock goes on: the next runs stay where they are in the week.
LEMMA TickIsSound == TypeOK /\ ScheduleIsSound /\ Tick => ScheduleIsSound'
<1> SUFFICES ASSUME TypeOK, ScheduleIsSound, Tick PROVE ScheduleIsSound'
  OBVIOUS
<1> DEFINE W == Hours * Days
<1>1. /\ W \in Nat \ {0} /\ now \in 0..(W - 1)
  BY WeekIsPositive DEF TypeOK
<1>2. /\ now' = (now + 1) % W
      /\ left' = [j \in Jobs |-> IF left[j] = 0 THEN 0 ELSE left[j] - 1]
      /\ UNCHANGED <<registered, enabled, planned>>
  BY DEF Tick
<1> HIDE DEF W
<1>3. now' = IF now + 1 = W THEN 0 ELSE now + 1
  BY <1>1, <1>2
<1> SUFFICES ASSUME NEW j \in registered
             PROVE  /\ Timed(j) /\ j \in enabled => j \in planned
                    /\ Policy[j] # "retry" /\ j \in planned /\ left'[j] > 0
                          => InWindow(j, now' + left'[j])
  BY <1>2 DEF ScheduleIsSound, Timed, InWindow, Clock, Weekday
<1>4. Sound(j) /\ j \in Jobs /\ left[j] \in Nat
  BY ScheduleIs DEF TypeOK
<1>5. ASSUME Policy[j] # "retry", j \in planned, left'[j] > 0
      PROVE  InWindow(j, now' + left'[j])
  <2>1. left[j] > 0 /\ left'[j] = left[j] - 1
    BY <1>2, <1>4, <1>5
  <2>2. InWindow(j, now + left[j])
    BY <1>4, <1>5, <2>1 DEF Sound
  <2>3. CASE now + 1 = W
    <3>1. now' + left'[j] = left'[j] /\ left'[j] \in Nat /\ now + left[j] = W + left'[j]
      BY <1>1, <1>3, <1>4, <2>1, <2>3
    <3>. QED BY <2>2, <3>1, WeekRepeats DEF W
  <2>4. CASE now + 1 # W
    <3>1. now' + left'[j] = now + left[j]
      BY <1>1, <1>3, <1>4, <2>1, <2>4
    <3>. QED BY <2>2, <3>1
  <2>. QED BY <2>3, <2>4
<1>. QED BY <1>4, <1>5 DEF Sound

LEMMA NextIsSound == TypeOK /\ ScheduleIsSound /\ [Next]_vars => ScheduleIsSound'
<1> SUFFICES ASSUME TypeOK, ScheduleIsSound, [Next]_vars PROVE ScheduleIsSound'
  OBVIOUS
<1>1. CASE UNCHANGED vars \/ Stop \/ Notice
  BY <1>1, NothingScheduled DEF vars, jobVars, Stop, Notice
<1>2. CASE Tick
  BY <1>2, TickIsSound
<1>3. ASSUME NEW j \in Jobs, Register(j) PROVE ScheduleIsSound'
  <2>1. CASE enabled' = enabled \cup {j} /\ ScheduleNext({j})
    BY <1>3, <2>1, ScheduleNextIsSound DEF Register, TypeOK
  <2>2. CASE /\ enabled' = enabled \ {j}
             /\ planned' = planned \ {j} /\ left' = [left EXCEPT ![j] = 0]
    <3>1. registered' = registered \cup {j} /\ now' = now
      BY <1>3 DEF Register
    <3>2. \A i \in registered : i # j => left'[i] = left[i]
      BY <2>2 DEF TypeOK
    <3>. QED BY <2>2, <3>1, <3>2 DEF ScheduleIsSound, Timed, InWindow, Clock, Weekday
  <2>. QED BY <1>3, <2>1, <2>2 DEF Register
<1>4. ASSUME NEW j \in Jobs, Unregister(j) PROVE ScheduleIsSound'
  <2>1. /\ registered' = registered \ {j} /\ now' = now
        /\ enabled' = enabled \ {j} /\ planned' = planned \ {j}
        /\ left' = [left EXCEPT ![j] = 0]
    BY <1>4 DEF Unregister
  <2>2. \A i \in registered : i # j => left'[i] = left[i]
    BY <2>1 DEF TypeOK
  <2>. QED BY <2>1, <2>2 DEF ScheduleIsSound, Timed, InWindow, Clock, Weekday
<1>5. ASSUME NEW j \in Jobs, OrphanEnds(j) \/ TriggerJob(j) PROVE ScheduleIsSound'
  BY <1>5, NothingScheduled DEF OrphanEnds, TriggerJob, jobVars
<1>6. ASSUME NEW l \in Loops,
             Start(l) \/ LoopTop(l) \/ ScanRaises(l) \/ ExecuteJob(l) \/ ListDone(l)
      PROVE  ScheduleIsSound'
  BY <1>6, NothingScheduled DEF Start, LoopTop, ScanRaises, ExecuteJob, ListDone, jobVars
<1>7. ASSUME NEW l \in Loops, GetDueJobs(l) PROVE ScheduleIsSound'
  <2> DEFINE missed == {j \in {i \in Jobs : Due(i)} : ~InWindow(j, now)}
  <2>1. ScheduleNext(missed) /\ missed \in SUBSET Jobs
        /\ UNCHANGED <<now, factory, registered, enabled>>
    BY <1>7 DEF GetDueJobs
  <2> HIDE DEF missed
  <2>. QED BY <2>1, ScheduleNextIsSound DEF TypeOK
<1>8. ASSUME NEW t \in Threads, RunEnds(t) \/ Count(t) PROVE ScheduleIsSound'
  BY <1>8, NothingScheduled DEF RunEnds, Count, jobVars
<1>9. ASSUME NEW t \in Threads, Apply(t) PROVE ScheduleIsSound'
  <2>1. UNCHANGED <<now, factory, registered>>
    BY <1>9 DEF Apply, Reported
  <2>2. CASE t \notin held
    BY <1>9, <2>1, <2>2, NothingScheduled DEF Apply
  <2>3. CASE t \in held
    <3>1. enabled' \subseteq enabled /\ job[t] \in Jobs /\ registered \subseteq Jobs
      BY <1>9, <2>3 DEF Apply, Withdraw, TypeOK
    <3>2. CASE Failed(t, "retry") /\ RetryLater(job[t])
      <4>1. /\ Policy[job[t]] = "retry"
            /\ planned' = planned \cup {job[t]} /\ left' = [left EXCEPT ![job[t]] = Backoff]
        BY <3>2 DEF Failed, RetryLater
      <4>2. \A i \in registered : i # job[t] => left'[i] = left[i]
        BY <3>1, <4>1 DEF TypeOK
      <4>. QED
        BY <2>1, <3>1, <4>1, <4>2 DEF ScheduleIsSound, Timed, InWindow, Clock, Weekday
    <3>3. CASE ScheduleNext({job[t]})
      BY <2>1, <3>1, <3>3, ScheduleNextIsSound
    <3>. QED BY <1>9, <2>3, <3>2, <3>3 DEF Apply
  <2>. QED BY <2>2, <2>3
<1>10. CASE TriggerJobs \/ TriggerDone \/ TriggerRaises \/ RunTimesOut
  BY <1>10, NothingScheduled DEF TriggerJobs, TriggerDone, TriggerRaises, RunTimesOut, jobVars
<1>11. Monitor \in Threads /\ Loops \subseteq Threads
  BY DEF Threads
<1>. QED
  BY <1>1, <1>2, <1>3, <1>4, <1>5, <1>6, <1>7, <1>8, <1>9, <1>10, <1>11
     DEF Next, Loop, Trigger

\* For windows of any hours and days: an enabled interval job keeps a next run,
\* and _schedule_next never plans one outside the job's window, which the passing
\* of time, through the end of the week too, does not change.
THEOREM ScheduleSound == Spec => []ScheduleIsSound
<1>1. Init => ScheduleIsSound
  BY DEF Init, ScheduleIsSound
<1>. QED BY <1>1, TypeCorrect, NextIsSound, PTL DEF Spec
=============================================================================
