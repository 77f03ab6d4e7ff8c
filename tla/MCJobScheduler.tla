--------------------------- MODULE MCJobScheduler ---------------------------
(***************************************************************************)
(* Instances of JobScheduler for TLC.  The week has two days.              *)
(* The name of a job says what it is: an interval job may run in the first *)
(* hour of day 0 only or, with policy SKIP, in a window of day 1 that      *)
(* crosses midnight; the triggered jobs have the policies DISABLE, RETRY.  *)
(***************************************************************************)
EXTENDS JobScheduler, TLC

Symmetry == Permutations(Loops)

KindOf ==
    [retried |-> "interval", skipped |-> "interval", idle |-> "monitored",
     watched |-> "monitored", once |-> "once"]
PolicyOf ==
    [retried |-> "retry", skipped |-> "skip", idle |-> "disable",
     watched |-> "retry", once |-> "retry"]
OpensOf == [retried |-> 0, skipped |-> 2, idle |-> 0, watched |-> 0, once |-> 0]
ClosesOf == [retried |-> 0, skipped |-> 0, idle |-> 0, watched |-> 0, once |-> 1]
DaysOf ==
    [retried |-> {0}, skipped |-> {1}, idle |-> {0, 1}, watched |-> {0, 1}, once |-> {0, 1}]

MCKind == [j \in Jobs |-> KindOf[j]]
MCPolicy == [j \in Jobs |-> PolicyOf[j]]
MCOpensAt == [j \in Jobs |-> OpensOf[j]]
MCClosesAt == [j \in Jobs |-> ClosesOf[j]]
MCOpenDays == [j \in Jobs |-> DaysOf[j]]
MCPeriod == [j \in Jobs |-> 1]
=============================================================================
