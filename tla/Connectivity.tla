---------------------------- MODULE Connectivity ----------------------------
(***************************************************************************)
(* How F.R.I.D.A.Y. knows whether it is online: the network monitor        *)
(* (src/friday/online/network.py), the capability gate that asks it, keeps *)
(* a state of its own and tells its subscribers (online/gate.py), and the  *)
(* gate that classifies capabilities and caches one name resolution        *)
(* (interaction/online_offline_gate.py).                                   *)
(*                                                                         *)
(* The threads are the callers: the gate's monitoring loop, the program    *)
(* that starts the gate or forces a check, and the thread that probes in   *)
(* the background where a NetworkMonitor is used alone (jobs/triggers.py). *)
(***************************************************************************)
EXTENDS Naturals, FiniteSets

CONSTANTS Main,        \* the thread that makes the gate and forces checks
          Loop,        \* the gate's monitoring thread
          Prober,      \* the monitor's background thread
          MaxChanges,  \* bound: how often the network comes or goes
          MaxForced,   \* bound: forced checks
          MaxRounds    \* bound: rounds of the two background loops

Threads == {Main, Loop, Prober}
Steps == {"idle", "asks", "reads", "probe", "probing", "update", "notify",
          "tell_online", "tell_offline", "done", "sleep"}
Requirements == {"local_only", "online_optional", "online_required"}

VARIABLES
  client,       \* who uses the network: "gate" (a gate with its own monitor),
                \* "triggers" (a monitor with a background probe), "classifier"
  net,          \* the network answers
  monitor,      \* NetworkMonitor._state
  state,        \* OnlineCapabilityGate._state
  monitoring,   \* OnlineCapabilityGate._monitoring
  at,           \* at[t]: the step thread t is at
  found,        \* found[t]: what is_online gave t
  told,         \* what the subscriber was last told
  forced,       \* the forced check of Main: [open, up, answer]
  succeeded,    \* some probe has succeeded, or was taken for granted (assume_online)
  cached,       \* OnlineOfflineGate._status: "none", "up" or "down"
  allowed,      \* the last answer of can_execute
  changes, checks, rounds

gateVars == <<state, monitoring, at, found, told, forced>>
cacheVars == <<cached, allowed>>
vars == <<client, net, monitor, gateVars, succeeded, cacheVars, changes, checks, rounds>>

\* The option assume_online makes a monitor that begins online or offline without a
\* probe; a gate makes its own monitor without the option.
Init ==
  /\ client \in {"gate", "triggers", "classifier"}
  /\ net \in BOOLEAN
  /\ monitor \in IF client = "triggers" THEN {"UNKNOWN", "OFFLINE", "ONLINE"} ELSE {"UNKNOWN"}
  /\ state = "unknown"
  /\ monitoring = FALSE
  /\ at = [t \in Threads |-> "idle"]
  /\ found = [t \in Threads |-> FALSE]
  /\ told = "nothing"
  /\ forced = [open |-> FALSE, up |-> FALSE, answer |-> "none"]
  /\ succeeded = (monitor = "ONLINE")
  /\ cached = "none" /\ allowed = "none"
  /\ changes = 0 /\ checks = 0 /\ rounds = 0

Goes(t, from, to) == at[t] = from /\ at' = [at EXCEPT ![t] = to]

\* The network comes or goes; a forced check is "up" while it never went.
NetworkChanges ==
  /\ changes < MaxChanges
  /\ net' = ~net
  /\ forced' = [forced EXCEPT !.up = FALSE]
  /\ changes' = changes + 1
  /\ UNCHANGED <<client, monitor, state, monitoring, at, found, told, succeeded, cacheVars, checks, rounds>>

(***************************************************************************)
(* NetworkMonitor.                                                         *)
(***************************************************************************)

\* A trigger uses the answer of is_online at once, the gate goes on with it.
AfterAsking == IF client = "gate" THEN "update" ELSE "done"

TriggerAsks ==
  /\ client = "triggers" /\ checks < MaxForced
  /\ Goes(Main, "idle", "asks")
  /\ checks' = checks + 1
  /\ UNCHANGED <<client, net, monitor, state, monitoring, found, told, forced, succeeded,
                 cacheVars, changes, rounds>>

\* is_online reads the state without the lock: only a monitor that has never
\* probed is probed now.
AsksMonitor(t) ==
  /\ at[t] = "asks"
  /\ at' = [at EXCEPT ![t] = IF monitor = "UNKNOWN" THEN "probe" ELSE "reads"]
  /\ UNCHANGED <<client, net, monitor, state, monitoring, found, told, forced, succeeded,
                 cacheVars, changes, checks, rounds>>

\* Mutant: a state that is not yet known counts as a network that answers.
ReadsNotOffline(t) ==
  /\ Goes(t, "reads", AfterAsking)
  /\ found' = [found EXCEPT ![t] = (monitor # "OFFLINE")]
  /\ UNCHANGED <<client, net, monitor, state, monitoring, told, forced, succeeded,
                 cacheVars, changes, checks, rounds>>

\* The state is read again, under the lock: while another thread probes, it is
\* PROBING, which is not online.
ReadsState(t) ==
  /\ Goes(t, "reads", AfterAsking)
  /\ found' = [found EXCEPT ![t] = (monitor = "ONLINE")]
  /\ UNCHANGED <<client, net, monitor, state, monitoring, told, forced, succeeded,
                 cacheVars, changes, checks, rounds>>

BeginsProbe(t) ==
  /\ Goes(t, "probe", "probing")
  /\ monitor' = "PROBING"
  /\ UNCHANGED <<client, net, state, monitoring, found, told, forced, succeeded,
                 cacheVars, changes, checks, rounds>>

\* One of the urls answers, or none does before its timeout.
EndsProbe(t) ==
  /\ at[t] = "probing"
  /\ monitor' = IF net THEN "ONLINE" ELSE "OFFLINE"
  /\ succeeded' = (succeeded \/ net)
  /\ found' = [found EXCEPT ![t] = net]
  /\ at' = [at EXCEPT ![t] = IF t = Prober THEN "sleep" ELSE AfterAsking]
  /\ UNCHANGED <<client, net, state, monitoring, told, forced, cacheVars, changes, checks, rounds>>

\* start_background_probing's loop checks whatever the state is.
ProbesAgain ==
  /\ client = "triggers" /\ at[Prober] \in {"idle", "sleep"} /\ rounds < MaxRounds
  /\ at' = [at EXCEPT ![Prober] = "probe"]
  /\ rounds' = rounds + 1
  /\ UNCHANGED <<client, net, monitor, state, monitoring, found, told, forced, succeeded,
                 cacheVars, changes, checks>>

(***************************************************************************)
(* OnlineCapabilityGate.                                                   *)
(***************************************************************************)

\* start_monitoring starts the loop's thread and makes a first check itself.
StartsMonitoring ==
  /\ client = "gate" /\ ~monitoring /\ at[Main] = "idle" /\ at[Loop] = "idle"
  /\ monitoring' = TRUE
  /\ at' = [at EXCEPT ![Main] = "asks", ![Loop] = "asks"]
  /\ UNCHANGED <<client, net, monitor, state, found, told, forced, succeeded, cacheVars,
                 changes, checks, rounds>>

\* stop_monitoring waits two seconds for the thread, not for its end.
StopsMonitoring ==
  /\ monitoring /\ at[Main] = "idle"
  /\ monitoring' = FALSE
  /\ UNCHANGED <<client, net, monitor, state, at, found, told, forced, succeeded, cacheVars,
                 changes, checks, rounds>>

ForcesCheck ==
  /\ client = "gate" /\ at[Main] = "idle" /\ checks < MaxForced
  /\ at' = [at EXCEPT ![Main] = "asks"]
  /\ forced' = [open |-> TRUE, up |-> net, answer |-> "none"]
  /\ checks' = checks + 1
  /\ UNCHANGED <<client, net, monitor, state, monitoring, found, told, succeeded, cacheVars,
                 changes, rounds>>

\* _check_and_update under the lock: only a change is to be told.
Updates(t) ==
  /\ at[t] = "update"
  /\ LET new == IF found[t] THEN "online" ELSE "offline"
     IN  /\ state' = new
         /\ at' = [at EXCEPT ![t] = IF state # new THEN "notify" ELSE "done"]
  /\ UNCHANGED <<client, net, monitor, monitoring, found, told, forced, succeeded, cacheVars,
                 changes, checks, rounds>>

\* The callback gets the state of this moment, not the one that was set, and
\* gets it after the lock is released: the read and the call are two steps.
ReadsForSubscriber(t) ==
  /\ at[t] = "notify"
  /\ at' = [at EXCEPT ![t] = IF state = "online" THEN "tell_online" ELSE "tell_offline"]
  /\ UNCHANGED <<client, net, monitor, state, monitoring, found, told, forced, succeeded,
                 cacheVars, changes, checks, rounds>>

TellsSubscriber(t) ==
  /\ at[t] \in {"tell_online", "tell_offline"}
  /\ told' = IF at[t] = "tell_online" THEN "online" ELSE "offline"
  /\ at' = [at EXCEPT ![t] = "done"]
  /\ UNCHANGED <<client, net, monitor, state, monitoring, found, forced, succeeded, cacheVars,
                 changes, checks, rounds>>

\* The caller goes on (force_check returns the state), the loop sleeps.
Returns(t) ==
  /\ at[t] = "done"
  /\ at' = [at EXCEPT ![t] = IF t = Loop THEN "sleep" ELSE "idle"]
  /\ forced' = IF t = Main /\ forced.open
               THEN [forced EXCEPT !.open = FALSE, !.answer = state] ELSE forced
  /\ UNCHANGED <<client, net, monitor, state, monitoring, found, told, succeeded, cacheVars,
                 changes, checks, rounds>>

LoopsAgain ==
  /\ at[Loop] = "sleep" /\ rounds < MaxRounds
  /\ at' = [at EXCEPT ![Loop] = IF monitoring THEN "asks" ELSE "idle"]
  /\ rounds' = rounds + 1
  /\ UNCHANGED <<client, net, monitor, state, monitoring, found, told, forced, succeeded,
                 cacheVars, changes, checks>>

(***************************************************************************)
(* OnlineOfflineGate: one name is resolved, and the answer kept.           *)
(***************************************************************************)

\* check_network answers from the cache while it is fresh (fresh), and
\* otherwise resolves a name.
Resolved(fresh) ==
  IF fresh /\ cached # "none" THEN cached ELSE IF net THEN "up" ELSE "down"

\* can_execute: only a capability that requires the network is refused.
CanExecute(requirement, fresh) ==
  /\ client = "classifier"
  /\ cached' = IF requirement = "local_only" THEN cached ELSE Resolved(fresh)
  /\ allowed' = IF requirement = "online_required" /\ cached' = "down" THEN "no" ELSE "yes"
  /\ UNCHANGED <<client, net, monitor, gateVars, succeeded, changes, checks, rounds>>

Next ==
  \/ NetworkChanges \/ ProbesAgain \/ TriggerAsks
  \/ StartsMonitoring \/ StopsMonitoring \/ ForcesCheck \/ LoopsAgain
  \/ \E t \in Threads :
       \/ AsksMonitor(t) \/ ReadsState(t) \/ BeginsProbe(t) \/ EndsProbe(t)
       \/ Updates(t) \/ ReadsForSubscriber(t) \/ TellsSubscriber(t) \/ Returns(t)
  \/ \E r \in Requirements, fresh \in BOOLEAN : CanExecute(r, fresh)

Spec == Init /\ [][Next]_vars

(***************************************************************************)
(* Properties.                                                             *)
(***************************************************************************)

\* Every variable keeps its type (the monitor, the two gates, their threads).
TypeOK ==
  /\ client \in {"gate", "triggers", "classifier"}
  /\ net \in BOOLEAN /\ monitoring \in BOOLEAN /\ succeeded \in BOOLEAN
  /\ monitor \in {"UNKNOWN", "PROBING", "OFFLINE", "ONLINE"}
  /\ state \in {"unknown", "online", "offline"}
  /\ at \in [Threads -> Steps]
  /\ found \in [Threads -> BOOLEAN]
  /\ told \in {"nothing", "online", "offline"}
  /\ cached \in {"none", "up", "down"} /\ allowed \in {"none", "yes", "no"}

\* Unless its maker assumes the network (assume_online), no tool and no trigger is told
\* that it is there before a probe has succeeded, whatever the threads that ask meanwhile
\* see of the probing
\* (NetworkMonitor.check and is_online, OnlineCapabilityGate._check_and_update).
FailsClosed ==
  (state = "online" \/ told = "online" \/ \E t \in Threads : found[t]) => succeeded

\* What gate.py says of force_check: "Force an immediate connectivity check and
\* return the new state"; a network that was up all along is reported online.
ForceCheckIsFresh == forced.up /\ forced.answer # "none" => forced.answer = "online"

\* What keeps it so: nothing that an answer is read from says "online" before a
\* probe has succeeded, the monitor's state and a callback under way included.
ProbedInv ==
  /\ net \in BOOLEAN /\ succeeded \in BOOLEAN
  /\ at \in [Threads -> Steps] /\ found \in [Threads -> BOOLEAN]
  /\ \/ monitor = "ONLINE" \/ state = "online" \/ told = "online"
     \/ \E t \in Threads : found[t] \/ at[t] = "tell_online"
     => succeeded

=============================================================================
