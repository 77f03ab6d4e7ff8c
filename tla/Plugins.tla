------------------------------- MODULE Plugins -------------------------------
(***************************************************************************)
(* The versions of one plugin: discovery, the gates a version passes       *)
(* before it is active, hot replacement and rollback                       *)
(* (src/friday/plugins/).  A plugin's own code may answer, refuse, or      *)
(* raise something none of the except clauses names.                       *)
(***************************************************************************)
EXTENDS Naturals, FiniteSets

CONSTANTS Versions,   \* the records of one plugin name
          NoVersion,  \* the registry has no entry
          Trusted,    \* versions whose capabilities and risk the core approves
          MaxCalls    \* bound: operations asked for

VersionsAssumption == Trusted \subseteq Versions /\ NoVersion \notin Versions

PluginState == {"DISCOVERED", "VALIDATING", "SANDBOXED", "TESTED", "CANARY",
                "ACTIVE", "FAILED", "DISABLED", "ROLLED_BACK"}

Allowed(s) ==
  CASE s = "DISCOVERED"  -> {"VALIDATING", "DISABLED"}
    [] s = "VALIDATING"  -> {"SANDBOXED", "FAILED"}
    [] s = "SANDBOXED"   -> {"TESTED", "FAILED"}
    [] s = "TESTED"      -> {"CANARY", "FAILED"}
    [] s = "CANARY"      -> {"ACTIVE", "FAILED", "ROLLED_BACK"}
    [] s = "ACTIVE"      -> {"DISABLED", "FAILED", "ROLLED_BACK"}
    [] s = "FAILED"      -> {"DISABLED", "ROLLED_BACK"}
    [] s = "DISABLED"    -> {"VALIDATING", "ROLLED_BACK"}
    [] s = "ROLLED_BACK" -> {"DISABLED", "VALIDATING"}

VARIABLES
  state,     \* state[v], or "absent" before it is discovered
  instance,  \* versions whose record holds an instance
  running,   \* versions whose activate() was called and not deactivate() after it
  tested,    \* versions whose sandbox tests have passed
  entry,     \* what the registry has under the plugin's name
  previous,  \* previous[v]: the record's previous_version
  calls,
  forced     \* history: versions hot_swap disabled although they were not active

vars == <<state, instance, running, tested, entry, previous, calls, forced>>

Init ==
  /\ state = [v \in Versions |-> "absent"]
  /\ instance = {} /\ running = {} /\ tested = {}
  /\ entry = NoVersion
  /\ previous = [v \in Versions |-> NoVersion]
  /\ calls = 0 /\ forced = {}

Asked == calls < MaxCalls /\ calls' = calls + 1

\* PluginRegistry.register: the states s are those the call has reached.
Register(v, s) ==
  /\ entry' = v
  /\ previous' = IF entry # NoVersion /\ s[entry] = "ACTIVE"
                   THEN [previous EXCEPT ![v] = entry] ELSE previous

\* discover puts the new record in the registry before any gate.  A manifest
\* that does not validate raises, and there is no record.
Discover(v) ==
  /\ Asked /\ state[v] = "absent"
  /\ state' = [state EXCEPT ![v] = "DISCOVERED"]
  /\ Register(v, state)
  /\ UNCHANGED <<instance, running, tested, forced>>

\* PluginTrustValidator.validate: protected or unapproved capabilities, RED.
Approved(v) == v \in Trusted

\* Mutant: a plugin whose test run raises an error is activated all the same.
LoadsUntested(v) ==
  IF ~Approved(v)
    THEN {[end |-> "FAILED", tested |-> FALSE, runs |-> FALSE]}
    ELSE {[end |-> e, tested |-> FALSE, runs |-> FALSE] :
             e \in {"FAILED", "VALIDATING", "SANDBOXED"}}
         \union {[end |-> e, tested |-> TRUE, runs |-> r] :
                   e \in {"FAILED", "CANARY"}, r \in BOOLEAN}
         \union {[end |-> "ACTIVE", tested |-> b, runs |-> TRUE] : b \in BOOLEAN}

\* The ways load can end for v, each with the state it leaves: an instance that
\* cannot be made, tests that fail, an activation or a health check that fails
\* after the instance has started (it is not stopped), and an error no except
\* clause names, which leaves the record where it was.  The module and the factory
\* of an approved version run before its tests do, to make the instance; what the
\* tests come before is its activation.
Loads(v) ==
  IF ~Approved(v)
    THEN {[end |-> "FAILED", tested |-> FALSE, runs |-> FALSE]}
    ELSE {[end |-> e, tested |-> FALSE, runs |-> FALSE] :
             e \in {"FAILED", "VALIDATING", "SANDBOXED"}}
         \union {[end |-> e, tested |-> TRUE, runs |-> r] :
                   e \in {"FAILED", "CANARY"}, r \in BOOLEAN}
         \union {[end |-> "ACTIVE", tested |-> TRUE, runs |-> TRUE]}

CanLoad(v) == state[v] # "absent" /\ "VALIDATING" \in Allowed(state[v])

Load(v) ==
  /\ Asked /\ CanLoad(v)
  /\ \E o \in Loads(v) :
       /\ state' = [state EXCEPT ![v] = o.end]
       /\ tested' = IF o.tested THEN tested \union {v} ELSE tested
       /\ running' = IF o.runs THEN running \union {v} ELSE running
       /\ instance' = IF o.end = "ACTIVE" THEN instance \union {v} ELSE instance
       /\ forced' = IF o.end = "ACTIVE" THEN forced \ {v} ELSE forced
  /\ UNCHANGED <<entry, previous>>

\* hot_swap of a record for a candidate: the candidate is loaded first, and the state
\* of the record it replaces is looked at by no one before the transition to DISABLED,
\* which raises from some.  When the record's instance cannot be stopped the candidate
\* is stopped instead; when that fails as well, or the error has no except clause,
\* both stay as they are.
HotSwap(active, candidate) ==
  /\ Asked /\ active # candidate
  /\ state[active] # "absent" /\ CanLoad(candidate)
  /\ \E o \in Loads(candidate), stops \in BOOLEAN :
       LET stopped == IF active \in instance THEN running \ {active} ELSE running
           loaded == [state EXCEPT ![candidate] = o.end]
           unforced == forced \ {candidate}
       IN  /\ tested' = IF o.tested THEN tested \union {candidate} ELSE tested
           /\ instance' = IF o.end = "ACTIVE" THEN instance \union {candidate} ELSE instance
           /\ \/ /\ o.end # "ACTIVE"
                 /\ state' = loaded
                 /\ running' = IF o.runs THEN running \union {candidate} ELSE running
                 /\ UNCHANGED <<entry, previous, forced>>
              \/ /\ o.end = "ACTIVE" /\ (stops \/ active \notin instance)
                 /\ "DISABLED" \in Allowed(state[active])
                 /\ state' = [loaded EXCEPT ![active] = "DISABLED"]
                 /\ running' = stopped \union {candidate}
                 /\ forced' = IF state[active] = "ACTIVE" THEN unforced
                             ELSE unforced \union {active}
                 /\ Register(candidate, state')
              \/ /\ o.end = "ACTIVE" /\ (stops \/ active \notin instance)
                 /\ "DISABLED" \notin Allowed(state[active])
                 /\ state' = loaded
                 /\ running' = stopped \union {candidate}
                 /\ forced' = unforced /\ UNCHANGED <<entry, previous>>
              \/ /\ o.end = "ACTIVE" /\ ~stops /\ active \in instance
                 /\ state' = [state EXCEPT ![candidate] = "FAILED"]
                 /\ running' = running \ {candidate}
                 /\ forced' = unforced /\ UNCHANGED <<entry, previous>>
              \/ /\ o.end = "ACTIVE" /\ ~stops /\ active \in instance
                 /\ state' = loaded
                 /\ running' = running \union {candidate}
                 /\ forced' = unforced /\ UNCHANGED <<entry, previous>>

\* rollback: a disabled previous version passes through every state again, but
\* through none of the gates, and is not activated.  A deactivation that raises
\* is passed on and nothing has changed.
Rollback(failed, prev) ==
  /\ Asked /\ failed # prev /\ state[prev] # "absent"
  /\ state[failed] \in {"FAILED", "ACTIVE", "CANARY"}
  /\ running' = IF failed \in instance THEN running \ {failed} ELSE running
  /\ state' = [state EXCEPT ![failed] = "ROLLED_BACK",
                            ![prev] = IF @ = "DISABLED" THEN "ACTIVE" ELSE @]
  /\ Register(prev, state')
  /\ UNCHANGED <<instance, tested, forced>>

Remove ==
  /\ Asked /\ entry # NoVersion
  /\ entry' = NoVersion
  /\ UNCHANGED <<state, instance, running, tested, previous, forced>>

\* PluginHealthMonitor.check: nothing to ask unless the record is active.
CanBeHealthy(v) == state[v] = "ACTIVE" /\ v \in instance

Next ==
  \/ \E v \in Versions : Discover(v) \/ Load(v)
  \/ \E v, w \in Versions : HotSwap(v, w) \/ Rollback(v, w)
  \/ Remove

Spec == Init /\ [][Next]_vars

(***************************************************************************)
(* Properties.                                                             *)
(***************************************************************************)

\* Every variable keeps its type (PluginRecord, PluginRegistry).
TypeOK ==
  /\ state \in [Versions -> PluginState \union {"absent"}]
  /\ instance \subseteq Versions /\ running \subseteq Versions /\ tested \subseteq Versions
  /\ entry \in Versions \union {NoVersion}
  /\ previous \in [Versions -> Versions \union {NoVersion}]
  /\ forced \subseteq Versions

\* However versions were loaded, swapped and rolled back, every version whose instance
\* was activated and still runs is one the core approved and whose sandbox tests
\* passed, and so is every active version, which has an instance to ask for its
\* health: rollback, which skips the gates, brings back none that never passed them,
\* but for a version that hot_swap disabled although it was not active
\* (PluginLoader.load, PluginRollbackManager.rollback).
ActiveWasTested ==
  /\ running \subseteq Trusted \intersect tested
  /\ \A v \in Versions \ forced :
       state[v] = "ACTIVE" => v \in Trusted \intersect tested /\ CanBeHealthy(v)

\* What keeps it so: an instance, and one that runs, is of a version that passed
\* the gates, and a version keeps its instance when it is disabled, so that a
\* rollback finds one.
PassedInv ==
  /\ state \in [Versions -> PluginState \union {"absent"}]
  /\ instance \subseteq Trusted \intersect tested
  /\ running \subseteq Trusted \intersect tested
  /\ forced \subseteq Versions
  /\ \A v \in Versions \ forced : state[v] \in {"ACTIVE", "DISABLED"} => v \in instance

=============================================================================
