---------------------------- MODULE Provisioning ----------------------------
(***************************************************************************)
(* The registry of models and the provisioner that installs, verifies and  *)
(* measures one before it is trusted (src/friday/models/registry.py and    *)
(* models/provisioning.py).  Models are installed, removed and damaged by  *)
(* others meanwhile, and the program may be started again: what it knows   *)
(* then is the registry file.                                              *)
(***************************************************************************)
EXTENDS Naturals, FiniteSets

CONSTANTS Entries,       \* registered models, all of one role
          Nothing,       \* no entry
          FamilyOf,      \* FamilyOf[e]: the name before the tag
          FileBased,     \* entries that are files with a checksum, not Ollama's
          MaxChanges,    \* bound: changes of the world and restarts
          MaxProvisions  \* bound: entries tried

EntriesAssumption == FileBased \subseteq Entries /\ {Nothing, "none"} \intersect Entries = {}

Healths == {"UNKNOWN", "HEALTHY", "UNHEALTHY"}
View == [Entries -> [installed : BOOLEAN, health : Healths]]

VARIABLES
  there,       \* models that are there: listed by Ollama, or as a file
  intact,      \* files that match their checksum
  entry,       \* entry[e]: what the registry says of e
  saved,       \* what the registry file says of it
  trying,      \* the entry being provisioned, or Nothing
  phase,       \* "idle", "next", "verify", "measure"
  left,        \* the candidates ensure_role has not tried
  result,      \* what ensure_role answered: an entry, Nothing, or "none" yet
  doubted,     \* entries whose last verification failed, in this process
  changes, provisions

world == <<there, intact>>
vars == <<world, entry, saved, trying, phase, left, result, doubted, changes, provisions>>

Init ==
  /\ there = {} /\ intact = FileBased
  /\ entry = [e \in Entries |-> [installed |-> FALSE, health |-> "UNKNOWN"]]
  /\ saved = entry
  /\ trying = Nothing /\ phase = "idle" /\ left = {} /\ result = "none"
  /\ doubted = {}
  /\ changes = 0 /\ provisions = 0

\* by_role sorts the candidates: installed ones first, then the healthy.
Better(a, b) ==
  \/ entry[a].installed /\ ~entry[b].installed
  \/ /\ entry[a].installed = entry[b].installed
     /\ entry[a].health = "HEALTHY" /\ entry[b].health # "HEALTHY"

EnsuresRole ==
  /\ phase = "idle"
  /\ phase' = "next" /\ left' = Entries /\ result' = "none"
  /\ UNCHANGED <<world, entry, saved, trying, doubted, changes, provisions>>

\* check_installed: any model of the family will do for Ollama.
CheckInstalled(e) ==
  IF e \in FileBased THEN e \in there
  ELSE \E m \in there \ FileBased : FamilyOf[m] = FamilyOf[e]

\* ollama.ResponseError is in none of the provisioner's tuples: it ends ensure_role
\* without an answer.
Escapes ==
  /\ trying' = Nothing /\ phase' = "idle" /\ result' = "none"

\* The next candidate is there, or is pulled; _pull_model may fail, by an error it
\* names or by one that escapes, and knows Ollama only.
TriesCandidate(e) ==
  /\ phase = "next" /\ e \in left /\ provisions < MaxProvisions
  /\ \A d \in left : ~Better(d, e)
  /\ provisions' = provisions + 1
  /\ left' = left \ {e}
  /\ \/ /\ CheckInstalled(e)
        /\ trying' = e /\ phase' = "verify" /\ UNCHANGED <<there, result>>
     \/ /\ ~CheckInstalled(e) /\ e \notin FileBased
        /\ trying' = e /\ phase' = "verify" /\ there' = there \union {e} /\ UNCHANGED result
     \/ /\ ~CheckInstalled(e)
        /\ UNCHANGED <<trying, phase, there, result>>
     \/ /\ e \notin FileBased
        /\ Escapes /\ UNCHANGED there
  /\ UNCHANGED <<intact, entry, saved, doubted, changes>>

\* Mutant: a model that fails verification is passed over and not marked.
VerifiesSilently ==
  /\ phase = "verify"
  /\ LET broken == trying \in FileBased /\ trying \notin there \intersect intact
     IN  /\ phase' = IF broken THEN "next" ELSE "measure"
         /\ trying' = IF broken THEN Nothing ELSE trying
         /\ entry' = entry
         /\ doubted' = IF broken THEN doubted \union {trying} ELSE doubted \ {trying}
  /\ UNCHANGED <<world, saved, left, result, changes, provisions>>

\* Only a file is verified; a mismatch marks the entry and is not saved.
Verifies ==
  /\ phase = "verify"
  /\ LET broken == trying \in FileBased /\ trying \notin there \intersect intact
     IN  /\ phase' = IF broken THEN "next" ELSE "measure"
         /\ trying' = IF broken THEN Nothing ELSE trying
         /\ entry' = IF broken THEN [entry EXCEPT ![trying].health = "UNHEALTHY"] ELSE entry
         /\ doubted' = IF broken THEN doubted \union {trying} ELSE doubted \ {trying}
  /\ UNCHANGED <<world, saved, left, result, changes, provisions>>

\* The benchmark, whose failure changes nothing if its error is named, then the
\* registry is updated and saved.
Trusts ==
  /\ phase = "measure"
  /\ entry' = [entry EXCEPT ![trying] = [installed |-> TRUE, health |-> "HEALTHY"]]
  /\ saved' = entry'
  /\ result' = trying /\ trying' = Nothing /\ phase' = "idle"
  /\ UNCHANGED <<world, left, doubted, changes, provisions>>

\* The benchmark asks Ollama (_run_quick_benchmark): nothing was updated yet.
BenchmarkRaises ==
  /\ phase = "measure" /\ trying \notin FileBased
  /\ Escapes
  /\ UNCHANGED <<world, entry, saved, left, doubted, changes, provisions>>

AllFailed ==
  /\ phase = "next" /\ left = {}
  /\ phase' = "idle" /\ result' = Nothing
  /\ UNCHANGED <<world, entry, saved, trying, left, doubted, changes, provisions>>

\* best_for_role: the first candidate that is installed and not unhealthy.
BestForRole ==
  {e \in Entries : /\ entry[e].installed /\ entry[e].health # "UNHEALTHY"
                   /\ \A d \in Entries : ~Better(d, e)}

WorldChanges ==
  /\ changes < MaxChanges
  /\ changes' = changes + 1
  /\ \/ \E e \in Entries : there' = (there \ {e}) \union ({e} \ there) /\ UNCHANGED intact
     \/ \E e \in FileBased : intact' = (intact \ {e}) \union ({e} \ intact) /\ UNCHANGED there
  /\ UNCHANGED <<entry, saved, trying, phase, left, result, doubted, provisions>>

\* ModelRegistry.load in a new process.
Restarts ==
  /\ changes < MaxChanges
  /\ changes' = changes + 1
  /\ entry' = saved
  /\ trying' = Nothing /\ phase' = "idle" /\ left' = {} /\ result' = "none" /\ doubted' = {}
  /\ UNCHANGED <<world, saved, provisions>>

Next ==
  \/ EnsuresRole \/ Verifies \/ Trusts \/ BenchmarkRaises \/ AllFailed \/ WorldChanges \/ Restarts
  \/ \E e \in Entries : TriesCandidate(e)

Spec == Init /\ [][Next]_vars

(***************************************************************************)
(* Properties.                                                             *)
(***************************************************************************)

\* Every variable keeps its type (ModelRegistry, ModelProvisioner).
TypeOK ==
  /\ there \subseteq Entries /\ intact \subseteq FileBased
  /\ entry \in View /\ saved \in View
  /\ trying \in Entries \union {Nothing}
  /\ phase \in {"idle", "next", "verify", "measure"}
  /\ left \subseteq Entries /\ doubted \subseteq Entries
  /\ result \in Entries \union {Nothing, "none"}

\* A role that ensure_role has provided for has a best model, and no model whose
\* verification failed in this process is the best of a role, however often
\* others were installed, removed or damaged since (by_role, best_for_role).
EnsuredRoleIsServed ==
  /\ result \in Entries => BestForRole # {}
  /\ BestForRole \intersect doubted = {}

\* What keeps it so: the entry that was answered is installed and healthy until
\* the next call, and a doubted entry stays unhealthy until it is verified again.
ServedInv ==
  /\ TypeOK
  /\ phase \in {"verify", "measure"} => trying \in Entries
  /\ phase = "measure" => trying \notin doubted
  /\ result \in Entries => phase = "idle" /\ entry[result] = [installed |-> TRUE, health |-> "HEALTHY"]
  /\ \A e \in doubted : entry[e].health = "UNHEALTHY"

=============================================================================
