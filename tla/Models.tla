------------------------------- MODULE Models -------------------------------
(***************************************************************************)
(* The language models behind F.R.I.D.A.Y.: the router that picks a role   *)
(* and falls back along a chain (src/friday/models/router.py), the Gemini  *)
(* provider that falls back from model to model when one is overloaded     *)
(* (models/gemini_backend.py).                                             *)
(*                                                                         *)
(* The providers are outside: they come and go between the calls, and a    *)
(* request makes several.                                                  *)
(***************************************************************************)
EXTENDS Naturals, FiniteSets, Sequences, SequencesExt

CONSTANTS Configured,   \* roles the settings give a model
          Cloud,        \* configured roles whose provider is "cloud"
          MaxRequests,  \* bound: routed requests
          MaxChanges    \* bound: changes of the world

\* The settings must name three models (ModelsConfig); code, reviewer, embedding,
\* stt and tts are optional, and the last three have no entry in the chain.
Chained == {"fast", "reasoning", "code", "reviewer", "vision"}
Roles == Chained \union {"embedding", "stt", "tts"}

ConfiguredAssumption ==
  /\ {"fast", "reasoning", "vision"} \subseteq Configured
  /\ Configured \subseteq Roles
  /\ Cloud \subseteq Configured

GeminiModels == <<"configured", "flash_lite", "old_lite">>

VARIABLES
  healthy,     \* roles whose provider is available with its model loaded
  sighted,     \* roles whose provider supports vision
  answering,   \* Gemini models that are not overloaded
  cache,       \* roles whose provider was instantiated
  preference,  \* "none", "fast" or "deep"
  request,     \* the request in progress
  requests, changes

routing == <<cache, preference, request, requests>>
vars == <<healthy, sighted, answering, routing, changes>>

NoRequest == [phase |-> "idle", role |-> "reasoning", tries |-> <<>>, vision |-> FALSE, local |-> FALSE, steady |-> {},
              models |-> <<>>, up |-> {}]

Init ==
  /\ healthy \in SUBSET Configured
  /\ sighted = {"vision"}
  /\ answering \in {{}, ToSet(GeminiModels)}
  /\ cache = {} /\ preference = "none" /\ request = NoRequest
  /\ requests = 0 /\ changes = 0

(***************************************************************************)
(* The router.                                                             *)
(***************************************************************************)

\* _role_config gives code and reviewer the reasoning model when they have none of
\* their own; another role without a model is an error that route passes over.
ConfigOf(role) ==
  IF role \in {"code", "reviewer"} \ Configured THEN "reasoning" ELSE role

\* Mutant: the chain lacks the entry of "reasoning".
FallbackToReasoning(role) == "reasoning"

FallbackOf(role) == IF role = "reasoning" THEN "fast" ELSE "reasoning"

\* _roles_to_try follows the chain, if the role has an entry, until one comes again.
RolesToTry(preferred) ==
  LET second == FallbackOf(preferred)
      third == FallbackOf(second)
  IN  CASE preferred \notin Chained -> <<preferred>>
        [] preferred \in Chained /\ third \in {preferred, second} -> <<preferred, second>>
        [] OTHER -> <<preferred, second, third>>

\* _select_preferred_role: a required role (an audio role is one, unless the request
\* needs vision), then vision, then a hardware in need, then the user's preference,
\* then the complexity of the task.
Preferred(required, vision, pressed, simple) ==
  CASE required # "none" -> required
    [] required = "none" /\ vision -> "vision"
    [] required = "none" /\ ~vision /\ (pressed \/ preference = "fast" \/ simple) -> "fast"
    [] OTHER -> "reasoning"

SetsPreference(p) ==
  /\ preference' = p
  /\ UNCHANGED <<healthy, sighted, answering, cache, request, requests, changes>>

Asks(required, vision, local, pressed, simple) ==
  /\ request.phase \in {"idle", "answered", "unrouted", "failed", "broken"} /\ requests < MaxRequests
  /\ requests' = requests + 1
  /\ LET role == Preferred(required, vision, pressed, simple)
     IN  request' = [phase |-> "routing", role |-> role, tries |-> RolesToTry(role),
                     vision |-> vision, local |-> local, steady |-> healthy,
                     models |-> <<>>, up |-> {}]
  /\ UNCHANGED <<healthy, sighted, answering, cache, preference, changes>>

\* _compatible asks the provider for its health now; vision is what the
\* provider can do, whatever the role is called; a request that prefers local
\* models, or is made offline, takes no cloud provider.
Compatible(role) ==
  /\ ConfigOf(role) \in healthy
  /\ request.vision => ConfigOf(role) \in sighted
  /\ request.local => ConfigOf(role) \notin Cloud

\* route tries one role after the other and raises when none is left.
TriesRole ==
  /\ request.phase = "routing"
  /\ IF request.tries = <<>>
     THEN /\ request' = [request EXCEPT !.phase = "unrouted"]
          /\ UNCHANGED cache
     ELSE LET role == Head(request.tries)
          IN  /\ cache' = cache \union {r \in {role} : ConfigOf(r) \in Configured}
              /\ request' = IF Compatible(role)
                            THEN [request EXCEPT !.phase = "generating", !.models = GeminiModels,
                                                 !.up = answering]
                            ELSE [request EXCEPT !.tries = Tail(@)]
  /\ UNCHANGED <<healthy, sighted, answering, preference, requests, changes>>

\* Neither GeminiProvider.health nor route names the errors of the google.genai
\* library (APIError, ServerError): a health check that meets one ends the request,
\* and the roles that are left are not tried.
HealthRaises ==
  /\ request.phase = "routing" /\ request.tries # <<>>
  /\ ConfigOf(Head(request.tries)) \in Configured
  /\ cache' = cache \union {Head(request.tries)}
  /\ request' = [request EXCEPT !.phase = "broken"]
  /\ UNCHANGED <<healthy, sighted, answering, preference, requests, changes>>

(***************************************************************************)
(* GeminiProvider.generate.                                                *)
(***************************************************************************)

\* A model that is overloaded fails in one of two ways.  A listed error whose text
\* says 503 or UNAVAILABLE passes the request to the next model, and the last one's
\* is raised.  Any other error is raised at once, the ServerError that google.genai
\* has for a 503 among them; it may also come from a model that is not overloaded.
TriesModel(escapes) ==
  /\ request.phase = "generating"
  /\ request' =
       CASE escapes -> [request EXCEPT !.phase = "broken"]
         [] ~escapes /\ Head(request.models) \in answering -> [request EXCEPT !.phase = "answered"]
         [] ~escapes /\ Head(request.models) \notin answering /\ Len(request.models) > 1 ->
              [request EXCEPT !.models = Tail(@)]
         [] OTHER -> [request EXCEPT !.phase = "failed"]
  /\ UNCHANGED <<healthy, sighted, answering, cache, preference, requests, changes>>

(***************************************************************************)
(* The world.                                                              *)
(***************************************************************************)

\* A provider comes or goes, a model is overloaded or recovers.  What stayed
\* there all through the request in progress is noted.
WorldChanges ==
  /\ changes < MaxChanges
  /\ changes' = changes + 1
  /\ \/ \E r \in Configured :
          /\ healthy' = SymDiff(healthy, {r})
          /\ UNCHANGED answering
     \/ \E m \in ToSet(GeminiModels) :
          /\ answering' = SymDiff(answering, {m})
          /\ UNCHANGED healthy
  /\ request' = [request EXCEPT !.steady = @ \intersect healthy', !.up = @ \intersect answering']
  /\ UNCHANGED <<sighted, cache, preference, requests>>

Next ==
  \/ \E required \in Roles \union {"none"}, vision, local, pressed, simple \in BOOLEAN :
       Asks(required, vision, local, pressed, simple)
  \/ \E p \in {"fast", "deep"} : SetsPreference(p)
  \/ TriesRole \/ HealthRaises
  \/ \E escapes \in BOOLEAN : TriesModel(escapes)
  \/ WorldChanges

Spec == Init /\ [][Next]_vars

(***************************************************************************)
(* Properties.                                                             *)
(***************************************************************************)

\* Every variable keeps its type (ModelRouter).
TypeOK ==
  /\ healthy \subseteq Roles /\ sighted \subseteq Roles /\ cache \subseteq Roles
  /\ answering \subseteq ToSet(GeminiModels)
  /\ preference \in {"none", "fast", "deep"}
  /\ request.phase \in {"idle", "routing", "generating", "answered", "unrouted", "failed", "broken"}
  /\ request.steady \subseteq Configured /\ request.up \subseteq ToSet(GeminiModels)
  /\ requests \in 0 .. MaxRequests /\ changes \in 0 .. MaxChanges

\* Where the chain of a role ends: at "fast", or at the role that has no entry.
LastResort(role) == IF role \in Chained THEN "fast" ELSE role

\* A request for words that its last resort may serve.
Words == ~request.vision /\ (request.local => LastResort(request.role) \notin Cloud)

\* What the code's own error handling promises, of the errors it names; a request
\* that an error it does not name ends ("broken") is promised nothing, and that is
\* what a real 503 of Gemini is.  A request for words is refused only if its last
\* resort was out of reach at some time while it was routed, whatever happened to
\* the roles before it, and a named overload is the answer only if every Gemini
\* model was overloaded at some time of it (route, _roles_to_try, generate).
AnsweredIfAny ==
  /\ request.phase = "unrouted" /\ Words => LastResort(request.role) \notin request.steady
  /\ request.phase = "failed" => request.up = {}

\* What keeps it so: what stayed there is there, the last resort is still to be tried
\* while it is in reach, and a Gemini model that was passed over was overloaded.
Requests ==
  [phase : {"idle", "routing", "generating", "answered", "unrouted", "failed", "broken"},
   role : Roles, tries : Seq(Roles), vision : BOOLEAN, local : BOOLEAN,
   steady : SUBSET Configured, models : Seq(ToSet(GeminiModels)), up : SUBSET ToSet(GeminiModels)]
RequestInv ==
  /\ healthy \subseteq Configured /\ answering \subseteq ToSet(GeminiModels)
  /\ request \in Requests /\ request.steady \subseteq healthy
  /\ request.phase = "routing" /\ Words /\ LastResort(request.role) \in request.steady =>
       LastResort(request.role) \in ToSet(request.tries)
  /\ request.phase = "generating" =>
       /\ request.models # <<>>
       /\ request.up \subseteq answering \intersect ToSet(request.models)
  /\ AnsweredIfAny

=============================================================================
