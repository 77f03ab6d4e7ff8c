------------------------------- MODULE Skills -------------------------------
(***************************************************************************)
(* The life of one learned skill: distilled from trajectories, promoted,   *)
(* run, measured, edited, versioned and rolled back (src/friday/skills/,   *)
(* learning/promotion.py, distiller.py, optimizer.py, benchmark.py).       *)
(* A procedure is a number: 0 the empty text, otherwise which edit wrote   *)
(* it.  A version 1.n is n.                                                *)
(***************************************************************************)
EXTENDS Integers, Sequences, SequencesExt

CONSTANTS MaxEdits,     \* bound: procedures written
          MaxVersions,  \* bound: versions created
          MaxRuns       \* bound: executions measured

Texts == 0 .. MaxEdits
None == [there |-> FALSE, version |-> 0, text |-> 0, steps |-> 0, won |-> 0, lost |-> 0,
         whole |-> FALSE]

\* procedure_steps: 0 when there are none, otherwise the text they belong to;
\* whole: it has every attribute of a candidate, regression_history too.
Skill == [there : BOOLEAN, version : 0 .. MaxVersions, text : Texts, steps : Texts,
          won : 0 .. MaxRuns, lost : 0 .. MaxRuns, whole : BOOLEAN]

VARIABLES
  candidate,   \* a SkillCandidate, or None
  skill,       \* the Skill the registry has, or None
  file,        \* the procedure in skills/learned/<name>.md, or -1
  history,     \* SkillVersionManager._history of the skill's name
  promotions,  \* the same under "skill": a candidate has no name attribute
  observed,    \* versions the sandbox has executed
  last,        \* what the last run did: "none", "blocked", "ran", "nothing"
  edits, runs

vars == <<candidate, skill, file, history, promotions, observed, last, edits, runs>>

Init ==
  /\ candidate = None /\ skill = None /\ file = -1
  /\ history = <<>> /\ promotions = <<>>
  /\ observed = {} /\ last = "none" /\ edits = 0 /\ runs = 0

\* distill, of two successful trajectories at least, keeps the steps and no text;
\* generate_candidate, of one, writes both.
NewCandidate(text) ==
  /\ edits < MaxEdits /\ edits' = edits + 1
  /\ candidate' = [None EXCEPT !.there = TRUE, !.text = text, !.steps = edits', !.whole = TRUE]
  /\ UNCHANGED <<skill, file, history, promotions, observed, last, runs>>

Distills == NewCandidate(0)
Generates == NewCandidate(edits + 1)

\* refine appends a note to the procedure; it carries the measures over and
\* leaves the structured steps behind.  Only a skill that promote made has all
\* the attributes it copies.
Refines ==
  /\ edits < MaxEdits /\ edits' = edits + 1
  /\ skill.there /\ skill.whole
  /\ candidate' = [skill EXCEPT !.text = edits', !.steps = 0]
  /\ UNCHANGED <<skill, file, history, promotions, observed, last, runs>>

\* check_promotion_criteria.  The skill on disk never shows a regression: the
\* loader reads no measures from the file, so that its rate is 0.
Approved(c) == c.there /\ c.steps # 0

Entry(s) == [version |-> s.version, text |-> s.text, won |-> s.won, lost |-> s.lost]
Bumped(s) == [s EXCEPT !.version = @ + 1]

\* promote: the Skill it makes has no structured steps, and the file no more
\* than the text.
Promotes ==
  /\ Approved(candidate) /\ Len(promotions) < MaxVersions /\ candidate.version < MaxVersions
  /\ LET c == Bumped(candidate)
     IN  /\ candidate' = c
         /\ promotions' = Append(promotions, Entry(c))
         /\ skill' = [c EXCEPT !.steps = 0]
         /\ \/ file' = c.text
            \/ UNCHANGED file
  /\ UNCHANGED <<history, observed, last, edits, runs>>

\* evaluate_and_promote builds its candidate from the file, without steps.
ChecksFile ==
  /\ file # -1
  /\ LET c == [None EXCEPT !.there = TRUE, !.text = file, !.whole = TRUE]
     IN  candidate' = c /\ ~Approved(c)
  /\ UNCHANGED <<skill, file, history, promotions, observed, last, edits, runs>>

\* SkillLoader.load_skill and the registry: the numbered steps it looks for are
\* not written the way generate_candidate writes them.
Loads ==
  /\ file # -1
  /\ skill' = [None EXCEPT !.there = TRUE, !.text = file]
  /\ UNCHANGED <<candidate, file, history, promotions, observed, last, edits, runs>>

\* A caller writes a new procedure, with its steps or as text only, and calls
\* create_version, which snapshots the text and the measures.
CreateVersion(s) ==
  /\ Len(history) < MaxVersions /\ s.version < MaxVersions
  /\ skill' = Bumped(s)
  /\ history' = Append(history, Entry(skill'))

Edits ==
  /\ skill.there /\ edits < MaxEdits /\ edits' = edits + 1
  /\ \E steps \in {edits'} \union (IF skill.steps = 0 THEN {0} ELSE {}) :
       CreateVersion([skill EXCEPT !.text = edits', !.steps = steps])
  /\ UNCHANGED <<candidate, file, promotions, observed, last, runs>>

\* Mutant: the text goes back, the version does not.
RolledBackInName(s, target) ==
  [s EXCEPT !.text = IF target.text # 0 THEN target.text ELSE @,
            !.won = target.won, !.lost = target.lost]

\* SkillVersionManager.rollback: the text, if there is one, and the measures of
\* the target; the structured steps stay.
RolledBack(s, target) ==
  [s EXCEPT !.version = target.version,
            !.text = IF target.text # 0 THEN target.text ELSE @,
            !.won = target.won, !.lost = target.lost]

\* The first entry of that number, or the last but one of all there are.
TargetOf(h, version) ==
  IF version # 0 THEN h[SelectInSeq(h, LAMBDA v : v.version = version)]
  ELSE IF Len(h) >= 2 THEN h[Len(h) - 1] ELSE h[1]

Rollback ==
  /\ skill.there /\ history # <<>>
  /\ \E version \in {0} \union {history[i].version : i \in DOMAIN history} :
       skill' = RolledBack(skill, TargetOf(history, version))
  /\ UNCHANGED <<candidate, file, history, promotions, observed, last, edits, runs>>

\* compare_versions: success rates that differ by more than a tenth.
Rate(v) == IF v.won + v.lost = 0 THEN <<0, 1>> ELSE <<v.won, v.won + v.lost>>
Regressed(new, old) ==
  10 * Rate(new)[1] * Rate(old)[2]
    < 10 * Rate(old)[1] * Rate(new)[2] - Rate(old)[2] * Rate(new)[2]

IndexOf(version) == SelectInSeq(history, LAMBDA v : v.version = version)

\* monitor_skill and rollback_on_regression: the entry of the current version
\* against the one before it, and then the default target.
RollbackOnRegression ==
  /\ skill.there /\ skill.version \in observed
  /\ IndexOf(skill.version) > 1
  /\ LET i == IndexOf(skill.version)
         first(version) == history[IndexOf(version)]
     IN  Regressed(history[i], first(history[i - 1].version))
  /\ skill' = RolledBack(skill, TargetOf(history, 0))
  /\ UNCHANGED <<candidate, file, history, promotions, observed, last, edits, runs>>

\* What runs: the structured steps, or else the steps found in the text, and
\* there are none in it.
Executable(s) == s.steps # 0

\* SkillRuntime.run: no steps is an error; the tools, the policy or an
\* expectation may stop it at any step.
Runs ==
  /\ skill.there
  /\ last' \in IF Executable(skill) THEN {"blocked", "ran"} ELSE {"blocked"}
  /\ UNCHANGED <<candidate, skill, file, history, promotions, observed, edits, runs>>

\* SkillSandbox.execute: a text without steps passes validation, and then no
\* step fails.
SandboxExecutes ==
  /\ skill.there
  /\ \/ skill.steps = 0 /\ skill.text = 0 /\ last' = "blocked" /\ UNCHANGED observed
     \/ skill.steps = 0 /\ skill.text # 0 /\ last' = "nothing" /\ observed' = observed \union {skill.version}
     \/ skill.steps # 0 /\ last' \in {"ran", "blocked"} /\ observed' = observed \union {skill.version}
  /\ UNCHANGED <<candidate, skill, file, history, promotions, edits, runs>>

\* SkillEvaluator.evaluate_execution.
Evaluates ==
  /\ skill.there /\ last # "none" /\ runs < MaxRuns /\ runs' = runs + 1
  /\ \E won \in BOOLEAN : skill' = IF won THEN [skill EXCEPT !.won = @ + 1]
                                          ELSE [skill EXCEPT !.lost = @ + 1]
  /\ UNCHANGED <<candidate, file, history, promotions, observed, last, edits>>

Next ==
  \/ Distills \/ Generates \/ Refines \/ Promotes \/ ChecksFile \/ Loads \/ Edits
  \/ Rollback \/ RollbackOnRegression \/ Runs \/ SandboxExecutes \/ Evaluates

Spec == Init /\ [][Next]_vars

(***************************************************************************)
(* Properties.                                                             *)
(***************************************************************************)

\* Every variable keeps its type (Skill, SkillCandidate, SkillVersionManager).
TypeOK ==
  /\ candidate \in Skill /\ skill \in Skill
  /\ file \in Texts \union {-1}
  /\ \A h \in {history, promotions} : \A i \in DOMAIN h :
       h[i] \in [version : 0 .. MaxVersions, text : Texts, won : 0 .. MaxRuns, lost : 0 .. MaxRuns]
  /\ last \in {"none", "blocked", "ran", "nothing"}

\* A rolled back skill is a version there has been: the skill's version, text
\* and measures are an entry of its history, or of the promotions, plus what
\* was measured since, whatever was edited, rolled back and loaded in between;
\* only a skill read from a file starts again (create_version, rollback).
KnownVersion ==
  skill.there =>
    \/ skill.version = 0
    \/ \E v \in ToSet(history) \union ToSet(promotions) :
         /\ v.version = skill.version
         /\ v.text \in {skill.text, 0}
         /\ v.won <= skill.won /\ v.lost <= skill.lost

\* A skill rolled back to a version runs that version's procedure ("Roll back a
\* skill to a previous version if a regression occurs").
RunsWhatItSays == skill.there /\ Executable(skill) => skill.steps = skill.text

\* What keeps it so: what is snapshotted is an entry of one of the two histories,
\* and a skill's measures only grow until it is rolled back.
Snapshots == [version : Nat, text : Nat, won : Nat, lost : Nat]
Records == [there : BOOLEAN, version : Nat, text : Nat, steps : Nat, won : Nat, lost : Nat,
            whole : BOOLEAN]
HistoryInv ==
  /\ candidate \in Records /\ skill \in Records
  /\ file \in Nat \union {-1} /\ edits \in Nat
  /\ history \in Seq(Snapshots) /\ promotions \in Seq(Snapshots)
  /\ KnownVersion

=============================================================================
