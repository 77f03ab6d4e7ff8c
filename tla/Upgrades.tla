------------------------------ MODULE Upgrades ------------------------------
(***************************************************************************)
(* The self-development pipeline: a proposal gets an id, a worktree of its *)
(* own, and passes review, tests, simulation, benchmark and canary before  *)
(* its diff is shown (src/friday/development/, tools/development.py).      *)
(* Several proposals may be under way, in one process or in two; people    *)
(* commit to the repository and tidy the candidates' directory; and the    *)
(* process may die, which leaves what is on disk.                          *)
(***************************************************************************)
EXTENDS Integers, FiniteSets

CONSTANTS Proposals,   \* calls of propose_and_validate_upgrade
          MaxCommits,  \* bound: commits others make to the repository
          MaxTidied    \* bound: candidate files deleted, processes that die

ProposalsAssumption == IsFiniteSet(Proposals) /\ MaxCommits \in Nat

Ids == 1 .. Cardinality(Proposals)
Stages == {"CANDIDATE", "SANDBOXED", "TESTED", "BENCHMARKED", "CANARY", "ACTIVE",
           "REJECTED", "ROLLED_BACK"}
NoTree == [kind |-> "none", commit |-> 0, files |-> {}]
Tree == [kind : {"none", "git", "copy"}, commit : 0 .. MaxCommits, files : SUBSET Proposals]

VARIABLES
  head,     \* the repository's HEAD
  listed,   \* ids with a file in the candidates' directory
  branch,   \* branch[i]: the commit of upgrade/<i>, or -1
  tree,     \* tree[i]: the directory worktrees/<i>
  report,   \* report[i]: the proposal whose report is in <i>_report.json, if any
  at,       \* at[p]: what comes next for proposal p
  id,       \* id[p]: its upgrade id, or 0
  stage,    \* stage[p]: CanaryState.stage
  tested,   \* tested[p]: the tree as the tests saw it
  passed,   \* proposals whose report says passed
  met,      \* pairs of proposals that were under way at once with one id
  tidied

disk == <<head, listed, branch, tree, report>>
vars == <<disk, at, id, stage, tested, passed, met, tidied>>

Init ==
  /\ head = 0 /\ listed = {}
  /\ branch = [i \in Ids |-> -1]
  /\ tree = [i \in Ids |-> NoTree]
  /\ report = [i \in Ids |-> {}]
  /\ at = [p \in Proposals |-> "idle"]
  /\ id = [p \in Proposals |-> 0]
  /\ stage = [p \in Proposals |-> "CANDIDATE"]
  /\ tested = [p \in Proposals |-> NoTree]
  /\ passed = {} /\ met = {} /\ tidied = 0

UnderWay(p) == at[p] \notin {"idle", "done", "dead"}

\* next_upgrade_id counts the files that are there.
NextUpgradeId == Cardinality(listed) + 1

\* The count; the file is written afterwards.
Numbers(p) ==
  /\ at[p] = "idle"
  /\ at' = [at EXCEPT ![p] = "named"]
  /\ id' = [id EXCEPT ![p] = NextUpgradeId]
  /\ met' = met \union {<<p, q>> : q \in {r \in Proposals : UnderWay(r) /\ id[r] = NextUpgradeId}}
  /\ UNCHANGED <<disk, stage, tested, passed, tidied>>

CreatesCandidate(p) ==
  /\ at[p] = "named"
  /\ at' = [at EXCEPT ![p] = "worktree"]
  /\ listed' = listed \union {id[p]}
  /\ UNCHANGED <<head, branch, tree, report, id, stage, tested, passed, met, tidied>>

\* What remove_worktree may leave: git's answer is not looked at and rmtree ignores its
\* errors, so that some of the directory may stay.
Remnants(t) == {NoTree} \union {[t EXCEPT !.files = kept] : kept \in SUBSET t.files}

\* Mutant: a directory that is there already is taken as it is.
ReuseWorktree(p) ==
  /\ at[p] = "worktree"
  /\ stage' = [stage EXCEPT ![p] = "SANDBOXED"]
  /\ at' = [at EXCEPT ![p] = "patch"]
  /\ LET i == id[p]
     IN  \/ /\ branch[i] = -1
            /\ branch' = [branch EXCEPT ![i] = head]
            /\ tree' = [tree EXCEPT ![i] = [kind |-> "git", commit |-> head, files |-> {}]]
         \/ /\ branch[i] # -1
            /\ tree' = IF tree[i] # NoTree THEN tree
                       ELSE [tree EXCEPT ![i] = [kind |-> "git", commit |-> branch[i], files |-> {}]]
            /\ UNCHANGED branch
         \/ /\ tree' = [tree EXCEPT ![i] = [kind |-> "copy", commit |-> head, files |-> {}]]
            /\ UNCHANGED branch
  /\ UNCHANGED <<head, listed, report, id, tested, passed, met, tidied>>

\* create_worktree: what is left of the id has been removed; then a new branch
\* at HEAD, the branch that is already there, or a copy of the directory.
CreateWorktree(p) ==
  /\ at[p] = "worktree"
  /\ stage' = [stage EXCEPT ![p] = "SANDBOXED"]
  /\ at' = [at EXCEPT ![p] = "patch"]
  /\ LET i == id[p]
     IN  \/ /\ branch[i] = -1
            /\ branch' = [branch EXCEPT ![i] = head]
            /\ tree' = [tree EXCEPT ![i] = [kind |-> "git", commit |-> head, files |-> {}]]
         \/ /\ branch[i] # -1
            /\ tree' = [tree EXCEPT ![i] = [kind |-> "git", commit |-> branch[i], files |-> {}]]
            /\ UNCHANGED branch
         \/ /\ tree' = [tree EXCEPT ![i] = [kind |-> "copy", commit |-> head, files |-> {}]]
            /\ UNCHANGED branch
  /\ UNCHANGED <<head, listed, report, id, tested, passed, met, tidied>>

\* WorktreeError: a copy that fails is not removed, and where the removal left
\* something neither git nor the copy takes the directory.
FailsToCreate(p) ==
  /\ at[p] = "worktree"
  /\ stage' = [stage EXCEPT ![p] = "REJECTED"]
  /\ at' = [at EXCEPT ![p] = "report"]
  /\ \E t \in Remnants(tree[id[p]]) \union {[kind |-> "copy", commit |-> head, files |-> {}]} :
       tree' = [tree EXCEPT ![id[p]] = t]
  /\ UNCHANGED <<head, listed, branch, report, id, tested, passed, met, tidied>>

\* apply_file_map creates the directories it needs, so that it writes even where
\* the worktree has gone.  A path outside the worktree, or an error, rejects.
Patches(p) ==
  /\ at[p] = "patch"
  /\ \/ /\ tree' = [tree EXCEPT ![id[p]].files = @ \union {p},
                                ![id[p]].kind = IF @ = "none" THEN "copy" ELSE @]
        /\ stage' = [stage EXCEPT ![p] = "TESTED"]
        /\ at' = [at EXCEPT ![p] = "review"]
     \/ /\ stage' = [stage EXCEPT ![p] = "REJECTED"]
        /\ at' = [at EXCEPT ![p] = "remove"]
        /\ UNCHANGED tree
  /\ UNCHANGED <<head, listed, branch, report, id, tested, passed, met, tidied>>

Gate(p, from, to, reached) ==
  /\ at[p] = from
  /\ \/ /\ at' = [at EXCEPT ![p] = to]
        /\ stage' = [stage EXCEPT ![p] = reached]
     \/ /\ at' = [at EXCEPT ![p] = "remove"]
        /\ stage' = [stage EXCEPT ![p] = "REJECTED"]
  /\ UNCHANGED <<disk, id, passed, met, tidied>>

\* A file that is gone is not reviewed, and raises nothing.
Reviews(p) == Gate(p, "review", "test", "TESTED") /\ UNCHANGED tested

\* Lint and tests, in a container or on the host, of whatever is in the tree.
Tests(p) == Gate(p, "test", "benchmark", "TESTED") /\ tested' = [tested EXCEPT ![p] = tree[id[p]]]

\* On the host a test that takes too long raises TimeoutExpired, which is none
\* of the errors the pipeline catches: only its finally clause runs.
TestsTimeOut(p) ==
  /\ at[p] = "test"
  /\ at' = [at EXCEPT ![p] = "remove"]
  /\ UNCHANGED <<disk, id, stage, tested, passed, met, tidied>>

\* The scenarios all pass; every check of a passed suite counts as passed, so
\* that only the time it took can reject.
Benchmarks(p) == Gate(p, "benchmark", "canary", "BENCHMARKED") /\ UNCHANGED tested

\* One successful canary run, then the diff and the verdict.
Trials(p) ==
  /\ at[p] = "canary"
  /\ \/ stage' = [stage EXCEPT ![p] = "ACTIVE"] /\ passed' = passed \union {p}
     \/ stage' = [stage EXCEPT ![p] = "REJECTED"] /\ UNCHANGED passed
  /\ at' = [at EXCEPT ![p] = "remove"]
  /\ UNCHANGED <<disk, id, tested, met, tidied>>

\* The finally clause: remove_worktree, then the report under the id.
RemoveWorktree(p) ==
  /\ at[p] = "remove"
  /\ at' = [at EXCEPT ![p] = "report"]
  /\ \E t \in Remnants(tree[id[p]]) : tree' = [tree EXCEPT ![id[p]] = t]
  /\ UNCHANGED <<head, listed, branch, report, id, stage, tested, passed, met, tidied>>

Reports(p) ==
  /\ at[p] = "report"
  /\ at' = [at EXCEPT ![p] = "done"]
  /\ report' = [report EXCEPT ![id[p]] = {p}]
  /\ UNCHANGED <<head, listed, branch, tree, id, stage, tested, passed, met, tidied>>

Commits ==
  /\ head < MaxCommits /\ head' = head + 1
  /\ UNCHANGED <<listed, branch, tree, report, at, id, stage, tested, passed, met, tidied>>

Tidies ==
  /\ tidied < MaxTidied /\ tidied' = tidied + 1
  /\ \E i \in listed : listed' = listed \ {i}
  /\ UNCHANGED <<head, branch, tree, report, at, id, stage, tested, passed, met>>

Dies(p) ==
  /\ tidied < MaxTidied /\ tidied' = tidied + 1
  /\ UnderWay(p)
  /\ at' = [at EXCEPT ![p] = "dead"]
  /\ UNCHANGED <<disk, id, stage, tested, passed, met>>

Pipeline(p) ==
  \/ Numbers(p) \/ CreatesCandidate(p) \/ CreateWorktree(p) \/ FailsToCreate(p) \/ Patches(p)
  \/ Reviews(p) \/ Tests(p) \/ TestsTimeOut(p) \/ Benchmarks(p) \/ Trials(p)
  \/ RemoveWorktree(p) \/ Reports(p)

Next == \/ \E p \in Proposals : Pipeline(p) \/ Dies(p)
        \/ Commits \/ Tidies

Spec == Init /\ [][Next]_vars

(***************************************************************************)
(* Properties.                                                             *)
(***************************************************************************)

\* Every variable keeps its type (SelfDevelopmentManager, WorktreeManager).
TypeOK ==
  /\ head \in 0 .. MaxCommits /\ listed \subseteq Ids
  /\ branch \in [Ids -> -1 .. MaxCommits] /\ tree \in [Ids -> Tree]
  /\ report \in [Ids -> SUBSET Proposals]
  /\ id \in [Proposals -> Ids \union {0}]
  /\ stage \in [Proposals -> Stages] /\ tested \in [Proposals -> Tree]
  /\ passed \subseteq Proposals /\ met \subseteq Proposals \X Proposals

Shared(p) == \E q \in Proposals : <<p, q>> \in met \/ <<q, p>> \in met

\* A proposal that passed was tested on a tree that held its own files and no
\* other proposal's, whatever an earlier run of the same id, a removal that failed, a
\* crash or a tidied directory had left there, unless another was under way with its
\* id (the id is counted before its file is written).
PassedWasTested ==
  \A p \in passed : ~Shared(p) => tested[p].kind # "none" /\ tested[p].files = {p}

\* What keeps it so: two that are under way with one id have met, and until a
\* proposal that met none removes its worktree, only it writes there.
Steps == {"idle", "named", "worktree", "patch", "review", "test", "benchmark", "canary", "remove",
          "report", "done", "dead"}
Alone(p) == UnderWay(p) /\ ~Shared(p)
Holds(t, p) == t.kind # "none" /\ t.files = {p}
OwnTreeInv ==
  /\ at \in [Proposals -> Steps] /\ tested \in [Proposals -> Tree] /\ tree \in [Ids -> Tree]
  /\ head \in 0 .. MaxCommits /\ branch \in [Ids -> -1 .. MaxCommits]
  /\ id \in [Proposals -> Int] /\ passed \subseteq Proposals
  /\ \A p \in Proposals : at[p] # "idle" => id[p] \in Ids
  /\ listed \subseteq {id[p] : p \in {q \in Proposals : at[q] # "idle"}}
  /\ \A p, q \in Proposals :
       p # q /\ UnderWay(p) /\ UnderWay(q) /\ id[p] = id[q] => <<p, q>> \in met \/ <<q, p>> \in met
  /\ \A p \in Proposals : Alone(p) =>
       /\ at[p] = "patch" => tree[id[p]].kind # "none" /\ tree[id[p]].files = {}
       /\ at[p] \in {"review", "test"} => Holds(tree[id[p]], p)
       /\ at[p] \in {"benchmark", "canary"} => Holds(tested[p], p)
  /\ \A p \in passed : at[p] \in {"remove", "report", "done", "dead"}
  /\ PassedWasTested

=============================================================================
