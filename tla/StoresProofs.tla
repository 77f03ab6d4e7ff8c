----------------------------- MODULE StoresProofs -----------------------------
(***************************************************************************)
(* The safety properties of the parts that keep something on disk - skills *)
(* and their versions, memories and their index, upgrades and their        *)
(* branches, tasks and backups - proved for every value of the constants,  *)
(* along the invariant each has in its own module next to the property.    *)
(***************************************************************************)
EXTENDS Parts, FiniteSetTheorems, SequenceTheorems, WellFoundedInduction, TLAPS

(***************************************************************************)
(* The least of some numbers, for the choices that the model's operators   *)
(* make.                                                                   *)
(***************************************************************************)

\* A set of numbers that is not empty has a least one.
LEMMA LeastNumber ==
  ASSUME NEW S \in SUBSET Nat, S # {}
  PROVE  \E x \in S : \A y \in S : x <= y
<1> DEFINE R == OpToRel(<, Nat)
<1>1. \A x, y \in Nat : <<y, x>> \in R <=> y < x
  BY DEF OpToRel
<1>2. IsWellFoundedOn(R, Nat)
  BY NatLessThanWellFounded
<1> HIDE DEF R
<1>3. \E x \in S : \A y \in S : <<y, x>> \notin R
  BY <1>2, WFMin, Zenon
<1>4. PICK x \in S : \A y \in S : <<y, x>> \notin R
  BY <1>3
<1>5. ASSUME NEW y \in S PROVE x <= y
  <2>1. x \in Nat /\ y \in Nat
    OBVIOUS
  <2>2. ~(y < x)
    BY <1>1, <1>4, <2>1, Zenon
  <2>. QED BY <2>1, <2>2
<1>. QED BY <1>5

(***************************************************************************)
(* Skills.                                                                 *)
(***************************************************************************)

\* The version a rollback goes back to is one of the history (SkillVersionManager.
\* rollback).
LEMMA TargetIsKnown ==
  ASSUME NEW h \in Seq(Learning!Snapshots), h # <<>>, NEW version,
         version # 0 => \E i \in DOMAIN h : h[i].version = version
  PROVE  \E i \in DOMAIN h : Learning!TargetOf(h, version) = h[i]
<1>1. DOMAIN h = 1 .. Len(h) /\ Len(h) \in Nat /\ Len(h) >= 1
  OBVIOUS
<1>2. CASE version # 0
  <2>. DEFINE I == {i \in 1 .. Len(h) : h[i].version = version}
  <2>1. I # {} /\ I \in SUBSET Nat
    BY <1>1, <1>2
  <2>2. \E x \in I : \A y \in I : x <= y
    BY <2>1, LeastNumber
  <2>3. Learning!Min(I) \in I
    BY <2>2 DEF Learning!Min
  <2>4. Learning!TargetOf(h, version) = h[Learning!Min(I)]
    BY <1>2, <2>1 DEF Learning!TargetOf, Learning!SelectInSeq
  <2>. QED BY <1>1, <2>3, <2>4
<1>3. CASE version = 0
  BY <1>1, <1>3 DEF Learning!TargetOf
<1>. QED BY <1>2, <1>3

\* The fields of the records that the operations make.
LEMMA SkillFields ==
  ASSUME NEW s \in Learning!Records, NEW n \in Nat
  PROVE  /\ [s EXCEPT !.won = @ + 1] \in Learning!Records
         /\ [s EXCEPT !.lost = @ + 1] \in Learning!Records
         /\ [s EXCEPT !.steps = n] \in Learning!Records
         /\ [s EXCEPT !.text = n, !.steps = 0] \in Learning!Records
         /\ Learning!Bumped(s) \in Learning!Records
         /\ Learning!Entry(s) \in Learning!Snapshots
<1>1. [s EXCEPT !.won = @ + 1] \in Learning!Records
  BY DEF Learning!Records
<1>2. [s EXCEPT !.lost = @ + 1] \in Learning!Records
  BY DEF Learning!Records
<1>3. [s EXCEPT !.steps = n] \in Learning!Records
  BY DEF Learning!Records
<1>4. [s EXCEPT !.text = n, !.steps = 0] \in Learning!Records
  BY DEF Learning!Records
<1>5. Learning!Bumped(s) \in Learning!Records
  BY DEF Learning!Records, Learning!Bumped
<1>6. Learning!Entry(s) \in Learning!Snapshots
  BY DEF Learning!Records, Learning!Snapshots, Learning!Entry
<1>. QED BY <1>1, <1>2, <1>3, <1>4, <1>5, <1>6

\* A snapshot that is appended to a history is in it, and the others stay.
LEMMA AppendKeeps ==
  ASSUME NEW h \in Seq(Learning!Snapshots), NEW v \in Learning!Snapshots
  PROVE  /\ Append(h, v) \in Seq(Learning!Snapshots)
         /\ v \in Learning!ToSet(Append(h, v))
         /\ Learning!ToSet(h) \subseteq Learning!ToSet(Append(h, v))
  BY AppendProperties DEF Learning!ToSet

\* A rollback to an entry of the history leaves a skill that is that entry.
LEMMA RollsBackToKnown ==
  ASSUME Learning!HistoryInv, NEW version, r4 # <<>>,
         version # 0 => \E i \in DOMAIN r4 : r4[i].version = version,
         r2' = Learning!RolledBack(r2, Learning!TargetOf(r4, version)),
         UNCHANGED <<r1, r3, r4, r5, r8>>
  PROVE  Learning!HistoryInv'
<1>1. PICK i \in DOMAIN r4 : Learning!TargetOf(r4, version) = r4[i]
  BY TargetIsKnown DEF Learning!HistoryInv
<1>. DEFINE v == r4[i]
<1>2. v \in Learning!Snapshots /\ v \in Learning!ToSet(r4)
  BY DEF Learning!HistoryInv, Learning!ToSet
<1>3. r2' = Learning!RolledBack(r2, v)
  BY <1>1
<1>. HIDE DEF v
<1>4. /\ r2' \in Learning!Records
      /\ v.version = r2'.version /\ v.text \in {r2'.text, 0}
      /\ v.won <= r2'.won /\ v.lost <= r2'.lost
  <2>. DEFINE text == IF v.text # 0 THEN v.text ELSE r2.text
  <2>1. r2 \in Learning!Records
    BY DEF Learning!HistoryInv
  <2>2. r2' = [r2 EXCEPT !.version = v.version, !.text = text, !.won = v.won, !.lost = v.lost]
    BY <1>3, <2>1 DEF Learning!RolledBack, Learning!Records
  <2>3. v.version \in Nat /\ text \in Nat /\ v.won \in Nat /\ v.lost \in Nat
    BY <1>2, <2>1 DEF Learning!Records, Learning!Snapshots
  <2>4. v.text \in {text, 0}
    OBVIOUS
  <2>. HIDE DEF text
  <2>5. r2' \in Learning!Records
    BY <2>1, <2>2, <2>3 DEF Learning!Records
  <2>6. r2'.version = v.version /\ r2'.text = text /\ r2'.won = v.won /\ r2'.lost = v.lost
    BY <2>1, <2>2 DEF Learning!Records
  <2>. QED BY <2>3, <2>4, <2>5, <2>6
<1>5. Learning!KnownVersion'
  BY <1>2, <1>4 DEF Learning!KnownVersion
<1>. QED BY <1>4, <1>5 DEF Learning!HistoryInv

\* Every operation leaves a skill that is a version there has been.
LEMMA SkillsKeep ==
  ASSUME Learning!HistoryInv, [Learning!Next]_(Learning!vars)
  PROVE  Learning!HistoryInv'
<1>. USE DEF Learning!HistoryInv
<1>0. /\ Learning!None \in Learning!Records
      /\ Learning!None.version = 0 /\ Learning!None.there = FALSE
  BY DEF Learning!None, Learning!Records
<1>1. ASSUME NEW text \in Nat, Learning!NewCandidate(text) PROVE Learning!HistoryInv'
  <2>1. /\ r8' = r8 + 1 /\ UNCHANGED <<r2, r3, r4, r5>>
        /\ r1' = [Learning!None EXCEPT !.there = TRUE, !.text = text, !.steps = r8', !.whole = TRUE]
    BY <1>1 DEF Learning!NewCandidate
  <2>2. r8' \in Nat
    BY <2>1
  <2>3. r1' \in Learning!Records
    BY <2>1, <2>2 DEF Learning!None, Learning!Records
  <2>. QED BY <2>1, <2>2, <2>3 DEF Learning!KnownVersion
<1>2. CASE Learning!Distills \/ Learning!Generates
  <2>1. 0 \in Nat /\ r8 + 1 \in Nat
    OBVIOUS
  <2>. QED BY <1>1, <1>2, <2>1 DEF Learning!Distills, Learning!Generates
<1>3. CASE Learning!Refines
  <2>1. /\ r8' = r8 + 1 /\ UNCHANGED <<r2, r3, r4, r5>>
        /\ r1' = [r2 EXCEPT !.text = r8', !.steps = 0]
    BY <1>3 DEF Learning!Refines
  <2>2. r8' \in Nat
    BY <2>1
  <2>3. r1' \in Learning!Records
    BY <2>1, <2>2, SkillFields
  <2>. QED BY <2>1, <2>2, <2>3 DEF Learning!KnownVersion
<1>4. CASE Learning!Promotes
  <2>. DEFINE c == Learning!Bumped(r1)
  <2>1. /\ r1' = c /\ r5' = Append(r5, Learning!Entry(c)) /\ r2' = [c EXCEPT !.steps = 0]
        /\ r3' \in {r3, c.text} /\ UNCHANGED <<r4, r8>>
    BY <1>4 DEF Learning!Promotes
  <2>2. c \in Learning!Records
    BY SkillFields
  <2>. HIDE DEF c
  <2>3. Learning!Entry(c) \in Learning!Snapshots
    BY <2>2, SkillFields
  <2>4. /\ r5' \in Seq(Learning!Snapshots) /\ Learning!Entry(c) \in Learning!ToSet(r5')
    BY <2>1, <2>3, AppendKeeps
  <2>5. /\ r2' \in Learning!Records /\ c.text \in Nat
        /\ Learning!Entry(c).version = r2'.version /\ Learning!Entry(c).text = r2'.text
        /\ Learning!Entry(c).won <= r2'.won /\ Learning!Entry(c).lost <= r2'.lost
    <3>1. r2' \in Learning!Records /\ c.text \in Nat /\ c.won \in Nat /\ c.lost \in Nat
      BY <2>1, <2>2 DEF Learning!Records
    <3>2. r2'.version = c.version /\ r2'.text = c.text /\ r2'.won = c.won /\ r2'.lost = c.lost
      BY <2>1, <2>2 DEF Learning!Records
    <3>. QED BY <3>1, <3>2 DEF Learning!Entry
  <2>6. Learning!KnownVersion'
    BY <2>4, <2>5 DEF Learning!KnownVersion
  <2>. QED BY <2>1, <2>2, <2>4, <2>5, <2>6
<1>5. CASE Learning!ChecksFile
  <2>1. /\ r3 # -1 /\ UNCHANGED <<r2, r3, r4, r5, r8>>
        /\ r1' = [Learning!None EXCEPT !.there = TRUE, !.text = r3, !.whole = TRUE]
    BY <1>5 DEF Learning!ChecksFile
  <2>2. r1' \in Learning!Records
    BY <2>1 DEF Learning!None, Learning!Records
  <2>. QED BY <2>1, <2>2 DEF Learning!KnownVersion
<1>6. CASE Learning!Loads
  <2>1. /\ r3 # -1 /\ UNCHANGED <<r1, r3, r4, r5, r8>>
        /\ r2' = [Learning!None EXCEPT !.there = TRUE, !.text = r3]
    BY <1>6 DEF Learning!Loads
  <2>2. r2' \in Learning!Records /\ r2'.version = 0
    BY <2>1 DEF Learning!None, Learning!Records
  <2>. QED BY <2>1, <2>2 DEF Learning!KnownVersion
<1>7. CASE Learning!Edits
  <2>1. r8' = r8 + 1 /\ UNCHANGED <<r1, r3, r5>>
    BY <1>7 DEF Learning!Edits
  <2>2. PICK steps \in {r8', 0} :
          Learning!CreateVersion([r2 EXCEPT !.text = r8', !.steps = steps])
    BY <1>7 DEF Learning!Edits
  <2>. DEFINE s == [r2 EXCEPT !.text = r8', !.steps = steps]
  <2>3. s \in Learning!Records /\ r8' \in Nat
    <3>1. r8' \in Nat
      BY <2>1
    <3>2. steps \in Nat
      BY <2>2, <3>1
    <3>. QED BY <3>1, <3>2 DEF Learning!Records
  <2>4. r2' = Learning!Bumped(s) /\ r4' = Append(r4, Learning!Entry(r2'))
    BY <2>2 DEF Learning!CreateVersion
  <2>. HIDE DEF s
  <2>5. r2' \in Learning!Records
    BY <2>3, <2>4, SkillFields
  <2>6. Learning!Entry(r2') \in Learning!Snapshots
    BY <2>5, SkillFields
  <2>7. r4' \in Seq(Learning!Snapshots) /\ Learning!Entry(r2') \in Learning!ToSet(r4')
    BY <2>4, <2>6, AppendKeeps
  <2>8. /\ Learning!Entry(r2').version = r2'.version /\ Learning!Entry(r2').text = r2'.text
        /\ Learning!Entry(r2').won <= r2'.won /\ Learning!Entry(r2').lost <= r2'.lost
    BY <2>5 DEF Learning!Entry, Learning!Records
  <2>9. Learning!KnownVersion'
    BY <2>7, <2>8 DEF Learning!KnownVersion
  <2>. QED BY <2>1, <2>3, <2>5, <2>7, <2>9
<1>8. CASE Learning!Rollback
  <2>1. r4 # <<>> /\ UNCHANGED <<r1, r3, r4, r5, r8>>
    BY <1>8 DEF Learning!Rollback
  <2>2. PICK version \in {0} \union {r4[i].version : i \in DOMAIN r4} :
          r2' = Learning!RolledBack(r2, Learning!TargetOf(r4, version))
    BY <1>8 DEF Learning!Rollback
  <2>. QED BY <2>1, <2>2, RollsBackToKnown
<1>9. CASE Learning!RollbackOnRegression
  <2>1. /\ r2' = Learning!RolledBack(r2, Learning!TargetOf(r4, 0))
        /\ Learning!IndexOf(r2.version) > 1 /\ UNCHANGED <<r1, r3, r4, r5, r8>>
    BY <1>9 DEF Learning!RollbackOnRegression
  <2>2. r4 # <<>>
    <3>. SUFFICES ASSUME r4 = <<>> PROVE FALSE
      OBVIOUS
    <3>1. {i \in 1 .. Len(r4) : r4[i].version = r2.version} = {}
      OBVIOUS
    <3>2. Learning!IndexOf(r2.version) = 0
      BY <3>1 DEF Learning!IndexOf, Learning!SelectInSeq
    <3>. QED BY <2>1, <3>2
  <2>. QED BY <2>1, <2>2, RollsBackToKnown
<1>10. CASE Learning!Runs \/ Learning!SandboxExecutes \/ UNCHANGED Learning!vars
  <2>1. UNCHANGED <<r1, r2, r3, r4, r5, r8>>
    BY <1>10 DEF Learning!Runs, Learning!SandboxExecutes, Learning!vars
  <2>. QED BY <2>1 DEF Learning!KnownVersion
<1>11. CASE Learning!Evaluates
  <2>1. /\ UNCHANGED <<r1, r3, r4, r5, r8>>
        /\ r2' = [r2 EXCEPT !.won = @ + 1] \/ r2' = [r2 EXCEPT !.lost = @ + 1]
    BY <1>11 DEF Learning!Evaluates
  <2>2. /\ r2' \in Learning!Records /\ r2'.there = r2.there /\ r2'.version = r2.version
        /\ r2'.text = r2.text /\ r2.won <= r2'.won /\ r2.lost <= r2'.lost
    <3>1. CASE r2' = [r2 EXCEPT !.won = @ + 1]
      <4>1. r2' \in Learning!Records
        BY <3>1, SkillFields
      <4>2. r2'.won = r2.won + 1 /\ r2.won \in Nat /\ r2.lost \in Nat
        BY <3>1 DEF Learning!Records
      <4>3. /\ r2'.there = r2.there /\ r2'.version = r2.version /\ r2'.text = r2.text
            /\ r2'.lost = r2.lost
        BY <3>1 DEF Learning!Records
      <4>. QED BY <4>1, <4>2, <4>3
    <3>2. CASE r2' = [r2 EXCEPT !.lost = @ + 1]
      <4>1. r2' \in Learning!Records
        BY <3>2, SkillFields
      <4>2. r2'.lost = r2.lost + 1 /\ r2.won \in Nat /\ r2.lost \in Nat
        BY <3>2 DEF Learning!Records
      <4>3. /\ r2'.there = r2.there /\ r2'.version = r2.version /\ r2'.text = r2.text
            /\ r2'.won = r2.won
        BY <3>2 DEF Learning!Records
      <4>. QED BY <4>1, <4>2, <4>3
    <3>. QED BY <2>1, <3>1, <3>2
  <2>3. Learning!KnownVersion'
    <3>. SUFFICES ASSUME r2.there, r2.version # 0 PROVE Learning!KnownVersion'
      BY <2>2 DEF Learning!KnownVersion
    <3>1. PICK v \in Learning!ToSet(r4) \union Learning!ToSet(r5) :
            /\ v.version = r2.version /\ v.text \in {r2.text, 0}
            /\ v.won <= r2.won /\ v.lost <= r2.lost
      BY DEF Learning!KnownVersion
    <3>2. v \in Learning!Snapshots
      BY DEF Learning!ToSet
    <3>3. v.won <= r2'.won /\ v.lost <= r2'.lost
      BY <2>2, <3>1, <3>2 DEF Learning!Snapshots, Learning!Records
    <3>. QED BY <2>1, <2>2, <3>1, <3>3 DEF Learning!KnownVersion
  <2>. QED BY <2>1, <2>2, <2>3
<1>. QED
  BY <1>2, <1>3, <1>4, <1>5, <1>6, <1>7, <1>8, <1>9, <1>10, <1>11 DEF Learning!Next

\* A skill is a version there has been, however it was edited, measured and rolled
\* back (KnownVersion).
THEOREM VersionsAreKnown == Spec => []KnownVersion
<1>. DEFINE I == which = "skills" => Learning!HistoryInv
<1>1. Init => I
  <2>. SUFFICES ASSUME which = "skills", Learning!Init PROVE Learning!HistoryInv
    BY DEF Init
  <2>1. <<>> \in Seq(Learning!Snapshots)
    OBVIOUS
  <2>2. Learning!None \in Learning!Records /\ Learning!None.there = FALSE
    BY DEF Learning!None, Learning!Records
  <2>. QED BY <2>1, <2>2 DEF Learning!Init, Learning!HistoryInv, Learning!KnownVersion
<1>2. I /\ [Next]_vars => I'
  <2>. SUFFICES ASSUME I, [Next]_vars, which' = "skills" PROVE Learning!HistoryInv'
    OBVIOUS
  <2>1. which = "skills"
    BY DEF Next, vars
  <2>2. [Learning!Next]_(Learning!vars)
    BY <2>1 DEF Next, vars, Learning!vars, After9
  <2>. QED BY <2>1, <2>2, SkillsKeep
<1>3. I => KnownVersion
  BY DEF KnownVersion, Learning!HistoryInv
<1>. QED BY <1>1, <1>2, <1>3, PTL DEF Spec

(***************************************************************************)
(* Memory.                                                                 *)
(***************************************************************************)

\* What the retention manager makes of a row is a row, with no less evidence.
LEMMA RetainedRows ==
  ASSUME NEW i \in Memories, NEW r \in Remembering!Rows, r.evidence > 0, r5 \in [Memories -> Nat]
  PROVE  /\ Remembering!Confirmed(i, r) \in Remembering!Rows
         /\ Remembering!Confirmed(i, r).evidence > 0
         /\ \A by \in Int : /\ Remembering!Lowered(r, by) \in Remembering!Rows
                            /\ Remembering!Lowered(r, by).evidence > 0
         /\ Remembering!Decayed(i, r).conf \in Int
<1>1. AuthorityOf[i] \in Int
  BY Assumptions DEF Assumptions, Remembering!BudgetAssumption
<1>2. r.conf \in Int /\ r.evidence \in Nat
  BY DEF Remembering!Rows
<1>3. /\ Remembering!Confirmed(i, r) \in Remembering!Rows
      /\ Remembering!Confirmed(i, r).evidence > 0
  <2>. DEFINE by == ((800 - r.conf) * 3 * AuthorityOf[i]) \div 1000
  <2>1. by \in Int
    BY <1>1, <1>2
  <2>. HIDE DEF by
  <2>2. Remembering!Confirmed(i, r)
          = [conf |-> Remembering!Atmost(950, r.conf + by), evidence |-> r.evidence + 1]
    BY DEF Remembering!Confirmed, by
  <2>3. Remembering!Atmost(950, r.conf + by) \in Int
    BY <1>2, <2>1 DEF Remembering!Atmost
  <2>. QED BY <1>2, <2>2, <2>3 DEF Remembering!Rows
<1>4. ASSUME NEW by \in Int
      PROVE  Remembering!Lowered(r, by) \in Remembering!Rows /\ Remembering!Lowered(r, by).evidence > 0
  <2>. DEFINE conf == Remembering!Atleast(0, r.conf - by)
  <2>1. conf \in Int
    BY <1>2 DEF Remembering!Atleast
  <2>. HIDE DEF conf
  <2>2. Remembering!Lowered(r, by) = [r EXCEPT !.conf = conf]
    BY DEF Remembering!Lowered, Remembering!Rows, conf
  <2>. QED BY <1>2, <2>1, <2>2 DEF Remembering!Rows
<1>5. Remembering!Decayed(i, r).conf \in Int
  <2>. DEFINE by == (r5[i] * (1000 - 5 * AuthorityOf[i])) \div 100
              conf == Remembering!Atleast(0, r.conf - by + Remembering!Atmost(5 * r.evidence, 30))
  <2>1. by \in Int
    BY <1>1
  <2>. HIDE DEF by
  <2>2. conf \in Int
    BY <1>2, <2>1 DEF Remembering!Atleast, Remembering!Atmost
  <2>. HIDE DEF conf
  <2>3. Remembering!Decayed(i, r) = [r EXCEPT !.conf = conf]
    BY DEF Remembering!Decayed, Remembering!Rows, conf, by
  <2>. QED BY <2>2, <2>3 DEF Remembering!Rows
<1>. QED BY <1>3, <1>4, <1>5

\* A row that is forgotten is still stored: a change of rows that keeps evidence
\* for the stored ones, and touches no other, keeps what the index finds.
LEMMA RetentionKeeps ==
  ASSUME Remembering!StoredInv, r1' \in [Memories -> Remembering!Rows],
         \A i \in Memories :
           r1'[i] = r1[i] \/ (i \in Remembering!Stored /\ r1'[i].evidence > 0),
         r2' = r2, r3' = r3, r5' = r5,
         \/ r4' = r4
         \/ r4' = Remembering!NoPass
  PROVE  Remembering!StoredInv'
<1>1. Remembering!NoRow.evidence = 0
  BY DEF Remembering!NoRow
<1>2. Remembering!Stored' = Remembering!Stored
  BY <1>1 DEF Remembering!Stored
<1>3. \A i \in Remembering!Stored : r1'[i].evidence > 0
  BY DEF Remembering!StoredInv, Remembering!Stored
<1>4. DOMAIN Remembering!NoPass.rows = {}
  BY DEF Remembering!NoPass
<1>5. /\ DOMAIN r4'.rows \subseteq Remembering!Stored
      /\ \A i \in DOMAIN r4'.rows : r4'.rows[i] \in Remembering!Rows /\ r4'.rows[i].evidence > 0
  BY <1>4 DEF Remembering!StoredInv
<1>6. Remembering!IndexIsComplete'
  BY <1>2 DEF Remembering!StoredInv, Remembering!IndexIsComplete, Remembering!Indexed
<1>. QED BY <1>2, <1>3, <1>5, <1>6 DEF Remembering!StoredInv

\* Storing, dying, forgetting and rebuilding keep the index that of the store.
LEMMA MemoryKeeps ==
  ASSUME Remembering!StoredInv, [Remembering!Next]_(Remembering!vars)
  PROVE  Remembering!StoredInv'
<1>1. ASSUME UNCHANGED <<r1, r2, r5>>, r3' = r3 \/ r3' = Remembering!NoTx,
             r4' = r4 \/ r4' = Remembering!NoPass
      PROVE  Remembering!StoredInv'
  <2>1. Remembering!NoTx.item = {} /\ Remembering!NoTx.conf = 0
    BY DEF Remembering!NoTx
  <2>2. DOMAIN Remembering!NoPass.rows = {}
    BY DEF Remembering!NoPass
  <2>. QED
    BY <1>1, <2>1, <2>2
       DEF Remembering!StoredInv, Remembering!Stored, Remembering!IndexIsComplete, Remembering!Indexed
<1>2. ASSUME NEW i \in Memories, NEW conf \in Int, Remembering!Inserts(i, conf)
      PROVE  Remembering!StoredInv'
  <2>1. /\ UNCHANGED <<r1, r2, r4, r5>>
        /\ r3'.item = {i} /\ r3'.conf = conf
    BY <1>2 DEF Remembering!Inserts
  <2>. QED
    BY <2>1
       DEF Remembering!StoredInv, Remembering!Stored, Remembering!IndexIsComplete, Remembering!Indexed
<1>3. ASSUME NEW i \in Memories, Remembering!Remembers(i) \/ Remembering!RecordEvidence(i)
      PROVE  Remembering!StoredInv'
  BY <1>2, <1>3 DEF Remembering!Remembers, Remembering!RecordEvidence
<1>4. CASE Remembering!IndexesIt
  <2>1. UNCHANGED <<r1, r2, r4, r5>> /\ r3' = [r3 EXCEPT !.step = "all"]
    BY <1>4 DEF Remembering!IndexesIt
  <2>2. r3'.item = r3.item /\ r3'.conf = r3.conf
    BY <2>1
  <2>. QED
    BY <2>1, <2>2
       DEF Remembering!StoredInv, Remembering!Stored, Remembering!IndexIsComplete, Remembering!Indexed
<1>5. CASE Remembering!Commits
  <2>1. /\ r1' = [i \in Memories |->
                    IF i \in r3.item
                    THEN [conf |-> r3.conf,
                          evidence |-> IF r1[i] = Remembering!NoRow THEN 1 ELSE r1[i].evidence]
                    ELSE r1[i]]
        /\ r2' = r2 \union {i \in r3.item : Remembering!Indexed(i)}
        /\ r3' = Remembering!NoTx /\ r4' = r4 /\ r5' = r5
    BY <1>5 DEF Remembering!Commits
  <2>2. \A i \in Memories : i \in r3.item =>
          /\ r1'[i] \in Remembering!Rows /\ r1'[i].evidence > 0
    BY <2>1 DEF Remembering!StoredInv, Remembering!Rows, Remembering!Stored
  <2>3. \A i \in Memories : i \notin r3.item => r1'[i] = r1[i]
    BY <2>1
  <2>4. Remembering!NoRow.evidence = 0 /\ Remembering!NoTx.item = {} /\ Remembering!NoTx.conf = 0
    BY DEF Remembering!NoRow, Remembering!NoTx
  <2>5. Remembering!Stored' = Remembering!Stored \union r3.item
    BY <2>2, <2>3, <2>4 DEF Remembering!Stored, Remembering!StoredInv
  <2>6. r1' \in [Memories -> Remembering!Rows]
    BY <2>1, <2>2, <2>3 DEF Remembering!StoredInv
  <2>7. \A i \in Remembering!Stored' : r1'[i].evidence > 0
    BY <2>2, <2>3, <2>5 DEF Remembering!Stored, Remembering!StoredInv
  <2>8. Remembering!IndexIsComplete'
    BY <2>1, <2>5 DEF Remembering!IndexIsComplete, Remembering!StoredInv, Remembering!Indexed
  <2>9. /\ DOMAIN r4'.rows \subseteq Remembering!Stored'
        /\ \A i \in DOMAIN r4'.rows : r4'.rows[i] \in Remembering!Rows /\ r4'.rows[i].evidence > 0
    BY <2>1, <2>5 DEF Remembering!StoredInv
  <2>10. r5' \in [Memories -> Nat] /\ r3'.item = {} /\ r3'.conf = 0
    BY <2>1, <2>4 DEF Remembering!StoredInv
  <2>. QED BY <2>6, <2>7, <2>8, <2>9, <2>10 DEF Remembering!StoredInv
<1>6. CASE Remembering!Dies
  BY <1>1, <1>6 DEF Remembering!Dies
<1>7. CASE Remembering!Rebuilds
  <2>1. r2' = {i \in Remembering!Stored : Remembering!Indexed(i)} /\ UNCHANGED <<r1, r3, r4, r5>>
    BY <1>7 DEF Remembering!Rebuilds
  <2>. QED
    BY <2>1
       DEF Remembering!StoredInv, Remembering!Stored, Remembering!IndexIsComplete, Remembering!Indexed
<1>8. ASSUME NEW of, NEW S \in SUBSET Remembering!Stored, Remembering!Reads(of, S)
      PROVE  Remembering!StoredInv'
  <2>1. UNCHANGED <<r1, r2, r3, r5>> /\ r4' = [of |-> of, rows |-> [i \in S |-> r1[i]]]
    BY <1>8 DEF Remembering!Reads
  <2>2. DOMAIN r4'.rows = S /\ \A i \in S : r4'.rows[i] = r1[i]
    BY <2>1
  <2>3. S \subseteq Memories
    BY DEF Remembering!Stored
  <2>. QED
    BY <2>1, <2>2, <2>3
       DEF Remembering!StoredInv, Remembering!Stored, Remembering!IndexIsComplete, Remembering!Indexed
<1>9. CASE Remembering!ReadsOne
  BY <1>8, <1>9 DEF Remembering!ReadsOne
<1>10. CASE Remembering!ReadsAll
  <2>1. {i \in Remembering!Stored : r1[i].conf > 0} \in SUBSET Remembering!Stored
    OBVIOUS
  <2>. QED BY <1>8, <1>10, <2>1 DEF Remembering!ReadsAll
<1>11. CASE Remembering!Updates
  <2>1. PICK i \in DOMAIN r4.rows :
          \E r \in {Remembering!Confirmed(i, r4.rows[i]), Remembering!Lowered(r4.rows[i], 150),
                    Remembering!Lowered(r4.rows[i], 100)} : r1' = [r1 EXCEPT ![i] = r]
    BY <1>11 DEF Remembering!Updates
  <2>2. UNCHANGED <<r2, r3, r5>> /\ r4' = Remembering!NoPass
    BY <1>11 DEF Remembering!Updates
  <2>3. i \in Remembering!Stored /\ i \in Memories
    BY <2>1 DEF Remembering!StoredInv, Remembering!Stored
  <2>. DEFINE before == r4.rows[i]
  <2>7. before \in Remembering!Rows /\ before.evidence > 0 /\ r5 \in [Memories -> Nat]
    BY <2>1 DEF Remembering!StoredInv
  <2>. HIDE DEF before
  <2>8. /\ Remembering!Confirmed(i, before) \in Remembering!Rows
        /\ Remembering!Confirmed(i, before).evidence > 0
        /\ \A by \in Int : /\ Remembering!Lowered(before, by) \in Remembering!Rows
                           /\ Remembering!Lowered(before, by).evidence > 0
    BY <2>3, <2>7, RetainedRows
  <2>9. \A r \in {Remembering!Confirmed(i, before), Remembering!Lowered(before, 150),
                  Remembering!Lowered(before, 100)} : r \in Remembering!Rows /\ r.evidence > 0
    BY <2>8
  <2>4. PICK r \in Remembering!Rows : r.evidence > 0 /\ r1' = [r1 EXCEPT ![i] = r]
    BY <2>1, <2>9 DEF before
  <2>5. r1' \in [Memories -> Remembering!Rows]
    BY <2>4 DEF Remembering!StoredInv
  <2>6. \A j \in Memories : r1'[j] = r1[j] \/ (j \in Remembering!Stored /\ r1'[j].evidence > 0)
    BY <2>3, <2>4 DEF Remembering!StoredInv
  <2>. QED BY <2>2, <2>5, <2>6, RetentionKeeps
<1>12. ASSUME NEW S \in SUBSET Remembering!Stored, NEW conf \in [S -> Int],
              r1' = [i \in Memories |-> IF i \in S THEN [r1[i] EXCEPT !.conf = conf[i]] ELSE r1[i]],
              r2' = r2, r3' = r3, r5' = r5, r4' = r4 \/ r4' = Remembering!NoPass
       PROVE  Remembering!StoredInv'
  <2>1. \A r \in Remembering!Rows, c \in Int :
          [r EXCEPT !.conf = c] \in Remembering!Rows /\ [r EXCEPT !.conf = c].evidence = r.evidence
    BY DEF Remembering!Rows
  <2>2. \A i \in Memories : r1[i] \in Remembering!Rows
    BY DEF Remembering!StoredInv
  <2>3. \A i \in S : i \in Memories /\ r1[i].evidence > 0
    BY DEF Remembering!StoredInv, Remembering!Stored
  <2>4. r1' \in [Memories -> Remembering!Rows]
    BY <1>12, <2>1, <2>2
  <2>5. \A i \in Memories : r1'[i] = r1[i] \/ (i \in Remembering!Stored /\ r1'[i].evidence > 0)
    BY <1>12, <2>1, <2>2, <2>3
  <2>. QED BY <1>12, <2>4, <2>5, RetentionKeeps
<1>13. CASE Remembering!AppliesDecay
  <2>. DEFINE S == DOMAIN r4.rows
              conf == [i \in S |-> IF r5[i] > Remembering!MaxAge(i) THEN 0
                                   ELSE Remembering!Decayed(i, r4.rows[i]).conf]
  <2>1. S \in SUBSET Remembering!Stored /\ S \subseteq Memories
    BY DEF Remembering!StoredInv, Remembering!Stored
  <2>2. \A i \in S : Remembering!Decayed(i, r4.rows[i]).conf \in Int
    BY <2>1, RetainedRows DEF Remembering!StoredInv
  <2>3. conf \in [S -> Int]
    BY <2>2
  <2>4. r1' = [i \in Memories |-> IF i \in S THEN [r1[i] EXCEPT !.conf = conf[i]] ELSE r1[i]]
    BY <1>13 DEF Remembering!AppliesDecay
  <2>5. r2' = r2 /\ r3' = r3 /\ r5' = r5 /\ r4' = Remembering!NoPass
    BY <1>13 DEF Remembering!AppliesDecay
  <2>. HIDE DEF S, conf
  <2>. QED BY <1>12, <2>1, <2>3, <2>4, <2>5
<1>14. CASE Remembering!ExpireStale
  <2>. DEFINE S == Remembering!Stored \intersect r6
              conf == [i \in S |-> 0]
  <2>1. S \in SUBSET Remembering!Stored /\ conf \in [S -> Int]
    OBVIOUS
  <2>2. r1' = [i \in Memories |-> IF i \in S THEN [r1[i] EXCEPT !.conf = conf[i]] ELSE r1[i]]
    BY <1>14 DEF Remembering!ExpireStale
  <2>3. r2' = r2 /\ r3' = r3 /\ r5' = r5 /\ r4' = r4
    BY <1>14 DEF Remembering!ExpireStale
  <2>. HIDE DEF S, conf
  <2>. QED BY <1>12, <2>1, <2>2, <2>3
<1>15. CASE Remembering!TimePasses
  <2>1. UNCHANGED <<r1, r2, r3, r4>>
    BY <1>15 DEF Remembering!TimePasses
  <2>2. r5' \in [Memories -> Nat]
    <3>1. CASE r5' = r5
      BY <3>1 DEF Remembering!StoredInv
    <3>2. ASSUME NEW d \in {50, 400},
                 r5' = [i \in Memories |-> Remembering!Atleast(r5[i], IF i \in Remembering!Stored THEN d ELSE 0)]
          PROVE  r5' \in [Memories -> Nat]
      BY <3>2 DEF Remembering!StoredInv, Remembering!Atleast
    <3>. QED BY <1>15, <3>1, <3>2 DEF Remembering!TimePasses
  <2>. QED
    BY <2>1, <2>2
       DEF Remembering!StoredInv, Remembering!Stored, Remembering!IndexIsComplete, Remembering!Indexed
<1>16. CASE Remembering!Primes \/ UNCHANGED Remembering!vars
  <2>1. UNCHANGED <<r1, r2, r3, r4, r5>>
    BY <1>16 DEF Remembering!Primes, Remembering!vars
  <2>. QED BY <1>1, <2>1
<1>. QED
  BY <1>3, <1>4, <1>5, <1>6, <1>7, <1>9, <1>10, <1>11, <1>13, <1>14, <1>15, <1>16
     DEF Remembering!Next

\* What is remembered can be found and what is found is remembered, whatever errors
\* and crashes come between the inserts (IndexIsComplete).
THEOREM IndexStaysComplete == Spec => []IndexIsComplete
<1>. DEFINE I == which = "memory" => Remembering!StoredInv
<1>1. Init => I
  <2>. SUFFICES ASSUME which = "memory", Remembering!Init PROVE Remembering!StoredInv
    BY DEF Init
  <2>1. Remembering!NoRow \in Remembering!Rows
    BY DEF Remembering!NoRow, Remembering!Rows
  <2>2. /\ Remembering!NoTx.item = {} /\ Remembering!NoTx.conf = 0
        /\ DOMAIN Remembering!NoPass.rows = {}
    BY DEF Remembering!NoTx, Remembering!NoPass
  <2>3. Remembering!Stored = {}
    BY DEF Remembering!Init, Remembering!Stored
  <2>. QED
    BY <2>1, <2>2, <2>3 DEF Remembering!Init, Remembering!StoredInv, Remembering!IndexIsComplete
<1>2. I /\ [Next]_vars => I'
  <2>. SUFFICES ASSUME I, [Next]_vars, which' = "memory" PROVE Remembering!StoredInv'
    OBVIOUS
  <2>1. which = "memory"
    BY DEF Next, vars
  <2>2. [Remembering!Next]_(Remembering!vars)
    BY <2>1 DEF Next, vars, Remembering!vars, After8
  <2>. QED BY <2>1, <2>2, MemoryKeeps
<1>3. I => IndexIsComplete
  BY DEF IndexIsComplete, Remembering!StoredInv
<1>. QED BY <1>1, <1>2, <1>3, PTL DEF Spec

(***************************************************************************)
(* Upgrades.                                                               *)
(***************************************************************************)

\* The counting of the module Upgrades is that of FiniteSets.
LEMMA CountsAlike ==
  \A S : /\ Upgrading!IsFiniteSet(S) => IsFiniteSet(S)
         /\ Upgrading!Cardinality(S) = Cardinality(S)
<1>1. ASSUME NEW S PROVE Upgrading!IsFiniteSet(S) => IsFiniteSet(S)
  BY Zenon DEF Upgrading!IsFiniteSet, IsFiniteSet
<1>2. ASSUME NEW S PROVE Upgrading!Cardinality(S) = Cardinality(S)
  BY Zenon DEF Upgrading!Cardinality, Cardinality
<1>. QED BY <1>1, <1>2

\* The id that is next is one of the ids: the files that are there are those of
\* the other proposals.
LEMMA NextIdIsAnId ==
  ASSUME Upgrading!OwnTreeInv, NEW p \in Proposals, r6[p] = "idle"
  PROVE  Upgrading!NextUpgradeId \in Upgrading!Ids
<1>. DEFINE named == {q \in Proposals : r6[q] # "idle"}
            ids == {r7[q] : q \in named}
            idOf == [q \in named |-> r7[q]]
<1>1. IsFiniteSet(Proposals) /\ Cardinality(Proposals) \in Nat
  <2>1. IsFiniteSet(Proposals)
    BY Assumptions, CountsAlike DEF Assumptions, Upgrading!ProposalsAssumption
  <2>. QED BY <2>1, FS_CardinalityType
<1>2. IsFiniteSet(Proposals \ {p}) /\ Cardinality(Proposals \ {p}) = Cardinality(Proposals) - 1
  BY <1>1, FS_RemoveElement
<1>3. named \in SUBSET (Proposals \ {p})
  OBVIOUS
<1>4. IsFiniteSet(named) /\ Cardinality(named) <= Cardinality(Proposals \ {p})
  BY <1>2, <1>3, FS_Subset
<1>5. idOf \in Surjection(named, ids)
  BY DEF Surjection
<1>6. listed_is_named :: r2 \in SUBSET ids
  BY DEF Upgrading!OwnTreeInv
<1>. HIDE DEF named, ids, idOf
<1>7. IsFiniteSet(ids) /\ Cardinality(ids) <= Cardinality(named)
  BY <1>4, <1>5, FS_Surjection
<1>8. IsFiniteSet(r2) /\ Cardinality(r2) <= Cardinality(ids)
  BY <1>6, <1>7, FS_Subset
<1>9. Cardinality(r2) \in Nat /\ Cardinality(ids) \in Nat /\ Cardinality(named) \in Nat
  <2>1. Cardinality(r2) \in Nat
    BY <1>8, FS_CardinalityType
  <2>2. Cardinality(ids) \in Nat
    BY <1>7, FS_CardinalityType
  <2>3. Cardinality(named) \in Nat
    BY <1>4, FS_CardinalityType
  <2>. QED BY <2>1, <2>2, <2>3
<1>10. Cardinality(r2) + 1 \in 1 .. Cardinality(Proposals)
  BY <1>1, <1>2, <1>4, <1>7, <1>8, <1>9
<1>. QED BY <1>10, CountsAlike DEF Upgrading!NextUpgradeId, Upgrading!Ids

\* A proposal that is under way writes to the worktree of its id only.  Another
\* one that is under way with that id has met it, so that for one that met none
\* nothing changes.
LEMMA OwnStep ==
  ASSUME Upgrading!OwnTreeInv, NEW p \in Proposals, Upgrading!UnderWay(p),
         r1' = r1, r7' = r7, r11' = r11,
         r2' \subseteq r2 \union {r7[p]},
         r3' \in [Upgrading!Ids -> -1 .. MaxCommits],
         r4' \in [Upgrading!Ids -> Upgrading!Tree],
         r6' \in [Proposals -> Upgrading!Steps],
         r9' \in [Proposals -> Upgrading!Tree],
         \A j \in Upgrading!Ids \ {r7[p]} : r4'[j] = r4[j],
         \A q \in Proposals \ {p} : r6'[q] = r6[q] /\ r9'[q] = r9[q],
         r6'[p] # "idle",
         r10' \subseteq r10 \union {p},
         ~Upgrading!Shared(p) =>
           /\ r6'[p] = "patch" => r4'[r7[p]].kind # "none" /\ r4'[r7[p]].files = {}
           /\ r6'[p] \in {"review", "test"} => Upgrading!Holds(r4'[r7[p]], p)
           /\ r6'[p] \in {"benchmark", "canary"} => Upgrading!Holds(r9'[p], p),
         p \in r10' =>
           /\ r6'[p] \in {"remove", "report", "done", "dead"}
           /\ ~Upgrading!Shared(p) => Upgrading!Holds(r9'[p], p)
  PROVE  Upgrading!OwnTreeInv'
<1>1. \A q \in Proposals : Upgrading!UnderWay(q)' => Upgrading!UnderWay(q)
  BY DEF Upgrading!UnderWay
<1>2. \A q \in Proposals : Upgrading!Shared(q)' <=> Upgrading!Shared(q)
  BY DEF Upgrading!Shared
<1>3. \A q \in Proposals : r6[q] # "idle" => r7[q] \in Upgrading!Ids
  BY DEF Upgrading!OwnTreeInv
<1>4. \A q \in Proposals \ {p} :
        Upgrading!UnderWay(q) /\ ~Upgrading!Shared(q) => r4'[r7[q]] = r4[r7[q]]
  <2>. SUFFICES ASSUME NEW q \in Proposals \ {p}, Upgrading!UnderWay(q), ~Upgrading!Shared(q)
                PROVE  r4'[r7[q]] = r4[r7[q]]
    OBVIOUS
  <2>1. r7[q] # r7[p]
    BY DEF Upgrading!OwnTreeInv, Upgrading!Shared
  <2>2. r7[q] \in Upgrading!Ids
    BY <1>3 DEF Upgrading!UnderWay
  <2>. QED BY <2>1, <2>2
<1>5. \A q \in Proposals : r6'[q] # "idle" <=> r6[q] # "idle"
  BY DEF Upgrading!UnderWay
<1>6. \A q \in Proposals : r6'[q] # "idle" => r7'[q] \in Upgrading!Ids
  BY <1>3, <1>5
<1>7. r2' \subseteq {r7'[q] : q \in {u \in Proposals : r6'[u] # "idle"}}
  BY <1>5 DEF Upgrading!OwnTreeInv
<1>8. \A q, u \in Proposals :
        q # u /\ Upgrading!UnderWay(q)' /\ Upgrading!UnderWay(u)' /\ r7'[q] = r7'[u]
          => <<q, u>> \in r11' \/ <<u, q>> \in r11'
  BY <1>1 DEF Upgrading!OwnTreeInv
<1>9. \A q \in Proposals : Upgrading!Alone(q)' =>
        /\ r6'[q] = "patch" => r4'[r7'[q]].kind # "none" /\ r4'[r7'[q]].files = {}
        /\ r6'[q] \in {"review", "test"} => Upgrading!Holds(r4'[r7'[q]], q)
        /\ r6'[q] \in {"benchmark", "canary"} => Upgrading!Holds(r9'[q], q)
  <2>. SUFFICES ASSUME NEW q \in Proposals, Upgrading!Alone(q)'
                PROVE  /\ r6'[q] = "patch" => r4'[r7'[q]].kind # "none" /\ r4'[r7'[q]].files = {}
                       /\ r6'[q] \in {"review", "test"} => Upgrading!Holds(r4'[r7'[q]], q)
                       /\ r6'[q] \in {"benchmark", "canary"} => Upgrading!Holds(r9'[q], q)
    OBVIOUS
  <2>1. Upgrading!UnderWay(q) /\ ~Upgrading!Shared(q) /\ Upgrading!Alone(q)
    BY <1>1, <1>2 DEF Upgrading!Alone
  <2>2. CASE q = p
    BY <2>1, <2>2
  <2>3. CASE q # p
    <3>1. r4'[r7[q]] = r4[r7[q]] /\ r6'[q] = r6[q] /\ r9'[q] = r9[q] /\ r7'[q] = r7[q]
      BY <1>4, <2>1, <2>3
    <3>2. /\ r6[q] = "patch" => r4[r7[q]].kind # "none" /\ r4[r7[q]].files = {}
          /\ r6[q] \in {"review", "test"} => Upgrading!Holds(r4[r7[q]], q)
          /\ r6[q] \in {"benchmark", "canary"} => Upgrading!Holds(r9[q], q)
      BY <2>1 DEF Upgrading!OwnTreeInv
    <3>. QED BY <3>1, <3>2
  <2>. QED BY <2>2, <2>3
<1>10. \A q \in r10' : r6'[q] \in {"remove", "report", "done", "dead"}
  <2>. SUFFICES ASSUME NEW q \in r10', q # p
                PROVE  r6'[q] \in {"remove", "report", "done", "dead"}
    OBVIOUS
  <2>1. q \in r10 /\ q \in Proposals
    BY DEF Upgrading!OwnTreeInv
  <2>. QED BY <2>1 DEF Upgrading!OwnTreeInv
<1>11. Upgrading!PassedWasTested'
  <2>0. r10' \subseteq Proposals
    BY DEF Upgrading!OwnTreeInv
  <2>. SUFFICES ASSUME NEW q \in r10', ~Upgrading!Shared(q)
                PROVE  r9'[q].kind # "none" /\ r9'[q].files = {q}
    BY <1>2, <2>0 DEF Upgrading!PassedWasTested
  <2>1. CASE q = p
    BY <2>1 DEF Upgrading!Holds
  <2>2. CASE q # p
    <3>0. q \in r10 /\ q \in Proposals
      BY <2>0, <2>2
    <3>1. r9[q].kind # "none" /\ r9[q].files = {q}
      BY <3>0 DEF Upgrading!OwnTreeInv, Upgrading!PassedWasTested
    <3>2. r9'[q] = r9[q]
      BY <2>2, <3>0
    <3>. QED BY <3>1, <3>2
  <2>. QED BY <2>1, <2>2
<1>. QED BY <1>6, <1>7, <1>8, <1>9, <1>10, <1>11 DEF Upgrading!OwnTreeInv

\* The pipeline of one proposal, a death, another's commit and a tidied file.
LEMMA UpgradesKeep ==
  ASSUME Upgrading!OwnTreeInv, [Upgrading!Next]_(Upgrading!vars)
  PROVE  Upgrading!OwnTreeInv'
<1>. USE DEF Upgrading!disk
<1>0. MaxCommits \in Nat
  BY Assumptions DEF Assumptions, Upgrading!ProposalsAssumption
<1>1. ASSUME NEW p \in Proposals, Upgrading!Numbers(p)
      PROVE  Upgrading!OwnTreeInv'
  <2>. DEFINE n == Upgrading!NextUpgradeId
  <2>1. /\ UNCHANGED <<r1, r2, r3, r4, r9, r10>>
        /\ r6[p] = "idle" /\ r6' = [r6 EXCEPT ![p] = "named"] /\ r7' = [r7 EXCEPT ![p] = n]
        /\ r11' = r11 \union {<<p, q>> : q \in {u \in Proposals : Upgrading!UnderWay(u) /\ r7[u] = n}}
    BY <1>1 DEF Upgrading!Numbers
  <2>2. n \in Upgrading!Ids
    BY <2>1, NextIdIsAnId
  <2>. HIDE DEF n
  <2>3. /\ r6' \in [Proposals -> Upgrading!Steps] /\ r6'[p] = "named"
        /\ r7' \in [Proposals -> Int] /\ r7'[p] = n
        /\ \A q \in Proposals \ {p} : r6'[q] = r6[q] /\ r7'[q] = r7[q]
    BY <2>1, <2>2 DEF Upgrading!OwnTreeInv, Upgrading!Steps, Upgrading!Ids
  <2>4. p \notin r10
    BY <2>1 DEF Upgrading!OwnTreeInv
  <2>5. \A q \in Proposals : r6'[q] # "idle" => r7'[q] \in Upgrading!Ids
    BY <2>2, <2>3 DEF Upgrading!OwnTreeInv
  <2>6. r2' \subseteq {r7'[q] : q \in {u \in Proposals : r6'[u] # "idle"}}
    <3>1. \A q \in Proposals : r6[q] # "idle" => r6'[q] # "idle" /\ r7'[q] = r7[q]
      BY <2>1, <2>3
    <3>. QED BY <2>1, <3>1 DEF Upgrading!OwnTreeInv
  <2>7. \A q, u \in Proposals :
          q # u /\ Upgrading!UnderWay(q)' /\ Upgrading!UnderWay(u)' /\ r7'[q] = r7'[u]
            => <<q, u>> \in r11' \/ <<u, q>> \in r11'
    <3>1. \A q \in Proposals \ {p} : Upgrading!UnderWay(q)' <=> Upgrading!UnderWay(q)
      BY <2>3 DEF Upgrading!UnderWay
    <3>2. \A q, u \in Proposals \ {p} :
            q # u /\ Upgrading!UnderWay(q)' /\ Upgrading!UnderWay(u)' /\ r7'[q] = r7'[u]
              => <<q, u>> \in r11' \/ <<u, q>> \in r11'
      BY <2>1, <2>3, <3>1 DEF Upgrading!OwnTreeInv
    <3>3. \A q \in Proposals \ {p} :
            Upgrading!UnderWay(q)' /\ r7'[q] = r7'[p] => <<p, q>> \in r11'
      BY <2>1, <2>3, <3>1
    <3>. QED BY <3>2, <3>3
  <2>8. \A q \in Proposals : Upgrading!Shared(q) => Upgrading!Shared(q)'
    BY <2>1 DEF Upgrading!Shared
  <2>9. \A q \in Proposals : Upgrading!Alone(q)' =>
          /\ r6'[q] = "patch" => r4'[r7'[q]].kind # "none" /\ r4'[r7'[q]].files = {}
          /\ r6'[q] \in {"review", "test"} => Upgrading!Holds(r4'[r7'[q]], q)
          /\ r6'[q] \in {"benchmark", "canary"} => Upgrading!Holds(r9'[q], q)
    <3>. SUFFICES ASSUME NEW q \in Proposals, Upgrading!Alone(q)', q # p
                  PROVE  /\ r6'[q] = "patch" => r4'[r7'[q]].kind # "none" /\ r4'[r7'[q]].files = {}
                         /\ r6'[q] \in {"review", "test"} => Upgrading!Holds(r4'[r7'[q]], q)
                         /\ r6'[q] \in {"benchmark", "canary"} => Upgrading!Holds(r9'[q], q)
      BY <2>3
    <3>1. Upgrading!Alone(q)
      BY <2>3, <2>8 DEF Upgrading!Alone, Upgrading!UnderWay
    <3>. QED BY <2>1, <2>3, <3>1 DEF Upgrading!OwnTreeInv
  <2>10. \A q \in r10' : q \in Proposals /\ q # p
    BY <2>1, <2>4 DEF Upgrading!OwnTreeInv
  <2>11. \A q \in r10' : r6'[q] \in {"remove", "report", "done", "dead"}
    BY <2>1, <2>3, <2>10 DEF Upgrading!OwnTreeInv
  <2>12. Upgrading!PassedWasTested'
    BY <2>1, <2>3, <2>8, <2>10 DEF Upgrading!PassedWasTested, Upgrading!OwnTreeInv
  <2>. QED
    BY <2>1, <2>3, <2>5, <2>6, <2>7, <2>9, <2>10, <2>11, <2>12 DEF Upgrading!OwnTreeInv
<1>2. ASSUME NEW p \in Proposals, Upgrading!UnderWay(p)
      PROVE  /\ r7[p] \in Upgrading!Ids
             /\ r3 \in [Upgrading!Ids -> -1 .. MaxCommits]
             /\ r4 \in [Upgrading!Ids -> Upgrading!Tree] /\ r9 \in [Proposals -> Upgrading!Tree]
             /\ p \in r10 =>
                  /\ r6[p] \in {"remove", "report"}
                  /\ ~Upgrading!Shared(p) => Upgrading!Holds(r9[p], p)
  <2>1. p \in r10 => r6[p] \in {"remove", "report"}
    BY <1>2 DEF Upgrading!OwnTreeInv, Upgrading!UnderWay
  <2>2. p \in r10 /\ ~Upgrading!Shared(p) => Upgrading!Holds(r9[p], p)
    BY DEF Upgrading!OwnTreeInv, Upgrading!PassedWasTested, Upgrading!Holds
  <2>3. r6[p] # "idle"
    BY <1>2 DEF Upgrading!UnderWay
  <2>4. r7[p] \in Upgrading!Ids
    BY <2>3 DEF Upgrading!OwnTreeInv
  <2>. QED BY <2>1, <2>2, <2>4 DEF Upgrading!OwnTreeInv
<1>3. ASSUME NEW p \in Proposals, NEW to \in Upgrading!Steps \ {"idle"}
      PROVE  LET next == [r6 EXCEPT ![p] = to]
             IN  /\ next \in [Proposals -> Upgrading!Steps] /\ next[p] = to
                 /\ \A q \in Proposals \ {p} : next[q] = r6[q]
  BY DEF Upgrading!OwnTreeInv
<1>4. ASSUME NEW p \in Proposals, Upgrading!UnderWay(p), NEW t \in Upgrading!Tree
      PROVE  LET next == [r4 EXCEPT ![r7[p]] = t]
             IN  /\ next \in [Upgrading!Ids -> Upgrading!Tree] /\ next[r7[p]] = t
                 /\ \A j \in Upgrading!Ids \ {r7[p]} : next[j] = r4[j]
  BY <1>2, <1>4
<1>5. \A kind \in {"git", "copy"}, commit \in 0 .. MaxCommits :
        /\ [kind |-> kind, commit |-> commit, files |-> {}] \in Upgrading!Tree
        /\ [kind |-> kind, commit |-> commit, files |-> {}].kind # "none"
        /\ [kind |-> kind, commit |-> commit, files |-> {}].files = {}
  BY DEF Upgrading!Tree
<1>6. \A step \in {"named", "worktree", "patch", "review", "test", "benchmark", "canary", "remove",
                  "report", "done", "dead"} : step \in Upgrading!Steps \ {"idle"}
  BY DEF Upgrading!Steps
<1>22. ASSUME NEW b \in Upgrading!Tree
       PROVE  Upgrading!Remnants(b) \subseteq Upgrading!Tree
  <2>1. Upgrading!NoTree \in Upgrading!Tree
    <3>1. 0 \in 0 .. MaxCommits
      BY <1>0
    <3>. QED BY <3>1 DEF Upgrading!NoTree, Upgrading!Tree
  <2>2. \A kept \in SUBSET b.files : [b EXCEPT !.files = kept] \in Upgrading!Tree
    BY DEF Upgrading!Tree
  <2>. QED BY <2>1, <2>2 DEF Upgrading!Remnants
<1>7. ASSUME NEW p \in Proposals, Upgrading!CreatesCandidate(p)
      PROVE  Upgrading!OwnTreeInv'
  <2>1. /\ r6[p] = "named" /\ r6' = [r6 EXCEPT ![p] = "worktree"] /\ r2' = r2 \union {r7[p]}
        /\ UNCHANGED <<r1, r3, r4, r7, r9, r10, r11>>
    BY <1>7 DEF Upgrading!CreatesCandidate
  <2>2. Upgrading!UnderWay(p)
    BY <2>1 DEF Upgrading!UnderWay
  <2>3. p \notin r10
    BY <1>2, <2>1, <2>2
  <2>4. /\ r6' \in [Proposals -> Upgrading!Steps] /\ r6'[p] = "worktree"
        /\ \A q \in Proposals \ {p} : r6'[q] = r6[q]
    BY <1>3, <1>6, <2>1
  <2>. QED BY <1>2, <2>1, <2>2, <2>3, <2>4, OwnStep
<1>8. ASSUME NEW p \in Proposals, Upgrading!CreateWorktree(p)
      PROVE  Upgrading!OwnTreeInv'
  <2>1. /\ r6[p] = "worktree" /\ r6' = [r6 EXCEPT ![p] = "patch"]
        /\ UNCHANGED <<r1, r2, r7, r9, r10, r11>>
    BY <1>8 DEF Upgrading!CreateWorktree
  <2>2. Upgrading!UnderWay(p)
    BY <2>1 DEF Upgrading!UnderWay
  <2>3. p \notin r10
    BY <1>2, <2>1, <2>2
  <2>4. /\ r6' \in [Proposals -> Upgrading!Steps] /\ r6'[p] = "patch"
        /\ \A q \in Proposals \ {p} : r6'[q] = r6[q]
    BY <1>3, <1>6, <2>1
  <2>5. r1 \in 0 .. MaxCommits /\ r3 \in [Upgrading!Ids -> -1 .. MaxCommits]
    BY DEF Upgrading!OwnTreeInv
  <2>6. r3' \in [Upgrading!Ids -> -1 .. MaxCommits]
    BY <1>2, <1>8, <2>2, <2>5 DEF Upgrading!CreateWorktree
  <2>7. \E kind \in {"git", "copy"}, commit \in 0 .. MaxCommits :
          r4' = [r4 EXCEPT ![r7[p]] = [kind |-> kind, commit |-> commit, files |-> {}]]
    <3>1. r3[r7[p]] # -1 => r3[r7[p]] \in 0 .. MaxCommits
      BY <1>2, <2>2, <2>5
    <3>. QED BY <1>8, <2>5, <3>1 DEF Upgrading!CreateWorktree
  <2>8. PICK t \in Upgrading!Tree :
          t.kind # "none" /\ t.files = {} /\ r4' = [r4 EXCEPT ![r7[p]] = t]
    BY <1>5, <2>7
  <2>9. /\ r4' \in [Upgrading!Ids -> Upgrading!Tree]
        /\ r4'[r7[p]].kind # "none" /\ r4'[r7[p]].files = {}
        /\ \A j \in Upgrading!Ids \ {r7[p]} : r4'[j] = r4[j]
    BY <1>4, <2>2, <2>8
  <2>. QED BY <1>2, <2>1, <2>2, <2>3, <2>4, <2>6, <2>9, OwnStep
<1>9. ASSUME NEW p \in Proposals, Upgrading!FailsToCreate(p)
      PROVE  Upgrading!OwnTreeInv'
  <2>. DEFINE c == [kind |-> "copy", commit |-> r1, files |-> {}]
  <2>1. /\ r6[p] = "worktree" /\ r6' = [r6 EXCEPT ![p] = "report"]
        /\ \E t \in Upgrading!Remnants(r4[r7[p]]) \union {c} : r4' = [r4 EXCEPT ![r7[p]] = t]
        /\ UNCHANGED <<r1, r2, r3, r7, r9, r10, r11>>
    BY <1>9 DEF Upgrading!FailsToCreate
  <2>2. Upgrading!UnderWay(p)
    BY <2>1 DEF Upgrading!UnderWay
  <2>3. p \notin r10
    BY <1>2, <2>1, <2>2
  <2>4. /\ r6' \in [Proposals -> Upgrading!Steps] /\ r6'[p] = "report"
        /\ \A q \in Proposals \ {p} : r6'[q] = r6[q]
    BY <1>3, <1>6, <2>1
  <2>5. c \in Upgrading!Tree
    BY <1>5 DEF Upgrading!OwnTreeInv
  <2>. HIDE DEF c
  <2>6. PICK t \in Upgrading!Tree : r4' = [r4 EXCEPT ![r7[p]] = t]
    BY <1>2, <1>22, <2>1, <2>2, <2>5
  <2>7. /\ r4' \in [Upgrading!Ids -> Upgrading!Tree]
        /\ \A j \in Upgrading!Ids \ {r7[p]} : r4'[j] = r4[j]
    BY <1>4, <2>2, <2>6
  <2>. QED BY <1>2, <2>1, <2>2, <2>3, <2>4, <2>7, OwnStep
<1>10. ASSUME NEW p \in Proposals, Upgrading!Patches(p)
       PROVE  Upgrading!OwnTreeInv'
  <2>1. /\ r6[p] = "patch"
        /\ \/ /\ r4' = [r4 EXCEPT ![r7[p]].files = @ \union {p},
                                  ![r7[p]].kind = IF @ = "none" THEN "copy" ELSE @]
              /\ r6' = [r6 EXCEPT ![p] = "review"]
           \/ r6' = [r6 EXCEPT ![p] = "remove"] /\ r4' = r4
        /\ UNCHANGED <<r1, r2, r3, r7, r9, r10, r11>>
    BY <1>10 DEF Upgrading!Patches
  <2>2. Upgrading!UnderWay(p)
    BY <2>1 DEF Upgrading!UnderWay
  <2>3. p \notin r10
    BY <1>2, <2>1, <2>2
  <2>4. CASE /\ r4' = [r4 EXCEPT ![r7[p]].files = @ \union {p},
                                 ![r7[p]].kind = IF @ = "none" THEN "copy" ELSE @]
             /\ r6' = [r6 EXCEPT ![p] = "review"]
    <3>. DEFINE b == r4[r7[p]]
                f == b.files \union {p}
                k == IF b.kind = "none" THEN "copy" ELSE b.kind
                t == [b EXCEPT !.files = f, !.kind = k]
    <3>1. b \in Upgrading!Tree
      BY <1>2, <2>2
    <3>0. f \in SUBSET Proposals /\ k \in {"git", "copy"}
      BY <3>1 DEF Upgrading!Tree
    <3>3. r4' = [r4 EXCEPT ![r7[p]] = t]
      BY <1>2, <2>1, <2>2, <2>4
    <3>. HIDE DEF b, f, k
    <3>2. t \in Upgrading!Tree /\ t.kind # "none" /\ t.files = f
      BY <3>0, <3>1 DEF Upgrading!Tree
    <3>. HIDE DEF t
    <3>4. ~Upgrading!Shared(p) => b.files = {}
      BY <2>1, <2>2 DEF Upgrading!OwnTreeInv, Upgrading!Alone, b
    <3>5. /\ r4' \in [Upgrading!Ids -> Upgrading!Tree] /\ r4'[r7[p]] = t
          /\ \A j \in Upgrading!Ids \ {r7[p]} : r4'[j] = r4[j]
      BY <1>4, <2>2, <3>2, <3>3
    <3>6. ~Upgrading!Shared(p) => Upgrading!Holds(r4'[r7[p]], p)
      BY <3>2, <3>4, <3>5 DEF Upgrading!Holds, f
    <3>7. /\ r6' \in [Proposals -> Upgrading!Steps] /\ r6'[p] = "review"
          /\ \A q \in Proposals \ {p} : r6'[q] = r6[q]
      BY <1>3, <1>6, <2>4
    <3>. QED BY <1>2, <2>1, <2>2, <2>3, <3>5, <3>6, <3>7, OwnStep
  <2>5. CASE r6' = [r6 EXCEPT ![p] = "remove"] /\ r4' = r4
    <3>1. /\ r6' \in [Proposals -> Upgrading!Steps] /\ r6'[p] = "remove"
          /\ \A q \in Proposals \ {p} : r6'[q] = r6[q]
      BY <1>3, <1>6, <2>5
    <3>. QED BY <1>2, <2>1, <2>2, <2>3, <2>5, <3>1, OwnStep
  <2>. QED BY <2>1, <2>4, <2>5
<1>11. ASSUME NEW p \in Proposals, NEW from \in {"review", "test", "benchmark"},
              NEW to \in {"test", "benchmark", "canary"}, NEW reached,
              Upgrading!Gate(p, from, to, reached),
              \/ from = "review" /\ to = "test" /\ r9' = r9
              \/ from = "test" /\ to = "benchmark" /\ r9' = [r9 EXCEPT ![p] = r4[r7[p]]]
              \/ from = "benchmark" /\ to = "canary" /\ r9' = r9
       PROVE  Upgrading!OwnTreeInv'
  <2>1. /\ r6[p] = from /\ (r6' = [r6 EXCEPT ![p] = to] \/ r6' = [r6 EXCEPT ![p] = "remove"])
        /\ UNCHANGED <<r1, r2, r3, r4, r7, r10, r11>>
    BY <1>11 DEF Upgrading!Gate
  <2>2. Upgrading!UnderWay(p)
    BY <2>1 DEF Upgrading!UnderWay
  <2>3. p \notin r10
    BY <1>2, <2>1, <2>2
  <2>4. PICK next \in {"remove", to} : r6' = [r6 EXCEPT ![p] = next]
    BY <2>1
  <2>5. /\ r6' \in [Proposals -> Upgrading!Steps] /\ r6'[p] = next
        /\ \A q \in Proposals \ {p} : r6'[q] = r6[q]
    BY <1>3, <1>6, <2>4
  <2>6. /\ r9' \in [Proposals -> Upgrading!Tree]
        /\ \A q \in Proposals \ {p} : r9'[q] = r9[q]
    BY <1>2, <1>11, <2>2
  <2>7. ~Upgrading!Shared(p) =>
          /\ next = "test" => Upgrading!Holds(r4'[r7[p]], p)
          /\ next \in {"benchmark", "canary"} => Upgrading!Holds(r9'[p], p)
    <3>. SUFFICES ASSUME ~Upgrading!Shared(p)
                  PROVE  /\ next = "test" => Upgrading!Holds(r4'[r7[p]], p)
                         /\ next \in {"benchmark", "canary"} => Upgrading!Holds(r9'[p], p)
      OBVIOUS
    <3>1. /\ r6[p] \in {"review", "test"} => Upgrading!Holds(r4[r7[p]], p)
          /\ r6[p] = "benchmark" => Upgrading!Holds(r9[p], p)
      BY <2>2 DEF Upgrading!OwnTreeInv, Upgrading!Alone
    <3>2. next = "benchmark" => r9'[p] = r4[r7[p]]
      BY <1>2, <1>11, <2>2, <2>4
    <3>. QED BY <1>11, <2>1, <2>4, <3>1, <3>2
  <2>. QED BY <1>2, <2>1, <2>2, <2>3, <2>5, <2>6, <2>7, OwnStep
<1>12. ASSUME NEW p \in Proposals,
              Upgrading!Reviews(p) \/ Upgrading!Tests(p) \/ Upgrading!Benchmarks(p)
       PROVE  Upgrading!OwnTreeInv'
  BY <1>11, <1>12 DEF Upgrading!Reviews, Upgrading!Tests, Upgrading!Benchmarks
<1>13. ASSUME NEW p \in Proposals, Upgrading!Trials(p)
       PROVE  Upgrading!OwnTreeInv'
  <2>1. /\ r6[p] = "canary" /\ r6' = [r6 EXCEPT ![p] = "remove"]
        /\ r10' = r10 \union {p} \/ r10' = r10
        /\ UNCHANGED <<r1, r2, r3, r4, r7, r9, r11>>
    BY <1>13 DEF Upgrading!Trials
  <2>2. Upgrading!UnderWay(p)
    BY <2>1 DEF Upgrading!UnderWay
  <2>3. ~Upgrading!Shared(p) => Upgrading!Holds(r9[p], p)
    BY <2>1, <2>2 DEF Upgrading!OwnTreeInv, Upgrading!Alone
  <2>4. /\ r6' \in [Proposals -> Upgrading!Steps] /\ r6'[p] = "remove"
        /\ \A q \in Proposals \ {p} : r6'[q] = r6[q]
    BY <1>3, <1>6, <2>1
  <2>5. r10' \subseteq r10 \union {p}
    BY <2>1
  <2>. QED BY <1>2, <2>1, <2>2, <2>3, <2>4, <2>5, OwnStep
<1>14. ASSUME NEW p \in Proposals, Upgrading!RemoveWorktree(p)
       PROVE  Upgrading!OwnTreeInv'
  <2>1. /\ r6[p] = "remove" /\ r6' = [r6 EXCEPT ![p] = "report"]
        /\ \E t \in Upgrading!Remnants(r4[r7[p]]) : r4' = [r4 EXCEPT ![r7[p]] = t]
        /\ UNCHANGED <<r1, r2, r3, r7, r9, r10, r11>>
    BY <1>14 DEF Upgrading!RemoveWorktree
  <2>2. Upgrading!UnderWay(p)
    BY <2>1 DEF Upgrading!UnderWay
  <2>3. /\ r6' \in [Proposals -> Upgrading!Steps] /\ r6'[p] = "report"
        /\ \A q \in Proposals \ {p} : r6'[q] = r6[q]
    BY <1>3, <1>6, <2>1
  <2>4. PICK t \in Upgrading!Tree : r4' = [r4 EXCEPT ![r7[p]] = t]
    BY <1>2, <1>22, <2>1, <2>2
  <2>5. /\ r4' \in [Upgrading!Ids -> Upgrading!Tree]
        /\ \A j \in Upgrading!Ids \ {r7[p]} : r4'[j] = r4[j]
    BY <1>4, <2>2, <2>4
  <2>6. p \in r10' => (~Upgrading!Shared(p) => Upgrading!Holds(r9'[p], p))
    BY <1>2, <2>1, <2>2
  <2>. QED BY <1>2, <2>1, <2>2, <2>3, <2>5, <2>6, OwnStep
<1>15. ASSUME NEW p \in Proposals, NEW to \in {"remove", "done", "dead"},
              Upgrading!UnderWay(p), to = "remove" => r6[p] = "test", r6' = [r6 EXCEPT ![p] = to],
              UNCHANGED <<r1, r2, r3, r4, r7, r9, r10, r11>>
       PROVE  Upgrading!OwnTreeInv'
  <2>1. /\ r6' \in [Proposals -> Upgrading!Steps] /\ r6'[p] = to
        /\ \A q \in Proposals \ {p} : r6'[q] = r6[q]
    BY <1>3, <1>6, <1>15
  <2>2. p \in r10' => /\ to \in {"done", "dead"}
                      /\ ~Upgrading!Shared(p) => Upgrading!Holds(r9'[p], p)
    BY <1>2, <1>15
  <2>. QED BY <1>2, <1>15, <2>1, <2>2, OwnStep
<1>16. ASSUME NEW p \in Proposals,
              Upgrading!TestsTimeOut(p) \/ Upgrading!Reports(p) \/ Upgrading!Dies(p)
       PROVE  Upgrading!OwnTreeInv'
  <2>1. CASE Upgrading!TestsTimeOut(p)
    BY <1>15, <2>1 DEF Upgrading!TestsTimeOut, Upgrading!UnderWay
  <2>2. CASE Upgrading!Reports(p)
    BY <1>15, <2>2 DEF Upgrading!Reports, Upgrading!UnderWay
  <2>3. CASE Upgrading!Dies(p)
    BY <1>15, <2>3 DEF Upgrading!Dies
  <2>. QED BY <1>16, <2>1, <2>2, <2>3
<1>17. ASSUME UNCHANGED <<r3, r4, r6, r7, r9, r10, r11>>, r2' \subseteq r2,
              r1' \in 0 .. MaxCommits
       PROVE  Upgrading!OwnTreeInv'
  <2>1. \A p \in Proposals : /\ Upgrading!Shared(p)' <=> Upgrading!Shared(p)
                             /\ Upgrading!UnderWay(p)' <=> Upgrading!UnderWay(p)
    BY <1>17 DEF Upgrading!Shared, Upgrading!UnderWay
  <2>2. \A p \in Proposals : Upgrading!Alone(p)' <=> Upgrading!Alone(p)
    BY <2>1 DEF Upgrading!Alone
  <2>3. Upgrading!PassedWasTested'
    BY <1>17, <2>1 DEF Upgrading!OwnTreeInv, Upgrading!PassedWasTested
  <2>. QED BY <1>17, <2>1, <2>2, <2>3 DEF Upgrading!OwnTreeInv
<1>18. CASE Upgrading!Commits
  <2>1. r1' \in 0 .. MaxCommits /\ UNCHANGED <<r2, r3, r4, r6, r7, r9, r10, r11>>
    BY <1>0, <1>18 DEF Upgrading!Commits, Upgrading!OwnTreeInv
  <2>. QED BY <1>17, <2>1
<1>19. CASE Upgrading!Tidies
  <2>1. r2' \subseteq r2 /\ UNCHANGED <<r1, r3, r4, r6, r7, r9, r10, r11>>
    BY <1>19 DEF Upgrading!Tidies
  <2>. QED BY <1>17, <2>1 DEF Upgrading!OwnTreeInv
<1>20. CASE UNCHANGED Upgrading!vars
  <2>1. UNCHANGED <<r1, r2, r3, r4, r6, r7, r9, r10, r11>>
    BY <1>20 DEF Upgrading!vars
  <2>. QED BY <1>17, <2>1 DEF Upgrading!OwnTreeInv
<1>21. ASSUME NEW p \in Proposals, Upgrading!Pipeline(p)
       PROVE  Upgrading!OwnTreeInv'
  BY <1>1, <1>7, <1>8, <1>9, <1>10, <1>12, <1>13, <1>14, <1>16, <1>21 DEF Upgrading!Pipeline
<1>. QED
  BY <1>16, <1>18, <1>19, <1>20, <1>21 DEF Upgrading!Next

\* A proposal that passed was tested on a tree of its own files, unless another was
\* under way with its id (PassedWasTested).
THEOREM PassedWereTested == Spec => []PassedWasTested
<1>. DEFINE I == which = "upgrades" => Upgrading!OwnTreeInv
<1>1. Init => I
  <2>. SUFFICES ASSUME which = "upgrades", Upgrading!Init
               PROVE  Upgrading!OwnTreeInv
    BY DEF Init
  <2>0. MaxCommits \in Nat
    BY Assumptions DEF Assumptions, Upgrading!ProposalsAssumption
  <2>1. Upgrading!NoTree \in Upgrading!Tree
    BY <2>0 DEF Upgrading!NoTree, Upgrading!Tree
  <2>. QED
    BY <2>0, <2>1 DEF Upgrading!Init, Upgrading!OwnTreeInv, Upgrading!UnderWay, Upgrading!Alone,
                Upgrading!PassedWasTested, Upgrading!Steps, Upgrading!Ids
<1>2. I /\ [Next]_vars => I'
  <2>. SUFFICES ASSUME I, [Next]_vars, which' = "upgrades" PROVE Upgrading!OwnTreeInv'
    OBVIOUS
  <2>1. which = "upgrades"
    BY DEF Next, vars
  <2>2. [Upgrading!Next]_(Upgrading!vars)
    BY <2>1 DEF Next, vars, Upgrading!vars, Upgrading!disk, After12
  <2>. QED BY <2>1, <2>2, UpgradesKeep
<1>3. I => PassedWasTested
  BY DEF PassedWasTested, Upgrading!OwnTreeInv
<1>. QED BY <1>1, <1>2, <1>3, PTL DEF Spec

(***************************************************************************)
(* Recovery.                                                               *)
(***************************************************************************)

\* A step that leaves the file, the plan and what was recorded as they are, and
\* goes nowhere where more is asked of them.
LEMMA TasksStay ==
  ASSUME Recovering!TasksInv, r5' = r5, r6' = r6, r8' = r8, r7' = r7,
         \/ r1' = r1 /\ r2' = r2 /\ r3' = r3
         \/ r1' = "down" /\ r1 # "truncated"
         \/ r1' = "copying" /\ r1 = "running"
         \/ r1' = "running" /\ r1 \in {"read", "copying"}
         \/ r1' = "restoring" /\ r1 \in {"running", "planned"}
         \/ r1' = "planned" /\ r1 = "restoring" /\ r8 # Recovering!NoPlan
         \/ r1' = "running" /\ r1 = "restoring" /\ r8 = Recovering!NoPlan
  PROVE  Recovering!TasksInv'
<1>. USE DEF Recovering!TasksInv, Recovering!Says, Recovering!Sorted, Recovering!Detected
<1>1. CASE r1' = r1 /\ r2' = r2 /\ r3' = r3
  BY <1>1, Zenon
<1>2. CASE r1' = "down" /\ r1 # "truncated"
  BY <1>2
<1>3. CASE r1' = "copying" /\ r1 = "running"
  BY <1>3
<1>4. CASE r1' = "running" /\ r1 \in {"read", "copying"}
  BY <1>4
<1>5. CASE r1' = "restoring" /\ r1 \in {"running", "planned"}
  BY <1>5
<1>6. CASE r1' = "planned" /\ r1 = "restoring" /\ r8 # Recovering!NoPlan
  BY <1>6
<1>7. CASE r1' = "running" /\ r1 = "restoring" /\ r8 = Recovering!NoPlan
  BY <1>7
<1>. QED BY <1>1, <1>2, <1>3, <1>4, <1>5, <1>6, <1>7

\* A checkpoint whose writing is cut leaves nothing in the file, and every task is
\* lost.
LEMMA TornIsLost ==
  ASSUME Recovering!TasksInv, r1 = "truncated", r7' = Tasks,
         r5' = r5, r6' = r6, r8' = r8, r1' \in {"down", "running"}
  PROVE  Recovering!TasksInv'
<1>1. r5 = {} /\ r8 = Recovering!NoPlan
  BY DEF Recovering!TasksInv
<1>. QED BY <1>1 DEF Recovering!TasksInv, Recovering!Says

\* The plan sorts every entry that is unfinished by the one decision about it.
LEMMA PlanSorts ==
  ASSUME NEW S, Recovering!Plans(S)
  PROVE  Recovering!Sorted' = {e.task : e \in S}
<1>. DEFINE Of(d, old) == {e.task : e \in {x \in S : Recovering!Decision(x, x.task \in old) = d}}
<1>1. PICK old \in SUBSET Tasks :
        r8' = [retried |-> Of("retry", old), skipped |-> Of("skip", old),
               awaiting |-> Of("ask", old)]
  BY DEF Recovering!Plans
<1>2. \A e : Recovering!Decision(e, e.task \in old) \in {"retry", "skip", "ask"}
  BY DEF Recovering!Decision
<1>3. Of("retry", old) \union Of("skip", old) \union Of("ask", old) = {e.task : e \in S}
  BY <1>2
<1>4. /\ r8'.retried = Of("retry", old) /\ r8'.skipped = Of("skip", old)
      /\ r8'.awaiting = Of("ask", old)
  BY <1>1
<1>. HIDE DEF Of
<1>. QED BY <1>3, <1>4 DEF Recovering!Sorted

\* A checkpoint replaces the entry of its task and keeps the others, unless reading
\* or writing fails.
LEMMA TasksKeep ==
  ASSUME Recovering!TasksInv, [Recovering!Next]_(Recovering!vars)
  PROVE  Recovering!TasksInv'
<1>. USE DEF Recovering!dataVars, Recovering!tasksVars
<1>1. ASSUME NEW t \in Tasks, NEW s \in Recovering!States, NEW o \in Recovering!Observations,
             Recovering!ReadsOthers(t, s, o)
      PROVE  Recovering!TasksInv'
  <2>. DEFINE e0 == [task |-> t, state |-> s, seen |-> o]
  <2>1. /\ r1 = "running" /\ r1' = "read" /\ r2' = e0
        /\ UNCHANGED <<r5, r6, r8>>
        /\ \/ r3' = {e \in r5 : e.task # t} /\ r7' = r7
           \/ r3' = {} /\ r7' = Tasks
    BY <1>1 DEF Recovering!ReadsOthers, Recovering!Begins
  <2>2. e0 \in Recovering!Entry /\ e0.task = t
    BY DEF Recovering!Entry
  <2>. HIDE DEF e0
  <2>3. /\ \A e \in r5 : e.task \in Tasks /\ r6[e.task] = e.state
        /\ \A u \in Tasks \ r7 : r6[u] # "none" => \E e \in r5 : e.task = u
        /\ r5 \subseteq Recovering!Entry /\ r7 \subseteq Tasks
    BY <2>1 DEF Recovering!TasksInv, Recovering!Says
  <2>4. /\ r3' \subseteq r5 /\ r7' \subseteq Tasks /\ r7 \subseteq r7'
        /\ \A e \in r3' : e.task # t
        /\ \A u \in (Tasks \ {t}) \ r7' : r6[u] # "none" => \E e \in r3' : e.task = u
    BY <2>1, <2>3
  <2>. QED BY <2>1, <2>2, <2>3, <2>4 DEF Recovering!TasksInv, Recovering!Says
<1>2. CASE Recovering!Truncates
  <2>1. /\ r1 = "read" /\ r1' = "truncated" /\ r5' = {}
        /\ UNCHANGED <<r2, r3, r6, r7, r8>>
    BY <1>2 DEF Recovering!Truncates
  <2>. QED BY <2>1 DEF Recovering!TasksInv, Recovering!Says
<1>3. CASE Recovering!WritesEntries
  <2>1. /\ r1 = "truncated" /\ r1' = "running" /\ r5' = r3 \union {r2}
        /\ r6' = [r6 EXCEPT ![r2.task] = r2.state]
        /\ r7' = r7 \ {r2.task} /\ r8' = r8
    BY <1>3 DEF Recovering!WritesEntries
  <2>2. /\ r2 \in Recovering!Entry /\ r3 \subseteq Recovering!Entry
        /\ r2.task \in Tasks /\ r2.state \in Recovering!States
    BY <2>1 DEF Recovering!TasksInv, Recovering!Entry
  <2>3. /\ r6' \in [Tasks -> Recovering!States \union {"none"}] /\ r6'[r2.task] = r2.state
        /\ \A u \in Tasks \ {r2.task} : r6'[u] = r6[u]
    BY <2>1, <2>2 DEF Recovering!TasksInv
  <2>4. /\ \A e \in r3 : e.task \in Tasks /\ r6[e.task] = e.state /\ e.task # r2.task
        /\ \A u \in (Tasks \ {r2.task}) \ r7 : r6[u] # "none" => \E e \in r3 : e.task = u
    BY <2>1 DEF Recovering!TasksInv, Recovering!Says
  <2>5. /\ \A e \in r5' : e.task \in Tasks /\ r6'[e.task] = e.state
        /\ \A u \in Tasks \ r7' : r6'[u] # "none" => \E e \in r5' : e.task = u
    BY <2>1, <2>2, <2>3, <2>4
  <2>6. r8 = Recovering!NoPlan /\ r7' \subseteq Tasks /\ r5' \subseteq Recovering!Entry
    BY <2>1, <2>2 DEF Recovering!TasksInv
  <2>. QED BY <2>1, <2>3, <2>5, <2>6 DEF Recovering!TasksInv, Recovering!Says
<1>13. CASE Recovering!WriteFails
  <2>1. /\ r1 \in {"read", "truncated"} /\ r1' = "running"
        /\ r7' = (IF r1 = "truncated" THEN Tasks ELSE r7)
        /\ r5' = r5 /\ r6' = r6 /\ r8' = r8
    BY <1>13 DEF Recovering!WriteFails
  <2>2. CASE r1 = "truncated"
    BY <2>1, <2>2, TornIsLost
  <2>3. CASE r1 # "truncated"
    BY <2>1, <2>3, TasksStay
  <2>. QED BY <2>2, <2>3
<1>4. CASE Recovering!Crashes
  <2>1. /\ r1' = "down" /\ r7' = (IF r1 = "truncated" THEN Tasks ELSE r7)
        /\ r5' = r5 /\ r6' = r6 /\ r8' = r8
    BY <1>4 DEF Recovering!Crashes
  <2>2. CASE r1 = "truncated"
    BY <2>1, <2>2, TornIsLost
  <2>3. CASE r1 # "truncated"
    BY <2>1, <2>3, TasksStay
  <2>. QED BY <2>2, <2>3
<1>5. CASE Recovering!Recovers
  <2>1. /\ r1 = "down" /\ r1' = "planned" /\ UNCHANGED <<r5, r6>>
        /\ \/ Recovering!Plans(Recovering!Detected) /\ r7' = r7
           \/ Recovering!Plans({}) /\ r7' = Tasks
    BY <1>5 DEF Recovering!Recovers
  <2>2. \/ Recovering!Sorted' = {e.task : e \in Recovering!Detected} /\ r7' = r7
        \/ Recovering!Sorted' = {} /\ r7' = Tasks
    BY <2>1, PlanSorts
  <2>3. Recovering!Detected' = Recovering!Detected
    BY <2>1 DEF Recovering!Detected
  <2>4. /\ \A e \in r5 : e.task \in Tasks /\ r6[e.task] = e.state
        /\ \A u \in Tasks \ r7 : r6[u] # "none" => \E e \in r5 : e.task = u
        /\ r7 \subseteq Tasks /\ r7' \subseteq Tasks /\ r7 \subseteq r7'
    BY <2>1 DEF Recovering!TasksInv, Recovering!Says
  <2>5. {e.task : e \in Recovering!Detected} \subseteq Tasks
    BY <2>4 DEF Recovering!Detected
  <2>6. /\ Recovering!Sorted' \subseteq {e.task : e \in Recovering!Detected}
        /\ {e.task : e \in Recovering!Detected} \ r7' \subseteq Recovering!Sorted'
    BY <2>2, <2>5
  <2>. QED BY <2>1, <2>3, <2>4, <2>6 DEF Recovering!TasksInv, Recovering!Says
<1>6. CASE Recovering!ClearsCheckpoint
  <2>1. /\ r1' = "running" /\ r5' = {} /\ r6' = [t \in Tasks |-> "none"]
        /\ r7' = {} /\ r8' = Recovering!NoPlan
    BY <1>6 DEF Recovering!ClearsCheckpoint
  <2>. QED BY <2>1 DEF Recovering!TasksInv, Recovering!Says
<1>7. CASE Recovering!BeginsBackup
  BY <1>7, TasksStay DEF Recovering!BeginsBackup
<1>8. CASE Recovering!WritesMetadata
  BY <1>8, TasksStay DEF Recovering!WritesMetadata
<1>9. CASE Recovering!EndsRestore
  BY <1>9, TasksStay DEF Recovering!EndsRestore
<1>10. ASSUME NEW i \in Files,
              \/ Recovering!ChangesData(i) \/ Recovering!CopiesItem(i) \/ Recovering!SkipsItem(i)
              \/ Recovering!RemovesItem(i) \/ Recovering!RestoresItem(i)
       PROVE  Recovering!TasksInv'
  <2>1. r1' = r1 /\ r2' = r2 /\ r3' = r3 /\ r5' = r5 /\ r6' = r6 /\ r7' = r7 /\ r8' = r8
    BY <1>10 DEF Recovering!ChangesData, Recovering!CopiesItem, Recovering!SkipsItem,
                 Recovering!RemovesItem, Recovering!RestoresItem
  <2>. QED BY <2>1, TasksStay
<1>11. ASSUME NEW n \in DOMAIN r10, Recovering!BeginsRestore(n)
       PROVE  Recovering!TasksInv'
  BY <1>11, TasksStay DEF Recovering!BeginsRestore
<1>12. CASE UNCHANGED Recovering!vars
  BY <1>12, TasksStay DEF Recovering!vars
<1>. QED
  BY <1>1, <1>2, <1>3, <1>4, <1>5, <1>6, <1>7, <1>8, <1>9, <1>10, <1>11, <1>12, <1>13
     DEF Recovering!Next

\* An item is copied before it is named, and nothing else writes to a backup.
LEMMA BackupsKeep ==
  ASSUME Recovering!BackupsInv, [Recovering!Next]_(Recovering!vars)
  PROVE  Recovering!BackupsInv'
<1>. USE DEF Recovering!dataVars, Recovering!tasksVars, Recovering!Missing
<1>. DEFINE Backups == [held : [Files -> Nat], names : SUBSET Files, metadata : BOOLEAN]
            Copied(b) == \A i \in b.names : b.held[i] # 0
<1>1. r10 \in Seq(Backups) /\ \A n \in 1 .. Len(r10) : r10[n] \in Backups /\ Copied(r10[n])
  <2>1. r10 \in Seq(Backups)
    BY DEF Recovering!BackupsInv
  <2>2. \A n \in 1 .. Len(r10) : Copied(r10[n])
    BY DEF Recovering!BackupsInv
  <2>. HIDE DEF Backups
  <2>. QED BY <2>1, <2>2
<1>2. ASSUME r10' \in Seq(Backups), \A n \in 1 .. Len(r10') : Copied(r10'[n]),
             r9' \in [Files -> Nat], r11' \subseteq Files,
             r1' \in {"copying", "restoring"} => r12' \in 1 .. Len(r10')
      PROVE  Recovering!BackupsInv'
  BY <1>2 DEF Recovering!BackupsInv
<1>. HIDE DEF Backups, Copied
<1>3. r9 \in [Files -> Nat] /\ r11 \subseteq Files /\ (r1 \in {"copying", "restoring"} => r12 \in 1 .. Len(r10))
  BY DEF Recovering!BackupsInv
<1>4. CASE Recovering!BeginsBackup
  <2>. DEFINE b == [held |-> [i \in Files |-> 0], names |-> {}, metadata |-> FALSE]
  <2>1. b \in Backups /\ Copied(b)
    BY DEF Backups, Copied
  <2>2. /\ r10' = Append(r10, b) /\ r12' = Len(r10) + 1 /\ r11' = Files /\ r9' = r9
    BY <1>4 DEF Recovering!BeginsBackup
  <2>. HIDE DEF b
  <2>3. /\ r10' \in Seq(Backups) /\ Len(r10') = Len(r10) + 1 /\ r10'[Len(r10) + 1] = b
        /\ \A n \in 1 .. Len(r10) : r10'[n] = r10[n]
    BY <1>1, <2>1, <2>2, AppendProperties
  <2>4. Len(r10) \in Nat
    BY <1>1
  <2>5. \A n \in 1 .. Len(r10') : Copied(r10'[n])
    BY <1>1, <2>1, <2>3, <2>4
  <2>. QED BY <1>2, <1>3, <2>2, <2>3, <2>4, <2>5
<1>5. ASSUME NEW n \in 1 .. Len(r10), NEW b \in Backups, Copied(b),
             r10' = [r10 EXCEPT ![n] = b]
      PROVE  /\ r10' \in Seq(Backups) /\ Len(r10') = Len(r10)
             /\ \A m \in 1 .. Len(r10') : Copied(r10'[m])
  BY <1>1, <1>5
<1>6. ASSUME NEW i \in Files, Recovering!CopiesItem(i)
      PROVE  Recovering!BackupsInv'
  <2>1. /\ r1 = "copying" /\ r1' = r1 /\ r9' = r9 /\ r12' = r12 /\ r11' = r11 \ {i}
    BY <1>6 DEF Recovering!CopiesItem
  <2>2. r12 \in 1 .. Len(r10)
    BY <1>3, <2>1
  <2>3. CASE r10' = r10
    BY <1>1, <1>2, <1>3, <2>1, <2>2, <2>3
  <2>4. CASE /\ r9[i] # 0
             /\ r10' = [r10 EXCEPT ![r12].held[i] = r9[i], ![r12].names = @ \union {i}]
    <3>. DEFINE b0 == r10[r12]
                h == [b0.held EXCEPT ![i] = r9[i]]
                b == [b0 EXCEPT !.held = h, !.names = b0.names \union {i}]
    <3>1. b0 \in Backups /\ Copied(b0)
      BY <1>1, <2>2
    <3>2. h \in [Files -> Nat] /\ h[i] # 0 /\ \A j \in Files \ {i} : h[j] = b0.held[j]
      BY <1>3, <2>4, <3>1 DEF Backups
    <3>3. r10' = [r10 EXCEPT ![r12] = b]
      BY <1>1, <2>2, <2>4
    <3>. HIDE DEF b0, h
    <3>4. b \in Backups /\ b.held = h /\ b.names = b0.names \union {i}
      BY <3>1, <3>2 DEF Backups
    <3>. HIDE DEF b
    <3>5. Copied(b)
      BY <3>1, <3>2, <3>4 DEF Copied, Backups
    <3>6. r10' \in Seq(Backups) /\ Len(r10') = Len(r10) /\ \A m \in 1 .. Len(r10') : Copied(r10'[m])
      BY <1>5, <2>2, <3>3, <3>4, <3>5
    <3>. QED BY <1>2, <1>3, <2>1, <2>2, <3>6
  <2>. QED BY <1>6, <2>3, <2>4 DEF Recovering!CopiesItem
<1>7. CASE Recovering!WritesMetadata
  <2>. DEFINE b0 == r10[r12]
              b == [b0 EXCEPT !.metadata = TRUE]
  <2>1. /\ r1 = "copying" /\ r1' = "running" /\ r9' = r9 /\ r11' = r11
        /\ r10' = [r10 EXCEPT ![r12].metadata = TRUE]
    BY <1>7 DEF Recovering!WritesMetadata
  <2>2. r12 \in 1 .. Len(r10) /\ b0 \in Backups /\ Copied(b0)
    BY <1>1, <1>3, <2>1
  <2>3. r10' = [r10 EXCEPT ![r12] = b]
    BY <1>1, <2>1, <2>2
  <2>. HIDE DEF b0
  <2>4. b \in Backups /\ b.held = b0.held /\ b.names = b0.names
    BY <2>2 DEF Backups
  <2>. HIDE DEF b
  <2>5. Copied(b)
    BY <2>2, <2>4 DEF Copied
  <2>6. r10' \in Seq(Backups) /\ \A m \in 1 .. Len(r10') : Copied(r10'[m])
    BY <1>5, <2>2, <2>3, <2>4, <2>5
  <2>. QED BY <1>2, <1>3, <2>1, <2>6
<1>8. ASSUME r10' = r10, r9' \in [Files -> Nat], r11' \subseteq Files,
             \/ r1' \notin {"copying", "restoring"}
             \/ r1 \in {"copying", "restoring"} /\ r12' = r12
             \/ r12' \in 1 .. Len(r10)
      PROVE  Recovering!BackupsInv'
  BY <1>1, <1>2, <1>3, <1>8
<1>9. ASSUME NEW i \in Files, NEW n \in Nat
      PROVE  [r9 EXCEPT ![i] = n] \in [Files -> Nat]
  BY <1>3
<1>10. ASSUME NEW i \in Files, Recovering!ChangesData(i)
       PROVE  Recovering!BackupsInv'
  <2>1. /\ r9' = [r9 EXCEPT ![i] = r9[i] + 1] /\ r9[i] + 1 \in Nat
        /\ r10' = r10 /\ r11' = r11 /\ r12' = r12 /\ r1' = r1
    BY <1>3, <1>10 DEF Recovering!ChangesData
  <2>. QED BY <1>3, <1>8, <1>9, <2>1
<1>11. ASSUME NEW i \in Files, Recovering!SkipsItem(i) \/ Recovering!RemovesItem(i)
       PROVE  Recovering!BackupsInv'
  <2>1. /\ r9' = r9 \/ r9' = [r9 EXCEPT ![i] = 0]
        /\ r11' \subseteq r11 /\ r10' = r10 /\ r12' = r12 /\ r1' = r1
    BY <1>11 DEF Recovering!SkipsItem, Recovering!RemovesItem
  <2>. QED BY <1>3, <1>8, <1>9, <2>1
<1>12. ASSUME NEW i \in Files, Recovering!RestoresItem(i)
       PROVE  Recovering!BackupsInv'
  <2>1. /\ r1 = "restoring" /\ r1' = r1 /\ r11' = r11 \ {i} /\ r10' = r10
        /\ r12' = r12
        /\ r9' = r9 \/ r9' = [r9 EXCEPT ![i] = r10[r12].held[i]]
    BY <1>12 DEF Recovering!RestoresItem
  <2>2. r9' \in [Files -> Nat]
    <3>1. r12 \in 1 .. Len(r10)
      BY <1>3, <2>1
    <3>2. r10[r12].held[i] \in Nat
      BY <1>1, <3>1 DEF Backups
    <3>. QED BY <1>3, <1>9, <2>1, <3>2
  <2>. QED BY <1>3, <1>8, <2>1, <2>2
<1>13. ASSUME NEW n \in DOMAIN r10, Recovering!BeginsRestore(n)
       PROVE  Recovering!BackupsInv'
  <2>1. r1' = "restoring" /\ r9' = r9 /\ r10' = r10 /\ r11' = r10[n].names
    BY <1>13 DEF Recovering!BeginsRestore
  <2>2. n \in 1 .. Len(r10) /\ r12' = n
    BY <1>1, <1>13 DEF Recovering!BeginsRestore
  <2>3. r10[n].names \subseteq Files
    BY <1>1, <2>2 DEF Backups
  <2>. QED BY <1>3, <1>8, <2>1, <2>2, <2>3
<1>14. CASE \/ Recovering!EndsRestore \/ Recovering!Crashes \/ Recovering!ClearsCheckpoint
            \/ Recovering!Recovers \/ Recovering!Truncates \/ Recovering!WritesEntries
            \/ Recovering!WriteFails
            \/ \E t \in Tasks, s \in Recovering!States, o \in Recovering!Observations :
                 Recovering!ReadsOthers(t, s, o)
            \/ UNCHANGED Recovering!vars
  <2>1. /\ r9' = r9 /\ r10' = r10 /\ r11' \in {r11, {}}
        /\ \/ r1' \notin {"copying", "restoring"}
           \/ r1 \in {"copying", "restoring"} /\ r12' = r12
    BY <1>14 DEF Recovering!EndsRestore, Recovering!Crashes, Recovering!ClearsCheckpoint,
                 Recovering!Recovers, Recovering!Truncates, Recovering!WritesEntries,
                 Recovering!WriteFails, Recovering!ReadsOthers, Recovering!Begins,
                 Recovering!vars
  <2>. QED BY <1>3, <1>8, <2>1
<1>. QED
  BY <1>4, <1>6, <1>7, <1>10, <1>11, <1>12, <1>13, <1>14 DEF Recovering!Next

\* Recovery sorts none but the tasks whose last finished checkpoint was unfinished, and
\* every one of them checkpointed since the file was last torn or could not be read
\* (NothingForgotten).
THEOREM TasksAreSorted == Spec => []NothingForgotten
<1>. DEFINE I == which = "recovery" => Recovering!TasksInv
<1>1. Init => I
  <2>. SUFFICES ASSUME which = "recovery", Recovering!Init PROVE Recovering!TasksInv
    BY DEF Init
  <2>. QED
    BY DEF Recovering!Init, Recovering!TasksInv, Recovering!Says
<1>2. I /\ [Next]_vars => I'
  <2>. SUFFICES ASSUME I, [Next]_vars, which' = "recovery" PROVE Recovering!TasksInv'
    OBVIOUS
  <2>1. which = "recovery"
    BY DEF Next, vars
  <2>2. [Recovering!Next]_(Recovering!vars)
    BY <2>1 DEF Next, vars, Recovering!vars, Recovering!dataVars, Recovering!tasksVars, After14
  <2>. QED BY <2>1, <2>2, TasksKeep
<1>3. I => NothingForgotten
  <2>. SUFFICES ASSUME Recovering!TasksInv, r1 = "planned"
                PROVE  LET unfinished == {t \in Tasks : r6[t] \in Recovering!Unfinished}
                       IN  /\ Recovering!Sorted \subseteq unfinished
                           /\ unfinished \ r7 \subseteq Recovering!Sorted
    BY DEF NothingForgotten, Recovering!NothingForgotten
  <2>1. /\ Recovering!Sorted \subseteq {e.task : e \in Recovering!Detected}
        /\ {e.task : e \in Recovering!Detected} \ r7 \subseteq Recovering!Sorted
        /\ Recovering!Says(r5, Tasks)
    BY DEF Recovering!TasksInv
  <2>2. "none" \notin Recovering!Unfinished
    BY DEF Recovering!Unfinished
  <2>. QED BY <2>1, <2>2 DEF Recovering!Says, Recovering!Detected
<1>. QED BY <1>1, <1>2, <1>3, PTL DEF Spec


\* A backup that can be listed and restored holds every item it names
\* (ListedIsComplete).
THEOREM BackupsAreComplete == Spec => []ListedIsComplete
<1>. DEFINE I == which = "recovery" => Recovering!BackupsInv
<1>1. Init => I
  <2>. SUFFICES ASSUME which = "recovery", Recovering!Init PROVE Recovering!BackupsInv
    BY DEF Init
  <2>1. <<>> \in Seq([held : [Files -> Nat], names : SUBSET Files, metadata : BOOLEAN])
    OBVIOUS
  <2>. QED
    BY <2>1 DEF Recovering!Init, Recovering!BackupsInv
<1>2. I /\ [Next]_vars => I'
  <2>. SUFFICES ASSUME I, [Next]_vars, which' = "recovery" PROVE Recovering!BackupsInv'
    OBVIOUS
  <2>1. which = "recovery"
    BY DEF Next, vars
  <2>2. [Recovering!Next]_(Recovering!vars)
    BY <2>1 DEF Next, vars, Recovering!vars, Recovering!dataVars, Recovering!tasksVars, After14
  <2>. QED BY <2>1, <2>2, BackupsKeep
<1>3. I => ListedIsComplete
  <2>. SUFFICES ASSUME Recovering!BackupsInv PROVE Recovering!ListedIsComplete
    BY DEF ListedIsComplete
  <2>1. DOMAIN r10 = 1 .. Len(r10)
    BY DEF Recovering!BackupsInv
  <2>. QED
    BY <2>1 DEF Recovering!BackupsInv, Recovering!ListedIsComplete, Recovering!Listed
<1>. QED BY <1>1, <1>2, <1>3, PTL DEF Spec

==============================================================================
