------------------------------- MODULE Memory --------------------------------
(***************************************************************************)
(* The long-term memory of F.R.I.D.A.Y.: the SQLite store of facts,        *)
(* preferences and episodes with its full-text index (src/friday/memory/   *)
(* database.py, semantic.py, preferences.py, episodic.py), the retention   *)
(* manager that lets confidence grow and decay (memory/retention.py), and  *)
(* the priming engine that chooses what the planner is told                *)
(* (memory/priming.py, context/selector.py, context/budget.py).            *)
(*                                                                         *)
(* Every operation has a connection of its own: what it reads, it reads    *)
(* before its transaction begins, and what it writes it commits at once.   *)
(* Confidence is counted in thousandths.                                   *)
(***************************************************************************)
EXTENDS Integers, Sequences, FiniteSets, FiniteSetsExt, SequencesExt

CONSTANTS Items,      \* what there is to remember
          KindOf,     \* KindOf[i]: "fact", "preference" or "episode"
          AuthorityOf,\* AuthorityOf[i]: authority of its source, in percent
          CostOf,     \* CostOf[i]: tokens of its text in a context
          Matching,   \* items that the words of a goal match
          Budget,     \* available tokens of a context
          MaxOps      \* bound: operations, and days that pass

BudgetAssumption ==
  /\ \A i \in Items : /\ KindOf[i] \in {"fact", "preference", "episode"}
                      /\ AuthorityOf[i] \in 0 .. 100 /\ CostOf[i] \in Nat \ {0}
  /\ Budget \in Nat

VARIABLES
  row,     \* row[i]: [conf, evidence] of the row of i, or NoRow
  index,   \* items that are in the full-text index
  tx,      \* the transaction that inserts: [item, conf, step], or NoTx
  pass,    \* the retention pass that has read and not written: [of, rows: i -> row]
  age,     \* age[i] in days, of the row of i
  expired, \* items past their expiry
  primed,  \* the last bundle: [from: confidence of the candidates, items: chosen]
  ops

vars == <<row, index, tx, pass, age, expired, primed, ops>>

NoRow == [conf |-> -1, evidence |-> 0]
NoPass == [of |-> "none", rows |-> <<>>]
NoTx == [item |-> {}, conf |-> 0, step |-> "none"]
Stored == {i \in Items : row[i] # NoRow}
Indexed(i) == KindOf[i] \in {"fact", "episode"}
Atmost(a, b) == IF a < b THEN a ELSE b
Atleast(a, b) == IF a > b THEN a ELSE b

Init ==
  /\ row = [i \in Items |-> NoRow] /\ index = {}
  /\ tx = NoTx
  /\ pass = NoPass
  /\ age = [i \in Items |-> 0] /\ expired = {}
  /\ primed = [from |-> <<>>, items |-> {}]
  /\ ops = 0

Counted == ops < MaxOps /\ ops' = ops + 1

(***************************************************************************)
(* Storing: facts and episodes are inserted with their index entry in one  *)
(* transaction; a preference is inserted or replaced.                      *)
(***************************************************************************)

\* store_fact, record_episode and record_preference: the row itself.
Inserts(i, conf) ==
  /\ Counted
  /\ tx = NoTx /\ (Indexed(i) => row[i] = NoRow)
  /\ tx' = [item |-> {i}, conf |-> conf, step |-> IF Indexed(i) THEN "row" ELSE "all"]
  /\ UNCHANGED <<row, index, pass, age, expired, primed>>

Remembers(i) == Inserts(i, IF KindOf[i] = "episode" THEN 500 ELSE 1000)

\* ... and its entry of the index.
IndexesIt ==
  /\ tx.step = "row"
  /\ tx' = [tx EXCEPT !.step = "all"]
  /\ UNCHANGED <<row, index, pass, age, expired, primed, ops>>

\* Leaving connection() commits; a preference that is replaced keeps its evidence.
Commits ==
  /\ tx.step = "all"
  /\ row' = [i \in Items |->
               IF i \in tx.item
               THEN [conf |-> tx.conf, evidence |-> IF row[i] = NoRow THEN 1 ELSE row[i].evidence]
               ELSE row[i]]
  /\ index' = index \union {i \in tx.item : Indexed(i)}
  /\ tx' = NoTx
  /\ UNCHANGED <<pass, age, expired, primed, ops>>

\* Mutant: the row is written before the transaction ends.
DiesHalfway ==
  /\ tx # NoTx
  /\ tx' = NoTx
  /\ row' = [i \in Items |-> IF i \in tx.item THEN [conf |-> tx.conf, evidence |-> 1] ELSE row[i]]
  /\ UNCHANGED <<index, pass, age, expired, primed, ops>>

\* An error rolls back, a crash leaves nothing of the transaction either.
Dies ==
  /\ tx # NoTx
  /\ tx' = NoTx
  /\ UNCHANGED <<row, index, pass, age, expired, primed, ops>>

\* record_evidence of a preference that is known raises, its row having no get;
\* one that is not known is inserted with little confidence.
RecordEvidence(i) == KindOf[i] = "preference" /\ row[i] = NoRow /\ Inserts(i, 300)

\* rebuild_index.
Rebuilds ==
  /\ Counted
  /\ index' = {i \in Stored : Indexed(i)}
  /\ UNCHANGED <<row, tx, pass, age, expired, primed>>

(***************************************************************************)
(* Retention.                                                              *)
(***************************************************************************)

\* update_confidence, by new evidence, a failed verification or a contradiction.
\* What confirms a row of more than 0.8 lowers it.
Confirmed(i, r) ==
  [conf |-> Atmost(950, r.conf + ((800 - r.conf) * 3 * AuthorityOf[i]) \div 1000),
   evidence |-> r.evidence + 1]
Lowered(r, by) == [r EXCEPT !.conf = Atleast(0, @ - by)]

\* calculate_decay: what the whole age costs, at each pass again; the evidence
\* adds a little, however young the row is.
Decayed(i, r) ==
  [r EXCEPT !.conf =
     Atleast(0, @ - (age[i] * (1000 - 5 * AuthorityOf[i])) \div 100 + Atmost(5 * r.evidence, 30))]

MaxAge(i) == CASE KindOf[i] = "fact" -> 365 [] KindOf[i] = "preference" -> 730
               [] KindOf[i] = "episode" -> 180

\* update_confidence and apply_decay read first ...
Reads(of, S) ==
  /\ Counted
  /\ pass = NoPass
  /\ pass' = [of |-> of, rows |-> [i \in S |-> row[i]]]
  /\ UNCHANGED <<row, index, tx, age, expired, primed>>

ReadsOne == \E i \in Stored : Reads("one", {i})
ReadsAll == Reads("all", {i \in Stored : row[i].conf > 0})

\* ... and write what follows from it, whatever was written in between.
Updates ==
  /\ pass.of = "one"
  /\ \E i \in DOMAIN pass.rows :
       \E r \in {Confirmed(i, pass.rows[i]), Lowered(pass.rows[i], 150), Lowered(pass.rows[i], 100)} :
         row' = [row EXCEPT ![i] = r]
  /\ pass' = NoPass
  /\ UNCHANGED <<index, tx, age, expired, primed, ops>>

AppliesDecay ==
  /\ pass.of = "all"
  /\ row' = [i \in Items |->
               IF i \notin DOMAIN pass.rows THEN row[i]
               ELSE IF age[i] > MaxAge(i) THEN [row[i] EXCEPT !.conf = 0]
               ELSE [row[i] EXCEPT !.conf = Decayed(i, pass.rows[i]).conf]]
  /\ pass' = NoPass
  /\ UNCHANGED <<index, tx, age, expired, primed, ops>>

\* expire_stale is a single statement.
ExpireStale ==
  /\ Counted
  /\ row' = [i \in Items |-> IF i \in Stored \intersect expired THEN [row[i] EXCEPT !.conf = 0]
                                                            ELSE row[i]]
  /\ UNCHANGED <<index, tx, pass, age, expired, primed>>

TimePasses ==
  /\ Counted
  /\ \/ \E d \in {50, 400} : age' = [i \in Items |-> Atleast(age[i], IF i \in Stored THEN d ELSE 0)]
        /\ UNCHANGED expired
     \/ \E i \in Items : expired' = expired \union {i} /\ UNCHANGED age
  /\ UNCHANGED <<row, index, tx, pass, primed>>

(***************************************************************************)
(* Priming.                                                                *)
(***************************************************************************)

\* Candidates: facts and episodes that the index finds for the goal; preferences
\* that match it, or that are confident.
Candidates ==
  {i \in Stored : \/ Indexed(i) /\ i \in index \intersect Matching
                  \/ KindOf[i] = "preference" /\ (i \in Matching \/ row[i].conf > 800)}

\* ContextItem.score: relevance by confidence; an episode has fixed ones.
Score(i, conf) ==
  CASE KindOf[i] = "fact" -> conf * conf
    [] KindOf[i] = "preference" -> conf * (IF i \in Matching THEN 1000 ELSE 600)
    [] KindOf[i] = "episode" -> 850 * 900

Cost(S) == MapThenSumSet(LAMBDA i : CostOf[i], S)

\* ContextSelector.select: by descending score, each that still fits.
Select(ranked) ==
  FoldLeft(LAMBDA S, i : IF Cost(S) + CostOf[i] > Budget THEN S ELSE S \union {i}, {}, ranked)

Ranked(S) ==
  {q \in SetToSeqs(S) : \A k \in 1 .. Len(q) - 1 :
     Score(q[k], row[q[k]].conf) >= Score(q[k + 1], row[q[k + 1]].conf)}

Primes ==
  /\ Counted
  /\ \E ranked \in Ranked(Candidates) :
       primed' = [from |-> [i \in Candidates |-> row[i].conf], items |-> Select(ranked)]
  /\ UNCHANGED <<row, index, tx, pass, age, expired>>

Next ==
  \/ \E i \in Items : Remembers(i) \/ RecordEvidence(i)
  \/ IndexesIt \/ Commits \/ Dies \/ Rebuilds
  \/ ReadsOne \/ ReadsAll \/ Updates \/ AppliesDecay \/ ExpireStale
  \/ TimePasses \/ Primes

Spec == Init /\ [][Next]_vars

(***************************************************************************)
(* Properties.                                                             *)
(***************************************************************************)

\* Every variable keeps its type; a confidence is never negative (the store, the
\* retention manager and the priming engine).
TypeOK ==
  /\ \A i \in Items : row[i] = NoRow \/ (row[i].conf \in Nat /\ row[i].evidence \in Nat \ {0})
  /\ index \subseteq Items /\ expired \subseteq Items
  /\ tx.item \subseteq Items /\ tx.step \in {"none", "row", "all"}
  /\ DOMAIN pass.rows \subseteq Items
  /\ \A i \in Items : age[i] \in Nat
  /\ primed.items \subseteq DOMAIN primed.from

\* Whatever errors and crashes come between the inserts, what is remembered can
\* be found, and what is found is remembered: the facts and the episodes of the
\* store are those of the full-text index (store_fact, record_episode).
IndexIsComplete == index = {i \in Stored : Indexed(i)}

\* The bundle for the planner fits its budget, and an item that is left out had
\* to be: with the chosen ones of at least its score there is no room for it
\* (ContextSelector.select, ContextPrimingEngine.prime).
BestIsPrimed ==
  /\ Cost(primed.items) <= Budget
  /\ \A i \in DOMAIN primed.from \ primed.items :
       CostOf[i] + Cost({j \in primed.items :
                           Score(j, primed.from[j]) >= Score(i, primed.from[i])}) > Budget

\* What MemoryCandidate says of a confidence: "0.0 to 1.0".
ConfidenceInRange == \A i \in Items : row[i].conf <= 1000

\* What keeps it so: a stored row has evidence for it, which no pass takes away, and
\* a pass that has read rows writes none that is not stored.
Rows == [conf : Int, evidence : Nat]
StoredInv ==
  /\ row \in [Items -> Rows] /\ age \in [Items -> Nat]
  /\ \A i \in Stored : row[i].evidence > 0
  /\ tx.item \subseteq Items /\ tx.conf \in Int
  /\ DOMAIN pass.rows \subseteq Stored
  /\ \A i \in DOMAIN pass.rows : pass.rows[i] \in Rows /\ pass.rows[i].evidence > 0
  /\ IndexIsComplete

=============================================================================
