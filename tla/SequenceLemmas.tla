---------------------------- MODULE SequenceLemmas ----------------------------
(***************************************************************************)
(* Lemmas about sequences that the proofs share: that a recursion over     *)
(* numbers defines a function, and what flattening a sequence of sequences *)
(* makes of its parts.                                                     *)
(***************************************************************************)
EXTENDS Naturals, SequencesExt, SequenceTheorems, WellFoundedInduction, TLAPS

\* A set of numbers that is not empty has a least one.
LEMMA LeastNumber ==
  ASSUME NEW S \in SUBSET Nat, S # {}
  PROVE  \E x \in S : \A y \in S : x <= y
<1> DEFINE R == OpToRel(<, Nat)
<1>1. \A x, y \in Nat : <<y, x>> \in R <=> y < x
  BY DEF OpToRel
<1>2. IsWellFoundedOn(R, Nat)
  BY NatLessThanWellFounded
<1> HIDE DEF R
<1>3. \E x \in S : \A y \in S : <<y, x>> \notin R
  BY <1>2, WFMin, Zenon
<1>4. PICK x \in S : \A y \in S : <<y, x>> \notin R
  BY <1>3
<1>5. ASSUME NEW y \in S PROVE x <= y
  <2>1. x \in Nat /\ y \in Nat
    OBVIOUS
  <2>2. ~(y < x)
    BY <1>1, <1>4, <2>1, Zenon
  <2>. QED BY <2>1, <2>2
<1>. QED BY <1>5

\* A set of numbers that holds the first and with every number the next one
\* holds them all, up to n.
LEMMA Induction ==
  ASSUME NEW n \in Nat, NEW S, 0 \in S, \A i \in 0 .. n - 1 : i \in S => i + 1 \in S
  PROVE  \A i \in 0 .. n : i \in S
<1> DEFINE Bad == {i \in 0 .. n : i \notin S}
<1>1. SUFFICES ASSUME Bad # {} PROVE FALSE
  OBVIOUS
<1>2. PICK x \in Bad : \A y \in Bad : x <= y
  <2>1. Bad \in SUBSET Nat
    OBVIOUS
  <2> HIDE DEF Bad
  <2>. QED BY <1>1, <2>1, LeastNumber
<1>3. x # 0 /\ x - 1 \in 0 .. n - 1
  BY <1>2
<1>4. x - 1 \in S
  BY <1>2, <1>3
<1>. QED BY <1>3, <1>4, <1>2

\* f holds what the steps make of base, for every number up to m.
Iterates(f, m, S, base, step) ==
  /\ f \in [0 .. m -> S] /\ f[0] = base
  /\ \A i \in 1 .. m : f[i] = step[i][f[i - 1]]

\* Steps that are given as functions can be iterated: the recursion has a solution.
LEMMA Iteration ==
  ASSUME NEW n \in Nat, NEW S, NEW base \in S, NEW step \in [1 .. n -> [S -> S]]
  PROVE  \E f : Iterates(f, n, S, base, step)
<1> DEFINE Good == {m \in 0 .. n : \E f : Iterates(f, m, S, base, step)}
<1>1. 0 \in Good
  <2>1. Iterates([i \in 0 .. 0 |-> base], 0, S, base, step)
    BY DEF Iterates
  <2>. QED BY <2>1
<1>2. ASSUME NEW m \in 0 .. n - 1, m \in Good PROVE m + 1 \in Good
  <2>1. PICK f : Iterates(f, m, S, base, step)
    BY <1>2
  <2> DEFINE g == [i \in 0 .. m + 1 |-> IF i = m + 1 THEN step[m + 1][f[m]] ELSE f[i]]
  <2>2. m + 1 \in 1 .. n /\ f[m] \in S
    BY <2>1 DEF Iterates
  <2>3. step[m + 1][f[m]] \in S
    BY <2>2
  <2>4. g \in [0 .. m + 1 -> S] /\ g[0] = base
    BY <2>1, <2>3 DEF Iterates
  <2>5. ASSUME NEW i \in 1 .. m + 1 PROVE g[i] = step[i][g[i - 1]]
    <3>1. CASE i = m + 1
      <4>1. i \in 0 .. m + 1 /\ i - 1 = m /\ m \in 0 .. m + 1 /\ m # m + 1
        BY <3>1
      <4>. QED BY <3>1, <4>1
    <3>2. CASE i \in 1 .. m
      BY <2>1, <3>2 DEF Iterates
    <3>. QED BY <3>1, <3>2
  <2>6. Iterates(g, m + 1, S, base, step)
    BY <2>4, <2>5 DEF Iterates
  <2> HIDE DEF g
  <2>. QED BY <2>2, <2>6
<1> HIDE DEF Good
<1>3. \A i \in 0 .. n : i \in Good
  BY <1>1, <1>2, Induction
<1>4. \E f : Iterates(f, n, S, base, step)
  BY <1>3 DEF Good
<1>. QED BY <1>4

\* The function that FlattenSeq is defined by: what the first i parts make.
LEMMA Flattening ==
  ASSUME NEW A, NEW q \in Seq(Seq(A)), q # <<>>
  PROVE  \E f \in [1 .. Len(q) -> Seq(A)] :
            /\ f = [i \in 1 .. Len(q) |-> IF i = 1 THEN q[i] ELSE f[i - 1] \o q[i]]
            /\ FlattenSeq(q) = f[Len(q)]
<1> DEFINE l == Len(q)
<1>1. l \in Nat /\ l # 0 /\ q \in [1 .. l -> Seq(A)]
  OBVIOUS
<1> DEFINE Is(f) == f = [i \in 1 .. l |-> IF i = 1 THEN q[i] ELSE f[i - 1] \o q[i]]
<1> HIDE DEF l
<1>2. \E f : Is(f)
  <2> DEFINE adds == [i \in 1 .. l |-> [p \in Seq(A) |-> p \o q[i]]]
  <2>1. \A i \in 1 .. l, p \in Seq(A) : p \o q[i] \in Seq(A)
    BY <1>1
  <2>2. adds \in [1 .. l -> [Seq(A) -> Seq(A)]] /\ <<>> \in Seq(A)
    BY <2>1
  <2>3. \A i \in 1 .. l, p \in Seq(A) : adds[i][p] = p \o q[i]
    OBVIOUS
  <2> HIDE DEF adds
  <2>4. PICK f : Iterates(f, l, Seq(A), <<>>, adds)
    BY <1>1, <2>2, Iteration
  <2>5. ASSUME NEW i \in 1 .. l PROVE f[i] = IF i = 1 THEN q[i] ELSE f[i - 1] \o q[i]
    <3>1. i - 1 \in 0 .. l /\ f[i - 1] \in Seq(A) /\ q[i] \in Seq(A)
      BY <1>1, <2>4 DEF Iterates
    <3>2. f[i] = f[i - 1] \o q[i]
      BY <2>3, <2>4, <3>1 DEF Iterates
    <3>3. i = 1 => f[i - 1] = <<>> /\ f[i - 1] \o q[i] = q[i]
      BY <2>4, <3>1, ConcatEmptySeq DEF Iterates
    <3>. QED BY <3>2, <3>3
  <2> DEFINE g == [i \in 1 .. l |-> f[i]]
  <2>6. ASSUME NEW i \in 1 .. l PROVE g[i] = IF i = 1 THEN q[i] ELSE g[i - 1] \o q[i]
    <3>1. i # 1 => i - 1 \in 1 .. l
      BY <1>1
    <3>2. g[i] = f[i] /\ (i # 1 => g[i - 1] = f[i - 1])
      BY <3>1
    <3>. QED BY <2>5, <3>2
  <2>7. Is(g)
    BY <2>6, Zenon
  <2>. QED BY <2>7
<1> DEFINE F == CHOOSE f : Is(f)
<1>3. Is(F)
  BY <1>2, Zenon
<1>4. FlattenSeq(q) = F[l]
  BY <1>1 DEF FlattenSeq, l
<1> HIDE DEF F
<1> DEFINE Typed == {i \in 0 .. l : i # 0 => F[i] \in Seq(A)}
<1>5. ASSUME NEW i \in 0 .. l - 1, i \in Typed PROVE i + 1 \in Typed
  <2>1. i + 1 \in 1 .. l /\ (i + 1) - 1 = i /\ q[i + 1] \in Seq(A)
    BY <1>1
  <2>2. F[i + 1] = IF i + 1 = 1 THEN q[i + 1] ELSE F[i] \o q[i + 1]
    BY <1>3, <2>1
  <2>3. i # 0 => F[i] \in Seq(A)
    BY <1>5
  <2>4. F[i + 1] \in Seq(A)
    BY <2>1, <2>2, <2>3
  <2>. QED BY <2>1, <2>4
<1>6. 0 \in Typed
  BY <1>1
<1> HIDE DEF Typed
<1>7. \A i \in 0 .. l : i \in Typed
  BY <1>1, <1>5, <1>6, Induction
<1>8. \A i \in 1 .. l : F[i] \in Seq(A)
  BY <1>7 DEF Typed
<1>9. F \in [1 .. l -> Seq(A)]
  BY <1>3, <1>8
<1>. QED BY <1>3, <1>4, <1>9 DEF l

\* Nothing makes nothing.
LEMMA FlattenEmpty == FlattenSeq(<<>>) = <<>>
BY DEF FlattenSeq

\* The parts are sequences over A, and so is what they make.
LEMMA FlattenType ==
  ASSUME NEW A, NEW q \in Seq(Seq(A))
  PROVE  FlattenSeq(q) \in Seq(A)
<1>1. CASE q = <<>>
  <2>1. <<>> \in Seq(A)
    OBVIOUS
  <2>. QED BY <1>1, <2>1, FlattenEmpty
<1>2. CASE q # <<>>
  <2>1. Len(q) \in 1 .. Len(q)
    BY <1>2
  <2>2. \E f \in [1 .. Len(q) -> Seq(A)] : FlattenSeq(q) = f[Len(q)]
    BY <1>2, Flattening
  <2>. QED BY <2>1, <2>2
<1>. QED BY <1>1, <1>2

\* Two functions that satisfy the recursion agree where their sequences do.
LEMMA FlattenAppend ==
  ASSUME NEW A, NEW q \in Seq(Seq(A)), NEW e \in Seq(A)
  PROVE  FlattenSeq(Append(q, e)) = FlattenSeq(q) \o e
<1> DEFINE r == Append(q, e)
<1>1. /\ Len(q) \in Nat /\ r \in Seq(Seq(A)) /\ r # <<>> /\ Len(r) = Len(q) + 1
      /\ \A i \in 1 .. Len(q) : r[i] = q[i]
      /\ r[Len(q) + 1] = e
  BY AppendProperties
<1> HIDE DEF r
<1>2. PICK g \in [1 .. Len(r) -> Seq(A)] :
         /\ g = [i \in 1 .. Len(r) |-> IF i = 1 THEN r[i] ELSE g[i - 1] \o r[i]]
         /\ FlattenSeq(r) = g[Len(r)]
  BY <1>1, Flattening
<1>3. CASE q = <<>>
  <2>1. Len(r) = 1 /\ r[1] = e
    BY <1>1, <1>3
  <2>2. FlattenSeq(r) = e
    BY <1>2, <2>1
  <2>. QED BY <1>3, <2>2, FlattenEmpty, ConcatEmptySeq DEF r
<1>4. CASE q # <<>>
  <2>1. PICK f \in [1 .. Len(q) -> Seq(A)] :
           /\ f = [i \in 1 .. Len(q) |-> IF i = 1 THEN q[i] ELSE f[i - 1] \o q[i]]
           /\ FlattenSeq(q) = f[Len(q)]
    BY <1>4, Flattening
  <2> DEFINE Same == {i \in 0 .. Len(q) : i # 0 => f[i] = g[i]}
  <2>2. ASSUME NEW i \in 0 .. Len(q) - 1, i \in Same PROVE i + 1 \in Same
    <3>1. i + 1 \in 1 .. Len(q) /\ i + 1 \in 1 .. Len(r) /\ (i + 1) - 1 = i /\ r[i + 1] = q[i + 1]
      BY <1>1
    <3>2. /\ f[i + 1] = IF i + 1 = 1 THEN q[i + 1] ELSE f[i] \o q[i + 1]
          /\ g[i + 1] = IF i + 1 = 1 THEN r[i + 1] ELSE g[i] \o r[i + 1]
      BY <1>2, <2>1, <3>1
    <3>3. i # 0 => f[i] = g[i]
      BY <2>2
    <3>4. f[i + 1] = g[i + 1]
      BY <3>1, <3>2, <3>3
    <3>. QED BY <3>1, <3>4
  <2>3. 0 \in Same
    BY <1>1
  <2> HIDE DEF Same
  <2>4. \A i \in 0 .. Len(q) : i \in Same
    BY <1>1, <2>2, <2>3, Induction
  <2>5. Len(q) \in 1 .. Len(q) /\ Len(q) \in 0 .. Len(q)
    BY <1>4
  <2>6. f[Len(q)] = g[Len(q)]
    <3>1. Len(q) \in Same /\ Len(q) # 0
      BY <1>1, <2>4, <2>5
    <3>. QED BY <3>1 DEF Same
  <2>7. g[Len(q) + 1] = g[Len(q)] \o r[Len(q) + 1]
    <3>1. Len(q) + 1 \in 1 .. Len(r) /\ Len(q) + 1 # 1 /\ (Len(q) + 1) - 1 = Len(q)
      BY <1>1, <2>5
    <3>. QED BY <1>2, <3>1
  <2>. QED BY <1>1, <1>2, <2>1, <2>6, <2>7 DEF r
<1>. QED BY <1>3, <1>4

\* An element can be appended before or after two sequences are joined.
LEMMA AppendConcat ==
  ASSUME NEW A, NEW p \in Seq(A), NEW q \in Seq(A), NEW e \in A
  PROVE  p \o Append(q, e) = Append(p \o q, e) /\ p \o q \in Seq(A)
<1>1. <<e>> \in Seq(A) /\ p \o q \in Seq(A)
  BY ConcatProperties
<1>2. Append(q, e) = q \o <<e>> /\ Append(p \o q, e) = (p \o q) \o <<e>>
  BY <1>1, AppendIsConcat
<1>. QED BY <1>1, <1>2, ConcatAssociative

\* If flattening distributes over p and h, it does with one more part.
LEMMA FlattenOneMore ==
  ASSUME NEW A, NEW p \in Seq(Seq(A)), NEW h \in Seq(Seq(A)), NEW e \in Seq(A),
         FlattenSeq(p \o h) = FlattenSeq(p) \o FlattenSeq(h)
  PROVE  FlattenSeq(p \o Append(h, e)) = FlattenSeq(p) \o FlattenSeq(Append(h, e))
<1>1. p \o Append(h, e) = Append(p \o h, e) /\ p \o h \in Seq(Seq(A))
  BY AppendConcat
<1>2. FlattenSeq(p \o Append(h, e)) = FlattenSeq(p \o h) \o e
  BY <1>1, FlattenAppend
<1>3. FlattenSeq(Append(h, e)) = FlattenSeq(h) \o e
  BY FlattenAppend
<1>4. FlattenSeq(p) \in Seq(A) /\ FlattenSeq(h) \in Seq(A)
  BY FlattenType
<1>5. (FlattenSeq(p) \o FlattenSeq(h)) \o e = FlattenSeq(p) \o (FlattenSeq(h) \o e)
  BY <1>4, ConcatAssociative
<1>. QED BY <1>2, <1>3, <1>5

\* What is flattened in two halves is flattened.
LEMMA FlattenConcat ==
  ASSUME NEW A, NEW p \in Seq(Seq(A)), NEW q \in Seq(Seq(A))
  PROVE  FlattenSeq(p \o q) = FlattenSeq(p) \o FlattenSeq(q)
<1> DEFINE n == Len(q)
<1> DEFINE Half(i) == SubSeq(q, 1, i)
<1> DEFINE Good == {i \in 0 .. n : FlattenSeq(p \o Half(i)) = FlattenSeq(p) \o FlattenSeq(Half(i))}
<1>1. n \in Nat /\ FlattenSeq(p) \in Seq(A)
  BY FlattenType
<1>2. 0 \in Good
  <2>1. Half(0) = <<>> /\ p \o <<>> = p
    BY ConcatEmptySeq
  <2>2. FlattenSeq(p) \o FlattenSeq(Half(0)) = FlattenSeq(p)
    BY <1>1, <2>1, FlattenEmpty, ConcatEmptySeq
  <2>3. FlattenSeq(p \o Half(0)) = FlattenSeq(p) \o FlattenSeq(Half(0))
    BY <2>1, <2>2
  <2> HIDE DEF Half
  <2>. QED BY <1>1, <2>3
<1>3. ASSUME NEW i \in 0 .. n - 1, i \in Good PROVE i + 1 \in Good
  <2>1. /\ Half(i) \in Seq(Seq(A)) /\ q[i + 1] \in Seq(A)
        /\ Half(i + 1) = Append(Half(i), q[i + 1])
    BY <1>1
  <2>8. FlattenSeq(p \o Half(i + 1)) = FlattenSeq(p) \o FlattenSeq(Half(i + 1))
    BY <1>3, <2>1, FlattenOneMore
  <2>9. i + 1 \in 0 .. n
    BY <1>1
  <2>. QED BY <2>8, <2>9
<1> HIDE DEF Good, n
<1>4. \A i \in 0 .. n : i \in Good
  BY <1>1, <1>2, <1>3, Induction
<1>5. n \in 0 .. n
  BY <1>1
<1>6. SubSeq(q, 1, n) = q
  BY DEF n
<1>. QED BY <1>4, <1>5, <1>6 DEF Good

\* One part alone.
LEMMA FlattenOne ==
  ASSUME NEW A, NEW e \in Seq(A)
  PROVE  FlattenSeq(<<e>>) = e
<1>1. <<>> \in Seq(Seq(A)) /\ Append(<<>>, e) = <<e>>
  OBVIOUS
<1>2. FlattenSeq(<<e>>) = FlattenSeq(<<>>) \o e
  BY <1>1, FlattenAppend
<1>. QED BY <1>2, FlattenEmpty, ConcatEmptySeq

\* The first part apart.
LEMMA FlattenHeadTail ==
  ASSUME NEW A, NEW q \in Seq(Seq(A)), q # <<>>
  PROVE  FlattenSeq(q) = Head(q) \o FlattenSeq(Tail(q))
<1>1. /\ Head(q) \in Seq(A) /\ Tail(q) \in Seq(Seq(A)) /\ <<Head(q)>> \in Seq(Seq(A))
      /\ q = <<Head(q)>> \o Tail(q)
  OBVIOUS
<1>2. FlattenSeq(<<Head(q)>> \o Tail(q)) = FlattenSeq(<<Head(q)>>) \o FlattenSeq(Tail(q))
  BY <1>1, FlattenConcat
<1>3. FlattenSeq(<<Head(q)>>) = Head(q)
  BY <1>1, FlattenOne
<1>. QED BY <1>1, <1>2, <1>3

\* The last part apart.
LEMMA FlattenFrontLast ==
  ASSUME NEW A, NEW q \in Seq(Seq(A)), q # <<>>
  PROVE  FlattenSeq(q) = FlattenSeq(Front(q)) \o Last(q)
<1>1. /\ Front(q) \in Seq(Seq(A)) /\ Last(q) \in Seq(A)
      /\ q = Append(Front(q), Last(q))
  BY DEF Front, Last
<1>. QED BY <1>1, FlattenAppend

\* An element that is added comes last.
LEMMA AppendFacts ==
  ASSUME NEW A, NEW q \in Seq(A), NEW e \in A
  PROVE  /\ Append(q, e) \in Seq(A) /\ Append(q, e) # <<>>
         /\ \A i \in DOMAIN Append(q, e) :
                (i \in DOMAIN q /\ Append(q, e)[i] = q[i]) \/ Append(q, e)[i] = e
OBVIOUS

\* A sequence that is another one and one more element.
LEMMA OneMore ==
  ASSUME NEW A, NEW p \in Seq(A), NEW q \in Seq(A), NEW e \in A,
         Len(q) = Len(p) + 1, \A i \in 1 .. Len(p) : q[i] = p[i], q[Len(p) + 1] = e
  PROVE  q = Append(p, e)
OBVIOUS

\* Sequences of the same elements in the same places.
LEMMA SameElements ==
  ASSUME NEW A, NEW p \in Seq(A), NEW q \in Seq(A),
         Len(p) = Len(q), \A i \in 1 .. Len(q) : p[i] = q[i]
  PROVE  p = q
OBVIOUS

\* One more element at the end, and whatever follows.
LEMMA AppendNotEmpty ==
  ASSUME NEW A, NEW p \in Seq(A), NEW e \in A, NEW q \in Seq(A)
  PROVE  /\ p \o <<e>> = Append(p, e) /\ Append(p, e) \in Seq(A)
         /\ Append(p, e) \o q \in Seq(A) /\ Append(p, e) \o q # <<>>
<1> DEFINE r == Append(p, e)
<1>1. r \in Seq(A) /\ r # <<>> /\ p \o <<e>> = r
  BY AppendIsConcat, AppendProperties
<1> HIDE DEF r
<1>2. r \o q \in Seq(A) /\ r \o q # <<>>
  BY <1>1
<1>. QED BY <1>1, <1>2 DEF r

\* Concatenation under a name that stands for itself: the provers lose their way
\* among nested concatenations when they see what those are.
Cat(x, y) == x \o y

\* Joining keeps the type, and joining nothing changes nothing.
LEMMA CatType ==
  ASSUME NEW D, NEW x \in Seq(D), NEW y \in Seq(D)
  PROVE  /\ Cat(x, y) \in Seq(D)
         /\ Cat(x, <<>>) = x /\ Cat(<<>>, x) = x
BY ConcatProperties, ConcatEmptySeq DEF Cat

\* Nothing joined to nothing.
LEMMA CatEmpty == Cat(<<>>, <<>>) = <<>>
BY ConcatEmptySeq DEF Cat

\* Grouping does not matter.
LEMMA CatAssociative ==
  ASSUME NEW D, NEW x \in Seq(D), NEW y \in Seq(D), NEW z \in Seq(D)
  PROVE  Cat(Cat(x, y), z) = Cat(x, Cat(y, z))
BY ConcatAssociative DEF Cat

\* Four parts, however they are grouped.
LEMMA Regroup ==
  ASSUME NEW D, NEW w \in Seq(D), NEW x \in Seq(D), NEW y \in Seq(D), NEW z \in Seq(D)
  PROVE  Cat(Cat(w, Cat(x, y)), z) = Cat(Cat(w, x), Cat(y, z))
<1>1. Cat(w, x) \in Seq(D) /\ Cat(w, Cat(x, y)) = Cat(Cat(w, x), y)
  BY CatType, CatAssociative
<1>. QED BY <1>1, CatAssociative

\* What stands in either stands in both, joined.
LEMMA CatSet ==
  ASSUME NEW D, NEW x \in Seq(D), NEW y \in Seq(D)
  PROVE  ToSet(Cat(x, y)) = ToSet(x) \cup ToSet(y)
<1>1. /\ Len(x) \in Nat /\ Len(y) \in Nat /\ DOMAIN Cat(x, y) = 1 .. Len(x) + Len(y)
      /\ \A i \in 1 .. Len(x) : Cat(x, y)[i] = x[i]
      /\ \A i \in 1 .. Len(y) : Cat(x, y)[i + Len(x)] = y[i]
      /\ \A i \in 1 .. Len(x) + Len(y) : Cat(x, y)[i] = IF i <= Len(x) THEN x[i] ELSE y[i - Len(x)]
  BY DEF Cat
<1> HIDE DEF Cat
<1>2. ASSUME NEW e \in ToSet(Cat(x, y)) PROVE e \in ToSet(x) \cup ToSet(y)
  <2>1. PICK i \in 1 .. Len(x) + Len(y) : e = Cat(x, y)[i]
    BY <1>1 DEF ToSet
  <2>. QED BY <1>1, <2>1 DEF ToSet
<1>3. ASSUME NEW e \in ToSet(x) PROVE e \in ToSet(Cat(x, y))
  <2>1. PICK i \in 1 .. Len(x) : e = x[i]
    BY <1>1 DEF ToSet
  <2>2. i \in 1 .. Len(x) + Len(y)
    BY <1>1
  <2>. QED BY <1>1, <2>1, <2>2 DEF ToSet
<1>4. ASSUME NEW e \in ToSet(y) PROVE e \in ToSet(Cat(x, y))
  <2>1. PICK i \in 1 .. Len(y) : e = y[i]
    BY DEF ToSet
  <2>2. i + Len(x) \in 1 .. Len(x) + Len(y)
    BY <1>1
  <2>. QED BY <1>1, <2>1, <2>2 DEF ToSet
<1>. QED BY <1>2, <1>3, <1>4

\* One part for each element.
LEMMA SinglesFlatten ==
  ASSUME NEW D, NEW s \in Seq(D)
  PROVE  /\ [i \in DOMAIN s |-> <<s[i]>>] \in Seq(Seq(D))
         /\ FlattenSeq([i \in DOMAIN s |-> <<s[i]>>]) = s
<1> DEFINE n == Len(s)
           Singles(j) == [i \in 1 .. j |-> <<s[i]>>]
           Good == {j \in 0 .. n : FlattenSeq(Singles(j)) = SubSeq(s, 1, j)}
<1>1. n \in Nat /\ \A i \in 1 .. n : s[i] \in D /\ <<s[i]>> \in Seq(D)
  OBVIOUS
<1>2. \A j \in 0 .. n : Singles(j) \in Seq(Seq(D)) /\ Len(Singles(j)) = j
  <2> SUFFICES ASSUME NEW j \in 0 .. n PROVE Singles(j) \in Seq(Seq(D)) /\ Len(Singles(j)) = j
    OBVIOUS
  <2>1. j \in Nat /\ \A i \in 1 .. j : <<s[i]>> \in Seq(D)
    BY <1>1
  <2>. QED BY <2>1
<1>3. 0 \in Good
  <2>1. Singles(0) = <<>> /\ SubSeq(s, 1, 0) = <<>>
    OBVIOUS
  <2>2. FlattenSeq(Singles(0)) = SubSeq(s, 1, 0)
    BY <2>1, FlattenEmpty
  <2> HIDE DEF Singles
  <2>. QED BY <1>1, <2>2
<1>4. ASSUME NEW j \in 0 .. n - 1, j \in Good PROVE j + 1 \in Good
  <2>1. j \in 0 .. n /\ j + 1 \in 1 .. n /\ j + 1 \in 0 .. n
    BY <1>1
  <2>2. Singles(j) \in Seq(Seq(D)) /\ Len(Singles(j)) = j /\ <<s[j + 1]>> \in Seq(D)
    BY <1>1, <1>2, <2>1
  <2>3. Singles(j + 1) = Append(Singles(j), <<s[j + 1]>>)
    <3>1. /\ Len(Singles(j + 1)) = j + 1 /\ Singles(j + 1) \in Seq(Seq(D))
          /\ \A i \in 1 .. j + 1 : Singles(j + 1)[i] = <<s[i]>>
          /\ \A i \in 1 .. j : Singles(j)[i] = <<s[i]>>
      BY <1>2, <2>1
    <3>2. j + 1 \in 1 .. j + 1 /\ Singles(j + 1)[j + 1] = <<s[j + 1]>>
      BY <2>1, <3>1
    <3> DEFINE p == Singles(j)
               q == Singles(j + 1)
               e == <<s[j + 1]>>
    <3> HIDE DEF p, q, e
    <3>3. /\ p \in Seq(Seq(D)) /\ q \in Seq(Seq(D)) /\ e \in Seq(D)
          /\ Len(q) = Len(p) + 1 /\ q[Len(p) + 1] = e
      BY <2>2, <3>1, <3>2 DEF p, q, e
    <3>4. \A i \in 1 .. Len(p) : q[i] = p[i]
      BY <2>1, <2>2, <3>1 DEF p, q
    <3>5. q = Append(p, e)
      BY <3>3, <3>4, OneMore
    <3>. QED BY <3>5 DEF p, q, e
  <2>4. SubSeq(s, 1, j + 1) = SubSeq(s, 1, j) \o <<s[j + 1]>>
    BY <2>1
  <2>5. FlattenSeq(Singles(j)) = SubSeq(s, 1, j)
    BY <1>4
  <2> HIDE DEF Singles
  <2>6. FlattenSeq(Singles(j + 1)) = SubSeq(s, 1, j + 1)
    BY <2>2, <2>3, <2>4, <2>5, FlattenAppend
  <2>. QED BY <2>1, <2>6
<1>5. Singles(n) = [i \in DOMAIN s |-> <<s[i]>>] /\ SubSeq(s, 1, n) = s
  OBVIOUS
<1> HIDE DEF n, Good, Singles
<1>6. \A j \in 0 .. n : j \in Good
  BY <1>1, <1>3, <1>4, Induction
<1>7. n \in 0 .. n
  BY <1>1
<1>. QED BY <1>2, <1>5, <1>6, <1>7 DEF Good

\* Every element of a part is one of what the parts make.
LEMMA FlattenHolds ==
  ASSUME NEW A, NEW q \in Seq(Seq(A)), NEW k \in DOMAIN q
  PROVE  ToSet(q[k]) \subseteq ToSet(FlattenSeq(q))
<1> DEFINE n == Len(q)
           Half(i) == SubSeq(q, 1, i)
           Good == {j \in 0 .. n : \A i \in 1 .. j : ToSet(q[i]) \subseteq ToSet(FlattenSeq(Half(j)))}
<1>1. n \in Nat /\ Half(n) = q /\ k \in 1 .. n
  OBVIOUS
<1>2. 0 \in Good
  BY <1>1
<1>3. ASSUME NEW j \in 0 .. n - 1, j \in Good PROVE j + 1 \in Good
  <2>1. /\ j + 1 \in 0 .. n /\ q[j + 1] \in Seq(A) /\ Half(j) \in Seq(Seq(A))
        /\ Half(j + 1) = Append(Half(j), q[j + 1])
    BY <1>1
  <2>2. \A i \in 1 .. j : ToSet(q[i]) \subseteq ToSet(FlattenSeq(Half(j)))
    BY <1>3
  <2> HIDE DEF Half
  <2> DEFINE e == q[j + 1]
  <2>3. FlattenSeq(Half(j + 1)) = Cat(FlattenSeq(Half(j)), e) /\ FlattenSeq(Half(j)) \in Seq(A)
    BY <2>1, FlattenAppend, FlattenType DEF Cat
  <2>4. ToSet(FlattenSeq(Half(j + 1))) = ToSet(FlattenSeq(Half(j))) \cup ToSet(e)
    BY <2>1, <2>3, CatSet
  <2>5. \A i \in 1 .. j + 1 : i \in 1 .. j \/ i = j + 1
    BY <1>1
  <2>. QED BY <2>1, <2>2, <2>4, <2>5
<1> HIDE DEF n, Good, Half
<1>4. \A j \in 0 .. n : j \in Good
  BY <1>1, <1>2, <1>3, Induction
<1>5. n \in 0 .. n
  BY <1>1
<1>. QED BY <1>1, <1>4, <1>5 DEF Good

=============================================================================
