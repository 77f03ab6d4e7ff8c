----------------------------- MODULE PartsProofs -----------------------------
(***************************************************************************)
(* The safety properties of the parts that act, proved for every value of  *)
(* the constants (those of the parts that keep something on disk are in    *)
(* StoresProofs).  Each part has an invariant in its own module, next to   *)
(* the property; here is that its first state and every step of it keep    *)
(* the invariant, and that the invariant implies the property.             *)
(***************************************************************************)
EXTENDS Parts, SequenceLemmas, FiniteSetTheorems, SequenceTheorems, TLAPS

(***************************************************************************)
(* Boot.                                                                   *)
(***************************************************************************)

\* At the start there is no process.
LEMMA InitLocked == Booting!Init => Booting!LockInv
BY DEF Booting!Init, Booting!LockInv, Booting!Locked, Booting!Past, Booting!InWindow, Booting!Up

\* A process leaves, or goes from one step of Up to another, and leaves the
\* others and the file alone.
LEMMA MovesOn ==
  ASSUME Booting!LockInv, NEW p \in Pids, NEW to \in {"gone"} \union Booting!Up,
         r1' = [r1 EXCEPT ![p] = to], to \in Booting!Up => r1[p] \in Booting!Up,
         r8' = r8, r5' = r5
  PROVE  Booting!LockInv'
BY DEF Booting!LockInv, Booting!Locked, Booting!Past, Booting!InWindow, Booting!Up

\* The steps that leave the processes and the file alone.
LEMMA StandsStill ==
  ASSUME Booting!LockInv, UNCHANGED <<r1, r8, r5>>
  PROVE  Booting!LockInv'
BY DEF Booting!LockInv, Booting!Locked, Booting!Past

\* A process that starts is not past the test yet.
LEMMA StartsLocked ==
  ASSUME Booting!LockInv, NEW p \in Pids, NEW b, Booting!Starts(p, b)
  PROVE  Booting!LockInv'
BY DEF Booting!Starts, Booting!Goes, Booting!LockInv, Booting!Locked, Booting!Past,
    Booting!InWindow, Booting!Up

\* A process that passes the test finds nobody past it, unless that one has not
\* written the file yet: then the two overlap.
LEMMA PassesLocked ==
  ASSUME Booting!LockInv, NEW p \in Pids, Booting!Passes(p)
  PROVE  Booting!LockInv'
<1> USE DEF Booting!LockInv, Booting!Passes, Booting!Goes
<1>1. /\ r1' \in [Pids -> {"gone", "main"} \union Booting!InWindow \union Booting!Up]
      /\ r8' \in BOOLEAN
  BY DEF Booting!InWindow
<1>2. ASSUME ~r8'
      PROVE  Booting!Locked'
  <2>1. Booting!Locked /\ \A q \in Pids \ {p} : r1[q] \notin Booting!InWindow
    BY <1>2
  <2>2. \A q \in Pids : r1[q] \notin Booting!Up
    <3> SUFFICES ASSUME NEW q \in Pids, r1[q] \in Booting!Up PROVE FALSE
      OBVIOUS
    <3>1. r5 = q
      BY <2>1 DEF Booting!Locked
    <3>2. Booting!Alive(q)
      BY DEF Booting!Alive, Booting!Up
    <3>. QED BY <3>1, <3>2
  <2>3. \A q \in Pids \ {p} : ~Booting!Past(q)'
    BY <2>1, <2>2 DEF Booting!Past
  <2>4. r1'[p] \notin Booting!Up
    BY DEF Booting!Up
  <2>. QED BY <2>2, <2>3, <2>4 DEF Booting!Locked, Booting!Past
<1>. QED BY <1>1, <1>2

\* The two steps in the window: the only process past the test takes the file.
LEMMA WindowLocked ==
  ASSUME Booting!LockInv, NEW p \in Pids, Booting!Truncates(p) \/ Booting!WritesPid(p)
  PROVE  Booting!LockInv'
<1>1. CASE Booting!Truncates(p)
  BY <1>1 DEF Booting!Truncates, Booting!Goes, Booting!LockInv, Booting!Locked, Booting!Past,
      Booting!InWindow, Booting!Up
<1>2. CASE Booting!WritesPid(p)
  BY <1>2 DEF Booting!WritesPid, Booting!Goes, Booting!LockInv, Booting!Locked, Booting!Past,
      Booting!InWindow, Booting!Up
<1>. QED BY <1>1, <1>2

\* The exit handler unlinks the file that named the process.
LEMMA ExitsLocked ==
  ASSUME Booting!LockInv, NEW p \in Pids, Booting!Exits(p)
  PROVE  Booting!LockInv'
BY DEF Booting!Exits, Booting!Goes, Booting!LockInv, Booting!Locked, Booting!Past,
    Booting!InWindow, Booting!Up

\* Every step of the program keeps the lock.
LEMMA StepLocked ==
  ASSUME Booting!LockInv, NEW p \in Pids, Booting!Steps(p)
  PROVE  Booting!LockInv'
<1>1. CASE Booting!FindsAnother(p)
  BY <1>1, MovesOn DEF Booting!FindsAnother, Booting!Goes, Booting!Up
<1>2. CASE Booting!Passes(p)
  BY <1>2, PassesLocked
<1>3. CASE Booting!Truncates(p) \/ Booting!WritesPid(p)
  BY <1>3, WindowLocked
<1>4. CASE Booting!TextMode(p)
  <2>1. PICK to \in {"text", "atexit"} : Booting!Goes(p, "locked", to)
    BY <1>4 DEF Booting!TextMode
  <2>. QED BY <1>4, <2>1, MovesOn DEF Booting!TextMode, Booting!Goes, Booting!Up
<1>5. CASE Booting!TextEnds(p)
  BY <1>5, MovesOn DEF Booting!TextEnds, Booting!Goes, Booting!Up
<1>6. CASE Booting!LaunchesOrb(p)
  BY <1>6, MovesOn DEF Booting!LaunchesOrb, Booting!Goes, Booting!Up
<1>7. CASE Booting!ModelUnreachable(p) \/ Booting!ModelReady(p)
  BY <1>7, MovesOn DEF Booting!ModelUnreachable, Booting!ModelReady, Booting!Goes, Booting!Up
<1>8. CASE Booting!StartsLive(p) \/ Booting!LiveFails(p) \/ Booting!LiveReturns(p)
  BY <1>8, MovesOn DEF Booting!StartsLive, Booting!LiveFails, Booting!LiveReturns,
      Booting!Goes, Booting!Up
<1>9. CASE Booting!TakesStandard(p) \/ Booting!StartsSession(p) \/ Booting!StandardEnds(p)
  BY <1>9, MovesOn DEF Booting!TakesStandard, Booting!StartsSession, Booting!StandardEnds,
      Booting!Goes, Booting!Up
<1>10. CASE Booting!GreetingEnds(p)
  BY <1>10, StandsStill DEF Booting!GreetingEnds
<1>11. CASE Booting!ClosesOrb(p)
  BY <1>11, MovesOn DEF Booting!ClosesOrb, Booting!Goes, Booting!Up
<1>12. CASE Booting!Exits(p)
  BY <1>12, ExitsLocked
<1>. QED BY <1>1, <1>2, <1>3, <1>4, <1>5, <1>6, <1>7, <1>8, <1>9, <1>10, <1>11, <1>12
         DEF Booting!Steps, Booting!Checks

\* So does the world: starts, crashes, and process numbers that come and go.
LEMMA NextLocked == Booting!LockInv /\ [Booting!Next]_(Booting!vars) => Booting!LockInv'
<1> SUFFICES ASSUME Booting!LockInv, [Booting!Next]_(Booting!vars) PROVE Booting!LockInv'
  OBVIOUS
<1>1. CASE UNCHANGED Booting!vars
  BY <1>1, StandsStill DEF Booting!vars
<1>2. ASSUME NEW p \in Pids, NEW b \in {"gemini", "qwen"}, Booting!Starts(p, b)
      PROVE Booting!LockInv'
  BY <1>2, StartsLocked
<1>3. ASSUME NEW p \in Pids, Booting!Steps(p) PROVE Booting!LockInv'
  BY <1>3, StepLocked
<1>4. ASSUME NEW p \in Pids, Booting!Crashes(p) PROVE Booting!LockInv'
  BY <1>4, MovesOn DEF Booting!Crashes, Booting!Up
<1>5. ASSUME NEW p \in Pids, Booting!OthersComeAndGo(p) PROVE Booting!LockInv'
  BY <1>5, StandsStill DEF Booting!OthersComeAndGo
<1>. QED BY <1>1, <1>2, <1>3, <1>4, <1>5 DEF Booting!Next

\* One process at most is past the test: no set of them has two elements.
LEMMA LockedIsOne == Booting!LockInv => Booting!OneInstance
<1> SUFFICES ASSUME Booting!LockInv, ~r8
             PROVE  Booting!Cardinality({p \in Pids : r1[p] \in Booting!Up}) <= 1
  BY DEF Booting!OneInstance
<1> DEFINE Locking == {p \in Pids : r1[p] \in Booting!Up}
<1>1. Locking = {} \/ \E p \in Pids : Locking = {p}
  BY DEF Booting!LockInv, Booting!Locked, Booting!Past
<1>2. Cardinality({}) = 0 /\ \A p \in Pids : Cardinality({p}) = 1
  BY FS_EmptySet, FS_Singleton, Zenon
<1> HIDE DEF Locking
<1>3. Cardinality(Locking) \in {0, 1}
  BY <1>1, <1>2, Zenon
<1>4. Cardinality(Locking) <= 1
  BY <1>3
<1>5. \A S : Booting!Cardinality(S) = Cardinality(S)
  BY DEF Booting!Cardinality, Cardinality
<1>. QED BY <1>4, <1>5 DEF Locking

\* At most one process runs the assistant, whatever processes start, die and
\* leave their pid files behind (OneInstance).
THEOREM OnlyOneRuns == Spec => []OneInstance
<1>. DEFINE I == which = "boot" => Booting!LockInv
<1>1. Init => I
  BY InitLocked DEF Init
<1>2. I /\ [Next]_vars => I'
  <2>. SUFFICES ASSUME I, [Next]_vars, which' = "boot" PROVE Booting!LockInv'
    OBVIOUS
  <2>1. which = "boot"
    BY DEF Next, vars
  <2>2. [Booting!Next]_(Booting!vars)
    BY <2>1 DEF Next, vars, Booting!vars
  <2>. QED BY <2>1, <2>2, NextLocked
<1>3. I => OneInstance
  BY LockedIsOne DEF OneInstance
<1>. QED BY <1>1, <1>2, <1>3, PTL DEF Spec

(***************************************************************************)
(* The fast path.                                                          *)
(***************************************************************************)

\* The words of a normalized text.
Normal == Commands \union {"don", "t"}

\* A text that normalizing leaves without the word it splits off an apostrophe is
\* the text the user said (Normalize).
LEMMA NormalizedAsSaid ==
  ASSUME NEW said \in Routing!Texts, "don" \notin ToSet(Routing!Normalize(said))
  PROVE  Routing!Normalize(said) = said /\ said \in Seq(Commands)
<1> DEFINE part(i) == IF said[i] = "don't" THEN <<"don", "t">> ELSE <<said[i]>>
           parts == [i \in DOMAIN said |-> part(i)]
<1>1. said \in Seq(Commands) /\ said \in Seq(Normal)
  BY DEF Routing!Texts, Normal
<1>2. Routing!Normalize(said) = FlattenSeq(parts)
  <2>1. \A q : Routing!FlattenSeq(q) = FlattenSeq(q)
    BY Zenon DEF Routing!FlattenSeq, FlattenSeq
  <2>. QED BY <2>1 DEF Routing!Normalize
<1>3. \A i \in DOMAIN said : part(i) \in Seq(Normal)
  <2> SUFFICES ASSUME NEW i \in DOMAIN said PROVE part(i) \in Seq(Normal)
    OBVIOUS
  <2>1. said[i] \in Normal /\ "don" \in Normal /\ "t" \in Normal
    BY <1>1 DEF Normal
  <2>. QED BY <2>1
<1> HIDE DEF part
<1>4. parts \in Seq(Seq(Normal)) /\ DOMAIN parts = DOMAIN said
  BY <1>1, <1>3
<1>5. ASSUME NEW i \in DOMAIN said PROVE said[i] # "don't"
  <2> SUFFICES ASSUME said[i] = "don't" PROVE FALSE
    OBVIOUS
  <2>1. part(i) = <<"don", "t">> /\ parts[i] = part(i)
    BY DEF part
  <2>2. "don" \in ToSet(part(i))
    <3>1. 1 \in DOMAIN <<"don", "t">> /\ <<"don", "t">>[1] = "don"
      OBVIOUS
    <3>. QED BY <2>1, <3>1 DEF ToSet
  <2> HIDE DEF parts
  <2>. QED BY <1>2, <1>4, <2>1, <2>2, FlattenHolds
<1>6. parts = [i \in DOMAIN said |-> <<said[i]>>]
  BY <1>5 DEF part
<1>. QED BY <1>1, <1>2, <1>6, SinglesFlatten

\* The rule that is chosen holds (match tries them in their order).
LEMMA ChosenHolds ==
  ASSUME NEW n \in Nat, NEW rules, Len(rules) = n,
         Routing!SelectInSeq(rules, LAMBDA r : r[1]) # 0
  PROVE  \E i \in 1 .. n : Routing!SelectInSeq(rules, LAMBDA r : r[1]) = i /\ rules[i][1]
<1> DEFINE I == {i \in 1 .. Len(rules) : rules[i][1]}
<1>1. I # {} /\ Routing!SelectInSeq(rules, LAMBDA r : r[1]) = Routing!Min(I)
  BY DEF Routing!SelectInSeq
<1>2. I \in SUBSET Nat
  OBVIOUS
<1> HIDE DEF I
<1>3. \E x \in I : \A y \in I : x <= y
  BY <1>1, <1>2, LeastNumber
<1>4. Routing!Min(I) \in I
  BY <1>3 DEF Routing!Min
<1>. QED BY <1>1, <1>4 DEF I

Closing == {Routing!To("computer.control_window", "close"), Routing!To("applications.close",
      "app")}

\* One of thirteen.
LEMMA Thirteen ==
  ASSUME NEW e1, NEW e2, NEW e3, NEW e4, NEW e5, NEW e6, NEW e7, NEW e8, NEW e9, NEW e10, NEW e11,
         NEW e12, NEW e13,
         NEW i \in 1 .. Len(<<e1, e2, e3, e4, e5, e6, e7, e8, e9, e10, e11, e12, e13>>)
  PROVE  LET e == <<e1, e2, e3, e4, e5, e6, e7, e8, e9, e10, e11, e12, e13>>[i]
         IN  \/ e = e11 \/ e = e13
             \/ e \in {e1, e2, e3, e4, e5, e6, e7, e8, e9, e10, e12}
OBVIOUS

\* Two rules close something, and both look at the whole text (the last of match).
LEMMA RulesThatClose ==
  ASSUME NEW said, NEW words, NEW i \in 1 .. Len(Routing!Rules(said, words)),
         Routing!Rules(said, words)[i][1], Routing!Rules(said, words)[i][2] \in Closing
  PROVE  words = <<"close", "it">> \/ Routing!AppOf(words, {"close", "quit"}) # {}
<1> DEFINE e == Routing!Rules(said, words)[i]
           it == words = <<"close", "it">>
           app == Routing!AppOf(words, {"close", "quit"}) # {}
           Others == {Routing!To("system.shutdown_friday", "none"),
                      Routing!To("system.toggle_orb", "show"), Routing!To("system.toggle_orb",
                            "hide"),
                      Routing!To("audio.set_volume", "0"), Routing!To("audio.set_volume", "50"),
                      Routing!To("online.search", "query"), Routing!To("system.get_time",
                            "place"),
                      Routing!To("system.get_time", "none"),
                      Routing!To("computer.minimize_all_windows", "none"),
                      Routing!To("computer.control_window", "restore"),
                      Routing!To("applications.open", "app")}
<1>1. e[1] = it \/ e[1] = app \/ e[2] \in Others
  BY Thirteen DEF Routing!Rules
<1>2. \A r \in Others : r \notin Closing
  BY DEF Closing, Routing!To
<1> HIDE DEF Others, e, it, app
<1>3. e[1] /\ e[2] \in Closing
  BY DEF e
<1>. QED BY <1>1, <1>2, <1>3 DEF it, app

\* What a text says that closes something.
LEMMA ClosingText ==
  ASSUME NEW said \in Routing!Texts, Routing!Match(said) \in Closing
  PROVE  /\ Head(said) \in {"close", "quit"}
         /\ Routing!Last(said) \in Routing!AppAliases \union {"it"}
         /\ Routing!Front(Tail(said)) \in {<<>>, <<"the">>}
<1> DEFINE words == Routing!Normalize(said)
           rules == Routing!Rules(said, words)
           first == Routing!SelectInSeq(rules, LAMBDA r : r[1])
<1>1. first # 0 /\ rules[first][2] \in Closing
  BY DEF Routing!Match, Closing, Routing!None, Routing!To
<1>2. Len(rules) \in Nat
  BY DEF Routing!Rules
<1> HIDE DEF rules
<1>3. first \in 1 .. Len(rules) /\ rules[first][1]
  BY <1>1, <1>2, ChosenHolds
<1> HIDE DEF words, first
<1>4. words = <<"close", "it">> \/ Routing!AppOf(words, {"close", "quit"}) # {}
  BY <1>1, <1>3, RulesThatClose DEF rules
<1>5. PICK v \in {"close", "quit"}, a \in Routing!AppAliases \union {"it"} :
        words \in {<<v, a>>, <<v, "the", a>>}
  BY <1>4 DEF Routing!AppOf
<1>6. "don" \notin ToSet(words)
  <2>1. a # "don" /\ v # "don"
    BY <1>5 DEF Routing!AppAliases
  <2>2. CASE words = <<v, a>>
    BY <2>1, <2>2 DEF ToSet
  <2>3. CASE words = <<v, "the", a>>
    BY <2>1, <2>3 DEF ToSet
  <2>. QED BY <1>5, <2>2, <2>3
<1>7. words = said
  BY <1>6, NormalizedAsSaid DEF words
<1>8. CASE words = <<v, a>>
  <2>1. Head(words) = v /\ words[Len(words)] = a /\ Tail(words) = <<a>>
    BY <1>8
  <2>2. SubSeq(<<a>>, 1, Len(<<a>>) - 1) = <<>>
    OBVIOUS
  <2>. QED BY <1>7, <2>1, <2>2 DEF Routing!Last, Routing!Front
<1>9. CASE words = <<v, "the", a>>
  <2>1. Head(words) = v /\ words[Len(words)] = a /\ Tail(words) = <<"the", a>>
    BY <1>9
  <2>2. SubSeq(<<"the", a>>, 1, Len(<<"the", a>>) - 1) = <<"the">>
    <3> DEFINE x == <<"the", a>>
               S == {"the", a}
    <3>1. x \in Seq(S) /\ Len(x) = 2 /\ x[1] = "the" /\ <<"the">> \in Seq(S)
      OBVIOUS
    <3> HIDE DEF x, S
    <3>2. SubSeq(x, 1, 1) \in Seq(S) /\ Len(SubSeq(x, 1, 1)) = 1 /\ SubSeq(x, 1, 1)[1] = "the"
      BY <3>1
    <3> DEFINE y == SubSeq(x, 1, 1)
               z == <<"the">>
    <3> HIDE DEF y, z
    <3>3. y \in Seq(S) /\ z \in Seq(S) /\ Len(y) = Len(z) /\ \A i \in 1 .. Len(z) : y[i] = z[i]
      BY <3>1, <3>2 DEF y, z
    <3>4. y = z
      BY <3>3, SameElements
    <3>. QED BY <3>1, <3>4 DEF x, y, z
  <2>. QED BY <1>7, <2>1, <2>2 DEF Routing!Last, Routing!Front
<1>. QED BY <1>5, <1>8, <1>9

\* A window or an application is closed only by a text that says that and nothing
\* else, whatever words there are and however long texts may be (ClosesOnCommand).
THEOREM ClosedOnCommand == Spec => []ClosesOnCommand
<1>. DEFINE I == which = "fastpath" => r1 \in Routing!Texts /\ Routing!ClosesOnCommand
<1>1. Init => I
  BY DEF Init, Routing!Init, Routing!ClosesOnCommand, Routing!None, Routing!To
<1>2. I /\ [Next]_vars => I'
  <2>. SUFFICES ASSUME I, [Next]_vars, which' = "fastpath"
               PROVE  r1' \in Routing!Texts /\ Routing!ClosesOnCommand'
    OBVIOUS
  <2>1. which = "fastpath"
    BY DEF Next, vars
  <2>2. CASE Routing!Hears
    <3>1. r2' = Routing!Match(r1) /\ r1' = r1
      BY <2>2 DEF Routing!Hears
    <3>. QED BY <2>1, <3>1, ClosingText DEF Routing!ClosesOnCommand, Closing
  <2>3. CASE UNCHANGED <<r1, r2>>
    BY <2>1, <2>3 DEF Routing!ClosesOnCommand
  <2>. QED BY <2>1, <2>2, <2>3 DEF Next, vars, Routing!Next
<1>3. I => ClosesOnCommand
  BY DEF ClosesOnCommand
<1>. QED BY <1>1, <1>2, <1>3, PTL DEF Spec

(***************************************************************************)
(* The speech director.                                                    *)
(***************************************************************************)

Token == Spoken \union Tags \union {"sure,"}
IsClean(x) == x \in Seq(Token) /\ (x = <<>> \/ ~Directing!IsTag(x[1]))

\* What the modules mean by flattening is the same.
LEMMA FlattensAlike == \A q : Directing!FlattenSeq(q) = FlattenSeq(q)
BY Zenon DEF Directing!FlattenSeq, FlattenSeq

\* Filtering leaves elements of the set, and the first one if it is in the set.
LEMMA OnlyFacts ==
  ASSUME NEW T, NEW x \in Seq(T), NEW S
  PROVE  /\ Directing!Only(x, S) \in Seq(T \intersect S)
         /\ x # <<>> /\ x[1] \in S =>
              Directing!Only(x, S) # <<>> /\ Directing!Only(x, S)[1] = x[1]
<1> DEFINE part(i) == IF x[i] \in S THEN <<x[i]>> ELSE <<>>
           parts == [i \in DOMAIN x |-> part(i)]
           U == T \intersect S
<1>1. Directing!Only(x, S) = FlattenSeq(parts)
  BY FlattensAlike DEF Directing!Only
<1>2. \A i \in DOMAIN x : part(i) \in Seq(U)
  <2> SUFFICES ASSUME NEW i \in DOMAIN x PROVE part(i) \in Seq(U)
    OBVIOUS
  <2>1. x[i] \in T
    OBVIOUS
  <2>2. CASE x[i] \in S
    <3>1. x[i] \in U
      BY <2>1, <2>2
    <3>2. <<x[i]>> \in Seq(U)
      BY <3>1
    <3>. QED BY <2>2, <3>2
  <2>3. CASE x[i] \notin S
    <3>1. <<>> \in Seq(U)
      OBVIOUS
    <3>. QED BY <2>3, <3>1
  <2>. QED BY <2>2, <2>3
<1>3. x # <<>> /\ x[1] \in S => part(1) = <<x[1]>> /\ x[1] \in U
  OBVIOUS
<1> HIDE DEF part, U
<1>4. parts \in Seq(Seq(U)) /\ DOMAIN parts = DOMAIN x /\ \A i \in DOMAIN x : parts[i] = part(i)
  BY <1>2
<1> HIDE DEF parts
<1>5. FlattenSeq(parts) \in Seq(U)
  BY <1>4, FlattenType
<1>6. ASSUME x # <<>>, x[1] \in S PROVE FlattenSeq(parts) # <<>> /\ FlattenSeq(parts)[1] = x[1]
  <2>1. 1 \in DOMAIN x /\ parts # <<>> /\ Head(parts) = <<x[1]>>
    BY <1>3, <1>4, <1>6
  <2> DEFINE rest == FlattenSeq(Tail(parts))
  <2>2. FlattenSeq(parts) = <<x[1]>> \o rest
    BY <1>4, <2>1, FlattenHeadTail
  <2>3. Tail(parts) \in Seq(Seq(U))
    BY <1>4, <2>1
  <2>4. rest \in Seq(U)
    BY <2>3, FlattenType
  <2> HIDE DEF rest
  <2>. QED BY <1>3, <1>6, <2>2, <2>4
<1>. QED BY <1>1, <1>5, <1>6 DEF U

\* What is seen of a text are its tags, the first of all if that is one.
LEMMA SeenFacts ==
  ASSUME NEW x \in Seq(Token)
  PROVE  /\ Directing!Seen(x) \in Seq({t \in Token : Directing!IsTag(t)})
         /\ x # <<>> /\ Directing!IsTag(x[1]) =>
              Directing!Seen(x) # <<>> /\ Directing!Seen(x)[1] = x[1]
<1> DEFINE m == IF Window < Len(x) THEN Window ELSE Len(x)
           y == SubSeq(x, 1, m)
           S == {t \in Directing!ToSet(x) : Directing!IsTag(t)}
           R == {t \in Token : Directing!IsTag(t)}
<1>1. m \in Nat /\ m <= Len(x) /\ (x # <<>> => m >= 1)
  <2>1. Window \in Nat \ {0}
    BY Assumptions DEF Assumptions, Directing!WordsAssumption
  <2>2. Len(x) \in Nat /\ (x # <<>> => Len(x) >= 1)
    OBVIOUS
  <2>. QED BY <2>1, <2>2
<1> HIDE DEF m
<1>2. y \in Seq(Token) /\ (x # <<>> => y # <<>> /\ y[1] = x[1])
  BY <1>1
<1>3. x # <<>> /\ Directing!IsTag(x[1]) => x[1] \in S
  BY DEF Directing!ToSet
<1>4. Directing!Seen(x) = Directing!Only(y, S)
  BY DEF Directing!Seen, m
<1>5. Token \intersect S \subseteq R
  OBVIOUS
<1> HIDE DEF y, S, R
<1>6. /\ Directing!Only(y, S) \in Seq(Token \intersect S)
      /\ y # <<>> /\ y[1] \in S => Directing!Only(y, S) # <<>> /\ Directing!Only(y, S)[1] = y[1]
  BY <1>2, OnlyFacts
<1>7. Directing!Only(y, S) \in Seq(R)
  BY <1>5, <1>6
<1>. QED BY <1>2, <1>3, <1>4, <1>6, <1>7 DEF R

\* A tag that is permitted is a tag.
LEMMA PermittedTags ==
  ASSUME NEW s, NEW t \in Directing!Permitted(s)
  PROVE  Directing!IsTag(t) /\ t \in Token
BY Assumptions
   DEF Directing!WordsAssumption, Directing!Permitted, Directing!Allowed, Directing!IsTag, Token

\* The tags that stay are permitted, and a permitted one in front stays in front.
LEMMA ExistingFacts ==
  ASSUME NEW x \in Seq(Token), NEW s
  PROVE  /\ Directing!Existing(x, s) \in Seq(Directing!Permitted(s))
         /\ x # <<>> /\ x[1] \in Directing!Permitted(s) =>
              Directing!Existing(x, s) # <<>> /\ Directing!Existing(x, s)[1] = x[1]
<1> DEFINE R == {t \in Token : Directing!IsTag(t)}
           y == Directing!Seen(x)
           P == Directing!Permitted(s)
<1>1. y \in Seq(R) /\ (x # <<>> /\ x[1] \in P => y # <<>> /\ y[1] = x[1])
  BY SeenFacts, PermittedTags
<1> HIDE DEF R, y, P
<1>2. /\ Directing!Only(y, P) \in Seq(R \intersect P)
      /\ y # <<>> /\ y[1] \in P => Directing!Only(y, P) # <<>> /\ Directing!Only(y, P)[1] = y[1]
  BY <1>1, OnlyFacts
<1>3. Directing!Only(y, P) \in Seq(P)
  BY <1>2
<1>4. Directing!Existing(x, s) = Directing!Only(y, P)
  BY DEF Directing!Existing, y, P
<1>. QED BY <1>1, <1>2, <1>3, <1>4 DEF P

\* The first place that is found: nothing before it holds.
LEMMA FoundFirst ==
  ASSUME NEW T, NEW x \in Seq(T)
  PROVE  LET f == Directing!SelectInSeq(x, LAMBDA t : ~Directing!IsTag(t))
             I == {i \in 1 .. Len(x) : ~Directing!IsTag(x[i])}
         IN  (f = 0 /\ I = {}) \/ (f \in I /\ \A i \in I : f <= i)
<1> DEFINE I == {i \in 1 .. Len(x) : ~Directing!IsTag(x[i])}
           f == Directing!SelectInSeq(x, LAMBDA t : ~Directing!IsTag(t))
<1>1. f = IF I # {} THEN Directing!Min(I) ELSE 0
  BY DEF Directing!SelectInSeq
<1>2. I \in SUBSET Nat
  OBVIOUS
<1> HIDE DEF I, f
<1>3. CASE I = {}
  BY <1>1, <1>3 DEF I, f
<1>4. CASE I # {}
  <2>1. \E i \in I : \A j \in I : i <= j
    BY <1>2, <1>4, LeastNumber
  <2>2. Directing!Min(I) \in I /\ \A j \in I : Directing!Min(I) <= j
    BY <2>1 DEF Directing!Min
  <2>. QED BY <1>1, <1>4, <2>2 DEF I, f
<1>. QED BY <1>3, <1>4

\* What is left when the tags in front are stripped begins with a word.
LEMMA StripCleans ==
  ASSUME NEW x \in Seq(Token)
  PROVE  IsClean(Directing!Strip(x))
<1> DEFINE f == Directing!SelectInSeq(x, LAMBDA t : ~Directing!IsTag(t))
<1>1. f = 0 \/ (f \in 1 .. Len(x) /\ ~Directing!IsTag(x[f]))
  BY FoundFirst
<1>2. Directing!Strip(x) = IF f = 0 THEN <<>> ELSE SubSeq(x, f, Len(x))
  BY DEF Directing!Strip
<1> HIDE DEF f
<1>3. CASE f = 0
  <2>1. <<>> \in Seq(Token)
    OBVIOUS
  <2>. QED BY <1>2, <1>3, <2>1 DEF IsClean
<1>4. CASE f \in 1 .. Len(x) /\ ~Directing!IsTag(x[f])
  <2> DEFINE y == SubSeq(x, f, Len(x))
  <2>1. y \in Seq(Token) /\ y[1] = x[f] /\ f # 0
    BY <1>4
  <2> HIDE DEF y
  <2>. QED BY <1>2, <1>4, <2>1 DEF IsClean, y
<1>. QED BY <1>1, <1>3, <1>4

\* A text that begins with a word has nothing to strip.
LEMMA StripKeeps ==
  ASSUME NEW c, IsClean(c)
  PROVE  Directing!Strip(c) = c
<1> DEFINE f == Directing!SelectInSeq(c, LAMBDA t : ~Directing!IsTag(t))
           I == {i \in 1 .. Len(c) : ~Directing!IsTag(c[i])}
<1>1. c \in Seq(Token)
  BY DEF IsClean
<1>2. (f = 0 /\ I = {}) \/ (f \in I /\ \A i \in I : f <= i)
  BY <1>1, FoundFirst
<1>3. Directing!Strip(c) = IF f = 0 THEN <<>> ELSE SubSeq(c, f, Len(c))
  BY DEF Directing!Strip
<1>4. CASE c = <<>>
  <2>1. I = {}
    BY <1>4
  <2> HIDE DEF f, I
  <2>. QED BY <1>2, <1>3, <1>4, <2>1
<1>5. CASE c # <<>>
  <2>1. 1 \in I /\ \A i \in I : i \in Nat /\ 1 <= i
    BY <1>1, <1>5 DEF IsClean
  <2> HIDE DEF f, I
  <2>2. f = 1
    BY <1>2, <2>1
  <2>3. SubSeq(c, 1, Len(c)) = c
    BY <1>1
  <2>. QED BY <1>3, <2>2, <2>3
<1>. QED BY <1>4, <1>5

\* A tag in front of it is stripped again.
LEMMA StripUndoes ==
  ASSUME NEW c, IsClean(c), NEW t \in Token, Directing!IsTag(t)
  PROVE  Directing!Strip(<<t>> \o c) = c
<1> DEFINE x == <<t>> \o c
           f == Directing!SelectInSeq(x, LAMBDA u : ~Directing!IsTag(u))
           I == {i \in 1 .. Len(x) : ~Directing!IsTag(x[i])}
<1>1. /\ c \in Seq(Token) /\ x \in Seq(Token) /\ Len(x) = Len(c) + 1 /\ x[1] = t
      /\ \A i \in 1 .. Len(c) : x[i + 1] = c[i]
  BY DEF IsClean
<1> HIDE DEF x
<1>2. (f = 0 /\ I = {}) \/ (f \in I /\ \A i \in I : f <= i)
  BY <1>1, FoundFirst
<1>3. Directing!Strip(x) = IF f = 0 THEN <<>> ELSE SubSeq(x, f, Len(x))
  BY DEF Directing!Strip
<1>4. 1 \notin I
  BY <1>1
<1>5. CASE c = <<>>
  <2>1. Len(x) = 1
    BY <1>1, <1>5
  <2>2. I = {}
    BY <1>4, <2>1
  <2> HIDE DEF f, I
  <2>. QED BY <1>2, <1>3, <1>5, <2>2 DEF x
<1>6. CASE c # <<>>
  <2>1. Len(c) \in Nat /\ 1 \in 1 .. Len(c) /\ ~Directing!IsTag(c[1])
    BY <1>1, <1>6 DEF IsClean
  <2>2. 1 + 1 \in 1 .. Len(x) /\ x[1 + 1] = c[1]
    BY <1>1, <2>1
  <2>3. 2 \in I /\ \A i \in I : i \in Nat /\ 2 <= i
    BY <1>1, <1>4, <2>1, <2>2
  <2> HIDE DEF f, I
  <2>4. f = 2
    BY <1>2, <2>3
  <2> DEFINE y == SubSeq(x, 2, Len(x))
  <2>5. y \in Seq(Token) /\ Len(y) = Len(c) /\ \A i \in 1 .. Len(c) : y[i] = x[i + 1]
    BY <1>1, <2>1
  <2> HIDE DEF y
  <2>6. y = c
    BY <1>1, <2>5, SameElements
  <2>7. Directing!Strip(x) = c
    BY <1>3, <2>4, <2>6 DEF y
  <2>. QED BY <2>7 DEF x
<1>. QED BY <1>5, <1>6

\* One token before others.
LEMMA TokenFirst ==
  ASSUME NEW e \in Token, NEW rest \in Seq(Token)
  PROVE  <<e>> \o rest \in Seq(Token) /\ (<<e>> \o rest)[1] = e
OBVIOUS

\* A comma is put in once.
LEMMA ProsodyOnce ==
  ASSUME NEW c, IsClean(c)
  PROVE  LET d == Directing!FormatProsody(c)
         IN  IsClean(d) /\ Directing!FormatProsody(d) = d
<1> DEFINE d == Directing!FormatProsody(c)
<1>1. CASE Len(c) > 1 /\ c[1] = "sure" /\ ~Directing!IsTag(c[2])
  <2> DEFINE rest == Tail(c)
  <2>1. d = <<"sure,">> \o rest
    BY <1>1 DEF Directing!FormatProsody
  <2>2. rest \in Seq(Token)
    <3>1. c \in Seq(Token) /\ c # <<>>
      BY <1>1 DEF IsClean
    <3>. QED BY <3>1
  <2>6. "sure," \in Token
    BY DEF Token
  <2> HIDE DEF rest
  <2>3. d \in Seq(Token) /\ d[1] = "sure,"
    BY <2>1, <2>2, <2>6, TokenFirst
  <2> HIDE DEF d
  <2>4. ~Directing!IsTag(d[1])
    BY <2>3 DEF Directing!IsTag
  <2>5. Directing!FormatProsody(d) = d
    BY <2>3 DEF Directing!FormatProsody
  <2>. QED BY <2>3, <2>4, <2>5 DEF IsClean, d
<1>2. CASE ~(Len(c) > 1 /\ c[1] = "sure" /\ ~Directing!IsTag(c[2]))
  <2>1. d = c
    BY <1>2 DEF Directing!FormatProsody
  <2>. QED BY <2>1
<1>. QED BY <1>1, <1>2

\* A decision names no tag, or one that is permitted.
Decent(d, s) == d.tags = <<>> \/ \E t \in Directing!Permitted(s) : d.tags = <<t>>

\* The rules that ask for a sound of amusement do not when something went wrong.
LEMMA EffectsAreDecent ==
  ASSUME NEW s, NEW tag, NEW policy, NEW emotion,
         tag \in {"chuckle", "laugh"} => s \notin Directing!WentWrong
  PROVE  Decent(Directing!Decision(emotion, Directing!Effect(tag, policy)), s)
BY DEF Decent, Directing!Decision, Directing!Effect, Directing!Permitted

\* One of eight.
LEMMA Eight ==
  ASSUME NEW e1, NEW e2, NEW e3, NEW e4, NEW e5, NEW e6, NEW e7, NEW e8,
         NEW i \in 1 .. Len(<<e1, e2, e3, e4, e5, e6, e7, e8>>)
  PROVE  <<e1, e2, e3, e4, e5, e6, e7, e8>>[i] \in {e1, e2, e3, e4, e5, e6, e7, e8}
OBVIOUS

\* Every rule that applies decides so.
LEMMA RulesAreDecent ==
  ASSUME NEW x, NEW s, NEW i \in 1 .. Len(Directing!Rules(x, s)), Directing!Rules(x, s)[i][1]
  PROVE  Decent(Directing!Rules(x, s)[i][2], s)
<1> DEFINE r == Directing!Rules(x, s)[i]
           Plain(e) == Directing!Decision(e, <<>>)
           Sounds(e, tag, policy) == Directing!Decision(e, Directing!Effect(tag, policy))
           amused == Sounds("amused", "laugh", Limited)
           Others == {Sounds("empathetic", "sigh", Production), Plain("serious"), Plain("calm"),
                      Sounds("surprised", "gasp", Production),
                      Sounds("positive", "happy", Production),
                      Sounds("satisfied", "happy", Production), Plain("neutral")}
<1>1. r[2] \in Others \/ (r[2] = amused /\ (r[1] => s \notin Directing!WentWrong))
  <2> DEFINE c1 == s = "FAILED" \/ Directing!Says(x, <<"sorry">>)
             c2 == s = "ERROR" \/ Directing!Says(x, <<"cannot">>)
             c3 == Directing!Says(x, <<"proceed">>)
             c4 == Directing!Says(x, <<"wow">>)
             c5 == Directing!Says(x, <<"certainly">>) \/ Directing!Says(x, <<"sure", "thing">>)
             c6 == s = "COMPLETED"
             c7 == s \notin Directing!WentWrong /\ Directing!Says(x, <<"haha">>)
             d1 == Sounds("empathetic", "sigh", Production)
             d2 == Plain("serious")
             d3 == Plain("calm")
             d4 == Sounds("surprised", "gasp", Production)
             d5 == Sounds("positive", "happy", Production)
             d6 == Sounds("satisfied", "happy", Production)
             d8 == Plain("neutral")
             list == <<<<c1, d1>>, <<c2, d2>>, <<c3, d3>>, <<c4, d4>>, <<c5, d5>>, <<c6, d6>>,
                       <<c7, amused>>, <<TRUE, d8>>>>
  <2>1. Directing!Rules(x, s) = list
    BY Zenon DEF Directing!Rules
  <2>2. Others = {d1, d2, d3, d4, d5, d6, d8}
    OBVIOUS
  <2>3. c7 => s \notin Directing!WentWrong
    OBVIOUS
  <2> HIDE DEF c1, c2, c3, c4, c5, c6, c7, d1, d2, d3, d4, d5, d6, d8, Others, amused
  <2>4. r \in {<<c1, d1>>, <<c2, d2>>, <<c3, d3>>, <<c4, d4>>, <<c5, d5>>, <<c6, d6>>,
               <<c7, amused>>, <<TRUE, d8>>}
    BY <2>1, Eight
  <2> HIDE DEF r
  <2>5. CASE r = <<c7, amused>>
    <3>1. r[2] = amused /\ r[1] = c7
      BY <2>5
    <3>. QED BY <2>3, <3>1
  <2>6. \A c, d : r = <<c, d>> => r[2] = d
    OBVIOUS
  <2>. QED BY <2>2, <2>4, <2>5, <2>6
<1>2. \A d \in Others : Decent(d, s)
  <2>1. \A e : Decent(Plain(e), s)
    BY DEF Decent, Directing!Decision
  <2>2. \A e, tag, policy : tag \notin {"chuckle", "laugh"} => Decent(Sounds(e, tag, policy), s)
    BY EffectsAreDecent
  <2> HIDE DEF Plain, Sounds
  <2>. QED BY <2>1, <2>2
<1>3. s \notin Directing!WentWrong => Decent(amused, s)
  BY EffectsAreDecent
<1> HIDE DEF r, Others, amused
<1>4. r[1]
  BY DEF r
<1>5. Decent(r[2], s)
  BY <1>1, <1>2, <1>3, <1>4
<1>. QED BY <1>5 DEF r

\* The last rule always applies, so one is found.
LEMMA SomeRule ==
  ASSUME NEW x, NEW s
  PROVE  LET rules == Directing!Rules(x, s)
             f == Directing!SelectInSeq(rules, LAMBDA r : r[1])
         IN  f \in 1 .. Len(rules) /\ rules[f][1]
<1> DEFINE rules == Directing!Rules(x, s)
           I == {i \in 1 .. Len(rules) : rules[i][1]}
           f == Directing!SelectInSeq(rules, LAMBDA r : r[1])
<1>1. Len(rules) = 8 /\ rules[8][1]
  BY DEF Directing!Rules
<1>2. f = IF I # {} THEN Directing!Min(I) ELSE 0
  BY DEF Directing!SelectInSeq
<1> HIDE DEF rules
<1>3. 8 \in I /\ I \in SUBSET Nat
  BY <1>1
<1> HIDE DEF f, I
<1>4. \E i \in I : \A j \in I : i <= j
  BY <1>3, LeastNumber
<1>5. Directing!Min(I) \in I
  BY <1>4 DEF Directing!Min
<1>6. f \in I
  BY <1>2, <1>3, <1>5
<1>. QED BY <1>6 DEF I, f, rules

\* So does a tag of the text.
LEMMA DecideIsDecent ==
  ASSUME NEW x, NEW s
  PROVE  Decent(Directing!Decide(x, s), s)
<1> DEFINE tag == IF Directing!Seen(x) = <<>> THEN "none" ELSE Head(Directing!Seen(x))
           rules == Directing!Rules(x, s)
           f == Directing!SelectInSeq(rules, LAMBDA r : r[1])
           Known == /\ Directing!FeelingOf(tag) # "none"
                    /\ ~(s \in Directing!WentWrong /\ tag \in {"chuckle", "laugh", "happy"})
           Stays == tag \in Directing!Allowed /\ ~(tag \in Limited /\ s \in Directing!WentWrong)
           own == Directing!Decision(Directing!FeelingOf(tag), IF Stays THEN <<tag>> ELSE <<>>)
<1>1. Directing!Decide(x, s) = IF Known THEN own ELSE rules[f][2]
  BY Zenon DEF Directing!Decide
<1>2. Decent(rules[f][2], s)
  BY SomeRule, RulesAreDecent
<1>3. Known => Decent(own, s)
  <2> SUFFICES ASSUME Known PROVE Decent(own, s)
    OBVIOUS
  <2>1. CASE Stays
    <3>1. tag \in Directing!Permitted(s) /\ own.tags = <<tag>>
      BY <2>1 DEF Directing!Permitted, Directing!Decision
    <3>. QED BY <3>1 DEF Decent
  <2>2. CASE ~Stays
    <3>1. own.tags = <<>>
      BY <2>2 DEF Directing!Decision
    <3>. QED BY <3>1 DEF Decent
  <2>. QED BY <2>1, <2>2
<1> HIDE DEF Known, own, rules, f
<1>. QED BY <1>1, <1>2, <1>3

\* At most one tag is left of those there are.
LEMMA OneTag ==
  ASSUME NEW P, NEW tags \in Seq(P)
  PROVE  LET t == SubSeq(tags, 1, IF MaxTags < Len(tags) THEN MaxTags ELSE Len(tags))
         IN  /\ MaxTags = 0 \/ tags = <<>> => t = <<>>
             /\ MaxTags = 1 /\ tags # <<>> => tags[1] \in P /\ t = <<tags[1]>>
<1> DEFINE m == IF MaxTags < Len(tags) THEN MaxTags ELSE Len(tags)
<1>1. MaxTags \in 0 .. 1 /\ Len(tags) \in Nat
  <2>1. MaxTags \in 0 .. 1
    BY Assumptions DEF Assumptions, Directing!WordsAssumption
  <2>. QED BY <2>1
<1>2. CASE MaxTags = 0 \/ tags = <<>>
  <2>1. m = 0
    BY <1>1, <1>2
  <2> HIDE DEF m
  <2>2. SubSeq(tags, 1, m) = <<>>
    BY <2>1
  <2>. QED BY <1>1, <1>2, <2>2 DEF m
<1>3. CASE MaxTags = 1 /\ tags # <<>>
  <2>1. m = 1 /\ Len(tags) >= 1 /\ tags[1] \in P
    <3>1. Len(tags) # 0 /\ Len(tags) >= 1
      BY <1>1, <1>3
    <3>2. m = 1
      <4> DEFINE n == Len(tags)
      <4>1. n \in Nat /\ n >= 1
        BY <1>1, <3>1
      <4> HIDE DEF n
      <4>2. (IF 1 < n THEN 1 ELSE n) = 1
        BY <4>1
      <4>. QED BY <1>3, <4>2 DEF n
    <3>3. tags[1] \in P
      BY <3>1
    <3>. QED BY <3>1, <3>2, <3>3
  <2> HIDE DEF m
  <2> DEFINE y == SubSeq(tags, 1, 1)
             z == <<tags[1]>>
  <2>2. y \in Seq(P) /\ z \in Seq(P) /\ Len(y) = 1 /\ Len(z) = 1 /\ y[1] = tags[1] /\ z[1] = tags[1]
    BY <1>1, <2>1
  <2> HIDE DEF y, z
  <2>3. y = z
    BY <2>2, SameElements
  <2>. QED BY <1>3, <2>1, <2>3 DEF m, y, z
<1>. QED BY <1>1, <1>2, <1>3

\* What rendering makes of a text: its words, or a permitted tag and its words.
LEMMA Rendered ==
  ASSUME NEW x \in Seq(Token), NEW s
  PROVE  LET c == Directing!FormatProsody(Directing!Strip(x))
             r == Directing!Render(x, FALSE, s)
         IN  /\ IsClean(c)
             /\ r = c \/ \E t \in Directing!Permitted(s) : MaxTags = 1 /\ r = <<t>> \o c
             /\ x # <<>> /\ x[1] \in Directing!Permitted(s) /\ MaxTags = 1 => r = <<x[1]>> \o c
<1> DEFINE c == Directing!FormatProsody(Directing!Strip(x))
           decided == Directing!Decide(c, s).tags
           existing == Directing!Existing(x, s)
           tags == IF existing # <<>> THEN existing ELSE decided
           t == SubSeq(tags, 1, IF MaxTags < Len(tags) THEN MaxTags ELSE Len(tags))
           P == Directing!Permitted(s)
<1>1. IsClean(c)
  BY StripCleans, ProsodyOnce
<1>2. Directing!Render(x, FALSE, s) = t \o c
  BY DEF Directing!Render, Directing!Clean
<1>3. decided \in Seq(P)
  <2>1. Decent(Directing!Decide(c, s), s)
    BY DecideIsDecent
  <2>2. decided = <<>> \/ \E u \in P : decided = <<u>>
    BY <2>1 DEF Decent
  <2> HIDE DEF decided, P
  <2>3. <<>> \in Seq(P) /\ \A u \in P : <<u>> \in Seq(P)
    OBVIOUS
  <2>. QED BY <2>2, <2>3
<1>4. existing \in Seq(P) /\ (x # <<>> /\ x[1] \in P => existing # <<>> /\ existing[1] = x[1])
  BY ExistingFacts
<1> HIDE DEF existing, decided, P
<1>5. tags \in Seq(P) /\ (x # <<>> /\ x[1] \in P => tags # <<>> /\ tags[1] = x[1])
  BY <1>3, <1>4
<1> HIDE DEF tags
<1>6. /\ MaxTags = 0 \/ tags = <<>> => t = <<>>
      /\ MaxTags = 1 /\ tags # <<>> => tags[1] \in P /\ t = <<tags[1]>>
  BY <1>5, OneTag
<1>7. MaxTags = 0 \/ MaxTags = 1
  <2>1. MaxTags \in 0 .. 1
    BY Assumptions DEF Assumptions, Directing!WordsAssumption
  <2>. QED BY <2>1
<1> HIDE DEF t, c
<1>8. <<>> \o c = c
  BY <1>1 DEF IsClean
<1>. QED BY <1>1, <1>2, <1>5, <1>6, <1>7, <1>8 DEF P, c

\* A rendered text is its own words again, behind its tag.
LEMMA RenderedAgain ==
  ASSUME NEW c, IsClean(c), Directing!FormatProsody(c) = c, NEW s
  PROVE  /\ Directing!Render(c, FALSE, s) = c
            \/ \E t \in Directing!Permitted(s) : MaxTags = 1 /\ Directing!Render(c, FALSE, s) = <<t>> \o c
         /\ \A t \in Directing!Permitted(s) :
              MaxTags = 1 => Directing!Render(<<t>> \o c, FALSE, s) = <<t>> \o c
<1>1. c \in Seq(Token) /\ Directing!Strip(c) = c
  BY StripKeeps DEF IsClean
<1>2. Directing!Render(c, FALSE, s) = c
      \/ \E t \in Directing!Permitted(s) : MaxTags = 1 /\ Directing!Render(c, FALSE, s) = <<t>> \o c
  BY <1>1, Rendered
<1>3. ASSUME NEW t \in Directing!Permitted(s), MaxTags = 1
      PROVE  Directing!Render(<<t>> \o c, FALSE, s) = <<t>> \o c
  <2> DEFINE x == <<t>> \o c
  <2>1. t \in Token /\ Directing!IsTag(t)
    BY PermittedTags
  <2>2. x \in Seq(Token) /\ x[1] = t
    BY <1>1, <2>1, TokenFirst
  <2>3. x # <<>>
    BY <1>1, <2>1
  <2>4. Directing!Strip(x) = c
    BY <2>1, StripUndoes
  <2> HIDE DEF x
  <2>5. Directing!Render(x, FALSE, s) = <<t>> \o c
    BY <1>3, <2>2, <2>3, <2>4, Rendered
  <2>. QED BY <2>5 DEF x
<1>. QED BY <1>2, <1>3

\* What is rendered is a text again, with or without blanks in front.
LEMMA RenderedText ==
  ASSUME NEW x \in Seq(Token), NEW s, NEW blank \in BOOLEAN
  PROVE  Directing!Render(x, blank, s) \in Seq(Token)
<1> DEFINE y == Directing!Clean(x, blank)
           decided == Directing!Decide(y, s).tags
           existing == Directing!Existing(x, s)
           tags == IF existing # <<>> THEN existing ELSE decided
           t == SubSeq(tags, 1, IF MaxTags < Len(tags) THEN MaxTags ELSE Len(tags))
           P == Directing!Permitted(s)
<1>1. y \in Seq(Token)
  <2>1. Directing!Strip(x) \in Seq(Token)
    BY StripCleans DEF IsClean
  <2>2. ASSUME NEW z \in Seq(Token) PROVE Directing!FormatProsody(z) \in Seq(Token)
    <3>1. "sure," \in Token
      BY DEF Token
    <3>2. CASE Len(z) > 1
      <4> DEFINE rest == Tail(z)
      <4>1. rest \in Seq(Token)
        BY <3>2
      <4> HIDE DEF rest
      <4>2. <<"sure,">> \o rest \in Seq(Token)
        BY <3>1, <4>1, TokenFirst
      <4>. QED BY <4>2 DEF Directing!FormatProsody, rest
    <3>3. CASE ~(Len(z) > 1)
      BY <3>3 DEF Directing!FormatProsody
    <3>. QED BY <3>2, <3>3
  <2>. QED BY <2>1, <2>2 DEF Directing!Clean
<1>2. Directing!Render(x, blank, s) = t \o y
  BY DEF Directing!Render
<1>3. decided \in Seq(P)
  <2>1. Decent(Directing!Decide(y, s), s)
    BY DecideIsDecent
  <2>2. decided = <<>> \/ \E u \in P : decided = <<u>>
    BY <2>1 DEF Decent
  <2> HIDE DEF decided, P
  <2>3. <<>> \in Seq(P) /\ \A u \in P : <<u>> \in Seq(P)
    OBVIOUS
  <2>. QED BY <2>2, <2>3
<1>4. existing \in Seq(P)
  BY ExistingFacts
<1>5. P \subseteq Token
  BY PermittedTags
<1> HIDE DEF existing, decided, P, y
<1>6. tags \in Seq(P)
  BY <1>3, <1>4
<1> HIDE DEF tags
<1>7. MaxTags = 0 \/ MaxTags = 1
  <2>1. MaxTags \in 0 .. 1
    BY Assumptions DEF Assumptions, Directing!WordsAssumption
  <2>. QED BY <2>1
<1>8. t = <<>> \/ (tags[1] \in Token /\ t = <<tags[1]>>)
  BY <1>5, <1>6, <1>7, OneTag
<1> HIDE DEF t
<1>9. t \in Seq(Token)
  <2>1. <<>> \in Seq(Token) /\ \A u \in Token : <<u>> \in Seq(Token)
    OBVIOUS
  <2>. QED BY <1>8, <2>1
<1>. QED BY <1>1, <1>2, <1>9

\* A sentence that is rendered again gets no second tag, and is settled after that,
\* whatever tags it brings with it and wherever they stand; one that begins with blanks
\* is rendered once more before that (Settles).
THEOREM RenderingSettles == Spec => Settles
<1>. DEFINE I == which = "director" => r1 \in Directing!Sentences /\ r3 \in BOOLEAN
            A == which = "director" => Directing!RenderSettles
<1>1. Init => I
  BY DEF Init, Directing!Init
<1>2. I /\ [Next]_vars => I'
  BY DEF Next, vars, Directing!Next, Directing!Speaks
<1>3. I /\ [Next]_vars => [A]_vars
  <2> SUFFICES ASSUME I, [Next]_vars, which = "director", vars' # vars
               PROVE  Directing!RenderSettles
    OBVIOUS
  <2>1. r4' = Directing!Render(r1, r3, r2) /\ r1 \in Directing!Sentences /\ r3 \in BOOLEAN
    BY DEF Next, vars, Directing!Next, Directing!Speaks
  <2>2. r1 \in Seq(Token)
    <3>1. PICK n \in 0 .. MaxTokens : r1 \in [1 .. n -> Spoken \union Tags]
      BY <2>1 DEF Directing!Sentences
    <3>2. n \in Nat /\ \A i \in 1 .. n : r1[i] \in Token
      <4>1. MaxTokens \in Nat
        BY Assumptions DEF Assumptions, Directing!WordsAssumption
      <4>2. n \in Nat
        BY <4>1
      <4>3. \A i \in 1 .. n : r1[i] \in Spoken \union Tags
        BY <3>1
      <4>. QED BY <4>2, <4>3 DEF Token
    <3>. QED BY <3>1, <3>2
  <2> DEFINE came == IF r3 THEN r4' ELSE r1
             first == IF r3 THEN Directing!Render(r4', FALSE, r2) ELSE r4'
             c == Directing!FormatProsody(Directing!Strip(came))
             P == Directing!Permitted(r2)
             again == Directing!Render(first, FALSE, r2)
  <2>3. came \in Seq(Token) /\ first = Directing!Render(came, FALSE, r2)
    BY <2>1, <2>2, RenderedText
  <2> HIDE DEF came, first
  <2>4. IsClean(c) /\ Directing!FormatProsody(c) = c
    BY <2>3, StripCleans, ProsodyOnce
  <2>5. first = c \/ \E t \in P : MaxTags = 1 /\ first = <<t>> \o c
    BY <2>3, Rendered
  <2>6. /\ \/ Directing!Render(c, FALSE, r2) = c
           \/ \E t \in P : MaxTags = 1 /\ Directing!Render(c, FALSE, r2) = <<t>> \o c
        /\ \A t \in P : MaxTags = 1 => Directing!Render(<<t>> \o c, FALSE, r2) = <<t>> \o c
    BY <2>4, RenderedAgain
  <2>7. c # <<>> => ~Directing!IsTag(Head(c))
    BY <2>4 DEF IsClean
  <2> HIDE DEF c, P
  <2>8. Directing!Render(again, FALSE, r2) = again
    BY <2>5, <2>6
  <2>9. first # <<>> /\ Directing!IsTag(Head(first)) => again = first
    BY <2>5, <2>6, <2>7
  <2>. QED BY <2>8, <2>9 DEF Directing!RenderSettles, first
<1>. QED BY <1>1, <1>2, <1>3, PTL DEF Spec, Settles

(***************************************************************************)
(* Connectivity.                                                           *)
(***************************************************************************)

\* The steps of the threads keep what is read from a probe's success.
LEMMA ConnectivityKeeps ==
  ASSUME Connecting!ProbedInv, [Connecting!Next]_(Connecting!vars)
  PROVE  Connecting!ProbedInv'
<1>. USE DEF Connecting!ProbedInv, Connecting!Steps
<1>1. CASE Connecting!NetworkChanges
  BY <1>1 DEF Connecting!NetworkChanges, Connecting!cacheVars
<1>2. CASE Connecting!ProbesAgain
  BY <1>2 DEF Connecting!ProbesAgain, Connecting!cacheVars
<1>3. CASE Connecting!TriggerAsks
  BY <1>3 DEF Connecting!TriggerAsks, Connecting!cacheVars, Connecting!Goes
<1>4. CASE Connecting!StartsMonitoring
  BY <1>4 DEF Connecting!StartsMonitoring, Connecting!cacheVars
<1>5. CASE Connecting!StopsMonitoring
  BY <1>5 DEF Connecting!StopsMonitoring, Connecting!cacheVars
<1>6. CASE Connecting!ForcesCheck
  BY <1>6 DEF Connecting!ForcesCheck, Connecting!cacheVars
<1>7. CASE Connecting!LoopsAgain
  BY <1>7 DEF Connecting!LoopsAgain, Connecting!cacheVars
<1>8. ASSUME NEW t \in Connecting!Threads, Connecting!AsksMonitor(t)
      PROVE  Connecting!ProbedInv'
  BY <1>8 DEF Connecting!AsksMonitor, Connecting!cacheVars
<1>9. ASSUME NEW t \in Connecting!Threads, Connecting!ReadsState(t)
      PROVE  Connecting!ProbedInv'
  BY <1>9 DEF Connecting!ReadsState, Connecting!cacheVars, Connecting!Goes, Connecting!AfterAsking
<1>10. ASSUME NEW t \in Connecting!Threads, Connecting!BeginsProbe(t)
       PROVE  Connecting!ProbedInv'
  BY <1>10 DEF Connecting!BeginsProbe, Connecting!cacheVars, Connecting!Goes
<1>11. ASSUME NEW t \in Connecting!Threads, Connecting!EndsProbe(t)
       PROVE  Connecting!ProbedInv'
  BY <1>11 DEF Connecting!EndsProbe, Connecting!cacheVars, Connecting!AfterAsking
<1>12. ASSUME NEW t \in Connecting!Threads, Connecting!Updates(t)
       PROVE  Connecting!ProbedInv'
  BY <1>12 DEF Connecting!Updates, Connecting!cacheVars
<1>13. ASSUME NEW t \in Connecting!Threads, Connecting!ReadsForSubscriber(t)
       PROVE  Connecting!ProbedInv'
  BY <1>13 DEF Connecting!ReadsForSubscriber, Connecting!cacheVars
<1>14. ASSUME NEW t \in Connecting!Threads, Connecting!TellsSubscriber(t)
       PROVE  Connecting!ProbedInv'
  BY <1>14 DEF Connecting!TellsSubscriber, Connecting!cacheVars
<1>15. ASSUME NEW t \in Connecting!Threads, Connecting!Returns(t)
       PROVE  Connecting!ProbedInv'
  BY <1>15 DEF Connecting!Returns, Connecting!cacheVars
<1>16. ASSUME NEW r, NEW fresh, Connecting!CanExecute(r, fresh)
       PROVE  Connecting!ProbedInv'
  BY <1>16 DEF Connecting!CanExecute, Connecting!gateVars
<1>17. CASE UNCHANGED Connecting!vars
  BY <1>17 DEF Connecting!vars, Connecting!gateVars
<1>. QED
  BY <1>1, <1>2, <1>3, <1>4, <1>5, <1>6, <1>7, <1>8, <1>9, <1>10, <1>11, <1>12, <1>13, <1>14,
     <1>15, <1>16, <1>17 DEF Connecting!Next

\* What is not known to be online counts as offline, whatever the threads that
\* ask meanwhile see of a probe (FailsClosed).
THEOREM GateFailsClosed == Spec => []FailsClosed
<1>. DEFINE I == which = "connectivity" => Connecting!ProbedInv
<1>1. Init => I
  BY DEF Init, Connecting!Init, Connecting!ProbedInv, Connecting!Steps
<1>2. I /\ [Next]_vars => I'
  <2>. SUFFICES ASSUME I, [Next]_vars, which' = "connectivity" PROVE Connecting!ProbedInv'
    OBVIOUS
  <2>1. which = "connectivity"
    BY DEF Next, vars
  <2>2. [Connecting!Next]_(Connecting!vars)
    BY <2>1 DEF Next, vars, Connecting!vars, After15, Connecting!gateVars, Connecting!cacheVars
  <2>. QED BY <2>1, <2>2, ConnectivityKeeps
<1>3. I => FailsClosed
  BY DEF FailsClosed, Connecting!FailsClosed, Connecting!ProbedInv
<1>. QED BY <1>1, <1>2, <1>3, PTL DEF Spec

(***************************************************************************)
(* Provisioning.                                                           *)
(***************************************************************************)

\* The provisioner's steps, the world's and a restart keep the entry that was
\* answered, and what is doubted stays unhealthy.
LEMMA ProvisioningKeeps ==
  ASSUME Provisions!ServedInv, [Provisions!Next]_(Provisions!vars)
  PROVE  Provisions!ServedInv'
<1>. USE Assumptions DEF Assumptions, Provisions!EntriesAssumption, Provisions!ServedInv,
         Provisions!TypeOK, Provisions!View, Provisions!Healths
<1>1. CASE Provisions!EnsuresRole
  BY <1>1 DEF Provisions!EnsuresRole, Provisions!world
<1>2. CASE Provisions!Verifies
  <2>1. r5 \in Entries /\ r6 = "verify"
    BY <1>2 DEF Provisions!Verifies
  <2>2. /\ UNCHANGED <<r1, r2, r4, r7, r8, r10, r11>>
        /\ \/ r6' = "next" /\ r5' = Absent /\ r9' = r9 \union {r5}
              /\ r3' = [r3 EXCEPT ![r5].health = "UNHEALTHY"]
           \/ r6' = "measure" /\ r5' = r5 /\ r9' = r9 \ {r5} /\ r3' = r3
    BY <1>2 DEF Provisions!Verifies, Provisions!world
  <2>3. CASE r6' = "next" /\ r5' = Absent /\ r9' = r9 \union {r5}
              /\ r3' = [r3 EXCEPT ![r5].health = "UNHEALTHY"]
    <3>1. r3' \in Provisions!View
      BY <2>1, <2>3
    <3>2. r3'[r5].health = "UNHEALTHY" /\ \A e \in Entries \ {r5} : r3'[e] = r3[e]
      BY <2>1, <2>3
    <3>. QED BY <2>1, <2>2, <2>3, <3>1, <3>2
  <2>4. CASE r6' = "measure" /\ r5' = r5 /\ r9' = r9 \ {r5} /\ r3' = r3
    BY <2>1, <2>2, <2>4
  <2>. QED BY <2>2, <2>3, <2>4
<1>3. CASE Provisions!Trusts
  <2>1. r5 \in Entries /\ r5 \notin r9
    BY <1>3 DEF Provisions!Trusts
  <2>2. /\ r3' = [r3 EXCEPT ![r5] = [installed |-> TRUE, health |-> "HEALTHY"]] /\ r4' = r3'
        /\ r8' = r5 /\ r5' = Absent /\ r6' = "idle"
        /\ UNCHANGED <<r1, r2, r7, r9, r10, r11>>
    BY <1>3 DEF Provisions!Trusts, Provisions!world
  <2>. QED BY <2>1, <2>2
<1>4. CASE Provisions!AllFailed
  BY <1>4 DEF Provisions!AllFailed, Provisions!world
<1>5. CASE Provisions!WorldChanges
  BY <1>5 DEF Provisions!WorldChanges
<1>6. CASE Provisions!Restarts
  BY <1>6 DEF Provisions!Restarts, Provisions!world
<1>7. ASSUME NEW e \in Entries, Provisions!TriesCandidate(e)
      PROVE  Provisions!ServedInv'
  BY <1>7 DEF Provisions!TriesCandidate, Provisions!Escapes
<1>8. CASE Provisions!BenchmarkRaises
  BY <1>8 DEF Provisions!BenchmarkRaises, Provisions!Escapes, Provisions!world
<1>9. CASE UNCHANGED Provisions!vars
  BY <1>9 DEF Provisions!vars, Provisions!world
<1>. QED BY <1>1, <1>2, <1>3, <1>4, <1>5, <1>6, <1>7, <1>8, <1>9 DEF Provisions!Next

\* A role that was ensured has a model that may serve it, and none that failed its
\* verification is chosen (EnsuredRoleIsServed).
THEOREM EnsuredRolesAreServed == Spec => []EnsuredRoleIsServed
<1>. DEFINE I == which = "provisioning" => Provisions!ServedInv
<1>1. Init => I
  <2>. SUFFICES ASSUME which = "provisioning", Provisions!Init PROVE Provisions!ServedInv
    BY DEF Init
  <2>1. r3 \in Provisions!View
    BY DEF Provisions!Init, Provisions!View, Provisions!Healths
  <2>. QED
    BY <2>1, Assumptions
       DEF Assumptions, Provisions!EntriesAssumption, Provisions!Init, Provisions!ServedInv, Provisions!TypeOK
<1>2. I /\ [Next]_vars => I'
  <2>. SUFFICES ASSUME I, [Next]_vars, which' = "provisioning" PROVE Provisions!ServedInv'
    OBVIOUS
  <2>1. which = "provisioning"
    BY DEF Next, vars
  <2>2. [Provisions!Next]_(Provisions!vars)
    BY <2>1 DEF Next, vars, Provisions!vars, After11, Provisions!world
  <2>. QED BY <2>1, <2>2, ProvisioningKeeps
<1>3. I => EnsuredRoleIsServed
  <2>. SUFFICES ASSUME I, which = "provisioning" PROVE Provisions!EnsuredRoleIsServed
    BY DEF EnsuredRoleIsServed
  <2>1. r8 \in Entries => r8 \in Provisions!BestForRole
    BY DEF Provisions!BestForRole, Provisions!Better, Provisions!ServedInv
  <2>2. Provisions!BestForRole \intersect r9 = {}
    BY DEF Provisions!BestForRole, Provisions!ServedInv
  <2>. QED BY <2>1, <2>2 DEF Provisions!EnsuredRoleIsServed
<1>. QED BY <1>1, <1>2, <1>3, PTL DEF Spec

(***************************************************************************)
(* GoogleAccounts.                                                         *)
(***************************************************************************)

\* A token that the user grants is one, and can be refreshed when it says so.
LEMMA GrantedIsAToken ==
  ASSUME Signing!ConsentInv, NEW s, NEW scopes \in SUBSET Signing!Capabilities,
         NEW refresh \in BOOLEAN
  PROVE  /\ Signing!Granted(s, scopes, refresh) \in Signing!Tokens
         /\ Signing!Refreshable(Signing!Granted(s, scopes, refresh)) = refresh
<1>1. Signing!Consents \in Nat
  BY DEF Signing!Consents, Signing!ConsentInv, Signing!Stores, Signing!Services
<1>2. Signing!Granted(s, scopes, refresh) \in Signing!Tokens
  BY <1>1 DEF Signing!Granted, Signing!Tokens
<1>3. Signing!Granted(s, scopes, refresh).refresh = refresh
  BY DEF Signing!Granted
<1>. QED
  BY <1>2, <1>3, Assumptions DEF Assumptions, Signing!NoTokenAssumption, Signing!Refreshable

\* Whoever signs in, loses a token or restarts, no store has asked more often than
\* its losses account for.
LEMMA GoogleKeeps ==
  ASSUME Signing!ConsentInv, [Signing!Next]_(Signing!vars)
  PROVE  Signing!ConsentInv'
<1>. DEFINE Kept == UNCHANGED <<r1, r5, r8, r9>>
<1>1. ASSUME Kept PROVE Signing!ConsentInv'
  BY <1>1 DEF Signing!ConsentInv, Signing!Stored, Signing!Refreshable
<1>2. ASSUME NEW s \in Signing!Services, NEW caps \in SUBSET Signing!Capabilities,
             NEW refresh \in BOOLEAN, Signing!AsksUser(s, caps, refresh)
      PROVE  Signing!ConsentInv'
  <2>. DEFINE token == Signing!Granted(s, caps, refresh)
  <2>1. /\ ~Signing!Refreshable(r1[s])
        /\ \E kept \in {token, Absent, r1[s]} :
             /\ r1' = [r1 EXCEPT ![s] = kept]
             /\ r9' = [r9 EXCEPT ![s] = IF kept = token /\ refresh THEN @ ELSE @ + 1]
        /\ r5' = r5 /\ r8' = [r8 EXCEPT ![s] = @ + 1]
    BY <1>2 DEF Signing!AsksUser, Signing!MustAsk
  <2>2. token \in Signing!Tokens /\ Signing!Refreshable(token) = refresh
    BY GrantedIsAToken
  <2>. HIDE DEF token
  <2>3. s # "tools" /\ s \in Signing!Stores
    BY DEF Signing!Services, Signing!Stores
  <2>4. PICK kept \in {token, Absent, r1[s]} :
          /\ r1' = [r1 EXCEPT ![s] = kept]
          /\ r9' = [r9 EXCEPT ![s] = IF kept = token /\ refresh THEN @ ELSE @ + 1]
    BY <2>1
  <2>5. /\ kept \in Signing!Tokens \union {Absent}
        /\ kept = token /\ refresh => Signing!Refreshable(kept)
    BY <2>2 DEF Signing!ConsentInv
  <2>. QED BY <2>1, <2>3, <2>4, <2>5 DEF Signing!ConsentInv, Signing!Stored, Signing!Stores
<1>3. ASSUME NEW refresh \in BOOLEAN, Signing!ToolsAskUser(refresh)
      PROVE  Signing!ConsentInv'
  <2>. DEFINE token == Signing!Granted("tools", {"read"}, refresh)
  <2>1. /\ \E kept \in {token, r5} :
             /\ r5' = kept
             /\ r9' = [r9 EXCEPT !["tools"] = @ + (IF kept = token /\ refresh THEN 0 ELSE 1)
                                                + (IF Signing!Refreshable(r5) THEN 1 ELSE 0)]
        /\ r1' = r1 /\ r8' = [r8 EXCEPT !["tools"] = @ + 1]
    BY <1>3 DEF Signing!ToolsAskUser
  <2>2. token \in Signing!Tokens /\ Signing!Refreshable(token) = refresh
    BY GrantedIsAToken DEF Signing!Capabilities
  <2>. HIDE DEF token
  <2>3. PICK kept \in {token, r5} :
          /\ r5' = kept
          /\ r9' = [r9 EXCEPT !["tools"] = @ + (IF kept = token /\ refresh THEN 0 ELSE 1)
                                             + (IF Signing!Refreshable(r5) THEN 1 ELSE 0)]
    BY <2>1
  <2>4. /\ kept \in Signing!Tokens \union {Absent}
        /\ kept = token /\ refresh => Signing!Refreshable(kept)
    BY <2>2 DEF Signing!ConsentInv
  <2>5. /\ r9' \in [Signing!Stores -> Nat] /\ r8' \in [Signing!Stores -> Nat]
        /\ r8'["tools"] = r8["tools"] + 1
        /\ r9'["tools"] = r9["tools"] + (IF kept = token /\ refresh THEN 0 ELSE 1)
                                      + (IF Signing!Refreshable(r5) THEN 1 ELSE 0)
        /\ \A s \in Signing!Stores \ {"tools"} : r8'[s] = r8[s] /\ r9'[s] = r9[s]
    BY <2>1, <2>3 DEF Signing!ConsentInv, Signing!Stores
  <2>6. r8["tools"] <= r9["tools"] + (IF Signing!Refreshable(r5) THEN 1 ELSE 0)
    BY DEF Signing!ConsentInv, Signing!Stored, Signing!Stores
  <2>7. r8["tools"] \in Nat /\ r9["tools"] \in Nat
    BY DEF Signing!ConsentInv, Signing!Stores
  <2>8. r8'["tools"] <= r9'["tools"] + (IF Signing!Refreshable(r5') THEN 1 ELSE 0)
    BY <2>3, <2>4, <2>5, <2>6, <2>7
  <2>. QED BY <2>1, <2>3, <2>4, <2>5, <2>8 DEF Signing!ConsentInv, Signing!Stored
<1>14. ASSUME NEW s \in Signing!Services, NEW caps, Signing!UserDeclines(s, caps)
       PROVE  Signing!ConsentInv'
  BY <1>14 DEF Signing!UserDeclines, Signing!ConsentInv, Signing!Stored, Signing!Stores
<1>15. CASE Signing!ToolsDecline
  BY <1>15 DEF Signing!ToolsDecline, Signing!ConsentInv, Signing!Stored, Signing!Stores
<1>4. ASSUME NEW s \in Signing!Stores, Signing!LosesToken(s)
      PROVE  Signing!ConsentInv'
  <2>1. /\ r9' = [r9 EXCEPT ![s] = @ + 1] /\ r8' = r8
        /\ \/ s = "tools" /\ r5' = Absent /\ r1' = r1
           \/ s # "tools" /\ r1' = [r1 EXCEPT ![s] = Absent] /\ r5' = r5
    BY <1>4 DEF Signing!LosesToken
  <2>. QED
    BY <2>1 DEF Signing!ConsentInv, Signing!Stored, Signing!Stores, Signing!Refreshable
<1>5. ASSUME NEW s \in Signing!Services, NEW caps \in SUBSET Signing!Capabilities,
             Signing!Authenticate(s, caps)
      PROVE  Signing!ConsentInv'
  <2>1. CASE Signing!Reuses(s, caps)
    BY <1>1, <2>1 DEF Signing!Reuses
  <2>2. CASE Signing!TrustsRefreshToken(s, caps)
    BY <1>1, <2>2 DEF Signing!TrustsRefreshToken
  <2>. QED BY <1>2, <1>5, <1>14, <2>1, <2>2 DEF Signing!Authenticate
<1>6. CASE \E caps \in (SUBSET Signing!Capabilities) \ {{}} :
             Signing!CalendarAuthenticate(caps) \/ Signing!GmailAuthenticate(caps)
  BY <1>5, <1>6 DEF Signing!CalendarAuthenticate, Signing!GmailAuthenticate, Signing!Services
<1>7. ASSUME NEW s, NEW cap, Signing!Call(s, cap) PROVE Kept
  BY <1>7 DEF Signing!Call
<1>8. CASE \/ Signing!CalendarReads \/ Signing!GmailReads \/ Signing!GmailWrites
           \/ Signing!CreateEvent \/ Signing!UpdateGets \/ Signing!UpdatePuts
           \/ Signing!DeleteEvent \/ Signing!VerifyEvent
  BY <1>1, <1>7, <1>8
     DEF Signing!CalendarReads, Signing!GmailReads, Signing!GmailWrites, Signing!CreateEvent,
         Signing!UpdateGets, Signing!UpdatePuts, Signing!DeleteEvent, Signing!VerifyEvent
<1>9. CASE Signing!OthersEdit \/ Signing!ToolsReuse
  BY <1>1, <1>9 DEF Signing!OthersEdit, Signing!ToolsReuse, Signing!accounts
<1>10. CASE Signing!ToolsRefresh
  BY <1>1, <1>10 DEF Signing!ToolsRefresh
<1>11. CASE \E n \in 1 .. MaxConsents : Signing!Expires(n) \/ Signing!Revokes(n)
  BY <1>1, <1>11 DEF Signing!Expires, Signing!Revokes
<1>12. CASE Signing!Restarts
  BY <1>1, <1>12 DEF Signing!Restarts
<1>13. CASE UNCHANGED Signing!vars
  BY <1>1, <1>13 DEF Signing!vars, Signing!accounts
<1>. QED
  BY <1>3, <1>4, <1>6, <1>8, <1>9, <1>10, <1>11, <1>12, <1>13, <1>15
     DEF Signing!Next, Signing!GetCredentials

\* A user is asked again only after a question that failed, or for a token that was
\* not saved, was lost, could not be refreshed or was granted without a refresh token
\* (ConsentIsKept).
THEOREM ConsentsAreKept == Spec => []ConsentIsKept
<1>. DEFINE I == which = "google" => Signing!ConsentInv
<1>1. Init => I
  BY DEF Init, Signing!Init, Signing!ConsentInv, Signing!Stored, Signing!Refreshable, Signing!Stores
<1>2. I /\ [Next]_vars => I'
  <2>. SUFFICES ASSUME I, [Next]_vars, which' = "google" PROVE Signing!ConsentInv'
    OBVIOUS
  <2>1. which = "google"
    BY DEF Next, vars
  <2>2. [Signing!Next]_(Signing!vars)
    BY <2>1 DEF Next, vars, Signing!vars, After12, Signing!accounts, Signing!calendar
  <2>. QED BY <2>1, <2>2, GoogleKeeps
<1>3. I => ConsentIsKept
  <2>. SUFFICES ASSUME I, which = "google" PROVE Signing!ConsentIsKept
    BY DEF ConsentIsKept
  <2>. QED BY DEF Signing!ConsentIsKept, Signing!ConsentInv
<1>. QED BY <1>1, <1>2, <1>3, PTL DEF Spec

(***************************************************************************)
(* Plugins.                                                                *)
(***************************************************************************)

\* What load can do: whoever ends active has passed its tests, and only an instance
\* of a version that was approved and tested is activated (PluginLoader.load).
LEMMA LoadsAreTested ==
  ASSUME NEW v \in Versions, NEW o \in Plugging!Loads(v)
  PROVE  /\ o.end \in {"FAILED", "VALIDATING", "SANDBOXED", "CANARY", "ACTIVE"}
         /\ o.tested \in BOOLEAN /\ o.runs \in BOOLEAN
         /\ o.runs \/ o.end = "ACTIVE" => o.tested /\ v \in Trusted
<1>. DEFINE Early == {"FAILED", "VALIDATING", "SANDBOXED"}
<1>1. \/ \E e \in Early : o = [end |-> e, tested |-> FALSE, runs |-> FALSE]
      \/ /\ v \in Trusted
         /\ \/ \E e \in {"FAILED", "CANARY"}, r \in BOOLEAN : o = [end |-> e, tested |-> TRUE, runs |-> r]
            \/ o = [end |-> "ACTIVE", tested |-> TRUE, runs |-> TRUE]
  <2>1. CASE v \in Trusted
    BY <2>1 DEF Plugging!Loads, Plugging!Approved
  <2>2. CASE v \notin Trusted
    BY <2>2 DEF Plugging!Loads, Plugging!Approved
  <2>. QED BY <2>1, <2>2
<1>. DEFINE Goal == /\ o.end \in {"FAILED", "VALIDATING", "SANDBOXED", "CANARY", "ACTIVE"}
                    /\ o.tested \in BOOLEAN /\ o.runs \in BOOLEAN
                    /\ o.runs \/ o.end = "ACTIVE" => o.tested /\ v \in Trusted
<1>2. ASSUME NEW e \in Early, o = [end |-> e, tested |-> FALSE, runs |-> FALSE]
      PROVE  Goal
  BY <1>2
<1>3. ASSUME NEW e \in {"FAILED", "CANARY"}, NEW r \in BOOLEAN, v \in Trusted,
             o = [end |-> e, tested |-> TRUE, runs |-> r]
      PROVE  Goal
  BY <1>3
<1>4. ASSUME v \in Trusted, o = [end |-> "ACTIVE", tested |-> TRUE, runs |-> TRUE]
      PROVE  Goal
  BY <1>4
<1>. HIDE DEF Goal
<1>5. Goal
  BY <1>1, <1>2, <1>3, <1>4
<1>. QED BY <1>5 DEF Goal

\* The gates are kept by every operation on the versions.
LEMMA PluginsKeep ==
  ASSUME Plugging!PassedInv, [Plugging!Next]_(Plugging!vars)
  PROVE  Plugging!PassedInv'
<1>. USE DEF Plugging!PassedInv
<1>1. ASSUME NEW v \in Versions, Plugging!Discover(v) PROVE Plugging!PassedInv'
  BY <1>1 DEF Plugging!Discover, Plugging!PluginState
<1>2. ASSUME NEW v \in Versions, Plugging!Load(v) PROVE Plugging!PassedInv'
  <2>1. PICK o \in Plugging!Loads(v) :
          /\ r1' = [r1 EXCEPT ![v] = o.end]
          /\ r4' = IF o.tested THEN r4 \union {v} ELSE r4
          /\ r3' = IF o.runs THEN r3 \union {v} ELSE r3
          /\ r2' = IF o.end = "ACTIVE" THEN r2 \union {v} ELSE r2
          /\ r8' = IF o.end = "ACTIVE" THEN r8 \ {v} ELSE r8
    BY <1>2 DEF Plugging!Load
  <2>. QED BY <2>1, LoadsAreTested DEF Plugging!PluginState
<1>3. ASSUME NEW v \in Versions, NEW w \in Versions, Plugging!HotSwap(v, w)
      PROVE  Plugging!PassedInv'
  <2>1. v # w
    BY <1>3 DEF Plugging!HotSwap
  <2>2. PICK o \in Plugging!Loads(w) :
          /\ r4' = IF o.tested THEN r4 \union {w} ELSE r4
          /\ r2' = IF o.end = "ACTIVE" THEN r2 \union {w} ELSE r2
          /\ \/ /\ o.end # "ACTIVE"
                /\ r1' = [r1 EXCEPT ![w] = o.end]
                /\ r3' = (IF o.runs THEN r3 \union {w} ELSE r3) /\ r8' = r8
             \/ /\ o.end = "ACTIVE"
                /\ r1' = [[r1 EXCEPT ![w] = "ACTIVE"] EXCEPT ![v] = "DISABLED"]
                /\ r3' \subseteq r3 \union {w}
                /\ r8' = IF r1[v] = "ACTIVE" THEN r8 \ {w} ELSE (r8 \ {w}) \union {v}
             \/ /\ o.end = "ACTIVE"
                /\ r1' = [r1 EXCEPT ![w] = "ACTIVE"]
                /\ r3' \subseteq r3 \union {w} /\ r8' = r8 \ {w}
             \/ /\ o.end = "ACTIVE"
                /\ r1' = [r1 EXCEPT ![w] = "FAILED"]
                /\ r3' \subseteq r3 /\ r8' = r8 \ {w}
    BY <1>3 DEF Plugging!HotSwap
  <2>3. /\ o.end \in {"FAILED", "VALIDATING", "SANDBOXED", "CANARY", "ACTIVE"}
        /\ o.runs \/ o.end = "ACTIVE" => o.tested /\ w \in Trusted
    BY LoadsAreTested
  <2>4. CASE o.end # "ACTIVE"
    BY <2>2, <2>3, <2>4 DEF Plugging!PluginState
  <2>5. CASE o.end = "ACTIVE"
    <3>1. /\ r4' = r4 \union {w} /\ r2' = r2 \union {w} /\ w \in Trusted
          /\ r3' \subseteq r3 \union {w} /\ r8' \subseteq Versions /\ r8 \ {w} \subseteq r8'
      BY <2>2, <2>3, <2>5
    <3>2. CASE /\ r1' = [[r1 EXCEPT ![w] = "ACTIVE"] EXCEPT ![v] = "DISABLED"]
               /\ r8' = IF r1[v] = "ACTIVE" THEN r8 \ {w} ELSE (r8 \ {w}) \union {v}
      <4>1. r1[v] = "ACTIVE" \/ v \in r8'
        BY <3>2
      <4>. QED BY <2>1, <3>1, <3>2, <4>1 DEF Plugging!PluginState
    <3>3. CASE r1' = [r1 EXCEPT ![w] = "ACTIVE"]
      BY <3>1, <3>3 DEF Plugging!PluginState
    <3>4. CASE r1' = [r1 EXCEPT ![w] = "FAILED"]
      BY <3>1, <3>4 DEF Plugging!PluginState
    <3>. QED BY <2>2, <2>5, <3>2, <3>3, <3>4
  <2>. QED BY <2>4, <2>5
<1>4. ASSUME NEW v \in Versions, NEW w \in Versions, Plugging!Rollback(v, w)
      PROVE  Plugging!PassedInv'
  BY <1>4 DEF Plugging!Rollback, Plugging!PluginState
<1>5. CASE Plugging!Remove
  BY <1>5 DEF Plugging!Remove
<1>6. CASE UNCHANGED Plugging!vars
  BY <1>6 DEF Plugging!vars
<1>. QED BY <1>1, <1>2, <1>3, <1>4, <1>5, <1>6 DEF Plugging!Next

\* However versions are loaded, swapped and rolled back, an active version is one
\* that the core approved and that passed its tests, unless hot_swap disabled it
\* while it was not active (ActiveWasTested).
THEOREM ActivesWereTested == Spec => []ActiveWasTested
<1>. DEFINE I == which = "plugins" => Plugging!PassedInv
<1>1. Init => I
  BY DEF Init, Plugging!Init, Plugging!PassedInv
<1>2. I /\ [Next]_vars => I'
  <2>. SUFFICES ASSUME I, [Next]_vars, which' = "plugins" PROVE Plugging!PassedInv'
    OBVIOUS
  <2>1. which = "plugins"
    BY DEF Next, vars
  <2>2. [Plugging!Next]_(Plugging!vars)
    BY <2>1 DEF Next, vars, Plugging!vars
  <2>. QED BY <2>1, <2>2, PluginsKeep
<1>3. I => ActiveWasTested
  BY DEF ActiveWasTested, Plugging!PassedInv, Plugging!ActiveWasTested, Plugging!CanBeHealthy
<1>. QED BY <1>1, <1>2, <1>3, PTL DEF Spec

(***************************************************************************)
(* Browser.                                                                *)
(***************************************************************************)

\* A caller that asks ends with the request it asked for, or with no call; the
\* calls of the others stay.
LEMMA AsksForItself ==
  ASSUME Browsing!OwnInv, NEW c \in Callers, NEW op \in {"search", "navigate", "submit", "fetch", "observe", "history"},
         NEW url \in Pages \union {Absent}, Browsing!Asks(c, op, url)
  PROVE  /\ r5' \in [Callers -> Browsing!Calls]
         /\ \A d \in Callers \ {c} : r5'[d] = r5[d]
         /\ r5'[c].op = "observe" => op = "observe" /\ r5'[c].url = url
  BY DEF Browsing!Asks, Browsing!OwnInv, Browsing!NoCall, Browsing!Calls

\* Whatever the other threads open and navigate, a page that is a thread's own is
\* the current one, and the one it observes.
LEMMA BrowserKeeps ==
  ASSUME Browsing!OwnInv, [Browsing!Next]_(Browsing!vars)
  PROVE  Browsing!OwnInv'
<1>. USE Assumptions DEF Assumptions, Browsing!PagesAssumption
<1>0. Browsing!NoCall \in Browsing!Calls /\ Browsing!NoCall.op = "none"
  BY DEF Browsing!NoCall, Browsing!Calls
<1>1. ASSUME NEW c \in Callers, NEW url \in Pages, Browsing!OpensUrl(c, url)
      PROVE  Browsing!OwnInv'
  <2>. DEFINE upto == IF r3 < Len(r2) THEN r3 ELSE Len(r2)
              kept == SubSeq(r2, 1, upto)
  <2>1. UNCHANGED <<r1, r3, r6, r7>>
    BY <1>1 DEF Browsing!OpensUrl
  <2>2. \/ UNCHANGED <<r2, r5>>
        \/ /\ r2' = Append(kept, url)
           /\ r5' = [r5 EXCEPT ![c] = [op |-> "open", url |-> url, step |-> "opens"]]
    BY <1>1 DEF Browsing!OpensUrl, Browsing!NoCall
  <2>3. kept \in Seq(Pages)
    BY SubSeqProperties DEF Browsing!OwnInv
  <2>. HIDE DEF kept
  <2>4. Append(kept, url) \in Seq(Pages)
    BY <2>3, AppendProperties
  <2>5. r2' \in Seq(Pages)
    BY <2>2, <2>4 DEF Browsing!OwnInv
  <2>. DEFINE opened == [op |-> "open", url |-> url, step |-> "opens"]
  <2>6. opened \in Browsing!Calls /\ opened.op = "open"
    BY DEF Browsing!Calls
  <2>7. r5' = r5 \/ r5' = [r5 EXCEPT ![c] = opened]
    BY <2>2
  <2>. HIDE DEF opened
  <2>. QED BY <2>1, <2>5, <2>6, <2>7 DEF Browsing!OwnInv
<1>2. ASSUME NEW c \in Callers, NEW op \in {"navigate", "submit", "search"}, NEW url \in Pages,
             Browsing!Navigates(c, op, url)
      PROVE  Browsing!OwnInv'
  BY <1>2, AsksForItself DEF Browsing!Navigates, Browsing!controller, Browsing!OwnInv
<1>3. ASSUME NEW c \in Callers, NEW url \in Pages, Browsing!Navigated(c, url)
      PROVE  Browsing!OwnInv'
  <2>1. /\ UNCHANGED <<r2, r3, r6>> /\ r5' = [r5 EXCEPT ![c] = Browsing!NoCall]
        /\ \/ UNCHANGED <<r1, r7>>
           \/ r1' = url /\ r7' = [d \in Callers |-> IF d = c THEN url ELSE Absent]
    BY <1>3 DEF Browsing!Navigated, Browsing!Opened, Browsing!Returns
  <2>. QED BY <1>0, <2>1 DEF Browsing!OwnInv, Browsing!Calls
<1>4. ASSUME NEW c \in Callers, Browsing!IsOpen(c)
      PROVE  Browsing!OwnInv'
  <2>. DEFINE url == r5[c].url
  <2>1. /\ UNCHANGED <<r2, r6>> /\ r3' = r3 + 1
        /\ r5' = [r5 EXCEPT ![c] = Browsing!NoCall]
        /\ r1' = url /\ r7' = [d \in Callers |-> IF d = c THEN url ELSE Absent]
    BY <1>4 DEF Browsing!IsOpen, Browsing!Opened, Browsing!Returns
  <2>2. url \in Pages \union {Absent}
    BY DEF Browsing!OwnInv, Browsing!Calls
  <2>. HIDE DEF url
  <2>. QED BY <1>0, <2>1, <2>2 DEF Browsing!OwnInv, Browsing!Calls
<1>5. ASSUME NEW c \in Callers, NEW given \in Pages \union {Absent}, Browsing!Observes(c, given)
      PROVE  Browsing!OwnInv'
  <2>1. CASE given = Absent
    <3>1. r1 \in Pages \union {Absent} /\ Browsing!Asks(c, "observe", r1)
      BY <1>5, <2>1 DEF Browsing!Observes, Browsing!OwnInv
    <3>2. UNCHANGED <<r1, r2, r3, r6, r7>>
      BY <1>5 DEF Browsing!Observes, Browsing!controller
    <3>. QED BY <3>1, <3>2, AsksForItself DEF Browsing!OwnInv
  <2>2. CASE given # Absent
    <3>1. Browsing!Asks(c, "fetch", given)
      BY <1>5, <2>2 DEF Browsing!Observes
    <3>2. UNCHANGED <<r1, r2, r3, r6, r7>>
      BY <1>5 DEF Browsing!Observes, Browsing!controller
    <3>. QED BY <3>1, <3>2, AsksForItself DEF Browsing!OwnInv
  <2>. QED BY <2>1, <2>2
<1>6. ASSUME NEW c \in Callers, NEW ok \in BOOLEAN, Browsing!Sends(c, ok)
      PROVE  Browsing!OwnInv'
  <2>1. /\ UNCHANGED <<r1, r2, r3, r6, r7>>
        /\ \/ r5' = [r5 EXCEPT ![c].step = "sent"]
           \/ r5' = [r5 EXCEPT ![c] = Browsing!NoCall]
    BY <1>6 DEF Browsing!Sends, Browsing!controller
  <2>2. [r5[c] EXCEPT !.step = "sent"] \in Browsing!Calls
    <3>1. \A k \in Browsing!Calls : [k EXCEPT !.step = "sent"] \in Browsing!Calls
      BY DEF Browsing!Calls
    <3>. QED BY <3>1 DEF Browsing!OwnInv
  <2>3. r5' \in [Callers -> Browsing!Calls]
    BY <1>0, <2>1, <2>2 DEF Browsing!OwnInv
  <2>4. \A d \in Callers : r5'[d].op = "observe" => r5[d].op = "observe" /\ r5'[d].url = r5[d].url
    BY <1>0, <2>1 DEF Browsing!OwnInv, Browsing!Calls
  <2>. QED BY <2>1, <2>3, <2>4 DEF Browsing!OwnInv
<1>7. ASSUME NEW c \in Callers, NEW ok \in BOOLEAN, Browsing!Observed(c, ok)
      PROVE  Browsing!OwnInv'
  <2>1. /\ UNCHANGED <<r1, r2, r3, r7>> /\ r5' = [r5 EXCEPT ![c] = Browsing!NoCall]
        /\ r6' = r6 \/ r6' = [r6 EXCEPT ![c] = r5[c].url]
    BY <1>7 DEF Browsing!Observed, Browsing!controller, Browsing!Returns
  <2>2. r5[c].url \in Pages \union {Absent}
    BY DEF Browsing!OwnInv, Browsing!Calls
  <2>3. r6' \in [Callers -> Pages \union {Absent}]
    BY <2>1, <2>2 DEF Browsing!OwnInv
  <2>. QED BY <1>0, <2>1, <2>3 DEF Browsing!OwnInv
<1>8. ASSUME NEW c \in Callers, NEW to \in 1 .. MaxBrowserCalls, Browsing!Goes(c, to)
      PROVE  Browsing!OwnInv'
  <2>1. r2' = r2 /\ r3' = to /\ r6' = r6 /\ to \in Nat
    BY <1>8 DEF Browsing!Goes
  <2>2. CASE to > Len(r2)
    BY <1>8, <2>1, <2>2 DEF Browsing!Goes, Browsing!OwnInv
  <2>3. CASE ~(to > Len(r2))
    <3>1. r2[to] \in Pages
      BY <2>1, <2>3 DEF Browsing!OwnInv
    <3>2. r1' = r2[to] /\ r7' = [d \in Callers |-> Absent] /\ Browsing!Asks(c, "history", r2[to])
      BY <1>8, <2>3 DEF Browsing!Goes
    <3>3. r5' \in [Callers -> Browsing!Calls]
      BY <3>1, <3>2, AsksForItself
    <3>. QED BY <2>1, <3>1, <3>2, <3>3 DEF Browsing!OwnInv
  <2>. QED BY <2>2, <2>3
<1>9. CASE Browsing!Launches \/ Browsing!Closes \/ UNCHANGED Browsing!vars
  BY <1>9 DEF Browsing!Launches, Browsing!Closes, Browsing!vars, Browsing!controller, Browsing!OwnInv
<1>. QED
  BY <1>1, <1>2, <1>3, <1>4, <1>5, <1>6, <1>7, <1>8, <1>9 DEF Browsing!Next

\* Only an observation changes what a thread has read, and what it reads is its own.
LEMMA BrowserReadsOwn ==
  ASSUME Browsing!OwnInv, [Browsing!Next]_(Browsing!vars)
  PROVE  Browsing!ReadIsOwn
<1>1. ASSUME NEW c \in Callers, NEW ok \in BOOLEAN, Browsing!Observed(c, ok)
      PROVE  Browsing!ReadIsOwn
  BY <1>1 DEF Browsing!Observed, Browsing!OwnInv, Browsing!ReadIsOwn
<1>2. CASE r6' = r6
  BY <1>2 DEF Browsing!ReadIsOwn
<1>3. \/ r6' = r6
      \/ \E c \in Callers, ok \in BOOLEAN : Browsing!Observed(c, ok)
  BY DEF Browsing!Next, Browsing!vars, Browsing!OpensUrl, Browsing!Navigates, Browsing!Navigated,
         Browsing!IsOpen, Browsing!Observes, Browsing!Sends, Browsing!Goes, Browsing!Launches,
         Browsing!Closes
<1>. QED BY <1>1, <1>2, <1>3

\* A thread reads the page it opened, unless something else was opened since
\* (ReadsItsPage).
THEOREM PagesAreOwn == Spec => ReadsItsPage
<1>. DEFINE I == which = "browser" => Browsing!OwnInv
<1>1. Init => I
  <2>. SUFFICES ASSUME which = "browser", Browsing!Init PROVE Browsing!OwnInv
    BY DEF Init
  <2>1. <<>> \in Seq(Pages)
    OBVIOUS
  <2>2. Browsing!NoCall \in Browsing!Calls
    BY DEF Browsing!NoCall, Browsing!Calls
  <2>. QED BY <2>1, <2>2 DEF Browsing!Init, Browsing!OwnInv
<1>2. ASSUME [Next]_vars, which' = "browser"
      PROVE  which = "browser" /\ [Browsing!Next]_(Browsing!vars)
  BY <1>2 DEF Next, vars, Browsing!vars, Browsing!controller, Browsing!session
<1>3. I /\ [Next]_vars => I'
  BY <1>2, BrowserKeeps
<1>4. I /\ [Next]_vars => [which = "browser" => Browsing!ReadIsOwn]_vars
  BY <1>2, BrowserReadsOwn DEF Next, vars
<1>. QED BY <1>1, <1>3, <1>4, PTL DEF Spec, ReadsItsPage

(***************************************************************************)
(* Sandboxes.                                                              *)
(***************************************************************************)

\* A caller that has its answer has no call, and the answer is what was found; the
\* others keep theirs (TerminalResult).
LEMMA AnswersItself ==
  ASSUME Running!FilledInv, NEW c \in Callers, NEW ok \in BOOLEAN, NEW code \in Int,
         NEW where \in {"none", "venv", "host", "container"},
         Running!Answers(c, ok, code, where)
  PROVE  /\ r4' \in [Callers -> Running!CallRecord] /\ r5' \in [Callers -> Running!ReplyRecord]
         /\ \A d \in Callers \ {c} : r4'[d] = r4[d] /\ r5'[d] = r5[d]
         /\ r4'[c].tool = "none" /\ r4'[c].step = "idle"
         /\ r5'[c].tool = r4[c].tool /\ r5'[c].ok = ok /\ r5'[c].repo = r4[c].repo
         /\ r5'[c].where = where /\ r5'[c].whole = r4[c].whole
<1>. DEFINE answer == [tool |-> r4[c].tool, ok |-> ok, code |-> code, repo |-> r4[c].repo,
                       where |-> where, whole |-> r4[c].whole]
<1>1. r4[c] \in Running!CallRecord
  BY DEF Running!FilledInv
<1>2. answer \in Running!ReplyRecord
  BY <1>1 DEF Running!CallRecord, Running!ReplyRecord
<1>3. /\ answer.tool = r4[c].tool /\ answer.ok = ok /\ answer.repo = r4[c].repo
      /\ answer.where = where /\ answer.whole = r4[c].whole
  OBVIOUS
<1>4. r4' = [r4 EXCEPT ![c] = Running!NoCall] /\ r5' = [r5 EXCEPT ![c] = answer]
  BY DEF Running!Answers
<1>5. /\ Running!NoCall \in Running!CallRecord
      /\ Running!NoCall.tool = "none" /\ Running!NoCall.step = "idle"
  BY DEF Running!NoCall, Running!CallRecord, Running!SandboxMode
<1>. HIDE DEF answer
<1>. QED BY <1>2, <1>3, <1>4, <1>5 DEF Running!FilledInv

\* A caller that goes on to a step keeps the rest of its call.
LEMMA StepsItself ==
  ASSUME Running!FilledInv, NEW c \in Callers, NEW step \in {"runs", "clones", "contained"},
         Running!Step(c, step)
  PROVE  /\ r4' \in [Callers -> Running!CallRecord]
         /\ \A d \in Callers \ {c} : r4'[d] = r4[d]
         /\ r4'[c].tool = r4[c].tool /\ r4'[c].repo = r4[c].repo /\ r4'[c].step = step
         /\ r4'[c].whole = r4[c].whole /\ r4'[c].path = r4[c].path
<1>1. \A k \in Running!CallRecord :
        /\ [k EXCEPT !.step = step] \in Running!CallRecord
        /\ [k EXCEPT !.step = step].step = step
        /\ [k EXCEPT !.step = step].tool = k.tool /\ [k EXCEPT !.step = step].repo = k.repo
        /\ [k EXCEPT !.step = step].whole = k.whole /\ [k EXCEPT !.step = step].path = k.path
  BY DEF Running!CallRecord
<1>2. r4' = [r4 EXCEPT ![c] = [r4[c] EXCEPT !.step = step]]
  BY DEF Running!Step
<1>. QED BY <1>1, <1>2 DEF Running!FilledInv

\* An answer that reports what is so leaves everything sound: no clone that is done
\* becomes undone.
LEMMA AnswerIsTrue ==
  ASSUME Running!FilledInv, NEW c \in Callers, NEW ok \in BOOLEAN, NEW code \in Int,
         NEW where \in {"none", "venv", "host", "container"},
         Running!Answers(c, ok, code, where), r1' = r1, r2' = r2, r9' = r9,
         r3' \in SUBSET Repos, \A r \in r3' : r \in r3 \/ (r4[c].step = "clones" /\ r = r4[c].repo),
         ok => r4[c].tool # "clone",
         ok /\ r4[c].tool = "install" /\ r4[c].whole => where = "venv"
  PROVE  Running!FilledInv'
<1>1. /\ r4' \in [Callers -> Running!CallRecord] /\ r5' \in [Callers -> Running!ReplyRecord]
      /\ \A d \in Callers \ {c} : r4'[d] = r4[d] /\ r5'[d] = r5[d]
      /\ r4'[c].tool = "none" /\ r4'[c].step = "idle"
      /\ r5'[c].tool = r4[c].tool /\ r5'[c].ok = ok /\ r5'[c].repo = r4[c].repo
      /\ r5'[c].where = where /\ r5'[c].whole = r4[c].whole
  BY AnswersItself
<1>2. ASSUME NEW d \in Callers PROVE Running!CallIsSound(d)'
  BY <1>1 DEF Running!CallIsSound, Running!FilledInv
<1>3. ASSUME NEW d \in Callers PROVE Running!ReplyIsTrue(d)'
  BY <1>1 DEF Running!ReplyIsTrue, Running!CallIsSound, Running!FilledInv
<1>4. \A r \in r3' : r2'[r] = "half"
  BY DEF Running!CallIsSound, Running!FilledInv
<1>. QED BY <1>1, <1>2, <1>3, <1>4 DEF Running!FilledInv

\* So does an answer that reports a failure.
LEMMA RefusalIsTrue ==
  ASSUME Running!FilledInv, NEW c \in Callers, NEW code \in Int,
         Running!Answers(c, FALSE, code, "none"), r1' = r1, r2' = r2, r9' = r9,
         r3' \in SUBSET Repos, \A r \in r3' : r \in r3 \/ (r4[c].step = "clones" /\ r = r4[c].repo)
  PROVE  Running!FilledInv'
<1>1. PICK ok \in BOOLEAN : ~ok /\ Running!Answers(c, ok, code, "none")
  <2>1. FALSE \in BOOLEAN /\ ~FALSE /\ Running!Answers(c, FALSE, code, "none")
    OBVIOUS
  <2>. QED BY ONLY <2>1, Zenon
<1>. QED BY <1>1, AnswerIsTrue

\* Time-outs, kills, leftover processes and the other threads keep what was
\* reported so.
LEMMA SandboxesKeep ==
  ASSUME Running!FilledInv, [Running!Next]_(Running!vars)
  PROVE  Running!FilledInv'
<1>. USE Assumptions DEF Assumptions, Running!NoRepoAssumption
<1>1. ASSUME NEW c \in Callers, NEW tool \in Running!Tools, NEW mode \in Running!SandboxMode,
             NEW repo \in Repos \union {Absent}, Running!Opens(c, tool, mode, repo)
      PROVE  Running!FilledInv'
  <2>. DEFINE makes == tool \notin Running!Docker /\ mode \in Running!VenvModes /\ r1 = "none"
              new == [tool |-> tool, mode |-> mode, repo |-> repo, number |-> r9',
                      step |-> IF makes THEN "creates" ELSE "ready",
                      path |-> mode \in Running!VenvModes, whole |-> r1 = "whole"]
  <2>1. /\ r4' = [r4 EXCEPT ![c] = new] /\ r1' = IF makes THEN "half" ELSE r1
        /\ r9' = r9 + 1 /\ mode \in Running!ModesOf(tool) /\ (repo # Absent <=> tool = "clone")
        /\ UNCHANGED <<r2, r3, r5>>
    BY <1>1 DEF Running!Opens
  <2>2. r9' \in Nat
    BY <2>1 DEF Running!FilledInv
  <2>3. new \in Running!CallRecord
    BY <2>2 DEF Running!CallRecord
  <2>4. /\ new.tool = tool /\ new.repo = repo /\ new.step \in {"creates", "ready"}
        /\ new.path = (mode \in Running!VenvModes) /\ new.whole = (r1 = "whole")
    OBVIOUS
  <2>5. tool = "install" => mode \in Running!VenvModes
    BY <2>1 DEF Running!ModesOf, Running!VenvModes, Running!Docker
  <2>6. r1' \in {"none", "half", "whole"} /\ (r1 = "whole" => r1' = "whole")
    BY <2>1 DEF Running!FilledInv
  <2>. HIDE DEF new
  <2>7. ASSUME NEW d \in Callers PROVE Running!CallIsSound(d)'
    BY <2>1, <2>3, <2>4, <2>5, <2>6 DEF Running!CallIsSound, Running!FilledInv
  <2>8. ASSUME NEW d \in Callers PROVE Running!ReplyIsTrue(d)'
    BY <2>1 DEF Running!ReplyIsTrue, Running!FilledInv
  <2>. QED BY <2>1, <2>2, <2>3, <2>6, <2>7, <2>8 DEF Running!FilledInv
<1>2. ASSUME NEW c \in Callers, NEW ok \in BOOLEAN, Running!CreatesVenv(c, ok)
      PROVE  Running!FilledInv'
  <2>. DEFINE new == [r4[c] EXCEPT !.step = "ready", !.path = ok, !.whole = ok]
  <2>1. /\ r4' = [r4 EXCEPT ![c] = new] /\ r1' = IF ok THEN "whole" ELSE r1
        /\ UNCHANGED <<r2, r3, r5, r9>>
    BY <1>2 DEF Running!CreatesVenv
  <2>2. \A k \in Running!CallRecord :
          LET n == [k EXCEPT !.step = "ready", !.path = ok, !.whole = ok]
          IN  /\ n \in Running!CallRecord
              /\ n.tool = k.tool /\ n.repo = k.repo /\ n.step = "ready" /\ n.path = ok /\ n.whole = ok
    BY DEF Running!CallRecord
  <2>3. /\ new \in Running!CallRecord /\ new.tool = r4[c].tool /\ new.repo = r4[c].repo
        /\ new.step = "ready" /\ new.path = ok /\ new.whole = ok
    BY <2>2 DEF Running!FilledInv
  <2>. HIDE DEF new
  <2>4. ASSUME NEW d \in Callers PROVE Running!CallIsSound(d)'
    BY <2>1, <2>3 DEF Running!CallIsSound, Running!FilledInv
  <2>5. ASSUME NEW d \in Callers PROVE Running!ReplyIsTrue(d)'
    BY <2>1 DEF Running!ReplyIsTrue, Running!FilledInv
  <2>. QED BY <2>1, <2>3, <2>4, <2>5 DEF Running!FilledInv
<1>3. ASSUME NEW c \in Callers, UNCHANGED <<r1, r2, r3, r5, r9>>,
             \/ Running!Step(c, "runs")
             \/ Running!Step(c, "contained") /\ r4[c].tool = "container"
      PROVE  Running!FilledInv'
  <2>1. /\ r4' \in [Callers -> Running!CallRecord]
        /\ \A d \in Callers \ {c} : r4'[d] = r4[d]
        /\ r4'[c].tool = r4[c].tool /\ r4'[c].repo = r4[c].repo
        /\ r4'[c].step = "runs" \/ (r4'[c].step = "contained" /\ r4[c].tool = "container")
        /\ r4'[c].whole = r4[c].whole /\ r4'[c].path = r4[c].path
    BY <1>3, StepsItself
  <2>2. ASSUME NEW d \in Callers PROVE Running!CallIsSound(d)'
    BY <1>3, <2>1 DEF Running!CallIsSound, Running!FilledInv
  <2>3. ASSUME NEW d \in Callers PROVE Running!ReplyIsTrue(d)'
    BY <1>3 DEF Running!ReplyIsTrue, Running!FilledInv
  <2>. QED BY <1>3, <2>1, <2>2, <2>3 DEF Running!FilledInv
<1>4. ASSUME NEW c \in Callers, Running!Starts(c) PROVE Running!FilledInv'
  <2>1. r1' = r1 /\ r2' = r2 /\ r3' = r3 /\ r9' = r9
    BY <1>4 DEF Running!Starts, Running!disk
  <2>2. Running!Answers(c, FALSE, 1, "none") \/ (Running!Step(c, "runs") /\ r5' = r5)
    BY <1>4 DEF Running!Starts
  <2>3. r3' \in SUBSET Repos /\ \A r \in r3' : r \in r3
    BY <2>1 DEF Running!FilledInv
  <2>4. CASE Running!Answers(c, FALSE, 1, "none")
    <3>1. 1 \in Int
      OBVIOUS
    <3>2. \A r \in r3' : r \in r3 \/ (r4[c].step = "clones" /\ r = r4[c].repo)
      BY <2>3
    <3>. QED BY <2>1, <2>3, <2>4, <3>1, <3>2, RefusalIsTrue, Zenon
  <2>5. CASE Running!Step(c, "runs") /\ r5' = r5
    BY <2>1, <2>5, <1>3
  <2>. QED BY <2>2, <2>4, <2>5
<1>5. ASSUME NEW c \in Callers, Running!GitCreates(c) PROVE Running!FilledInv'
  <2>1. r4[c].tool = "clone" /\ r4[c].repo \in Repos /\ UNCHANGED <<r1, r3, r9>>
    BY <1>5 DEF Running!GitCreates, Running!FilledInv, Running!CallIsSound
  <2>2. CASE r2[r4[c].repo] = "none"
    <3>1. /\ r2' = [r2 EXCEPT ![r4[c].repo] = "half"] /\ r5' = r5 /\ Running!Step(c, "clones")
      BY <1>5, <2>2 DEF Running!GitCreates
    <3>2. /\ r4' \in [Callers -> Running!CallRecord]
          /\ \A d \in Callers \ {c} : r4'[d] = r4[d]
          /\ r4'[c].tool = r4[c].tool /\ r4'[c].repo = r4[c].repo /\ r4'[c].step = "clones"
          /\ r4'[c].whole = r4[c].whole /\ r4'[c].path = r4[c].path
      BY <3>1, StepsItself
    <3>3. /\ r2' \in [Repos -> {"none", "half", "whole"}]
          /\ r2'[r4[c].repo] = "half" /\ \A r \in Repos \ {r4[c].repo} : r2'[r] = r2[r]
      BY <2>1, <3>1 DEF Running!FilledInv
    <3>4. ASSUME NEW d \in Callers PROVE Running!CallIsSound(d)'
      BY <2>1, <2>2, <3>2, <3>3 DEF Running!CallIsSound, Running!FilledInv
    <3>5. ASSUME NEW d \in Callers PROVE Running!ReplyIsTrue(d)'
      BY <2>2, <3>1, <3>3 DEF Running!ReplyIsTrue, Running!FilledInv
    <3>6. \A r \in r3' : r2'[r] = "half"
      BY <2>1, <2>2, <3>3 DEF Running!FilledInv
    <3>. QED BY <2>1, <3>1, <3>2, <3>3, <3>4, <3>5, <3>6 DEF Running!FilledInv
  <2>3. CASE r2[r4[c].repo] # "none"
    <3>1. Running!Answers(c, FALSE, 128, "none") /\ r2' = r2
      BY <1>5, <2>3 DEF Running!GitCreates
    <3>2. /\ r3' \in SUBSET Repos /\ 128 \in Int
          /\ \A r \in r3' : r \in r3 \/ (r4[c].step = "clones" /\ r = r4[c].repo)
      BY <2>1 DEF Running!FilledInv
    <3>3. r1' = r1 /\ r9' = r9
      BY <2>1
    <3>. QED BY <3>1, <3>2, <3>3, RefusalIsTrue, Zenon
  <2>. QED BY <2>2, <2>3
<1>6. ASSUME NEW c \in Callers, NEW ok \in BOOLEAN, Running!GitEnds(c, ok)
      PROVE  Running!FilledInv'
  <2>. DEFINE repo == r4[c].repo
              end == IF ok THEN "whole" ELSE "none"
  <2>1. /\ r4[c].step = "clones" /\ r4[c].tool = "clone" /\ repo \in Repos
        /\ r2[repo] = "half" /\ repo \notin r3
        /\ \A d \in Callers \ {c} : r4[d].step = "clones" => r4[d].repo # repo
    BY <1>6 DEF Running!GitEnds, Running!FilledInv, Running!CallIsSound
  <2>2. /\ r2' = [r2 EXCEPT ![repo] = end] /\ UNCHANGED <<r1, r3, r9>>
        /\ Running!Answers(c, ok, IF ok THEN 0 ELSE 128, "none")
    BY <1>6 DEF Running!GitEnds
  <2>3. /\ r4' \in [Callers -> Running!CallRecord] /\ r5' \in [Callers -> Running!ReplyRecord]
        /\ \A d \in Callers \ {c} : r4'[d] = r4[d] /\ r5'[d] = r5[d]
        /\ r4'[c].tool = "none" /\ r4'[c].step = "idle"
        /\ r5'[c].tool = r4[c].tool /\ r5'[c].ok = ok /\ r5'[c].repo = r4[c].repo
    BY <2>2, AnswersItself
  <2>4. /\ r2' \in [Repos -> {"none", "half", "whole"}]
        /\ r2'[repo] = end /\ \A r \in Repos \ {repo} : r2'[r] = r2[r]
    BY <2>1, <2>2 DEF Running!FilledInv
  <2>. HIDE DEF repo
  <2>5. ASSUME NEW d \in Callers PROVE Running!CallIsSound(d)'
    BY <2>1, <2>2, <2>3, <2>4 DEF Running!CallIsSound, Running!FilledInv
  <2>6. ASSUME NEW d \in Callers PROVE Running!ReplyIsTrue(d)'
    <3>1. CASE d = c
      BY <2>1, <2>3, <2>4, <3>1 DEF Running!ReplyIsTrue, repo
    <3>2. CASE d # c
      BY <2>1, <2>3, <2>4, <3>2 DEF Running!ReplyIsTrue, Running!FilledInv
    <3>. QED BY <3>1, <3>2
  <2>7. \A r \in r3' : r2'[r] = "half"
    BY <2>1, <2>2, <2>4 DEF Running!FilledInv
  <2>. QED BY <2>2, <2>3, <2>4, <2>5, <2>6, <2>7 DEF Running!FilledInv
<1>7. ASSUME NEW c \in Callers, NEW ok \in BOOLEAN, Running!CommandEnds(c, ok)
      PROVE  Running!FilledInv'
  <2>1. /\ r4[c].tool # "clone" /\ UNCHANGED <<r1, r2, r3, r9>>
    BY <1>7 DEF Running!CommandEnds, Running!disk
  <2>2. PICK where \in Running!Finds(c) : Running!Answers(c, ok, IF ok THEN 0 ELSE 1, where)
    BY <1>7 DEF Running!CommandEnds
  <2>3. where \in {"venv", "host"}
    BY <2>2 DEF Running!Finds
  <2>4. r4[c].tool = "install" /\ r4[c].whole => where = "venv"
    BY <2>2 DEF Running!Finds, Running!FilledInv, Running!CallIsSound
  <2>5. r3' \in SUBSET Repos /\ \A r \in r3' : r \in r3
    BY <2>1 DEF Running!FilledInv
  <2>6. (IF ok THEN 0 ELSE 1) \in Int
    OBVIOUS
  <2>. QED BY <2>1, <2>2, <2>3, <2>4, <2>5, <2>6, AnswerIsTrue
<1>8. ASSUME NEW c \in Callers, Running!TimesOut(c) PROVE Running!FilledInv'
  <2>1. /\ Running!Answers(c, FALSE, 124, "none") /\ r1' = r1 /\ r2' = r2 /\ r9' = r9
        /\ r3' = r3 \/ (r4[c].step = "clones" /\ r3' = r3 \union {r4[c].repo})
    BY <1>8 DEF Running!TimesOut
  <2>2. r4[c].step = "clones" => r4[c].repo \in Repos
    BY DEF Running!FilledInv, Running!CallIsSound
  <2>3. /\ r3' \in SUBSET Repos /\ 124 \in Int
        /\ \A r \in r3' : r \in r3 \/ (r4[c].step = "clones" /\ r = r4[c].repo)
    BY <2>1, <2>2 DEF Running!FilledInv
  <2>. QED BY <2>1, <2>3, RefusalIsTrue, Zenon
<1>9. ASSUME NEW r \in Repos, NEW ok \in BOOLEAN, Running!LeftoverEnds(r, ok)
      PROVE  Running!FilledInv'
  <2>. DEFINE end == IF ok THEN "whole" ELSE "none"
  <2>1. /\ r \in r3 /\ r3' = r3 \ {r} /\ r2' = [r2 EXCEPT ![r] = end]
        /\ UNCHANGED <<r1, r4, r5, r9>>
    BY <1>9 DEF Running!LeftoverEnds
  <2>2. /\ r2' \in [Repos -> {"none", "half", "whole"}] /\ r2[r] = "half"
        /\ \A q \in Repos \ {r} : r2'[q] = r2[q]
    BY <2>1 DEF Running!FilledInv
  <2>3. ASSUME NEW d \in Callers PROVE Running!CallIsSound(d)'
    BY <2>1, <2>2 DEF Running!CallIsSound, Running!FilledInv
  <2>4. ASSUME NEW d \in Callers PROVE Running!ReplyIsTrue(d)'
    BY <2>1, <2>2 DEF Running!ReplyIsTrue, Running!FilledInv
  <2>. QED BY <2>1, <2>2, <2>3, <2>4 DEF Running!FilledInv
<1>10. ASSUME NEW c \in Callers, Running!StartsContainer(c) PROVE Running!FilledInv'
  BY <1>3, <1>10 DEF Running!StartsContainer, Running!disk
<1>11. ASSUME NEW c \in Callers, NEW ok \in BOOLEAN, Running!ContainerAnswers(c, ok)
       PROVE  Running!FilledInv'
  <2>1. r4[c].tool = "container" /\ UNCHANGED <<r1, r2, r3, r9>>
    BY <1>11 DEF Running!ContainerAnswers, Running!FilledInv, Running!CallIsSound, Running!disk
  <2>2. r3' \in SUBSET Repos /\ \A r \in r3' : r \in r3
    BY <2>1 DEF Running!FilledInv
  <2>3. CASE Running!Answers(c, ok, IF ok THEN 0 ELSE 1, "container")
    <3>1. (IF ok THEN 0 ELSE 1) \in Int
      OBVIOUS
    <3>. QED BY <2>1, <2>2, <2>3, <3>1, AnswerIsTrue
  <2>4. CASE Running!Answers(c, FALSE, -1, "none")
    <3>1. -1 \in Int /\ \A r \in r3' : r \in r3 \/ (r4[c].step = "clones" /\ r = r4[c].repo)
      BY <2>2
    <3>2. r1' = r1 /\ r2' = r2 /\ r9' = r9
      BY <2>1
    <3>. QED BY <2>2, <2>4, <3>1, <3>2, RefusalIsTrue, Zenon
  <2>. QED BY <1>11, <2>3, <2>4 DEF Running!ContainerAnswers
<1>12. ASSUME NEW c \in Callers, NEW ok \in BOOLEAN, Running!Composes(c, ok)
       PROVE  Running!FilledInv'
  <2>1. /\ r4[c].tool \in {"up", "down"} /\ UNCHANGED <<r1, r2, r3, r9>>
        /\ Running!Answers(c, ok, IF ok THEN 0 ELSE 1, "none")
    BY <1>12 DEF Running!Composes, Running!disk
  <2>2. r3' \in SUBSET Repos /\ \A r \in r3' : r \in r3
    BY <2>1 DEF Running!FilledInv
  <2>3. (IF ok THEN 0 ELSE 1) \in Int
    OBVIOUS
  <2>. QED BY <2>1, <2>2, <2>3, AnswerIsTrue
<1>13. CASE Running!Dies
  <2>1. /\ r4' = [c \in Callers |-> Running!NoCall] /\ r5' = [c \in Callers |-> Running!NoReply]
        /\ UNCHANGED <<r1, r2, r3, r9>>
    BY <1>13 DEF Running!Dies, Running!disk
  <2>2. /\ Running!NoCall \in Running!CallRecord /\ Running!NoReply \in Running!ReplyRecord
        /\ Running!NoCall.tool = "none" /\ Running!NoCall.step = "idle"
        /\ Running!NoReply.tool = "none"
    BY DEF Running!NoCall, Running!NoReply, Running!CallRecord, Running!ReplyRecord,
           Running!SandboxMode
  <2>. QED BY <2>1, <2>2 DEF Running!FilledInv, Running!CallIsSound, Running!ReplyIsTrue
<1>14. CASE (\E n \in r6 : Running!ContainerEnds(n)) \/ UNCHANGED Running!vars
  <2>1. UNCHANGED <<r1, r2, r3, r4, r5, r9>>
    BY <1>14 DEF Running!ContainerEnds, Running!vars, Running!disk
  <2>. QED BY <2>1 DEF Running!FilledInv, Running!CallIsSound, Running!ReplyIsTrue
<1>. QED
  BY <1>1, <1>2, <1>4, <1>5, <1>6, <1>7, <1>8, <1>9, <1>10, <1>11, <1>12, <1>13, <1>14
     DEF Running!Next

\* A clone that was reported done is there, and dependencies that were installed are
\* in the sandbox's environment (ReportsAreTrue).
THEOREM ReportsHold == Spec => []ReportsAreTrue
<1>. DEFINE I == which = "sandboxes" => Running!FilledInv
<1>1. Init => I
  <2>. SUFFICES ASSUME which = "sandboxes", Running!Init PROVE Running!FilledInv
    BY DEF Init
  <2>1. /\ Running!NoCall \in Running!CallRecord /\ Running!NoReply \in Running!ReplyRecord
        /\ Running!NoCall.tool = "none" /\ Running!NoCall.step = "idle"
        /\ Running!NoReply.tool = "none"
    BY DEF Running!NoCall, Running!NoReply, Running!CallRecord, Running!ReplyRecord,
           Running!SandboxMode
  <2>. QED BY <2>1 DEF Running!Init, Running!FilledInv, Running!CallIsSound, Running!ReplyIsTrue
<1>2. I /\ [Next]_vars => I'
  <2>. SUFFICES ASSUME I, [Next]_vars, which' = "sandboxes" PROVE Running!FilledInv'
    OBVIOUS
  <2>1. which = "sandboxes"
    BY DEF Next, vars
  <2>2. [Running!Next]_(Running!vars)
    BY <2>1 DEF Next, vars, Running!vars, After9, Running!disk
  <2>. QED BY <2>1, <2>2, SandboxesKeep
<1>3. I => ReportsAreTrue
  <2>. SUFFICES ASSUME I, which = "sandboxes" PROVE Running!ReportsAreTrue
    BY DEF ReportsAreTrue
  <2>. QED BY DEF Running!ReportsAreTrue, Running!FilledInv, Running!ReplyIsTrue
<1>. QED BY <1>1, <1>2, <1>3, PTL DEF Spec

(***************************************************************************)
(* Models.                                                                 *)
(***************************************************************************)

\* What is in a sequence is its head or in its tail.
LEMMA HeadOrTail ==
  ASSUME NEW S, NEW s \in Seq(S), s # <<>>
  PROVE  /\ Head(s) \in S /\ Tail(s) \in Seq(S)
         /\ \A x \in Modelling!ToSet(s) : x = Head(s) \/ x \in Modelling!ToSet(Tail(s))
         /\ ~(Len(s) > 1) => Modelling!ToSet(s) = {Head(s)}
         /\ Len(s) > 1 => Tail(s) # <<>>
<1>1. /\ Head(s) = s[1] /\ Head(s) \in S /\ Tail(s) \in Seq(S) /\ Len(Tail(s)) = Len(s) - 1
      /\ \A i \in 1 .. Len(s) - 1 : Tail(s)[i] = s[i + 1]
      /\ DOMAIN s = 1 .. Len(s) /\ DOMAIN Tail(s) = 1 .. Len(Tail(s)) /\ Len(s) \in Nat \ {0}
  BY HeadTailProperties
<1>2. ASSUME NEW i \in 1 .. Len(s)
      PROVE  s[i] = Head(s) \/ s[i] \in Modelling!ToSet(Tail(s))
  <2>1. CASE i = 1
    BY <1>1, <2>1
  <2>2. CASE i # 1
    <3>1. i - 1 \in 1 .. Len(s) - 1 /\ (i - 1) + 1 = i
      BY <1>1, <2>2
    <3>2. Tail(s)[i - 1] = s[i]
      BY <1>1, <3>1
    <3>. QED BY <1>1, <3>1, <3>2 DEF Modelling!ToSet
  <2>. QED BY <2>1, <2>2
<1>3. \A x \in Modelling!ToSet(s) : x = Head(s) \/ x \in Modelling!ToSet(Tail(s))
  BY <1>1, <1>2 DEF Modelling!ToSet
<1>4. ~(Len(s) > 1) => Modelling!ToSet(s) = {Head(s)}
  <2>. SUFFICES ASSUME ~(Len(s) > 1) PROVE Modelling!ToSet(s) = {Head(s)}
    OBVIOUS
  <2>1. DOMAIN s = {1}
    BY <1>1
  <2>. QED BY <1>1, <2>1 DEF Modelling!ToSet
<1>5. Len(s) > 1 => Tail(s) # <<>>
  <2>1. Len(<<>>) = 0
    OBVIOUS
  <2>2. Tail(s) = <<>> => Len(Tail(s)) = 0
    BY <2>1, Zenon
  <2>3. Len(s) > 1 => Len(Tail(s)) # 0
    BY <1>1
  <2>. QED BY <2>2, <2>3
<1>. QED BY <1>1, <1>3, <1>4, <1>5

\* Every role is tried, and after it the chain, to its last resort.
LEMMA ChainsEndAtTheLastResort ==
  ASSUME NEW p \in Modelling!Roles
  PROVE  /\ Modelling!RolesToTry(p) \in Seq(Modelling!Roles)
         /\ Modelling!LastResort(p) \in Modelling!ToSet(Modelling!RolesToTry(p))
<1>. USE DEF Modelling!RolesToTry, Modelling!FallbackOf, Modelling!Chained, Modelling!LastResort
<1>1. CASE p = "fast"
  <2>1. Modelling!RolesToTry(p) = <<"fast", "reasoning">>
    BY <1>1
  <2>. QED BY <1>1, <2>1 DEF Modelling!ToSet, Modelling!Roles
<1>2. CASE p = "reasoning"
  <2>1. Modelling!RolesToTry(p) = <<"reasoning", "fast">>
    BY <1>2
  <2>. QED BY <1>2, <2>1 DEF Modelling!ToSet, Modelling!Roles
<1>3. CASE p \in {"code", "reviewer", "vision"}
  <2>. DEFINE s == <<p, "reasoning", "fast">>
  <2>1. Modelling!RolesToTry(p) = s /\ Modelling!LastResort(p) = "fast"
    BY <1>3
  <2>2. s \in Seq(Modelling!Roles) /\ 3 \in DOMAIN s /\ s[3] = "fast"
    BY <1>3 DEF Modelling!Roles
  <2>3. "fast" \in Modelling!ToSet(s)
    BY <2>2 DEF Modelling!ToSet
  <2>. QED BY <2>1, <2>2, <2>3
<1>4. CASE p \in {"embedding", "stt", "tts"}
  <2>1. Modelling!RolesToTry(p) = <<p>> /\ Modelling!LastResort(p) = p
    BY <1>4
  <2>. QED BY <1>4, <2>1 DEF Modelling!ToSet, Modelling!Roles
<1>. QED BY <1>1, <1>2, <1>3, <1>4 DEF Modelling!Roles

\* Until a request is refused its last resort is to be tried, and a model that is
\* passed over is overloaded.
LEMMA RequestKeeps ==
  ASSUME Modelling!RequestInv, [Modelling!Next]_(Modelling!vars)
  PROVE  Modelling!RequestInv'
<1>. USE DEF Modelling!routing
<1>1. /\ r1 \subseteq Configured /\ r3 \subseteq Modelling!ToSet(Modelling!GeminiModels)
      /\ r6 \in Modelling!Requests /\ r6.steady \subseteq r1
      /\ r6.phase = "generating" => /\ r6.models # <<>>
                                    /\ r6.up \subseteq r3 \intersect Modelling!ToSet(r6.models)
  BY DEF Modelling!RequestInv
<1>2. /\ r6.tries \in Seq(Modelling!Roles) /\ r6.vision \in BOOLEAN /\ r6.local \in BOOLEAN
      /\ r6.role \in Modelling!Roles
      /\ r6.models \in Seq(Modelling!ToSet(Modelling!GeminiModels))
  BY <1>1 DEF Modelling!Requests
<1>3. ASSUME NEW required \in Modelling!Roles \union {"none"}, NEW vision \in BOOLEAN,
             NEW local \in BOOLEAN, NEW pressed \in BOOLEAN, NEW simple \in BOOLEAN,
             Modelling!Asks(required, vision, local, pressed, simple)
      PROVE  Modelling!RequestInv'
  <2>. DEFINE role == Modelling!Preferred(required, vision, pressed, simple)
              tries == Modelling!RolesToTry(role)
              q == [phase |-> "routing", role |-> role, tries |-> tries, vision |-> vision,
                    local |-> local, steady |-> r1, models |-> <<>>, up |-> {}]
  <2>1. r1' = r1 /\ r3' = r3 /\ r6' = q
    BY <1>3 DEF Modelling!Asks
  <2>2. role \in Modelling!Roles
    BY DEF Modelling!Preferred, Modelling!Roles, Modelling!Chained
  <2>. HIDE DEF role
  <2>3. tries \in Seq(Modelling!Roles) /\ Modelling!LastResort(role) \in Modelling!ToSet(tries)
    BY <2>2, ChainsEndAtTheLastResort
  <2>. HIDE DEF tries
  <2>4. <<>> \in Seq(Modelling!ToSet(Modelling!GeminiModels))
    OBVIOUS
  <2>5. q \in Modelling!Requests
    BY <1>1, <2>2, <2>3, <2>4 DEF Modelling!Requests
  <2>6. q.phase = "routing" /\ q.role = role /\ q.steady = r1 /\ q.tries = tries
    OBVIOUS
  <2>. HIDE DEF q
  <2>. QED BY <1>1, <2>1, <2>3, <2>5, <2>6 DEF Modelling!RequestInv, Modelling!AnsweredIfAny
<1>4. ASSUME NEW p, Modelling!SetsPreference(p)
      PROVE  Modelling!RequestInv'
  <2>1. r1' = r1 /\ r3' = r3 /\ r6' = r6
    BY <1>4 DEF Modelling!SetsPreference
  <2>. QED BY <2>1 DEF Modelling!RequestInv, Modelling!AnsweredIfAny, Modelling!Words
<1>5. CASE Modelling!TriesRole /\ r6.tries = <<>>
  <2>1. /\ r6.phase = "routing" /\ r1' = r1 /\ r3' = r3
        /\ r6' = [r6 EXCEPT !.phase = "unrouted"]
    BY <1>5 DEF Modelling!TriesRole
  <2>2. /\ r6' \in Modelling!Requests /\ r6'.phase = "unrouted" /\ r6'.steady = r6.steady
        /\ r6'.vision = r6.vision /\ r6'.local = r6.local /\ r6'.role = r6.role
    BY <1>1, <2>1 DEF Modelling!Requests
  <2>. DEFINE last == Modelling!LastResort(r6.role)
  <2>3. last \notin Modelling!ToSet(r6.tries)
    BY <1>5 DEF Modelling!ToSet
  <2>4. Modelling!Words => last \notin r6.steady
    BY <2>1, <2>3 DEF Modelling!RequestInv
  <2>. QED
    BY <1>1, <2>1, <2>2, <2>4 DEF Modelling!RequestInv, Modelling!AnsweredIfAny, Modelling!Words
<1>6. CASE Modelling!TriesRole /\ r6.tries # <<>> /\ Modelling!Compatible(Head(r6.tries))
  <2>. DEFINE q == [r6 EXCEPT !.phase = "generating", !.models = Modelling!GeminiModels, !.up = r3]
  <2>1. r1' = r1 /\ r3' = r3 /\ r6' = q
    BY <1>6 DEF Modelling!TriesRole
  <2>2. Modelling!GeminiModels \in Seq(Modelling!ToSet(Modelling!GeminiModels)) /\ Modelling!GeminiModels # <<>>
    BY DEF Modelling!GeminiModels, Modelling!ToSet
  <2>3. q \in Modelling!Requests
    BY <1>1, <2>2 DEF Modelling!Requests
  <2>4. /\ q.phase = "generating" /\ q.steady = r6.steady
        /\ q.models = Modelling!GeminiModels /\ q.up = r3
    BY <1>1 DEF Modelling!Requests
  <2>. HIDE DEF q
  <2>. QED BY <1>1, <2>1, <2>2, <2>3, <2>4 DEF Modelling!RequestInv, Modelling!AnsweredIfAny
<1>7. CASE Modelling!TriesRole /\ r6.tries # <<>> /\ ~Modelling!Compatible(Head(r6.tries))
  <2>. DEFINE rest == Tail(r6.tries)
  <2>1. /\ r6.phase = "routing" /\ r1' = r1 /\ r3' = r3
        /\ r6' = [r6 EXCEPT !.tries = rest]
    BY <1>7 DEF Modelling!TriesRole
  <2>2. /\ rest \in Seq(Modelling!Roles)
        /\ \A x \in Modelling!ToSet(r6.tries) : x = Head(r6.tries) \/ x \in Modelling!ToSet(rest)
    BY <1>2, <1>7, HeadOrTail
  <2>. HIDE DEF rest
  <2>3. /\ r6' \in Modelling!Requests /\ r6'.phase = r6.phase /\ r6'.steady = r6.steady
        /\ r6'.vision = r6.vision /\ r6'.local = r6.local /\ r6'.role = r6.role
        /\ r6'.tries = rest
    BY <1>1, <2>1, <2>2 DEF Modelling!Requests
  <2>. DEFINE last == Modelling!LastResort(r6.role)
  <2>4. last \in r6.steady => last \in Configured
    BY <1>1
  <2>5. last \in Configured => Modelling!ConfigOf(last) = last
    BY DEF Modelling!ConfigOf
  <2>6. Modelling!Words /\ last \in r6.steady => Head(r6.tries) # last
    BY <1>1, <1>7, <2>4, <2>5 DEF Modelling!Words, Modelling!Compatible
  <2>7. Modelling!Words /\ last \in r6.steady => last \in Modelling!ToSet(rest)
    BY <2>1, <2>2, <2>6 DEF Modelling!RequestInv
  <2>. QED
    BY <1>1, <2>1, <2>3, <2>7 DEF Modelling!RequestInv, Modelling!AnsweredIfAny, Modelling!Words
<1>8. ASSUME NEW phase \in {"broken", "answered"}, r1' = r1, r3' = r3,
             r6' = [r6 EXCEPT !.phase = phase]
      PROVE  Modelling!RequestInv'
  <2>1. r6' \in Modelling!Requests /\ r6'.phase = phase /\ r6'.steady = r6.steady
    BY <1>1, <1>8 DEF Modelling!Requests
  <2>. QED BY <1>1, <1>8, <2>1 DEF Modelling!RequestInv, Modelling!AnsweredIfAny
<1>9. ASSUME NEW escapes \in BOOLEAN, Modelling!TriesModel(escapes)
      PROVE  Modelling!RequestInv'
  <2>. DEFINE first == Head(r6.models)
              rest == Tail(r6.models)
  <2>1. /\ r6.phase = "generating" /\ r1' = r1 /\ r3' = r3
        /\ \/ r6' = [r6 EXCEPT !.phase = "broken"]
           \/ r6' = [r6 EXCEPT !.phase = "answered"]
           \/ first \notin r3 /\ Len(r6.models) > 1 /\ r6' = [r6 EXCEPT !.models = rest]
           \/ first \notin r3 /\ ~(Len(r6.models) > 1) /\ r6' = [r6 EXCEPT !.phase = "failed"]
    BY <1>9 DEF Modelling!TriesModel
  <2>2. /\ rest \in Seq(Modelling!ToSet(Modelling!GeminiModels))
        /\ \A x \in Modelling!ToSet(r6.models) : x = first \/ x \in Modelling!ToSet(rest)
        /\ ~(Len(r6.models) > 1) => Modelling!ToSet(r6.models) = {first}
        /\ Len(r6.models) > 1 => rest # <<>>
    BY <1>1, <1>2, <2>1, HeadOrTail
  <2>. HIDE DEF first, rest
  <2>3. CASE first \notin r3 /\ Len(r6.models) > 1 /\ r6' = [r6 EXCEPT !.models = rest]
    <3>1. /\ r6' \in Modelling!Requests /\ r6'.phase = "generating" /\ r6'.steady = r6.steady
          /\ r6'.models = rest /\ r6'.up = r6.up
      BY <1>1, <2>1, <2>2, <2>3 DEF Modelling!Requests
    <3>2. rest # <<>> /\ r6.up \subseteq r3 \intersect Modelling!ToSet(rest)
      BY <1>1, <2>1, <2>2, <2>3
    <3>. QED BY <1>1, <2>1, <3>1, <3>2 DEF Modelling!RequestInv, Modelling!AnsweredIfAny
  <2>4. CASE first \notin r3 /\ ~(Len(r6.models) > 1) /\ r6' = [r6 EXCEPT !.phase = "failed"]
    <3>1. /\ r6' \in Modelling!Requests /\ r6'.phase = "failed" /\ r6'.steady = r6.steady
          /\ r6'.up = r6.up
      BY <1>1, <2>4 DEF Modelling!Requests
    <3>2. r6.up = {}
      BY <1>1, <2>1, <2>2, <2>4
    <3>. QED BY <1>1, <2>1, <3>1, <3>2 DEF Modelling!RequestInv, Modelling!AnsweredIfAny
  <2>. QED BY <1>8, <2>1, <2>3, <2>4
<1>10. CASE Modelling!WorldChanges
  <2>1. /\ r1' \subseteq Configured
        /\ r3' \subseteq Modelling!ToSet(Modelling!GeminiModels)
        /\ r6' = [r6 EXCEPT !.steady = @ \intersect r1', !.up = @ \intersect r3']
    BY <1>1, <1>10 DEF Modelling!WorldChanges, Modelling!SymDiff
  <2>2. /\ r6' \in Modelling!Requests /\ r6'.steady = r6.steady \intersect r1'
        /\ r6'.up = r6.up \intersect r3'
    BY <1>1, <2>1 DEF Modelling!Requests
  <2>3. /\ r6'.phase = r6.phase /\ r6'.tries = r6.tries /\ r6'.models = r6.models
        /\ r6'.vision = r6.vision /\ r6'.local = r6.local /\ r6'.role = r6.role
    BY <1>1, <2>1 DEF Modelling!Requests
  <2>. QED
    BY <1>1, <2>1, <2>2, <2>3 DEF Modelling!RequestInv, Modelling!AnsweredIfAny, Modelling!Words
<1>11. CASE UNCHANGED Modelling!vars
  <2>1. r1' = r1 /\ r3' = r3 /\ r6' = r6
    BY <1>11 DEF Modelling!vars
  <2>. QED BY <2>1 DEF Modelling!RequestInv, Modelling!AnsweredIfAny, Modelling!Words
<1>12. CASE Modelling!HealthRaises
  <2>1. r1' = r1 /\ r3' = r3 /\ r6' = [r6 EXCEPT !.phase = "broken"]
    BY <1>12 DEF Modelling!HealthRaises
  <2>. QED BY <1>8, <2>1
<1>. QED
  BY <1>3, <1>4, <1>5, <1>6, <1>7, <1>9, <1>10, <1>11, <1>12 DEF Modelling!Next

\* A request for words that meets only errors the code names is refused only if its
\* last resort was out of reach, and an overload is its answer only if every Gemini
\* model was overloaded (AnsweredIfAny).
THEOREM AnsweredIfPossible == Spec => []AnsweredIfAny
<1>. DEFINE I == which = "models" => Modelling!RequestInv
<1>1. Init => I
  <2>. SUFFICES ASSUME which = "models", Modelling!Init PROVE Modelling!RequestInv
    BY DEF Init
  <2>1. <<>> \in Seq(Modelling!Roles) /\ <<>> \in Seq(Modelling!ToSet(Modelling!GeminiModels))
    OBVIOUS
  <2>2. Modelling!NoRequest \in Modelling!Requests
    BY <2>1 DEF Modelling!NoRequest, Modelling!Requests, Modelling!Roles, Modelling!Chained
  <2>3. Modelling!NoRequest.phase = "idle" /\ Modelling!NoRequest.steady = {}
    BY DEF Modelling!NoRequest
  <2>. QED
    BY <2>2, <2>3 DEF Modelling!Init, Modelling!RequestInv, Modelling!AnsweredIfAny
<1>2. I /\ [Next]_vars => I'
  <2>. SUFFICES ASSUME I, [Next]_vars, which' = "models" PROVE Modelling!RequestInv'
    OBVIOUS
  <2>1. which = "models"
    BY DEF Next, vars
  <2>2. [Modelling!Next]_(Modelling!vars)
    BY <2>1 DEF Next, vars, Modelling!vars, Modelling!routing, After8
  <2>. QED BY <2>1, <2>2, RequestKeeps
<1>3. I => AnsweredIfAny
  BY DEF AnsweredIfAny, Modelling!RequestInv
<1>. QED BY <1>1, <1>2, <1>3, PTL DEF Spec

(***************************************************************************)
(* Desktop.                                                                *)
(***************************************************************************)

\* What the resolver finds for a text is described by a sentence of its own; if the
\* text is no name or id itself and the target is sure, the sentence names nothing
\* the text does not, but for the words all of them have.
LEMMA LookedFor ==
  ASSUME NEW text, Pointing!Closed(text), NEW w, r2 \subseteq Controls,
         NEW t \in Pointing!Structural(w, text) \union Pointing!Fallbacks(text)
  PROVE  /\ t.method # "none" /\ t.text.exact = "none" /\ Pointing!Closed(t.text)
         /\ t.method \in Pointing!Elements => Incidental \subseteq t.text.names
         /\ text.exact = "none" /\ t.sure =>
              /\ t.method \in Pointing!Found => t.name \in text.names
              /\ t.text.names \subseteq text.names \union Incidental
<1>0. /\ Incidental \subseteq Pointing!Names /\ "none" \notin Pointing!Names \union Pointing!Ids
      /\ \A n \in Incidental : PartsOf[n] \subseteq Incidental
      /\ \A n \in Pointing!Names \union Pointing!Ids : PartsOf[n] \subseteq Pointing!Names
      /\ \A n \in Pointing!Names \union Pointing!Ids : \A m \in PartsOf[n] : PartsOf[m] \subseteq PartsOf[n]
      /\ text.names \subseteq Pointing!Names /\ \A n \in text.names : PartsOf[n] \subseteq text.names
  BY Assumptions DEF Assumptions, Pointing!DesktopAssumption, Pointing!Closed
<1>1. ASSUME NEW names \in SUBSET Pointing!Names, NEW roles, \A n \in names : PartsOf[n] \subseteq names
      PROVE  /\ Pointing!Sentence(names, roles).exact = "none"
             /\ Pointing!Sentence(names, roles).names = names \union Incidental
             /\ Pointing!Closed(Pointing!Sentence(names, roles))
  <2>1. /\ Pointing!Sentence(names, roles).exact = "none"
        /\ Pointing!Sentence(names, roles).names = names \union Incidental
    BY DEF Pointing!Sentence, Pointing!Phrase
  <2>. QED BY <1>0, <1>1, <2>1 DEF Pointing!Closed
<1>2. ASSUME NEW c \in Controls, NEW method, NEW sure, NEW safe, t = Pointing!Of(c, method, sure, safe)
      PROVE  /\ t.method = method /\ t.name = NameOf[c] /\ t.sure = sure
             /\ t.text.exact = "none" /\ Pointing!Closed(t.text)
             /\ t.text.names = PartsOf[NameOf[c]] \union Incidental
  <2>1. /\ t.method = method /\ t.name = NameOf[c] /\ t.sure = sure
        /\ t.text = Pointing!Sentence(PartsOf[NameOf[c]], {RoleOf[c]})
    BY <1>2 DEF Pointing!Of, Pointing!Target
  <2>2. NameOf[c] \in Pointing!Names
    BY DEF Pointing!Names
  <2>. QED BY <1>0, <1>1, <2>1, <2>2
<1>3. ASSUME NEW c \in Controls, t = Pointing!OfId(c)
      PROVE  /\ t.method = "id" /\ t.text.exact = "none" /\ Pointing!Closed(t.text)
             /\ Incidental \subseteq t.text.names
  <2>1. t.method = "id" /\ t.text = Pointing!Sentence(PartsOf[IdOf[c]], {})
    BY <1>3 DEF Pointing!OfId, Pointing!Target
  <2>2. IdOf[c] \in Pointing!Ids
    BY DEF Pointing!Ids
  <2>. QED BY <1>0, <1>1, <2>1, <2>2
<1>. USE DEF Pointing!Found, Pointing!Elements
<1>4. CASE t \in Pointing!Structural(w, text)
  <2>. DEFINE els == Pointing!ControlsOf(w)
              id == {c \in els : IdOf[c] = text.exact}
              exact == {c \in els : NameOf[c] = text.exact}
              part == {c \in els : text.exact \in PartsOf[NameOf[c]]}
              role == {c \in els : RoleOf[c] \in text.roles}
              both == {c \in role : NameOf[c] \in text.names}
  <2>1. \/ \E c \in id : t = Pointing!OfId(c)
        \/ \E c \in exact \union part : t = Pointing!Of(c, "label", TRUE, TRUE)
        \/ \E c \in both : t = Pointing!Of(c, "role_label", TRUE, TRUE)
        \/ \E c \in role : t = Pointing!Of(c, "role_label", FALSE, FALSE)
    BY <1>4 DEF Pointing!Structural
  <2>2. els \subseteq Controls
    BY DEF Pointing!ControlsOf
  <2>3. \A c \in els : IdOf[c] \in Pointing!Ids /\ NameOf[c] \in Pointing!Names
    BY <2>2 DEF Pointing!Ids, Pointing!Names
  <2>4. text.exact = "none" => id = {} /\ exact = {} /\ part = {}
    BY <2>3, <1>0
  <2>5. id \union exact \union part \union role \union both \subseteq Controls
    BY <2>2
  <2>6. \A c \in both : NameOf[c] \in text.names
    OBVIOUS
  <2>. HIDE DEF els, id, exact, part, role, both
  <2>7. CASE \E c \in id : t = Pointing!OfId(c)
    BY <1>3, <2>4, <2>5, <2>7
  <2>8. CASE \E c \in exact \union part : t = Pointing!Of(c, "label", TRUE, TRUE)
    <3>1. PICK c \in exact \union part : t = Pointing!Of(c, "label", TRUE, TRUE)
      BY <2>8
    <3>2. c \in Controls
      BY <2>5, <3>1
    <3>3. /\ t.method = "label" /\ t.name = NameOf[c] /\ t.sure = TRUE
          /\ t.text.exact = "none" /\ Pointing!Closed(t.text)
          /\ t.text.names = PartsOf[NameOf[c]] \union Incidental
      BY <1>2, <3>1, <3>2
    <3>. QED BY <2>4, <3>1, <3>2, <3>3
  <2>9. CASE \E c \in both : t = Pointing!Of(c, "role_label", TRUE, TRUE)
    <3>1. PICK c \in both : t = Pointing!Of(c, "role_label", TRUE, TRUE)
      BY <2>9
    <3>2. c \in Controls
      BY <2>5, <3>1
    <3>3. /\ t.method = "role_label" /\ t.name = NameOf[c] /\ t.sure = TRUE
          /\ t.text.exact = "none" /\ Pointing!Closed(t.text)
          /\ t.text.names = PartsOf[NameOf[c]] \union Incidental
      BY <1>2, <3>1, <3>2
    <3>. QED BY <1>0, <2>6, <3>1, <3>2, <3>3
  <2>10. CASE \E c \in role : t = Pointing!Of(c, "role_label", FALSE, FALSE)
    <3>1. PICK c \in role : t = Pointing!Of(c, "role_label", FALSE, FALSE)
      BY <2>10
    <3>2. c \in Controls
      BY <2>5, <3>1
    <3>3. /\ t.method = "role_label" /\ t.name = NameOf[c] /\ t.sure = FALSE
          /\ t.text.exact = "none" /\ Pointing!Closed(t.text)
          /\ t.text.names = PartsOf[NameOf[c]] \union Incidental
      BY <1>2, <3>1, <3>2
    <3>. QED BY <3>1, <3>2, <3>3
  <2>. QED BY <2>1, <2>7, <2>8, <2>9, <2>10
<1>5. CASE t \in Pointing!Fallbacks(text)
  <2>. DEFINE read == text.roles \union ({"Text"} \intersect Pointing!Roles)
  <2>1. /\ t.method \in {"place", "visual", "default"}
        /\ \/ t.text = Pointing!Sentence(text.names, text.roles)
           \/ t.text = Pointing!Sentence(text.names, read)
    BY <1>5 DEF Pointing!Fallbacks, Pointing!Target
  <2>. HIDE DEF read
  <2>2. t.text.exact = "none" /\ t.text.names = text.names \union Incidental /\ Pointing!Closed(t.text)
    BY <1>0, <1>1, <2>1
  <2>. QED BY <2>1, <2>2
<1>. QED BY <1>4, <1>5

\* Only the resolver writes to what was resolved, and what it is sure of at a
\* resolution made again has a name that the first description names.
LEMMA ResolutionKeeps ==
  ASSUME Pointing!ResolutionInv, Pointing!ActInv, [Pointing!Next]_(Pointing!vars)
  PROVE  Pointing!ResolutionInv'
<1>. USE DEF Pointing!desktop, Pointing!resolution
<1>0. /\ \A n \in Pointing!Names \union Pointing!Ids : PartsOf[n] \subseteq Pointing!Names
      /\ \A n \in Pointing!Names \union Pointing!Ids : \A m \in PartsOf[n] : PartsOf[m] \subseteq PartsOf[n]
  BY Assumptions DEF Assumptions, Pointing!DesktopAssumption
<1>1. ASSUME r5' = r5 /\ r6' = r6 /\ r7' = r7
      PROVE  Pointing!ResolutionInv'
  BY <1>1 DEF Pointing!ResolutionInv, Pointing!StillTheNamed, Pointing!Closed
<1>2. ASSUME NEW text \in Pointing!Texts, Pointing!Stamps(text)
      PROVE  Pointing!ResolutionInv'
  <2>1. r5'.again = FALSE /\ r5'.text = text /\ r6' = r6 /\ r7' = r7
    BY <1>2 DEF Pointing!Stamps
  <2>2. Pointing!Closed(text)
    <3>1. \E n \in Pointing!Names \union Pointing!Ids : text.names = PartsOf[n]
      BY DEF Pointing!Texts, Pointing!Phrase
    <3>. QED BY <1>0, <3>1 DEF Pointing!Closed
  <2>. QED BY <2>1, <2>2 DEF Pointing!ResolutionInv, Pointing!StillTheNamed, Pointing!Closed
<1>3. CASE Pointing!ReResolves
  <2>1. r6.method \in Pointing!Elements /\ r6' = r6 /\ r7' = r7 /\ r5'.text = r6.text
    BY <1>3 DEF Pointing!ReResolves
  <2>2. Pointing!Closed(r6.text)
    BY <2>1 DEF Pointing!ResolutionInv, Pointing!Elements, Pointing!Found
  <2>. QED BY <2>1, <2>2 DEF Pointing!ResolutionInv, Pointing!StillTheNamed, Pointing!Closed
<1>4. CASE Pointing!ResolvesDirectly
  <2>1. r5' = r5 /\ r5.step = "idle" /\ r7' = Pointing!NoTarget
    BY <1>4 DEF Pointing!ResolvesDirectly, Pointing!Asked, Pointing!Free
  <2>2. r6'.method \in {"coordinates", "browser"} /\ r6'.text = Pointing!NoText
    BY <1>4 DEF Pointing!ResolvesDirectly, Pointing!NoTarget
  <2>3. Pointing!NoText.exact = "none" /\ Pointing!NoText.names = {}
    BY DEF Pointing!NoText, Pointing!Phrase
  <2>. QED
    BY <2>1, <2>2, <2>3
    DEF Pointing!ResolutionInv, Pointing!StillTheNamed, Pointing!Closed, Pointing!Elements, Pointing!Found
<1>5. CASE Pointing!Resolves
  <2>. DEFINE Looked(w, t) == t \in Pointing!Structural(w, r5.text) \union Pointing!Fallbacks(r5.text)
  <2>1. /\ r5.step = "looks" /\ r5' = Pointing!Quiet
        /\ \E w : \E t : Looked(w, t) /\
             /\ r6' = IF r5.again /\ ~t.sure THEN Pointing!NoTarget ELSE t
             /\ r7' = IF r5.again THEN r7 ELSE t
    BY <1>5 DEF Pointing!Resolves
  <2>2. PICK w : \E t :
          /\ Looked(w, t)
          /\ r6' = IF r5.again /\ ~t.sure THEN Pointing!NoTarget ELSE t
          /\ r7' = IF r5.again THEN r7 ELSE t
    BY <2>1
  <2>3. PICK t :
          /\ Looked(w, t)
          /\ r6' = IF r5.again /\ ~t.sure THEN Pointing!NoTarget ELSE t
          /\ r7' = IF r5.again THEN r7 ELSE t
    BY <2>2
  <2>4. Pointing!Quiet.step = "idle" /\ Pointing!NoTarget.method = "none"
    BY DEF Pointing!Quiet, Pointing!NoTarget
  <2>5. Pointing!Closed(r5.text) /\ r2 \subseteq Controls
    BY <2>1 DEF Pointing!ResolutionInv, Pointing!ActInv
  <2>6. /\ t.method # "none" /\ t.text.exact = "none" /\ Pointing!Closed(t.text)
        /\ t.method \in Pointing!Elements => Incidental \subseteq t.text.names
        /\ r5.text.exact = "none" /\ t.sure =>
             /\ t.method \in Pointing!Found => t.name \in r5.text.names
             /\ t.text.names \subseteq r5.text.names \union Incidental
    BY <2>3, <2>5, LookedFor
  <2>. HIDE DEF Looked
  <2>7. Pointing!Found \subseteq Pointing!Elements /\ "none" \notin Pointing!Elements
    BY DEF Pointing!Found, Pointing!Elements
  <2>8. CASE r5.again
    <3>1. /\ r5.text = r6.text /\ r6.method \in Pointing!Elements /\ r6.text.exact = "none"
          /\ Incidental \subseteq r6.text.names /\ r6.text.names \subseteq r7.text.names
      BY <2>1, <2>7, <2>8 DEF Pointing!ResolutionInv
    <3>2. r7' = r7 /\ r6' = IF ~t.sure THEN Pointing!NoTarget ELSE t
      BY <2>3, <2>8
    <3>3. CASE t.sure
      <4>1. r6' = t /\ r7' = r7 /\ r5'.step = "idle"
        BY <3>2, <3>3, <2>1, <2>4
      <4>2. /\ t.text.names \subseteq r7.text.names
            /\ t.method \in Pointing!Found => t.name \in r7.text.names
        BY <3>1, <3>3, <2>6
      <4>. QED
        BY <4>1, <4>2, <2>6 DEF Pointing!ResolutionInv, Pointing!StillTheNamed, Pointing!Closed
    <3>4. CASE ~t.sure
      BY <3>2, <3>4, <2>1, <2>4, <2>7 DEF Pointing!ResolutionInv, Pointing!StillTheNamed
    <3>. QED BY <3>3, <3>4
  <2>9. CASE ~r5.again
    <3>1. r7' = t /\ r6' = t /\ r5'.step = "idle"
      BY <2>1, <2>3, <2>4, <2>9
    <3>. QED BY <3>1, <2>6 DEF Pointing!ResolutionInv, Pointing!StillTheNamed, Pointing!Closed
  <2>. QED BY <2>8, <2>9
<1>. QED
  BY <1>1, <1>2, <1>3, <1>4, <1>5
  DEF Pointing!Next, Pointing!vars, Pointing!Observes, Pointing!FindsLabel, Pointing!ClicksElement,
      Pointing!TypesIntoElement, Pointing!TypesCharacter, Pointing!ClicksCoordinates, Pointing!Presses,
      Pointing!Verifies, Pointing!ReadsTitle, Pointing!ControlsWindow, Pointing!UsesMouse,
      Pointing!MinimizesAll, Pointing!WorldChanges

\* A control that is found by its label has a name that contains the label and
\* is in a window of an allowlisted application.
LEMMA FoundHasTheName ==
  ASSUME NEW w \in Pointing!AllowlistedWindows, NEW name, NEW c \in Pointing!ByLabel(w, name), r2 \subseteq Controls
  PROVE  c \in r2 /\ name \in PartsOf[NameOf[c]] /\ WindowOf[c] \in Allowlisted
<1>1. c \in r2 /\ WindowOf[c] = w /\ (NameOf[c] = name \/ name \in PartsOf[NameOf[c]])
  BY DEF Pointing!ByLabel, Pointing!ControlsOf
<1>2. NameOf[c] \in PartsOf[NameOf[c]] /\ w # Absent
  BY <1>1, Assumptions DEF Assumptions, Pointing!DesktopAssumption, Pointing!Names, Pointing!Windows
<1>3. w \in Allowlisted \union {Absent}
  BY DEF Pointing!AllowlistedWindows
<1>. QED BY <1>1, <1>2, <1>3

\* Whatever is done to the desktop, a window or none is in front of controls.
LEMMA ReactsInType ==
  ASSUME NEW hit, Pointing!Reacts(hit), r1 \in Pointing!Windows \union {Absent}, r2 \subseteq Controls, r3 \in BOOLEAN
  PROVE  r1' \in Pointing!Windows \union {Absent} /\ r2' \subseteq Controls /\ r3' \in BOOLEAN
BY DEF Pointing!Reacts

\* Only the controller acts, on what it found, and by itself as long as nobody
\* else touches the desktop.
LEMMA ActKeeps ==
  ASSUME Pointing!ActInv, [Pointing!Next]_(Pointing!vars)
  PROVE  Pointing!ActInv'
<1>. USE DEF Pointing!desktop, Pointing!resolution
<1>0. /\ r1 \in Pointing!Windows \union {Absent} /\ r2 \subseteq Controls /\ r3 \in BOOLEAN
      /\ r8 \in Pointing!Acts
  BY DEF Pointing!ActInv
<1>f. /\ r8.step \in {"idle", "acts", "found", "aims", "types", "after"}
      /\ r8.kind \in {"none", "click", "type", "press"} /\ r8.name \in Pointing!Names \union {"none"}
      /\ r8.expect \in {"none", "window", "text", "other"} /\ r8.before \in Pointing!Screens
      /\ r8.control \subseteq Controls /\ r8.left \in Int
      /\ r8.success \in BOOLEAN /\ r8.hit \subseteq Controls /\ r8.alone \in BOOLEAN
  BY <1>0 DEF Pointing!Acts
<1>1. ASSUME r8' = r8, r10'.step = "reads" => r8.step = "idle", r2' = r2 \/ r8.step = "idle",
             r1' \in Pointing!Windows \union {Absent}, r2' \subseteq Controls, r3' \in BOOLEAN
      PROVE  Pointing!ActInv'
  BY <1>1 DEF Pointing!ActInv, Pointing!HasName
<1>2. ASSUME NEW text \in Pointing!Texts, Pointing!Stamps(text)
      PROVE  Pointing!ActInv'
  BY <1>1, <1>2, <1>0 DEF Pointing!Stamps, Pointing!ActInv
<1>3. CASE Pointing!ResolvesDirectly
  BY <1>1, <1>3, <1>0 DEF Pointing!ResolvesDirectly, Pointing!ActInv
<1>4. CASE Pointing!Resolves
  BY <1>1, <1>4, <1>0 DEF Pointing!Resolves, Pointing!ActInv
<1>5. CASE Pointing!ReResolves
  BY <1>1, <1>5, <1>0 DEF Pointing!ReResolves, Pointing!ActInv
<1>6. CASE Pointing!ReadsTitle
  BY <1>1, <1>6, <1>0 DEF Pointing!ReadsTitle, Pointing!Asked, Pointing!Free
<1>7. CASE Pointing!MinimizesAll
  BY <1>1, <1>7, <1>0 DEF Pointing!MinimizesAll, Pointing!Asked, Pointing!Free
<1>8. CASE Pointing!UsesMouse
  BY <1>1, <1>8, <1>0, ReactsInType DEF Pointing!UsesMouse, Pointing!Asked, Pointing!Free
<1>9. CASE Pointing!ControlsWindow
  <2>1. r10.step = "reads" /\ r8' = r8 /\ r3' = r3
    BY <1>9 DEF Pointing!ControlsWindow
  <2>2. r1' \in Pointing!Windows \union {Absent} /\ r2' \subseteq Controls
    BY <1>9, <1>0 DEF Pointing!ControlsWindow
  <2>. QED BY <2>1, <2>2, <1>0, <1>1 DEF Pointing!ActInv
<1>10. ASSUME NEW kind \in {"click", "type", "press"}, NEW name \in Pointing!Names \union {"none"},
              NEW expect \in {"none", "window", "text", "other"}, Pointing!Observes(kind, name, expect)
       PROVE  Pointing!ActInv'
  <2>1. /\ r1' = r1 /\ r2' = r2 /\ r3' = r3 /\ r10' = r10 /\ r10.step = "idle"
        /\ r8' = [Pointing!NoAct EXCEPT !.step = "acts", !.kind = kind, !.name = name, !.expect = expect,
                          !.before = Pointing!Screen, !.left = IF kind = "type" THEN Chars ELSE 0]
    BY <1>10 DEF Pointing!Observes, Pointing!Asked, Pointing!Free
  <2>2. Pointing!Screen \in Pointing!Screens
    BY <1>0 DEF Pointing!Screen, Pointing!Screens
  <2>3. Chars \in Int
    BY Assumptions DEF Assumptions, Pointing!DesktopAssumption
  <2>4. /\ r8'.step = "acts" /\ r8'.success = FALSE /\ r8'.hit = {}
        /\ r8' = [step |-> "acts", kind |-> kind, name |-> name, expect |-> expect,
                  before |-> Pointing!Screen, control |-> {}, left |-> IF kind = "type" THEN Chars ELSE 0,
                  success |-> FALSE, hit |-> {}, alone |-> TRUE]
    BY <2>1 DEF Pointing!NoAct
  <2>5. r8' \in Pointing!Acts
    <3>. HIDE DEF Pointing!Screens
    <3>. QED BY <2>2, <2>3, <2>4 DEF Pointing!Acts
  <2>. QED BY <2>1, <2>4, <2>5, <1>0 DEF Pointing!ActInv, Pointing!HasName
<1>11. CASE Pointing!FindsLabel
  <2>. DEFINE found(w) == IF r8.name = "none" THEN {} ELSE Pointing!ByLabel(w, r8.name)
  <2>1. /\ r8.step = "acts" /\ r1' = r1 /\ r2' = r2 /\ r3' = r3 /\ r10' = r10
        /\ \E w \in Pointing!AllowlistedWindows :
             \/ \E c \in found(w) : r8' = [r8 EXCEPT !.step = "found", !.control = {c}]
             \/ r8' = [r8 EXCEPT !.step = IF r8.kind = "type" THEN "types" ELSE "aims"]
    BY <1>11 DEF Pointing!FindsLabel
  <2>2. PICK w \in Pointing!AllowlistedWindows :
             \/ \E c \in found(w) : r8' = [r8 EXCEPT !.step = "found", !.control = {c}]
             \/ r8' = [r8 EXCEPT !.step = IF r8.kind = "type" THEN "types" ELSE "aims"]
    BY <2>1
  <2>3. r8.hit = {} /\ r10.step # "reads"
    BY <2>1 DEF Pointing!ActInv
  <2>4. CASE \E c \in found(w) : r8' = [r8 EXCEPT !.step = "found", !.control = {c}]
    <3>1. PICK c \in found(w) : r8' = [r8 EXCEPT !.step = "found", !.control = {c}]
      BY <2>4
    <3>2. c \in r2 /\ r8.name \in PartsOf[NameOf[c]] /\ WindowOf[c] \in Allowlisted
      BY <1>0, FoundHasTheName
    <3>3. /\ r8'.step = "found" /\ r8'.control = {c} /\ r8'.name = r8.name /\ r8'.hit = {}
          /\ r8'.alone = r8.alone /\ r8'.success = r8.success
      BY <3>1, <1>0, <2>3 DEF Pointing!Acts
    <3>4. r8' \in Pointing!Acts
      <4>1. {c} \subseteq Controls
        BY <3>2, <1>0
      <4>. QED BY <3>1, <4>1, <1>0 DEF Pointing!Acts
    <3>. QED BY <3>2, <3>3, <3>4, <2>1, <2>3, <1>0 DEF Pointing!ActInv, Pointing!HasName
  <2>5. CASE r8' = [r8 EXCEPT !.step = IF r8.kind = "type" THEN "types" ELSE "aims"]
    <3>1. /\ r8'.step \in {"types", "aims"} /\ r8'.hit = {}
          /\ r8'.alone = r8.alone /\ r8'.success = r8.success /\ r8' \in Pointing!Acts
      BY <2>5, <1>0, <2>3 DEF Pointing!Acts
    <3>. QED BY <3>1, <2>1, <2>3, <1>0 DEF Pointing!ActInv, Pointing!HasName
  <2>. QED BY <2>2, <2>4, <2>5
<1>12. CASE Pointing!ClicksElement
  <2>1. /\ r8.step = "found" /\ r10' = r10 /\ r10.step # "reads"
        /\ r8.hit = {} /\ Pointing!HasName(r8.name, r8.control)
    BY <1>12 DEF Pointing!ClicksElement, Pointing!ActInv
  <2>2. CASE /\ Pointing!Reacts(r8.control)
             /\ r8' = [r8 EXCEPT !.step = "after", !.success = TRUE, !.hit = r8.control]
    <3>1. /\ r8'.step = "after" /\ r8'.hit = r8.control /\ r8'.name = r8.name
          /\ r8' \in Pointing!Acts
      BY <2>2, <1>0, <1>f DEF Pointing!Acts
    <3>2. r1' \in Pointing!Windows \union {Absent} /\ r2' \subseteq Controls /\ r3' \in BOOLEAN
      BY <2>2, <1>0, ReactsInType
    <3>. QED BY <2>1, <3>1, <3>2 DEF Pointing!ActInv, Pointing!HasName
  <2>3. ASSUME NEW hit \in {{}} \union {{c} : c \in r2}, Pointing!Reacts(hit),
               r8' = [r8 EXCEPT !.step = "after", !.success = TRUE, !.hit = hit, !.alone = FALSE]
        PROVE  Pointing!ActInv'
    <3>1. hit \subseteq Controls
      BY <1>0
    <3>2. r8'.step = "after" /\ r8'.alone = FALSE /\ r8' \in Pointing!Acts
      BY <2>3, <3>1, <1>0 DEF Pointing!Acts
    <3>3. r1' \in Pointing!Windows \union {Absent} /\ r2' \subseteq Controls /\ r3' \in BOOLEAN
      BY <2>3, <1>0, ReactsInType
    <3>. QED BY <2>1, <3>2, <3>3 DEF Pointing!ActInv
  <2>4. CASE r8' = [r8 EXCEPT !.step = "aims"] /\ UNCHANGED <<r1, r2, r3>>
    <3>1. r8'.step = "aims" /\ r8'.hit = {} /\ r8' \in Pointing!Acts
      BY <2>1, <2>4, <1>0 DEF Pointing!Acts
    <3>. QED BY <2>1, <2>4, <3>1, <1>0 DEF Pointing!ActInv, Pointing!HasName
  <2>. QED BY <1>12, <2>2, <2>3, <2>4 DEF Pointing!ClicksElement
<1>13. ASSUME NEW given \in BOOLEAN, Pointing!ClicksCoordinates(given)
       PROVE  Pointing!ActInv'
  <2>1. /\ r8.step = "aims" /\ r10' = r10
        /\ IF given THEN Pointing!Reacts(r2) ELSE UNCHANGED <<r2, r3, r1>>
        /\ r8' = [r8 EXCEPT !.step = "after", !.success = given, !.name = "none"]
    BY <1>13 DEF Pointing!ClicksCoordinates
  <2>2. r8'.step = "after" /\ r8'.name = "none" /\ r8' \in Pointing!Acts
    BY <2>1, <1>0 DEF Pointing!Acts
  <2>3. r1' \in Pointing!Windows \union {Absent} /\ r2' \subseteq Controls /\ r3' \in BOOLEAN
    BY <2>1, <1>0, ReactsInType
  <2>. QED BY <2>1, <2>2, <2>3 DEF Pointing!ActInv
<1>14. CASE Pointing!TypesIntoElement
  <2>1. /\ r8.step = "found" /\ r10' = r10 /\ r2' = r2 /\ r3' = r3 /\ r10.step # "reads"
    BY <1>14 DEF Pointing!TypesIntoElement, Pointing!ActInv
  <2>2. CASE /\ r1' \in {WindowOf[c] : c \in r8.control}
             /\ r8' = [r8 EXCEPT !.step = "after", !.success = TRUE, !.hit = r8.control]
    <3>1. r1' \in Pointing!Windows
      BY <2>2, <1>f DEF Pointing!Windows
    <3>2. /\ r8'.step = "after" /\ r8'.hit = r8.control /\ r8'.name = r8.name /\ r8'.alone = r8.alone
          /\ r8' \in Pointing!Acts
      BY <2>2, <1>0, <1>f DEF Pointing!Acts
    <3>3. Pointing!HasName(r8.name, r8.control)
      BY <2>1 DEF Pointing!ActInv
    <3>. QED BY <2>1, <3>1, <3>2, <3>3, <1>0 DEF Pointing!ActInv, Pointing!HasName
  <2>3. CASE /\ r1' \in {r1} \union {WindowOf[c] : c \in r8.control \intersect r2}
             /\ r8' = [r8 EXCEPT !.step = "types"]
    <3>1. r1' \in Pointing!Windows \union {Absent}
      BY <2>3, <1>0, <1>f DEF Pointing!Windows
    <3>2. r8.hit = {}
      BY <2>1 DEF Pointing!ActInv
    <3>3. /\ r8'.step = "types" /\ r8'.hit = {} /\ r8' \in Pointing!Acts
      BY <2>3, <3>2, <1>0 DEF Pointing!Acts
    <3>. QED BY <2>1, <3>1, <3>3, <1>0 DEF Pointing!ActInv, Pointing!HasName
  <2>. QED BY <1>14, <2>2, <2>3 DEF Pointing!TypesIntoElement
<1>15. CASE Pointing!TypesCharacter
  <2>1. /\ r8.step = "types" /\ r10' = r10 /\ r1' = r1 /\ r2' = r2 /\ r3' = r3
        /\ \/ r8' = [r8 EXCEPT !.step = "after", !.success = TRUE, !.name = "none"]
           \/ r8' = [r8 EXCEPT !.left = r8.left - 1]
    BY <1>15 DEF Pointing!TypesCharacter
  <2>2. r10.step # "reads" /\ r8.hit = {}
    BY <2>1 DEF Pointing!ActInv
  <2>3. CASE r8' = [r8 EXCEPT !.step = "after", !.success = TRUE, !.name = "none"]
    <3>1. r8'.step = "after" /\ r8'.name = "none" /\ r8' \in Pointing!Acts
      BY <2>3, <1>0 DEF Pointing!Acts
    <3>. QED BY <3>1, <2>1, <2>2, <1>0 DEF Pointing!ActInv
  <2>4. CASE r8' = [r8 EXCEPT !.left = r8.left - 1]
    <3>1. r8'.step = "types" /\ r8'.hit = {} /\ r8' \in Pointing!Acts
      BY <2>1, <2>2, <2>4, <1>0 DEF Pointing!Acts
    <3>. QED BY <3>1, <2>1, <2>2, <1>0 DEF Pointing!ActInv, Pointing!HasName
  <2>. QED BY <2>1, <2>3, <2>4
<1>16. ASSUME NEW ok \in BOOLEAN, Pointing!Presses(ok)
       PROVE  Pointing!ActInv'
  <2>1. /\ r8.step = "acts" /\ r10' = r10
        /\ IF ok THEN Pointing!Reacts(r2) ELSE UNCHANGED <<r2, r3, r1>>
        /\ r8' = [r8 EXCEPT !.step = "after", !.success = ok]
    BY <1>16 DEF Pointing!Presses
  <2>2. r10.step # "reads" /\ r8.hit = {}
    BY <2>1 DEF Pointing!ActInv
  <2>3. r8'.step = "after" /\ r8'.hit = {} /\ r8' \in Pointing!Acts
    BY <2>1, <2>2, <1>0 DEF Pointing!Acts
  <2>4. r1' \in Pointing!Windows \union {Absent} /\ r2' \subseteq Controls /\ r3' \in BOOLEAN
    BY <2>1, <1>0, ReactsInType
  <2>. QED BY <2>1, <2>2, <2>3, <2>4 DEF Pointing!ActInv, Pointing!HasName
<1>17. ASSUME NEW differs \in BOOLEAN, Pointing!Verifies(differs)
       PROVE  Pointing!ActInv'
  <2>1. /\ r8.step = "after" /\ r10' = r10 /\ r1' = r1 /\ r2' = r2 /\ r3' = r3
        /\ r8' = Pointing!NoAct
    BY <1>17 DEF Pointing!Verifies
  <2>2. Pointing!NoScreen \in Pointing!Screens
    BY DEF Pointing!NoScreen, Pointing!Screens
  <2>3. Pointing!NoAct.step = "idle" /\ Pointing!NoAct.hit = {} /\ Pointing!NoAct \in Pointing!Acts
    <3>. HIDE DEF Pointing!Screens
    <3>. QED BY <2>2 DEF Pointing!NoAct, Pointing!Acts
  <2>. QED BY <2>1, <2>3, <1>0 DEF Pointing!ActInv, Pointing!HasName
<1>18. CASE Pointing!WorldChanges
  <2>1. /\ r8' = IF r8.step = "idle" THEN r8 ELSE [r8 EXCEPT !.alone = FALSE]
        /\ r1' \in Pointing!Windows \union {Absent} /\ r2' \subseteq Controls /\ r3' \in BOOLEAN
        /\ r10' = r10
    BY <1>18, <1>0 DEF Pointing!WorldChanges
  <2>2. CASE r8.step = "idle"
    BY <2>1, <2>2, <1>1
  <2>3. CASE r8.step # "idle"
    <3>1. /\ r8'.alone = FALSE /\ r8'.step = r8.step /\ r8'.hit = r8.hit /\ r8'.name = r8.name
          /\ r8'.control = r8.control /\ r8' \in Pointing!Acts
      BY <2>1, <2>3, <1>0 DEF Pointing!Acts
    <3>. QED BY <3>1, <2>1, <2>3 DEF Pointing!ActInv, Pointing!HasName
  <2>. QED BY <2>2, <2>3
<1>19. CASE UNCHANGED Pointing!vars
  BY <1>1, <1>19, <1>0 DEF Pointing!vars, Pointing!ActInv
<1>. QED
  BY <1>2, <1>3, <1>4, <1>5, <1>6, <1>7, <1>8, <1>9, <1>10, <1>11, <1>12, <1>13, <1>14, <1>15,
     <1>16, <1>17, <1>18, <1>19
  DEF Pointing!Next

\* What a click that is reported has hit is what the act has hit.
LEMMA ClickHits ==
  ASSUME Pointing!ActInv, Pointing!ClickHitsTheNamed, [Pointing!Next]_(Pointing!vars)
  PROVE  Pointing!ClickHitsTheNamed'
<1>. USE DEF Pointing!desktop, Pointing!resolution
<1>1. CASE r9' = r9
  BY <1>1 DEF Pointing!ClickHitsTheNamed
<1>2. CASE r9' = Pointing!NoResult
  BY <1>2 DEF Pointing!ClickHitsTheNamed, Pointing!NoResult
<1>3. ASSUME NEW differs \in BOOLEAN, Pointing!Verifies(differs)
      PROVE  Pointing!ClickHitsTheNamed'
  <2>1. r9'.success = r8.success /\ r9'.name = r8.name /\ r9'.hit = r8.hit /\ r9'.alone = r8.alone
    BY <1>3 DEF Pointing!Verifies
  <2>2. (r8.alone /\ r8.success /\ r8.name # "none") => Pointing!HasName(r8.name, r8.hit)
    BY DEF Pointing!ActInv
  <2>. QED BY <2>1, <2>2 DEF Pointing!ClickHitsTheNamed, Pointing!HasName
<1>. QED
  BY <1>1, <1>2, <1>3
  DEF Pointing!Next, Pointing!vars, Pointing!Asked, Pointing!Stamps, Pointing!ResolvesDirectly,
      Pointing!Resolves, Pointing!ReResolves, Pointing!Observes, Pointing!FindsLabel, Pointing!ClicksElement,
      Pointing!TypesIntoElement, Pointing!TypesCharacter, Pointing!ClicksCoordinates, Pointing!Presses,
      Pointing!ReadsTitle, Pointing!ControlsWindow, Pointing!UsesMouse,
      Pointing!MinimizesAll, Pointing!WorldChanges

\* Every step on the desktop keeps the invariant of Desktop.
LEMMA NamedKeeps ==
  ASSUME Pointing!NamedInv, [Pointing!Next]_(Pointing!vars)
  PROVE  Pointing!NamedInv'
BY ResolutionKeeps, ActKeeps, ClickHits DEF Pointing!NamedInv

\* F.R.I.D.A.Y. acts on what was named: a target resolved again has a name its first
\* description names, and a click that the control takes hits one that has the label
\* (TargetResolver, WindowsComputerController.click).
THEOREM HitsAreNamed == Spec => []ActsOnTheNamed
<1>. DEFINE I == which = "desktop" => Pointing!NamedInv
<1>1. Init => I
  <2>. SUFFICES ASSUME Init, which = "desktop" PROVE Pointing!NamedInv
    OBVIOUS
  <2>1. Pointing!Init
    BY DEF Init
  <2>2. Pointing!NoScreen \in Pointing!Screens
    BY DEF Pointing!NoScreen, Pointing!Screens
  <2>3. Pointing!NoAct \in Pointing!Acts
    <3>. HIDE DEF Pointing!Screens
    <3>. QED BY <2>2 DEF Pointing!NoAct, Pointing!Acts
  <2>4. Pointing!ActInv
    BY <2>1, <2>3 DEF Pointing!Init, Pointing!ActInv, Pointing!NoAct
  <2>5. Pointing!ResolutionInv /\ Pointing!ClickHitsTheNamed
    BY <2>1 DEF Pointing!Init, Pointing!ResolutionInv, Pointing!StillTheNamed, Pointing!NoTarget, Pointing!Quiet,
                Pointing!ClickHitsTheNamed, Pointing!NoResult, Pointing!Found, Pointing!Elements
  <2>. QED BY <2>4, <2>5 DEF Pointing!NamedInv
<1>2. I /\ [Next]_vars => I'
  <2>. SUFFICES ASSUME I, [Next]_vars, which' = "desktop" PROVE Pointing!NamedInv'
    OBVIOUS
  <2>1. which = "desktop"
    BY DEF Next, vars
  <2>2. [Pointing!Next]_(Pointing!vars)
    BY <2>1 DEF Next, vars, Pointing!vars, Pointing!desktop, Pointing!resolution
  <2>. QED BY <2>1, <2>2, NamedKeeps
<1>3. I => ActsOnTheNamed
  BY DEF Pointing!NamedInv, Pointing!ResolutionInv, Pointing!ActsOnTheNamed, ActsOnTheNamed
<1>. QED BY <1>1, <1>2, <1>3, PTL DEF Spec


(***************************************************************************)
(* Listening.                                                              *)
(***************************************************************************)

\* An element of a sequence one longer than s is one of s or the last.
LEMMA Appended ==
  ASSUME NEW S, NEW s \in Seq(S), NEW e \in S
  PROVE  /\ Append(s, e) \in Seq(S) /\ Len(Append(s, e)) = Len(s) + 1
         /\ DOMAIN Append(s, e) = 1 .. Len(s) + 1
         /\ \A i \in DOMAIN s : i \in 1 .. Len(s) /\ Append(s, e)[i] = s[i]
         /\ Append(s, e)[Len(s) + 1] = e
         /\ \A i \in DOMAIN Append(s, e) : i \in DOMAIN s \/ i = Len(s) + 1
  BY AppendProperties

\* What is left of a sequence without its head comes one place earlier.
LEMMA Tailed ==
  ASSUME NEW S, NEW s \in Seq(S), s # <<>>
  PROVE  /\ Head(s) \in S /\ Head(s) = s[1] /\ 1 \in DOMAIN s /\ Tail(s) \in Seq(S)
         /\ Len(s) \in Nat \ {0} /\ Len(Tail(s)) = Len(s) - 1
         /\ \A i \in DOMAIN Tail(s) : i \in Nat /\ i + 1 \in DOMAIN s /\ i + 1 > 1 /\ Tail(s)[i] = s[i + 1]
  BY HeadTailProperties

\* The callback and the loop keep the line.
LEMMA LineKeeps ==
  ASSUME Hearing!LineInv, [Hearing!Next]_(Hearing!vars)
  PROVE  Hearing!LineInv'
<1>. USE DEF Hearing!micVars, Hearing!loopVars, Hearing!sttVars, Hearing!workVars
<1>1. ASSUME r2' = r2, r9' = r9, r4' = r4, r3' = r3, r1' = r1, r5' = "off" => r1 = "closed"
      PROVE  Hearing!LineInv'
  BY <1>1 DEF Hearing!LineInv, Hearing!Rising, Hearing!Ahead
<1>0. /\ r2 \in Nat /\ r9 \in Seq(Hearing!Sounds) /\ r4 \in Seq(Hearing!Sounds) /\ r3 \in Seq(Hearing!Sounds)
      /\ \A i \in DOMAIN r9 : r9[i] \in Hearing!Sounds /\ r9[i].n \in Nat /\ r9[i].n <= r2
      /\ \A i \in DOMAIN r4 : r4[i] \in Hearing!Sounds /\ r4[i].n \in Nat /\ r4[i].n <= r2
      /\ \A i \in DOMAIN r3 : r3[i] \in Hearing!Sounds /\ r3[i].n \in Nat /\ r3[i].n <= r2
      /\ DOMAIN <<>> = {} /\ <<>> \in Seq(Hearing!Sounds)
  <2>1. r2 \in Nat /\ r9 \in Seq(Hearing!Sounds) /\ r4 \in Seq(Hearing!Sounds) /\ r3 \in Seq(Hearing!Sounds)
    BY DEF Hearing!LineInv
  <2>2. ASSUME NEW s \in Seq(Hearing!Sounds)
        PROVE  \A i \in DOMAIN s : s[i] \in Hearing!Sounds /\ s[i].n \in Nat
    <3>1. DOMAIN s = 1 .. Len(s)
      BY LenProperties
    <3>2. \A i \in 1 .. Len(s) : s[i] \in Hearing!Sounds
      BY ElementOfSeq
    <3>3. \A c \in Hearing!Sounds : c.n \in Nat
      BY DEF Hearing!Sounds
    <3>. QED BY <3>1, <3>2, <3>3
  <2>3. <<>> \in Seq(Hearing!Sounds) /\ DOMAIN <<>> = {}
    OBVIOUS
  <2>. QED BY <2>1, <2>2, <2>3 DEF Hearing!LineInv
<1>2. CASE Hearing!OpensMicrophone
  <2>1. r4' = <<>> /\ r9' = r9 /\ r3' = r3 /\ r2' = r2 /\ r1' = "open" /\ r5' = "ready"
    BY <1>2 DEF Hearing!OpensMicrophone
  <2>2. r3 = <<>>
    BY <1>2 DEF Hearing!OpensMicrophone, Hearing!LineInv
  <2>. QED BY <2>1, <2>2, <1>0 DEF Hearing!LineInv, Hearing!Rising, Hearing!Ahead
<1>3. CASE Hearing!BeginsTurn
  <2>1. r9' = <<>> /\ r4' = r4 /\ r3' = r3 /\ r2' = r2 /\ r1' = r1 /\ r5' = "capture"
    BY <1>3 DEF Hearing!BeginsTurn
  <2>. QED BY <2>1, <1>0 DEF Hearing!LineInv, Hearing!Rising, Hearing!Ahead
<1>4. CASE Hearing!ClosesMicrophone
  <2>1. r9' = r9 /\ r4' = r4 /\ r3' = r3 /\ r2' = r2 /\ r1' = "closed" /\ r5' = "off" /\ r1 = "open"
    BY <1>4 DEF Hearing!ClosesMicrophone
  <2>. QED BY <2>1, <1>0 DEF Hearing!LineInv, Hearing!Rising, Hearing!Ahead
<1>5. ASSUME NEW loud \in BOOLEAN, Hearing!Records(loud)
      PROVE  Hearing!LineInv'
  <2>. DEFINE chunk == [n |-> r2 + 1, loud |-> loud]
  <2>1. /\ r1 = "open" /\ r2' = r2 + 1 /\ r9' = r9 /\ r5' = r5 /\ r3 = <<>>
        /\ \/ r4' = Append(r4, chunk) /\ r1' = r1 /\ r3' = r3
           \/ r4' = r4 /\ r1' = "full" /\ r3' = <<chunk>>
    BY <1>5 DEF Hearing!Records, Hearing!LineInv
  <2>2. chunk \in Hearing!Sounds /\ chunk.n = r2 + 1 /\ r2 + 1 \in Nat
    BY <1>0 DEF Hearing!Sounds
  <2>3. <<chunk>> \in Seq(Hearing!Sounds) /\ DOMAIN <<chunk>> = {1} /\ <<chunk>>[1] = chunk
    BY <2>2
  <2>. HIDE DEF chunk
  <2>4. CASE r4' = Append(r4, chunk) /\ r1' = r1 /\ r3' = r3
    <3>1. /\ Append(r4, chunk) \in Seq(Hearing!Sounds)
          /\ \A i \in DOMAIN r4 : i \in 1 .. Len(r4) /\ Append(r4, chunk)[i] = r4[i]
          /\ Append(r4, chunk)[Len(r4) + 1] = chunk
          /\ DOMAIN Append(r4, chunk) = 1 .. Len(r4) + 1
          /\ \A i \in DOMAIN Append(r4, chunk) : i \in DOMAIN r4 \/ i = Len(r4) + 1
      BY <1>0, <2>2, Appended
    <3>2. Hearing!Rising(r4')
      BY <3>1, <2>2, <2>4, <1>0 DEF Hearing!Rising, Hearing!LineInv
    <3>3. Hearing!Ahead(r9, r4')
      BY <3>1, <2>2, <2>4, <1>0 DEF Hearing!Ahead, Hearing!LineInv
    <3>4. \A s \in {r9, r4', r3} : \A i \in DOMAIN s : s[i].n <= r2 + 1
      <4>1. \A i \in DOMAIN r4' : r4'[i].n <= r2 + 1
        BY <3>1, <2>2, <2>4, <1>0
      <4>. QED BY <4>1, <1>0
    <3>. QED BY <3>1, <3>2, <3>3, <3>4, <2>1, <2>2, <2>4, <1>0 DEF Hearing!LineInv, Hearing!Rising, Hearing!Ahead
  <2>5. CASE r4' = r4 /\ r1' = "full" /\ r3' = <<chunk>>
    <3>1. \A s \in {r9, r4, <<chunk>>} : \A i \in DOMAIN s : s[i].n <= r2 + 1
      BY <2>2, <2>3, <1>0
    <3>2. \A s \in {r9, r4} : \A i \in DOMAIN s : s[i].n < r2 + 1
      BY <1>0
    <3>. QED BY <3>1, <3>2, <2>1, <2>2, <2>3, <2>5, <1>0 DEF Hearing!LineInv, Hearing!Rising, Hearing!Ahead
  <2>. QED BY <2>1, <2>4, <2>5
<1>6. CASE Hearing!DropsOldest
  <2>1. /\ r2' = r2 /\ r9' = r9 /\ r5' = r5 /\ r3' = <<>> /\ r1' = "open" /\ r1 = "full"
        /\ r4' = IF r4 = <<>> THEN r3 ELSE Tail(r4) \o r3
    BY <1>6 DEF Hearing!DropsOldest
  <2>2. r5 # "off"
    BY <2>1 DEF Hearing!LineInv
  <2>3. CASE r4 = <<>>
    BY <2>1, <2>2, <2>3, <1>0 DEF Hearing!LineInv, Hearing!Rising, Hearing!Ahead
  <2>4. CASE r4 # <<>>
    <3>. DEFINE t == Tail(r4)
                u == t \o r3
    <3>1. /\ t \in Seq(Hearing!Sounds)
          /\ \A i \in DOMAIN t : i \in Nat /\ i + 1 \in DOMAIN r4 /\ t[i] = r4[i + 1]
      BY <2>4, <1>0, Tailed
    <3>2. /\ u \in Seq(Hearing!Sounds)
          /\ \A i \in DOMAIN u : \/ i \in DOMAIN t /\ u[i] = t[i]
                                 \/ i > Len(t) /\ i - Len(t) \in DOMAIN r3 /\ u[i] = r3[i - Len(t)]
          /\ DOMAIN t = 1 .. Len(t) /\ Len(t) \in Nat /\ DOMAIN u \subseteq Nat /\ DOMAIN r3 \subseteq Nat
      <4>1. /\ u \in Seq(Hearing!Sounds) /\ Len(u) = Len(t) + Len(r3)
            /\ \A i \in 1 .. Len(t) + Len(r3) : u[i] = IF i <= Len(t) THEN t[i] ELSE r3[i - Len(t)]
        BY <3>1, <1>0, ConcatProperties
      <4>2. /\ DOMAIN u = 1 .. Len(u) /\ DOMAIN t = 1 .. Len(t) /\ DOMAIN r3 = 1 .. Len(r3)
            /\ Len(t) \in Nat /\ Len(r3) \in Nat
        BY <3>1, <4>1, <1>0, LenProperties
      <4>. QED BY <4>1, <4>2
    <3>3. r4' = u
      BY <2>1, <2>4
    <3>. HIDE DEF t, u
    <3>4. /\ Hearing!Rising(t) /\ Hearing!Ahead(t, r3) /\ Hearing!Ahead(r9, t)
          /\ \A i \in DOMAIN t : t[i].n <= r2
      <4>1. \A i, j \in DOMAIN t : i < j => i + 1 < j + 1
        BY <3>2
      <4>. QED BY <3>1, <4>1, <1>0 DEF Hearing!LineInv, Hearing!Rising, Hearing!Ahead
    <3>5. Hearing!Rising(u)
      <4>. SUFFICES ASSUME NEW i \in DOMAIN u, NEW j \in DOMAIN u, i < j PROVE u[i].n < u[j].n
        BY DEF Hearing!Rising
      <4>1. CASE i \in DOMAIN t /\ u[i] = t[i]
        BY <4>1, <3>2, <3>4 DEF Hearing!Rising, Hearing!Ahead
      <4>2. CASE i > Len(t) /\ i - Len(t) \in DOMAIN r3 /\ u[i] = r3[i - Len(t)]
        <5>1. j \notin DOMAIN t /\ i - Len(t) < j - Len(t)
          BY <4>2, <3>2
        <5>2. j - Len(t) \in DOMAIN r3 /\ u[j] = r3[j - Len(t)]
          BY <5>1, <3>2
        <5>. QED BY <4>2, <5>1, <5>2 DEF Hearing!Rising, Hearing!LineInv
      <4>. QED BY <4>1, <4>2, <3>2
    <3>6. Hearing!Ahead(r9, u)
      <4>. SUFFICES ASSUME NEW i \in DOMAIN r9, NEW j \in DOMAIN u PROVE r9[i].n < u[j].n
        BY DEF Hearing!Ahead
      <4>. QED BY <3>2, <3>4 DEF Hearing!Ahead, Hearing!LineInv
    <3>7. \A i \in DOMAIN u : u[i].n <= r2
      BY <3>2, <3>4, <1>0
    <3>8. \A s \in {r9, u, <<>>} : \A i \in DOMAIN s : s[i].n <= r2
      BY <3>7, <1>0
    <3>9. Hearing!Rising(<<>>) /\ Hearing!Ahead(r9, <<>>) /\ Hearing!Ahead(u, <<>>) /\ Hearing!Rising(r9)
      BY <1>0 DEF Hearing!Rising, Hearing!Ahead, Hearing!LineInv
    <3>10. {r9, u, <<>>} \subseteq Seq(Hearing!Sounds)
      BY <3>2, <1>0
    <3>. QED
      BY <3>3, <3>5, <3>6, <3>8, <3>9, <3>10, <2>1, <2>2, <1>0 DEF Hearing!LineInv, Hearing!Rising, Hearing!Ahead
  <2>. QED BY <2>3, <2>4
<1>7. CASE Hearing!TakesChunk
  <2>1. /\ r4 # <<>> /\ r4' = Tail(r4) /\ r9' = Append(r9, Head(r4)) /\ r5' = "submit"
        /\ r1' = r1 /\ r2' = r2 /\ r3' = r3
    BY <1>7 DEF Hearing!TakesChunk
  <2>2. /\ Head(r4) \in Hearing!Sounds /\ Head(r4) = r4[1] /\ 1 \in DOMAIN r4 /\ Tail(r4) \in Seq(Hearing!Sounds)
        /\ \A i \in DOMAIN Tail(r4) : i \in Nat /\ i + 1 \in DOMAIN r4 /\ i + 1 > 1 /\ Tail(r4)[i] = r4[i + 1]
    BY <2>1, <1>0, Tailed
  <2>3. /\ r9' \in Seq(Hearing!Sounds)
        /\ \A i \in DOMAIN r9 : i \in 1 .. Len(r9) /\ r9'[i] = r9[i]
        /\ r9'[Len(r9) + 1] = r4[1]
        /\ \A i \in DOMAIN r9' : i \in DOMAIN r9 \/ i = Len(r9) + 1
    BY <2>1, <2>2, <1>0, Appended
  <2>4. DOMAIN r9 \subseteq Nat /\ Len(r9) \in Nat
    BY <1>0, LenProperties
  <2>5. Hearing!Rising(r4') /\ Hearing!Ahead(r4', r3)
    <3>1. \A i, j \in DOMAIN Tail(r4) : i < j => i + 1 < j + 1
      BY <2>2
    <3>. QED BY <3>1, <2>1, <2>2, <1>0 DEF Hearing!Rising, Hearing!Ahead, Hearing!LineInv
  <2>6. Hearing!Rising(r9')
    <3>. SUFFICES ASSUME NEW i \in DOMAIN r9', NEW j \in DOMAIN r9', i < j PROVE r9'[i].n < r9'[j].n
      BY DEF Hearing!Rising
    <3>1. i \in DOMAIN r9
      BY <2>3, <2>4
    <3>2. CASE j \in DOMAIN r9
      BY <3>1, <3>2, <2>3 DEF Hearing!Rising, Hearing!LineInv
    <3>3. CASE j = Len(r9) + 1
      BY <3>1, <3>3, <2>2, <2>3 DEF Hearing!Ahead, Hearing!LineInv
    <3>. QED BY <3>2, <3>3, <2>3
  <2>7. Hearing!Ahead(r9', r4')
    <3>. SUFFICES ASSUME NEW i \in DOMAIN r9', NEW j \in DOMAIN Tail(r4) PROVE r9'[i].n < Tail(r4)[j].n
      BY <2>1 DEF Hearing!Ahead
    <3>1. Tail(r4)[j] = r4[j + 1] /\ j + 1 \in DOMAIN r4 /\ 1 < j + 1
      BY <2>2
    <3>2. CASE i \in DOMAIN r9
      BY <3>1, <3>2, <2>3 DEF Hearing!Ahead, Hearing!LineInv
    <3>3. CASE i = Len(r9) + 1
      BY <3>1, <3>3, <2>2, <2>3 DEF Hearing!Rising, Hearing!LineInv
    <3>. QED BY <3>2, <3>3, <2>3
  <2>8. Hearing!Ahead(r9', r3)
    <3>. SUFFICES ASSUME NEW i \in DOMAIN r9', NEW j \in DOMAIN r3 PROVE r9'[i].n < r3[j].n
      BY DEF Hearing!Ahead
    <3>. QED BY <2>2, <2>3 DEF Hearing!Ahead, Hearing!LineInv
  <2>9. /\ \A i \in DOMAIN r9' : r9'[i].n <= r2
        /\ \A i \in DOMAIN r4' : r4'[i].n <= r2
    BY <2>1, <2>2, <2>3, <1>0
  <2>10. \A s \in {r9', r4', r3} : \A i \in DOMAIN s : s[i].n <= r2
    BY <2>9, <1>0
  <2>. QED BY <2>1, <2>2, <2>3, <2>5, <2>6, <2>7, <2>8, <2>10, <1>0 DEF Hearing!LineInv
<1>. QED
  BY <1>1, <1>2, <1>3, <1>4, <1>5, <1>6, <1>7
  DEF Hearing!Next, Hearing!vars, Hearing!CaptureLoop, Hearing!Submits, Hearing!DrainsEvents, Hearing!EndsTurn,
      Hearing!Abandons, Hearing!Finalizes, Hearing!StopsWaiting, Hearing!TranscribesAll, Hearing!Transcribes,
      Hearing!Emits, Hearing!LineInv


\* The length of the buffer after a chunk, with the cap m, of n chunks.
LEMMA Capped ==
  ASSUME NEW n \in Nat \ {0}, NEW m \in Nat \ {0}, NEW b \in Nat, b = (IF n - 1 > m THEN m ELSE n - 1)
  PROVE  /\ b + 1 > m => b = (IF n > m THEN m ELSE n)
         /\ ~(b + 1 > m) => b + 1 = (IF n > m THEN m ELSE n)
OBVIOUS

\* The transcriber keeps the end of the turn.
LEMMA KeptKeeps ==
  ASSUME Hearing!LineInv, Hearing!KeptInv, [Hearing!Next]_(Hearing!vars)
  PROVE  Hearing!KeptInv'
<1>. USE DEF Hearing!micVars, Hearing!loopVars, Hearing!sttVars, Hearing!workVars
<1>. DEFINE Heard == Len(r9) - (IF r5 = "submit" THEN 1 ELSE 0)
            Kept(b, t, h) == /\ Len(b) = (IF h > MaxBuffer THEN MaxBuffer ELSE h)
                             /\ \A i \in DOMAIN b : b[i] = t[i + h - Len(b)]
<1>0. /\ r13 \in Seq(Hearing!Sounds) /\ r9 \in Seq(Hearing!Sounds) /\ r4 \in Seq(Hearing!Sounds)
      /\ Len(r9) \in Nat /\ Len(r13) \in Nat /\ DOMAIN r13 = 1 .. Len(r13) /\ DOMAIN r9 = 1 .. Len(r9)
      /\ MaxBuffer \in Nat \ {0}
  <2>1. r13 \in Seq(Hearing!Sounds) /\ r9 \in Seq(Hearing!Sounds) /\ r4 \in Seq(Hearing!Sounds)
    BY DEF Hearing!LineInv, Hearing!KeptInv
  <2>2. MaxBuffer \in Nat \ {0}
    BY Assumptions DEF Assumptions, Hearing!ListeningAssumption
  <2>. QED BY <2>1, <2>2, LenProperties
<1>1. ASSUME r13' = r13, r9' = r9, r5' = r5 \/ r5' \in {"off", "ready"} \/ (r5 \notin {"off", "ready", "submit"} /\ r5' # "submit")
      PROVE  Hearing!KeptInv'
  BY <1>1 DEF Hearing!KeptInv
<1>2. CASE Hearing!BeginsTurn
  <2>1. r13' = <<>> /\ r9' = <<>> /\ r5' = "capture"
    BY <1>2 DEF Hearing!BeginsTurn
  <2>2. <<>> \in Seq(Hearing!Sounds) /\ Len(<<>>) = 0 /\ DOMAIN <<>> = {}
    OBVIOUS
  <2>3. 0 = (IF 0 > MaxBuffer THEN MaxBuffer ELSE 0)
    BY <1>0
  <2>. QED BY <2>1, <2>2, <2>3 DEF Hearing!KeptInv
<1>3. CASE Hearing!TakesChunk
  <2>1. /\ r5 = "capture" /\ r5' = "submit" /\ r13' = r13 /\ r4 # <<>> /\ r9' = Append(r9, Head(r4))
    BY <1>3 DEF Hearing!TakesChunk
  <2>2. Head(r4) \in Hearing!Sounds
    BY <2>1, <1>0, Tailed
  <2>3. /\ r9' \in Seq(Hearing!Sounds) /\ Len(r9') = Len(r9) + 1
        /\ \A i \in DOMAIN r9 : i \in 1 .. Len(r9) /\ r9'[i] = r9[i]
    BY <2>1, <2>2, <1>0, Appended
  <2>4. r9' # <<>>
    BY <2>3, <1>0
  <2>5. Kept(r13, r9, Len(r9))
    BY <2>1 DEF Hearing!KeptInv
  <2>6. Kept(r13, r9', Len(r9))
    <3>1. \A i \in DOMAIN r13 : i + Len(r9) - Len(r13) \in DOMAIN r9
      BY <2>5, <1>0
    <3>. QED BY <3>1, <2>3, <2>5
  <2>. QED BY <2>1, <2>3, <2>4, <2>6, <1>0 DEF Hearing!KeptInv
<1>4. CASE Hearing!Submits
  <2>. DEFINE last == Hearing!Last(r9)
              all == Append(r13, last)
  <2>1. /\ r5 = "submit" /\ r5' = "drain" /\ r9' = r9
        /\ r13' = IF Len(all) > MaxBuffer THEN Tail(all) ELSE all
    BY <1>4 DEF Hearing!Submits
  <2>2. /\ r9 # <<>> /\ Kept(r13, r9, Len(r9) - 1)
    BY <2>1 DEF Hearing!KeptInv
  <2>3. /\ Len(r9) \in Nat \ {0} /\ last = r9[Len(r9)] /\ last \in Hearing!Sounds
    <3>1. Len(r9) \in Nat \ {0}
      BY <2>2, <1>0, EmptySeq
    <3>2. Len(r9) \in 1 .. Len(r9)
      BY <3>1
    <3>. QED BY <3>1, <3>2, <1>0, ElementOfSeq DEF Hearing!Last
  <2>. HIDE DEF last
  <2>4. /\ all \in Seq(Hearing!Sounds) /\ Len(all) = Len(r13) + 1 /\ DOMAIN all = 1 .. Len(r13) + 1
        /\ \A i \in DOMAIN r13 : all[i] = r13[i]
        /\ all[Len(r13) + 1] = last
    BY <2>3, <1>0, Appended
  <2>. HIDE DEF all
  <2>5. \A i \in 1 .. Len(all) : all[i] = r9[i + Len(r9) - Len(all)]
    <3>. SUFFICES ASSUME NEW i \in 1 .. Len(all) PROVE all[i] = r9[i + Len(r9) - Len(all)]
      OBVIOUS
    <3>1. CASE i = Len(r13) + 1
      BY <3>1, <2>3, <2>4, <1>0
    <3>2. CASE i # Len(r13) + 1
      <4>1. i \in DOMAIN r13 /\ all[i] = r13[i]
        BY <3>2, <2>4, <1>0
      <4>2. i + (Len(r9) - 1) - Len(r13) = i + Len(r9) - Len(all)
        BY <2>4, <1>0
      <4>. QED BY <4>1, <4>2, <2>2
    <3>. QED BY <3>1, <3>2
  <2>8. ASSUME r13' \in Seq(Hearing!Sounds), Kept(r13', r9, Len(r9))
        PROVE  Hearing!KeptInv'
    <3>1. Len(r9') - 0 = Len(r9)
      BY <2>1, <1>0
    <3>. QED BY <3>1, <2>1, <2>8 DEF Hearing!KeptInv
  <2>6. CASE Len(all) > MaxBuffer
    <3>1. r13' = Tail(all) /\ all # <<>>
      BY <2>1, <2>4, <2>6, <1>0
    <3>2. /\ Tail(all) \in Seq(Hearing!Sounds) /\ Len(Tail(all)) = Len(all) - 1
          /\ \A i \in DOMAIN Tail(all) : i \in Nat /\ i + 1 \in DOMAIN all /\ Tail(all)[i] = all[i + 1]
      BY <3>1, <2>4, Tailed
    <3>3. \A i \in DOMAIN Tail(all) : Tail(all)[i] = r9[i + Len(r9) - Len(Tail(all))]
      <4>. SUFFICES ASSUME NEW i \in DOMAIN Tail(all) PROVE Tail(all)[i] = r9[i + Len(r9) - Len(Tail(all))]
        OBVIOUS
      <4>1. i \in Nat /\ i + 1 \in 1 .. Len(all) /\ Tail(all)[i] = all[i + 1]
        BY <3>2, <2>4
      <4>2. (i + 1) + Len(r9) - Len(all) = i + Len(r9) - Len(Tail(all))
        <5>1. \A a, b, c \in Int : (a + 1) + b - c = a + b - (c - 1)
          OBVIOUS
        <5>2. i \in Int /\ Len(r9) \in Int /\ Len(all) \in Int /\ Len(Tail(all)) = Len(all) - 1
          BY <4>1, <3>2, <2>4, <1>0
        <5>3. (i + 1) + Len(r9) - Len(all) = i + Len(r9) - (Len(all) - 1)
          BY <5>1, <5>2
        <5>. QED BY <5>2, <5>3
      <4>. QED BY <4>1, <4>2, <2>5
    <3>4. Len(Tail(all)) = (IF Len(r9) > MaxBuffer THEN MaxBuffer ELSE Len(r9))
      <4>1. Len(Tail(all)) = Len(r13) /\ Len(r13) + 1 > MaxBuffer
        BY <3>2, <2>4, <2>6, <1>0
      <4>2. Len(r13) = (IF Len(r9) - 1 > MaxBuffer THEN MaxBuffer ELSE Len(r9) - 1)
        BY <2>2
      <4>. QED BY <4>1, <4>2, <2>3, <1>0, Capped
    <3>5. r13' \in Seq(Hearing!Sounds) /\ Kept(r13', r9, Len(r9))
      BY <3>1, <3>2, <3>3, <3>4
    <3>. QED BY <3>5, <2>8
  <2>7. CASE ~(Len(all) > MaxBuffer)
    <3>1. r13' = all
      BY <2>1, <2>7
    <3>2. Len(all) = (IF Len(r9) > MaxBuffer THEN MaxBuffer ELSE Len(r9))
      <4>1. Len(all) = Len(r13) + 1 /\ ~(Len(r13) + 1 > MaxBuffer)
        BY <2>4, <2>7
      <4>2. Len(r13) = (IF Len(r9) - 1 > MaxBuffer THEN MaxBuffer ELSE Len(r9) - 1)
        BY <2>2
      <4>. QED BY <4>1, <4>2, <2>3, <1>0, Capped
    <3>3. \A i \in DOMAIN all : i \in 1 .. Len(all)
      BY <2>4
    <3>4. r13' \in Seq(Hearing!Sounds) /\ Kept(r13', r9, Len(r9))
      BY <3>1, <3>2, <3>3, <2>4, <2>5
    <3>. QED BY <3>4, <2>8
  <2>. QED BY <2>6, <2>7
<1>5. CASE Hearing!TranscribesAll
  <2>1. r13' = <<>> /\ r5' = "ready"
    BY <1>5 DEF Hearing!TranscribesAll
  <2>. QED BY <2>1 DEF Hearing!KeptInv
<1>. QED
  BY <1>1, <1>2, <1>3, <1>4, <1>5
  DEF Hearing!Next, Hearing!vars, Hearing!CaptureLoop, Hearing!DrainsEvents, Hearing!EndsTurn,
      Hearing!Abandons, Hearing!Finalizes, Hearing!StopsWaiting, Hearing!Transcribes,
      Hearing!Emits, Hearing!OpensMicrophone, Hearing!ClosesMicrophone, Hearing!Records, Hearing!DropsOldest


\* The text of some audio has numbers of it only.
LEMMA TextIsOfIt ==
  ASSUME NEW s \in Seq(Hearing!Sounds)
  PROVE  Hearing!Text(s) \subseteq Hearing!Numbers(s) /\ Hearing!Numbers(s) \subseteq Nat
<1>1. \A i \in DOMAIN s : s[i] \in Hearing!Sounds
  BY LenProperties, ElementOfSeq
<1>2. \A c \in Hearing!Sounds : c.n \in Nat
  BY DEF Hearing!Sounds
<1>. QED BY <1>1, <1>2 DEF Hearing!Text, Hearing!Numbers

\* No job, no event and no transcript has words of another turn.
LEMMA WordsKeep ==
  ASSUME Hearing!LineInv, Hearing!KeptInv, Hearing!WordsInv, [Hearing!Next]_(Hearing!vars)
  PROVE  Hearing!WordsInv'
<1>. USE DEF Hearing!micVars, Hearing!loopVars, Hearing!sttVars, Hearing!workVars
<1>. DEFINE Event == [text : SUBSET Nat, final : BOOLEAN, turn : Nat]
            Job == [audio : Seq(Hearing!Sounds), turn : Nat]
            Work == [at : {"transcribe", "append"}, text : SUBSET Nat]
            N == Hearing!Numbers(r9)
<1>0. /\ r6 \in Nat /\ r12 \in BOOLEAN /\ r14 \in Seq(Event) /\ r17 \in Seq(Job) /\ r18 \in Work
      /\ r9 \in Seq(Hearing!Sounds) /\ r13 \in Seq(Hearing!Sounds) /\ r4 \in Seq(Hearing!Sounds)
      /\ DOMAIN r14 = 1 .. Len(r14) /\ Len(r14) \in Nat /\ DOMAIN r17 = 1 .. Len(r17) /\ Len(r17) \in Nat
      /\ DOMAIN r9 = 1 .. Len(r9) /\ Len(r9) \in Nat /\ DOMAIN r13 = 1 .. Len(r13)
  <2>1. r6 \in Nat /\ r12 \in BOOLEAN /\ r14 \in Seq(Event) /\ r17 \in Seq(Job) /\ r18 \in Work
    BY DEF Hearing!WordsInv
  <2>2. r9 \in Seq(Hearing!Sounds) /\ r13 \in Seq(Hearing!Sounds) /\ r4 \in Seq(Hearing!Sounds)
    BY DEF Hearing!LineInv, Hearing!KeptInv
  <2>. QED BY <2>1, <2>2, LenProperties
<1>00. <<>> \in Seq(Event) /\ DOMAIN <<>> = {} /\ <<>> \in Seq(Job)
  OBVIOUS
<1>. HIDE DEF Event, Job, Work
<1>1. ASSUME UNCHANGED <<r6, r12, r14, r17, r18, r9, r10, r11, r15>>,
             r5' \in {"wait", "final"} => ~r12, r5 \in {"off", "ready"} => r5' \in {"off", "ready"}
      PROVE  Hearing!WordsInv'
  BY <1>1 DEF Hearing!WordsInv
<1>2. CASE Hearing!BeginsTurn
  <2>1. /\ r6' = r6 + 1 /\ r5' = "capture" /\ r12' = TRUE /\ r14' = <<>> /\ r15' = {} /\ r9' = <<>>
        /\ r10' = {} /\ r11' = {} /\ r17' = r17 /\ r18' = r18
    BY <1>2 DEF Hearing!BeginsTurn
  <2>2. \A i \in DOMAIN r17 : r17[i].turn \in Nat
    <3>1. \A i \in DOMAIN r17 : r17[i] \in Job
      BY <1>0, ElementOfSeq
    <3>. QED BY <3>1 DEF Job
  <2>3. \A i \in DOMAIN r17 : r17[i].turn <= r6 + 1 /\ r17[i].turn # r6 + 1
    BY <2>2, <1>0 DEF Hearing!WordsInv
  <2>. QED BY <2>1, <2>3, <1>0, <1>00 DEF Hearing!WordsInv, Event, Job, Work
<1>3. CASE Hearing!TakesChunk
  <2>1. /\ r5 = "capture" /\ r5' = "submit" /\ r4 # <<>> /\ r9' = Append(r9, Head(r4))
        /\ UNCHANGED <<r6, r12, r14, r17, r18, r10, r11, r15>>
    BY <1>3 DEF Hearing!TakesChunk
  <2>2. Hearing!Numbers(r9) \subseteq Hearing!Numbers(r9')
    <3>1. Head(r4) \in Hearing!Sounds
      BY <2>1, <1>0, Tailed
    <3>2. \A i \in DOMAIN r9 : i \in DOMAIN r9' /\ r9'[i] = r9[i]
      BY <2>1, <3>1, <1>0, Appended
    <3>. QED BY <3>2 DEF Hearing!Numbers
  <2>. QED BY <2>1, <2>2 DEF Hearing!WordsInv
<1>4. CASE Hearing!Submits
  <2>. DEFINE job == [audio |-> r13', turn |-> r6]
  <2>1. /\ r5 = "submit" /\ r5' = "drain" /\ UNCHANGED <<r6, r12, r14, r18, r9, r10, r11, r15>>
        /\ r17' = Append(r17, job) \/ r17' = r17
    BY <1>4 DEF Hearing!Submits
  <2>2. CASE r17' = r17
    BY <2>1, <2>2, <1>1
  <2>3. CASE r17' = Append(r17, job)
    <3>1. Hearing!KeptInv'
      BY KeptKeeps
    <3>2. /\ r13' \in Seq(Hearing!Sounds) /\ DOMAIN r13' = 1 .. Len(r13') /\ Len(r13') \in Nat
          /\ Len(r13') <= Len(r9) /\ \A i \in DOMAIN r13' : r13'[i] = r9[i + Len(r9) - Len(r13')]
      <4>1. /\ r13' \in Seq(Hearing!Sounds) /\ Len(r13') = (IF Len(r9) - 0 > MaxBuffer THEN MaxBuffer ELSE Len(r9) - 0)
            /\ \A i \in DOMAIN r13' : r13'[i] = r9[i + (Len(r9) - 0) - Len(r13')]
        BY <2>1, <3>1 DEF Hearing!KeptInv
      <4>2. MaxBuffer \in Nat
        BY Assumptions DEF Assumptions, Hearing!ListeningAssumption
      <4>3. Len(r9) - 0 = Len(r9)
        BY <1>0
      <4>4. DOMAIN r13' = 1 .. Len(r13') /\ Len(r13') \in Nat
        BY <4>1, LenProperties
      <4>5. Len(r13') <= Len(r9)
        BY <4>1, <4>2, <4>3, <1>0
      <4>. QED BY <4>1, <4>3, <4>4, <4>5
    <3>3. Hearing!Numbers(r13') \subseteq N
      <4>1. \A i \in DOMAIN r13' : i + Len(r9) - Len(r13') \in DOMAIN r9
        BY <3>2, <1>0
      <4>. QED BY <4>1, <3>2 DEF Hearing!Numbers
    <3>4. job \in Job /\ job.audio = r13' /\ job.turn = r6
      BY <3>2, <1>0 DEF Job
    <3>. HIDE DEF job
    <3>5. /\ r17' \in Seq(Job) /\ Len(r17') = Len(r17) + 1
          /\ \A i \in DOMAIN r17 : i \in 1 .. Len(r17) /\ r17'[i] = r17[i]
          /\ r17'[Len(r17) + 1] = job
          /\ \A i \in DOMAIN r17' : i \in DOMAIN r17 \/ i = Len(r17) + 1
      BY <2>3, <3>4, <1>0, Appended
    <3>6. \A i \in DOMAIN r17' : /\ r17'[i].turn <= r6
                                 /\ r17'[i].turn = r6 => Hearing!Numbers(r17'[i].audio) \subseteq N
      <4>. SUFFICES ASSUME NEW i \in DOMAIN r17'
                    PROVE  /\ r17'[i].turn <= r6
                           /\ r17'[i].turn = r6 => Hearing!Numbers(r17'[i].audio) \subseteq N
        OBVIOUS
      <4>1. CASE i \in DOMAIN r17
        <5>1. r17'[i] = r17[i]
          BY <4>1, <3>5
        <5>. QED BY <4>1, <5>1 DEF Hearing!WordsInv
      <4>2. CASE i = Len(r17) + 1
        <5>1. r17'[i].turn = r6 /\ r17'[i].audio = r13'
          BY <4>2, <3>4, <3>5
        <5>2. r6 <= r6
          BY <1>0
        <5>. QED BY <5>1, <5>2, <3>3
      <4>. QED BY <4>1, <4>2, <3>5
    <3>7. ASSUME r18.at = "append"
          PROVE  r17' # <<>> /\ r18.text \subseteq Hearing!Numbers(Head(r17').audio)
      <4>1. r17 # <<>> /\ r18.text \subseteq Hearing!Numbers(Head(r17).audio)
        BY <3>7 DEF Hearing!WordsInv
      <4>2. Head(r17) = r17[1] /\ 1 \in DOMAIN r17
        BY <4>1, <1>0, Tailed
      <4>3. r17' # <<>>
        BY <3>5, <1>0
      <4>4. Head(r17') = r17'[1]
        BY <4>3, <3>5, Tailed
      <4>. QED BY <4>1, <4>2, <4>3, <4>4, <3>5
    <3>. QED BY <2>1, <3>5, <3>6, <3>7, <1>0 DEF Hearing!WordsInv, Job
  <2>. QED BY <2>1, <2>2, <2>3
<1>5. CASE Hearing!DrainsEvents
  <2>1. /\ r5 = "drain" /\ r5' = "capture" /\ r14' = <<>>
        /\ r10' = IF r14 = <<>> THEN r10 ELSE Hearing!Last(r14).text
        /\ UNCHANGED <<r6, r12, r17, r18, r9, r11, r15>>
    BY <1>5 DEF Hearing!DrainsEvents
  <2>2. r10' \subseteq N
    <3>1. CASE r14 = <<>>
      BY <2>1, <3>1 DEF Hearing!WordsInv
    <3>2. CASE r14 # <<>>
      <4>1. Len(r14) \in DOMAIN r14
        BY <3>2, <1>0, EmptySeq
      <4>. QED BY <2>1, <3>2, <4>1 DEF Hearing!WordsInv, Hearing!Last
    <3>. QED BY <3>1, <3>2
  <2>. QED BY <2>1, <2>2, <1>0, <1>00 DEF Hearing!WordsInv, Event, Job, Work
<1>6. CASE Hearing!Finalizes
  <2>1. /\ r5 = "finalize" /\ r5' = "wait" /\ r12' = FALSE
        /\ UNCHANGED <<r6, r14, r17, r18, r9, r10, r11, r15>>
    BY <1>6 DEF Hearing!Finalizes
  <2>. QED BY <2>1 DEF Hearing!WordsInv
<1>7. CASE Hearing!TranscribesAll
  <2>1. /\ r5 = "final" /\ r5' = "ready" /\ UNCHANGED <<r6, r12, r17, r18, r9, r10, r15>>
        /\ \E text \in {Hearing!Text(r13), {}} :
             /\ r14' = Append(r14, [text |-> text, final |-> TRUE, turn |-> r6])
             /\ r11' = IF r8 THEN text ELSE {}
    BY <1>7 DEF Hearing!TranscribesAll
  <2>2. PICK text \in {Hearing!Text(r13), {}} :
             /\ r14' = Append(r14, [text |-> text, final |-> TRUE, turn |-> r6])
             /\ r11' = IF r8 THEN text ELSE {}
    BY <2>1
  <2>3. text \subseteq N /\ text \subseteq Nat
    <3>1. Hearing!Numbers(r13) \subseteq N
      <4>1. /\ Len(r13) = (IF Len(r9) - 0 > MaxBuffer THEN MaxBuffer ELSE Len(r9) - 0)
            /\ \A i \in DOMAIN r13 : r13[i] = r9[i + (Len(r9) - 0) - Len(r13)]
        BY <2>1 DEF Hearing!KeptInv
      <4>2. MaxBuffer \in Nat /\ Len(r9) - 0 = Len(r9)
        BY <1>0, Assumptions DEF Assumptions, Hearing!ListeningAssumption
      <4>3. Len(r13) <= Len(r9) /\ Len(r13) \in Nat
        BY <4>1, <4>2, <1>0
      <4>4. \A i \in DOMAIN r13 : i + Len(r9) - Len(r13) \in DOMAIN r9
        BY <4>3, <1>0
      <4>. QED BY <4>1, <4>2, <4>4 DEF Hearing!Numbers
    <3>. QED BY <3>1, <1>0, TextIsOfIt
  <2>. DEFINE event == [text |-> text, final |-> TRUE, turn |-> r6]
  <2>4. event \in Event /\ event.text = text /\ event.turn = r6
    BY <2>3, <1>0 DEF Event
  <2>5. r14' = Append(r14, event)
    BY <2>2
  <2>. HIDE DEF event
  <2>6. /\ r14' \in Seq(Event) /\ Len(r14') = Len(r14) + 1
        /\ \A i \in DOMAIN r14 : r14'[i] = r14[i]
        /\ r14'[Len(r14) + 1] = event
        /\ \A i \in DOMAIN r14' : i \in DOMAIN r14 \/ i = Len(r14) + 1
    BY <2>4, <2>5, <1>0, Appended
  <2>7. \A i \in DOMAIN r14 : r14[i].turn = r6 /\ r14[i].text \subseteq N /\ ~r14[i].final
    BY <2>1 DEF Hearing!WordsInv
  <2>8. r12 = FALSE
    BY <2>1, <1>0 DEF Hearing!WordsInv
  <2>9. \A i \in DOMAIN r14' : /\ r14'[i].turn = r6 /\ r14'[i].text \subseteq N
                               /\ r14'[i].final => i = Len(r14')
    <3>. SUFFICES ASSUME NEW i \in DOMAIN r14'
                  PROVE  /\ r14'[i].turn = r6 /\ r14'[i].text \subseteq N
                         /\ r14'[i].final => i = Len(r14')
      OBVIOUS
    <3>1. CASE i \in DOMAIN r14
      <4>1. r14'[i] = r14[i]
        BY <3>1, <2>6
      <4>. QED BY <3>1, <4>1, <2>7
    <3>2. CASE i = Len(r14) + 1
      BY <3>2, <2>3, <2>4, <2>6
    <3>. QED BY <3>1, <3>2, <2>6
  <2>10. r11' \subseteq N
    BY <2>2, <2>3
  <2>. QED BY <2>1, <2>6, <2>8, <2>9, <2>10 DEF Hearing!WordsInv, Event
<1>8. CASE Hearing!Transcribes
  <2>1. /\ r17 # <<>> /\ r18.at = "transcribe" /\ UNCHANGED <<r5, r6, r12, r14, r9, r10, r11, r15>>
        /\ \E text \in {Hearing!Text(Head(r17).audio), {}} :
             \/ r17' = Tail(r17) /\ r18' = r18
             \/ r18' = [at |-> "append", text |-> text] /\ r17' = r17
    BY <1>8 DEF Hearing!Transcribes
  <2>2. /\ Head(r17) \in Job /\ Head(r17) = r17[1] /\ 1 \in DOMAIN r17 /\ Tail(r17) \in Seq(Job)
        /\ \A i \in DOMAIN Tail(r17) : i + 1 \in DOMAIN r17 /\ Tail(r17)[i] = r17[i + 1]
    BY <2>1, <1>0, Tailed
  <2>3. CASE r17' = Tail(r17) /\ r18' = r18
    <3>1. \A i \in DOMAIN r17' : /\ r17'[i].turn <= r6
                                 /\ r17'[i].turn = r6 => Hearing!Numbers(r17'[i].audio) \subseteq N
      BY <2>2, <2>3 DEF Hearing!WordsInv
    <3>. QED BY <2>1, <2>2, <2>3, <3>1 DEF Hearing!WordsInv, Job
  <2>4. CASE \E text \in {Hearing!Text(Head(r17).audio), {}} :
               r18' = [at |-> "append", text |-> text] /\ r17' = r17
    <3>1. PICK text \in {Hearing!Text(Head(r17).audio), {}} :
               r18' = [at |-> "append", text |-> text] /\ r17' = r17
      BY <2>4
    <3>2. Head(r17).audio \in Seq(Hearing!Sounds)
      BY <2>2 DEF Job
    <3>3. text \subseteq Hearing!Numbers(Head(r17).audio) /\ text \subseteq Nat
      BY <3>1, <3>2, TextIsOfIt
    <3>4. r18' \in Work /\ r18'.text = text
      BY <3>1, <3>3 DEF Work
    <3>. QED BY <2>1, <3>1, <3>3, <3>4 DEF Hearing!WordsInv, Work
  <2>. QED BY <2>1, <2>3, <2>4
<1>9. CASE Hearing!Emits
  <2>. DEFINE event == [text |-> r18.text, final |-> FALSE, turn |-> Head(r17).turn]
  <2>1. /\ r18.at = "append" /\ r18' = Hearing!NoWork /\ r17' = Tail(r17)
        /\ UNCHANGED <<r5, r6, r12, r9, r10, r11>>
        /\ \/ /\ r12 /\ Head(r17).turn = r6
              /\ r14' = Append(r14, event) /\ r15' = r18.text
           \/ r14' = r14 /\ r15' = r15
    BY <1>9 DEF Hearing!Emits
  <2>2. r17 # <<>> /\ r18.text \subseteq Hearing!Numbers(Head(r17).audio)
    BY <2>1 DEF Hearing!WordsInv
  <2>3. /\ Head(r17) \in Job /\ Head(r17) = r17[1] /\ 1 \in DOMAIN r17 /\ Tail(r17) \in Seq(Job)
        /\ \A i \in DOMAIN Tail(r17) : i + 1 \in DOMAIN r17 /\ Tail(r17)[i] = r17[i + 1]
    BY <2>2, <1>0, Tailed
  <2>4. \A i \in DOMAIN r17' : /\ r17'[i].turn <= r6
                               /\ r17'[i].turn = r6 => Hearing!Numbers(r17'[i].audio) \subseteq N
    BY <2>1, <2>3 DEF Hearing!WordsInv
  <2>5. r18' \in Work /\ r18'.at = "transcribe"
    BY <2>1 DEF Hearing!NoWork, Work
  <2>6. CASE r14' = r14 /\ r15' = r15
    BY <2>1, <2>3, <2>4, <2>5, <2>6 DEF Hearing!WordsInv, Job, Work
  <2>7. CASE /\ r12 /\ Head(r17).turn = r6
             /\ r14' = Append(r14, event) /\ r15' = r18.text
    <3>1. r18.text \subseteq N
      BY <2>2, <2>3, <2>7 DEF Hearing!WordsInv
    <3>2. event \in Event /\ event.text = r18.text /\ event.turn = r6 /\ event.final = FALSE
      <4>1. r18.text \in SUBSET Nat
        BY <1>0 DEF Work
      <4>. QED BY <4>1, <2>7, <1>0 DEF Event
    <3>. HIDE DEF event
    <3>3. /\ r14' \in Seq(Event) /\ Len(r14') = Len(r14) + 1
          /\ \A i \in DOMAIN r14 : r14'[i] = r14[i]
          /\ r14'[Len(r14) + 1] = event
          /\ \A i \in DOMAIN r14' : i \in DOMAIN r14 \/ i = Len(r14) + 1
      BY <3>2, <2>7, <1>0, Appended
    <3>4. \A i \in DOMAIN r14 : r14[i].turn = r6 /\ r14[i].text \subseteq N /\ ~r14[i].final
      BY <2>7 DEF Hearing!WordsInv
    <3>5. \A i \in DOMAIN r14' : r14'[i].turn = r6 /\ r14'[i].text \subseteq N /\ ~r14'[i].final
      <4>. SUFFICES ASSUME NEW i \in DOMAIN r14'
                    PROVE  r14'[i].turn = r6 /\ r14'[i].text \subseteq N /\ ~r14'[i].final
        OBVIOUS
      <4>1. CASE i \in DOMAIN r14
        <5>1. r14'[i] = r14[i]
          BY <4>1, <3>3
        <5>. QED BY <4>1, <5>1, <3>4
      <4>2. CASE i = Len(r14) + 1
        BY <4>2, <3>1, <3>2, <3>3
      <4>. QED BY <4>1, <4>2, <3>3
    <3>. QED BY <2>1, <2>3, <2>4, <2>5, <2>7, <3>1, <3>3, <3>5 DEF Hearing!WordsInv, Event, Job, Work
  <2>. QED BY <2>1, <2>6, <2>7
<1>10. ASSUME UNCHANGED <<r6, r12, r14, r17, r18, r9, r10, r11, r15, r5>>
       PROVE  Hearing!WordsInv'
  BY <1>10 DEF Hearing!WordsInv
<1>11. CASE \/ Hearing!OpensMicrophone \/ Hearing!ClosesMicrophone \/ Hearing!EndsTurn
            \/ Hearing!Abandons \/ Hearing!StopsWaiting
  <2>1. r5 = "wait" => ~r12
    BY DEF Hearing!WordsInv
  <2>. QED
    BY <1>11, <1>1, <2>1 DEF Hearing!OpensMicrophone, Hearing!ClosesMicrophone, Hearing!EndsTurn,
       Hearing!Abandons, Hearing!StopsWaiting
<1>12. CASE \/ \E loud \in BOOLEAN : Hearing!Records(loud)
            \/ Hearing!DropsOldest \/ UNCHANGED Hearing!vars
  BY <1>12, <1>10 DEF Hearing!Records, Hearing!DropsOldest, Hearing!vars
<1>. QED
  BY <1>2, <1>3, <1>4, <1>5, <1>6, <1>7, <1>8, <1>9, <1>11, <1>12
  DEF Hearing!Next, Hearing!CaptureLoop


\* The final transcript hears the whole turn.
LEMMA FinalKeeps ==
  ASSUME Hearing!LineInv, Hearing!KeptInv, Hearing!WordsInv, Hearing!FinalIsWhole, [Hearing!Next]_(Hearing!vars)
  PROVE  Hearing!FinalIsWhole'
<1>. USE DEF Hearing!micVars, Hearing!loopVars, Hearing!sttVars, Hearing!workVars
<1>. DEFINE First == 1 + (IF Len(r9) > MaxBuffer THEN Len(r9) - MaxBuffer ELSE 0)
            Turn == SubSeq(r9, First, Len(r9))
<1>1. Hearing!LineInv' /\ Hearing!WordsInv'
  BY LineKeeps, WordsKeep
<1>2. Hearing!Rising(r9)' /\ \A i \in DOMAIN r14' : r14'[i].final => i = Len(r14')
  BY <1>1 DEF Hearing!LineInv, Hearing!WordsInv
<1>3. ASSUME r11' = {} \/ (r11' = r11 /\ r9' = r9)
      PROVE  Hearing!FinalIsWhole'
  BY <1>2, <1>3 DEF Hearing!FinalIsWhole
<1>4. CASE Hearing!TakesChunk
  <2>1. r5 = "capture" /\ r11' = r11
    BY <1>4 DEF Hearing!TakesChunk
  <2>2. r11 = {}
    BY <2>1 DEF Hearing!WordsInv
  <2>. QED BY <2>1, <2>2, <1>3
<1>5. CASE Hearing!TranscribesAll
  <2>1. r5 = "final" /\ r9' = r9 /\ r11' \in {Hearing!Text(r13), {}}
    BY <1>5 DEF Hearing!TranscribesAll
  <2>2. r13 = Turn
    <3>1. /\ r9 \in Seq(Hearing!Sounds) /\ r13 \in Seq(Hearing!Sounds)
          /\ MaxBuffer \in Nat \ {0}
      BY Assumptions DEF Assumptions, Hearing!ListeningAssumption, Hearing!LineInv, Hearing!KeptInv
    <3>2. Len(r9) \in Nat /\ Len(r13) \in Nat /\ DOMAIN r13 = 1 .. Len(r13) /\ DOMAIN r9 = 1 .. Len(r9)
      BY <3>1, LenProperties
    <3>3. /\ Len(r13) = (IF Len(r9) - 0 > MaxBuffer THEN MaxBuffer ELSE Len(r9) - 0)
          /\ \A i \in DOMAIN r13 : r13[i] = r9[i + (Len(r9) - 0) - Len(r13)]
      BY <2>1 DEF Hearing!KeptInv
    <3>4. First \in Int /\ First >= 1 /\ First = 1 + Len(r9) - Len(r13)
      BY <3>1, <3>2, <3>3
    <3>. HIDE DEF First
    <3>5. \A i \in First .. Len(r9) : r9[i] \in Hearing!Sounds
      BY <3>1, <3>2, <3>4, ElementOfSeq
    <3>6. /\ Turn \in Seq(Hearing!Sounds)
          /\ Len(Turn) = IF First <= Len(r9) THEN Len(r9) - First + 1 ELSE 0
          /\ \A i \in 1 .. Len(r9) - First + 1 : Turn[i] = r9[First + i - 1]
      BY <3>2, <3>4, <3>5, SubSeqProperties
    <3>. HIDE DEF Turn
    <3>7. Len(Turn) = Len(r13) /\ Len(r9) - First + 1 = Len(r13)
      BY <3>2, <3>4, <3>6
    <3>8. \A i \in 1 .. Len(r13) : r13[i] = Turn[i]
      <4>. SUFFICES ASSUME NEW i \in 1 .. Len(r13) PROVE r13[i] = Turn[i]
        OBVIOUS
      <4>1. First + i - 1 = i + (Len(r9) - 0) - Len(r13)
        BY <3>2, <3>4
      <4>. QED BY <4>1, <3>2, <3>3, <3>6, <3>7
    <3>. QED BY <3>1, <3>6, <3>7, <3>8, SeqEqual
  <2>. HIDE DEF Turn
  <2>3. r11' # {} => r11' = Hearing!Text(Turn)
    BY <2>1, <2>2
  <2>. QED BY <2>1, <2>3, <1>2 DEF Hearing!FinalIsWhole, Turn, First
<1>. QED
  BY <1>3, <1>4, <1>5
  DEF Hearing!Next, Hearing!vars, Hearing!CaptureLoop, Hearing!DrainsEvents, Hearing!EndsTurn,
      Hearing!Abandons, Hearing!Finalizes, Hearing!StopsWaiting, Hearing!Transcribes, Hearing!BeginsTurn, Hearing!Submits,
      Hearing!Emits, Hearing!OpensMicrophone, Hearing!ClosesMicrophone, Hearing!Records, Hearing!DropsOldest

\* Every step of the three threads keeps the invariant of Listening.
LEMMA ListenKeeps ==
  ASSUME Hearing!ListenInv, [Hearing!Next]_(Hearing!vars)
  PROVE  Hearing!ListenInv'
BY LineKeeps, KeptKeeps, WordsKeep, FinalKeeps DEF Hearing!ListenInv

\* It holds before the microphone is opened.
LEMMA InitListens ==
  ASSUME Hearing!Init
  PROVE  Hearing!ListenInv
<1>1. /\ r1 = "closed" /\ r2 = 0 /\ r3 = <<>> /\ r4 = <<>> /\ r5 = "off" /\ r6 = 0 /\ r9 = <<>>
      /\ r10 = {} /\ r11 = {} /\ r12 = FALSE /\ r13 = <<>> /\ r14 = <<>> /\ r15 = {} /\ r17 = <<>>
      /\ r18 = Hearing!NoWork
  BY DEF Hearing!Init
<1>2. DOMAIN <<>> = {} /\ \A S : <<>> \in Seq(S)
  OBVIOUS
<1>3. Hearing!LineInv
  BY <1>1, <1>2 DEF Hearing!LineInv, Hearing!Rising, Hearing!Ahead
<1>4. Hearing!KeptInv
  BY <1>1, <1>2 DEF Hearing!KeptInv
<1>5. Hearing!NoWork.at = "transcribe" /\ Hearing!NoWork \in [at : {"transcribe", "append"}, text : SUBSET Nat]
  BY DEF Hearing!NoWork
<1>6. Hearing!WordsInv
  BY <1>1, <1>2, <1>5 DEF Hearing!WordsInv
<1>7. Hearing!FinalIsWhole
  BY <1>1, <1>2 DEF Hearing!FinalIsWhole, Hearing!Rising
<1>. QED BY <1>3, <1>4, <1>6, <1>7 DEF Hearing!ListenInv

\* No transcription that outlives its turn reaches a later one, whatever the
\* worker, the loop and the callback do in between (StreamingTranscriber).
THEOREM ResultsAreOfTheirTurn == Spec => []NoStaleResult
<1>. DEFINE I == which = "listening" => Hearing!ListenInv
<1>1. Init => I
  BY InitListens DEF Init
<1>2. I /\ [Next]_vars => I'
  <2>. SUFFICES ASSUME I, [Next]_vars, which' = "listening" PROVE Hearing!ListenInv'
    OBVIOUS
  <2>1. which = "listening"
    BY DEF Next, vars
  <2>2. [Hearing!Next]_(Hearing!vars)
    BY <2>1 DEF Next, vars, Hearing!vars, Hearing!micVars, Hearing!loopVars, Hearing!sttVars, Hearing!workVars
  <2>. QED BY <2>1, <2>2, ListenKeeps
<1>3. I => NoStaleResult
  BY DEF Hearing!ListenInv, Hearing!WordsInv, Hearing!NoStaleResult, NoStaleResult
<1>. QED BY <1>1, <1>2, <1>3, PTL DEF Spec


\* The final transcript hears the turn up to the cap of the buffer, in the order
\* of the microphone, and is the last event (StreamingTranscriber.finalize).
THEOREM FinalsAreWhole == Spec => []FinalIsWhole
<1>. DEFINE I == which = "listening" => Hearing!ListenInv
<1>1. Init => I
  BY InitListens DEF Init
<1>2. I /\ [Next]_vars => I'
  <2>. SUFFICES ASSUME I, [Next]_vars, which' = "listening" PROVE Hearing!ListenInv'
    OBVIOUS
  <2>1. which = "listening"
    BY DEF Next, vars
  <2>2. [Hearing!Next]_(Hearing!vars)
    BY <2>1 DEF Next, vars, Hearing!vars, Hearing!micVars, Hearing!loopVars, Hearing!sttVars, Hearing!workVars
  <2>. QED BY <2>1, <2>2, ListenKeeps
<1>3. I => FinalIsWhole
  BY DEF Hearing!ListenInv, FinalIsWhole
<1>. QED BY <1>1, <1>2, <1>3, PTL DEF Spec


==============================================================================
