---------------------------- MODULE RecurseProofs ----------------------------
(***************************************************************************)
(* For every module that rustc could compile and either engine: what       *)
(* #[recurse] contracts by position is what decycle finds by the graph, no *)
(* circle of obligations is left, every derive is implemented once, no     *)
(* name is bound twice, and derive(Ast) is none the wiser.                 *)
(***************************************************************************)
EXTENDS Recurse, FiniteSetTheorems, SequenceTheorems, WellFoundedInduction, TLAPS

\* A set of naturals that has no least element is empty.
LEMMA NoLeastIsEmpty ==
    ASSUME NEW T, T \subseteq Nat, \A n \in T : \E m \in T : m < n
    PROVE  T = {}
<1> DEFINE R == {ss \in Nat \X Nat : ss[1] < ss[2]}
<1>1. IsWellFoundedOn(R, Nat)
  BY NatLessThanWellFounded DEF OpToRel
<1> HIDE DEF R
<1> SUFFICES ASSUME T # {} PROVE FALSE
  OBVIOUS
<1>2. PICK n \in T : \A m \in T : <<m, n>> \notin R
  BY <1>1, WFMin
<1>3. \A m \in T : ~(m < n)
  BY <1>2 DEF R
<1> QED
  BY <1>3

-----------------------------------------------------------------------------
(* Graphs: what Reaches computes in so many rounds is all that can be      *)
(* reached.                                                                *)

Sources(graph) == {e[1] : e \in graph}
Targets(graph) == {e[2] : e \in graph}
Round(graph, x, r, n) ==
    IF n = 0 THEN Onwards(graph, {x}) ELSE r[n - 1] \cup Onwards(graph, r[n - 1])
Rounds(graph, x) == CHOOSE r : r = [n \in Nat |-> Round(graph, x, r, n)]

LEMMA ReachesRounds ==
    ASSUME NEW graph, NEW x
    PROVE  Reaches(graph, x) = Rounds(graph, x)[Cardinality(Sources(graph))]
BY DEF Reaches, Rounds, Round, Sources

LEMMA OnwardsAre ==
    ASSUME NEW graph, NEW types
    PROVE  /\ Onwards(graph, types) \subseteq Targets(graph)
           /\ \A y : y \in Onwards(graph, types) <=> \E e \in graph : e[1] \in types /\ e[2] = y
BY DEF Onwards, Targets

\* The rounds are well defined: finitely many are, and they agree.
LEMMA RoundsAre ==
    ASSUME NEW graph, NEW x
    PROVE  \A n \in Nat : Rounds(graph, x)[n] = Round(graph, x, Rounds(graph, x), n)
<1> DEFINE Upto(f, n) == /\ f \in [0 .. n -> SUBSET Targets(graph)]
                         /\ \A i \in 0 .. n : f[i] = Round(graph, x, f, i)
           Missing == {n \in Nat : ~\E f : Upto(f, n)}
<1>1. Missing = {}
  <2>1. ASSUME NEW n \in Missing
        PROVE  \E m \in Missing : m < n
    <3>1. CASE n = 0
      <4> DEFINE f == [i \in 0 .. 0 |-> Onwards(graph, {x})]
      <4>1. f \in [0 .. 0 -> SUBSET Targets(graph)]
        BY OnwardsAre
      <4>2. \A i \in 0 .. 0 : f[i] = Round(graph, x, f, i)
        BY DEF Round
      <4>3. Upto(f, n)
        BY <3>1, <4>1, <4>2
      <4> QED
        BY <4>3
    <3>2. CASE n # 0
      <4>1. n - 1 \in Nat /\ n - 1 < n /\ n \in Nat
        BY <3>2
      <4>2. SUFFICES ASSUME NEW f, Upto(f, n - 1)
                     PROVE  FALSE
        <5>1. n - 1 \in Missing \/ \E f : Upto(f, n - 1)
          BY <4>1
        <5> HIDE DEF Missing
        <5> QED
          BY <4>1, <5>1
      <4> DEFINE h == [i \in 0 .. n |-> IF i = n THEN f[n - 1] \cup Onwards(graph, f[n - 1]) ELSE f[i]]
      <4>3. f[n - 1] \subseteq Targets(graph)
        BY <4>1, <4>2
      <4>4. h \in [0 .. n -> SUBSET Targets(graph)]
        <5>1. \A i \in 0 .. n : i # n => i \in 0 .. n - 1
          BY <4>1
        <5> QED
          BY <4>2, <4>3, <5>1, OnwardsAre
      <4>5. \A i \in 0 .. n : h[i] = Round(graph, x, h, i)
        <5> TAKE i \in 0 .. n
        <5>1. i # n => i \in 0 .. n - 1
          BY <4>1
        <5>2. i # 0 => i - 1 \in 0 .. n - 1 /\ i - 1 # n /\ i - 1 \in 0 .. n
          BY <4>1
        <5>3. i # 0 => h[i - 1] = f[i - 1]
          BY <5>2
        <5>4. i # n => h[i] = f[i] /\ f[i] = Round(graph, x, f, i)
          BY <4>2, <5>1
        <5>5. h[n] = f[n - 1] \cup Onwards(graph, f[n - 1])
          BY <4>1
        <5> HIDE DEF h
        <5> QED
          BY <3>2, <5>3, <5>4, <5>5 DEF Round
      <4>6. Upto(h, n)
        BY <4>4, <4>5
      <4> HIDE DEF h, Upto
      <4> QED
        BY <4>6
    <3> QED
      BY <3>1, <3>2
  <2>2. Missing \subseteq Nat
    OBVIOUS
  <2> HIDE DEF Missing
  <2> QED
    BY <2>1, <2>2, NoLeastIsEmpty
<1>2. ASSUME NEW n \in Nat, NEW m \in Nat, n <= m, NEW f, NEW h, Upto(f, n), Upto(h, m)
      PROVE  f[n] = h[n]
  <2> DEFINE Differ == {i \in 0 .. n : f[i] # h[i]}
  <2>1. ASSUME NEW i \in Differ
        PROVE  \E j \in Differ : j < i
    <3>1. i \in 0 .. n /\ i \in 0 .. m /\ f[i] = Round(graph, x, f, i) /\ h[i] = Round(graph, x, h, i)
      BY <1>2
    <3>2. i # 0
      BY <3>1 DEF Round
    <3>3. i - 1 \in 0 .. n /\ i - 1 < i
      BY <3>1, <3>2
    <3>4. f[i - 1] # h[i - 1]
      BY <3>1, <3>2 DEF Round
    <3> QED
      BY <3>3, <3>4
  <2>2. Differ \subseteq Nat
    OBVIOUS
  <2>3. Differ = {}
    <3> HIDE DEF Differ
    <3> QED
      BY <2>1, <2>2, NoLeastIsEmpty
  <2> QED
    BY <2>3
<1> DEFINE F(n) == CHOOSE f : Upto(f, n)
           all == [n \in Nat |-> F(n)[n]]
<1>3. \A n \in Nat : Upto(F(n), n)
  <2> HIDE DEF Upto
  <2> QED
    BY <1>1
<1>4. ASSUME NEW n \in Nat
      PROVE  all[n] = Round(graph, x, all, n)
  <2>1. Upto(F(n), n) /\ F(n)[n] = Round(graph, x, F(n), n)
    <3>1. Upto(F(n), n)
      BY <1>3
    <3> HIDE DEF F
    <3> QED
      BY <3>1
  <2>2. CASE n = 0
    BY <2>1, <2>2 DEF Round
  <2>3. CASE n # 0
    <3>1. n - 1 \in Nat /\ n - 1 <= n
      BY <2>3
    <3>2. F(n - 1)[n - 1] = F(n)[n - 1]
      <4>1. Upto(F(n - 1), n - 1)
        BY <1>3, <3>1
      <4> HIDE DEF F, Upto
      <4> QED
        BY <1>2, <2>1, <3>1, <4>1
    <3>3. all[n - 1] = F(n - 1)[n - 1] /\ all[n] = F(n)[n]
      BY <3>1
    <3> HIDE DEF F, all, Upto
    <3> QED
      BY <2>1, <2>3, <3>2, <3>3 DEF Round
  <2> QED
    BY <2>2, <2>3
<1>5. all = [n \in Nat |-> Round(graph, x, all, n)]
  <2>1. all = [n \in Nat |-> all[n]]
    BY DEF all
  <2> HIDE DEF all
  <2> QED
    BY <1>4, <2>1
<1>6. Rounds(graph, x) = [n \in Nat |-> Round(graph, x, Rounds(graph, x), n)]
  <2> HIDE DEF all
  <2> QED
    BY <1>5 DEF Rounds
<1> QED
  BY <1>6

\* What is reached is the least set that the graph does not lead out of.
LEMMA ReachesIsLeast ==
    ASSUME NEW graph, NEW x, IsFiniteSet(Sources(graph))
    PROVE  /\ Onwards(graph, {x}) \subseteq Reaches(graph, x)
           /\ Onwards(graph, Reaches(graph, x)) \subseteq Reaches(graph, x)
           /\ \A S : Onwards(graph, {x}) \subseteq S /\ Onwards(graph, S) \subseteq S => Reaches(graph, x) \subseteq S
<1> DEFINE r == Rounds(graph, x)
           N == Cardinality(Sources(graph))
           K(n) == r[n] \cap Sources(graph)
           Closed(n) == Onwards(graph, r[n]) \subseteq r[n]
<1>1. \A n \in Nat : r[n] = Round(graph, x, r, n)
  BY RoundsAre
<1>2. N \in Nat /\ Reaches(graph, x) = r[N]
  BY ReachesRounds, FS_CardinalityType
<1> HIDE DEF r, N
<1>3. r[0] = Onwards(graph, {x}) /\ \A n \in Nat : r[n + 1] = r[n] \cup Onwards(graph, r[n])
  <2>1. r[0] = Onwards(graph, {x})
    BY <1>1 DEF Round
  <2>2. ASSUME NEW n \in Nat
        PROVE  r[n + 1] = r[n] \cup Onwards(graph, r[n])
    <3>1. r[n + 1] = Round(graph, x, r, n + 1) /\ n + 1 # 0 /\ (n + 1) - 1 = n
      BY <1>1
    <3> QED
      BY <3>1 DEF Round
  <2> QED
    BY <2>1, <2>2
<1>4. ASSUME NEW n \in Nat, n # 0
      PROVE  n - 1 \in Nat /\ n - 1 < n /\ r[n] = r[n - 1] \cup Onwards(graph, r[n - 1])
  <2>1. n - 1 \in Nat /\ n - 1 < n /\ (n - 1) + 1 = n
    BY <1>4
  <2> QED
    BY <1>3, <2>1
<1>5. \A n \in Nat : r[0] \subseteq r[n]
  <2> DEFINE Not == {n \in Nat : ~(r[0] \subseteq r[n])}
  <2>1. ASSUME NEW n \in Not
        PROVE  \E m \in Not : m < n
    BY <1>4
  <2>2. Not \subseteq Nat
    OBVIOUS
  <2>3. Not = {}
    <3> HIDE DEF Not
    <3> QED
      BY <2>1, <2>2, NoLeastIsEmpty
  <2> QED
    BY <2>3
<1>6. ASSUME NEW S, Onwards(graph, {x}) \subseteq S, Onwards(graph, S) \subseteq S
      PROVE  \A n \in Nat : r[n] \subseteq S
  <2> DEFINE Not == {n \in Nat : ~(r[n] \subseteq S)}
  <2>1. ASSUME NEW n \in Not
        PROVE  \E m \in Not : m < n
    <3>1. n # 0
      BY <1>3, <1>6
    <3>2. n - 1 \in Nat /\ n - 1 < n /\ r[n] = r[n - 1] \cup Onwards(graph, r[n - 1])
      BY <1>4, <3>1
    <3>3. r[n - 1] \subseteq S => Onwards(graph, r[n - 1]) \subseteq Onwards(graph, S)
      BY DEF Onwards
    <3>4. ~(r[n - 1] \subseteq S)
      BY <1>6, <3>2, <3>3
    <3> QED
      BY <3>2, <3>4
  <2>2. Not \subseteq Nat
    OBVIOUS
  <2>3. Not = {}
    <3> HIDE DEF Not
    <3> QED
      BY <2>1, <2>2, NoLeastIsEmpty
  <2> QED
    BY <2>3
<1>7. \A n \in Nat : IsFiniteSet(K(n)) /\ Cardinality(K(n)) \in Nat /\ Cardinality(K(n)) <= N
  <2> TAKE n \in Nat
  <2>1. K(n) \in SUBSET Sources(graph)
    OBVIOUS
  <2>2. IsFiniteSet(K(n)) /\ Cardinality(K(n)) <= N
    BY <2>1, FS_Subset DEF N
  <2> QED
    BY <2>2, FS_CardinalityType
\* Each round either finds a new source or is the last.
<1>8. \A n \in Nat : Closed(n) \/ Cardinality(K(n)) >= n + 1
  <2> DEFINE Not == {n \in Nat : ~(Closed(n) \/ Cardinality(K(n)) >= n + 1)}
  <2>1. ASSUME NEW n \in Not
        PROVE  \E m \in Not : m < n
    <3>1. CASE n = 0
      <4>1. K(0) # {}
        <5>1. PICK y : y \in Onwards(graph, r[0])
          BY <3>1
        <5>2. PICK e \in graph : e[1] \in r[0]
          BY <5>1, OnwardsAre
        <5> QED
          BY <5>2 DEF Sources
      <4>2. Cardinality(K(0)) # 0 /\ Cardinality(K(0)) \in Nat
        BY <1>7, <4>1, FS_EmptySet
      <4> QED
        BY <3>1, <4>2
    <3>2. CASE n # 0
      <4>1. n \in Nat /\ ~Closed(n) /\ ~(Cardinality(K(n)) >= n + 1)
        OBVIOUS
      <4>2. n - 1 \in Nat /\ n - 1 < n /\ r[n] = r[n - 1] \cup Onwards(graph, r[n - 1])
        BY <1>4, <3>2, <4>1
      <4>3. ~Closed(n - 1)
        <5>1. Closed(n - 1) => r[n] = r[n - 1]
          BY <4>2
        <5> QED
          BY <4>1, <5>1
      <4>4. K(n - 1) # K(n)
        <5> SUFFICES ASSUME K(n - 1) = K(n)
                     PROVE  FALSE
          OBVIOUS
        <5>1. Onwards(graph, r[n]) \subseteq Onwards(graph, r[n - 1])
          BY DEF Onwards, Sources
        <5> QED
          BY <4>1, <4>2, <5>1
      <4>5. K(n - 1) \subseteq K(n)
        BY <4>2
      <4>6. Cardinality(K(n - 1)) < Cardinality(K(n))
        <5>1. /\ IsFiniteSet(K(n)) /\ Cardinality(K(n)) \in Nat
              /\ Cardinality(K(n - 1)) \in Nat /\ K(n - 1) \in SUBSET K(n)
          BY <1>7, <4>1, <4>2, <4>5
        <5>2. /\ Cardinality(K(n - 1)) <= Cardinality(K(n))
              /\ Cardinality(K(n)) = Cardinality(K(n - 1)) => K(n) = K(n - 1)
          BY <5>1, FS_Subset
        <5> QED
          BY <4>4, <5>1, <5>2
      <4>7. ~(Cardinality(K(n - 1)) >= n) /\ (n - 1) + 1 = n
        <5>1. Cardinality(K(n)) \in Nat /\ Cardinality(K(n - 1)) \in Nat
          BY <1>7, <4>1, <4>2
        <5> QED
          BY <4>1, <4>6, <5>1
      <4> QED
        BY <4>2, <4>3, <4>7
    <3> QED
      BY <3>1, <3>2
  <2>2. Not \subseteq Nat
    OBVIOUS
  <2>3. Not = {}
    <3> HIDE DEF Not
    <3> QED
      BY <2>1, <2>2, NoLeastIsEmpty
  <2> QED
    BY <2>3
<1>9. Closed(N)
  <2>1. N \in Nat
    BY <1>2
  <2>2. Cardinality(K(N)) \in Nat /\ Cardinality(K(N)) <= N
    BY <1>7, <2>1
  <2>3. Closed(N) \/ Cardinality(K(N)) >= N + 1
    BY <1>8, <2>1
  <2> DEFINE size == Cardinality(K(N))
             closed == Closed(N)
  <2>4. size \in Nat /\ size <= N /\ (closed \/ size >= N + 1)
    BY <2>2, <2>3
  <2> HIDE DEF size, closed
  <2>5. closed
    BY <2>1, <2>4
  <2> QED
    BY <2>5 DEF closed
<1> DEFINE last == r[N]
           first == Onwards(graph, {x})
<1>10. first \subseteq last
  BY <1>2, <1>3, <1>5
<1>11. Onwards(graph, last) \subseteq last
  BY <1>9
<1>12. \A S : first \subseteq S /\ Onwards(graph, S) \subseteq S => last \subseteq S
  <2> TAKE S
  <2> HAVE first \subseteq S /\ Onwards(graph, S) \subseteq S
  <2>1. \A n \in Nat : r[n] \subseteq S
    BY <1>6
  <2> QED
    BY <1>2, <2>1
<1>13. Reaches(graph, x) = last
  BY <1>2
<1> HIDE DEF last
<1> QED
  BY <1>10, <1>11, <1>12, <1>13

\* An edge leads on, from where one starts and from where one has got to.
LEMMA ReachesOn ==
    ASSUME NEW graph, NEW x, NEW e \in graph, IsFiniteSet(Sources(graph))
    PROVE  /\ e[1] = x => e[2] \in Reaches(graph, x)
           /\ e[1] \in Reaches(graph, x) => e[2] \in Reaches(graph, x)
<1>1. e[1] = x => e[2] \in Onwards(graph, {x})
  BY OnwardsAre
<1>2. e[1] \in Reaches(graph, x) => e[2] \in Onwards(graph, Reaches(graph, x))
  BY OnwardsAre
<1> QED
  BY <1>1, <1>2, ReachesIsLeast

LEMMA ReachesTransitive ==
    ASSUME NEW graph, NEW x, NEW y \in Reaches(graph, x), IsFiniteSet(Sources(graph))
    PROVE  Reaches(graph, y) \subseteq Reaches(graph, x)
<1>1. Onwards(graph, {y}) \subseteq Reaches(graph, x)
  <2>1. Onwards(graph, {y}) \subseteq Onwards(graph, Reaches(graph, x))
    BY DEF Onwards
  <2> QED
    BY <2>1, ReachesIsLeast
<1> QED
  BY <1>1, ReachesIsLeast

\* Whatever is reached is at the end of an edge.
LEMMA ReachesLast ==
    ASSUME NEW graph, NEW x, NEW y \in Reaches(graph, x), IsFiniteSet(Sources(graph))
    PROVE  \E e \in graph : e[2] = y /\ (e[1] = x \/ e[1] \in Reaches(graph, x))
<1> DEFINE S == {e[2] : e \in {d \in graph : d[1] = x \/ d[1] \in Reaches(graph, x)}}
<1>1. S \subseteq Reaches(graph, x)
  BY ReachesOn
<1>2. Onwards(graph, {x}) \subseteq S
  BY DEF Onwards
<1>3. Onwards(graph, S) \subseteq S
  BY <1>1 DEF Onwards
<1>4. Reaches(graph, x) \subseteq S
  <2> HIDE DEF S
  <2> QED
    BY <1>2, <1>3, ReachesIsLeast
<1> QED
  BY <1>4

LEMMA OnCycleIs ==
    ASSUME NEW graph, NEW x
    PROVE  /\ x \in OnCycle(graph) => x \in Reaches(graph, x)
           /\ \A e \in graph : e[1] \in Reaches(graph, e[1]) => e[1] \in OnCycle(graph)
BY DEF OnCycle

\* On a cycle there is an edge into every member, from another.
LEMMA CycleEntered ==
    ASSUME NEW graph, NEW x \in OnCycle(graph), IsFiniteSet(Sources(graph))
    PROVE  \E e \in graph : e[2] = x /\ e[1] \in OnCycle(graph)
<1>1. x \in Reaches(graph, x)
  BY OnCycleIs
<1>2. PICK e \in graph : e[2] = x /\ (e[1] = x \/ e[1] \in Reaches(graph, x))
  BY <1>1, ReachesLast
<1>3. x \in Reaches(graph, e[1])
  BY <1>2, ReachesOn
<1>4. e[1] \in Reaches(graph, e[1])
  BY <1>1, <1>2, <1>3, ReachesTransitive
<1> QED
  BY <1>2, <1>4, OnCycleIs

\* A cycle stays one where every edge has its image.
LEMMA CycleMapped ==
    ASSUME NEW graph, NEW other, IsFiniteSet(Sources(graph)), IsFiniteSet(Sources(other)),
           \A e \in graph : <<e[1][1], e[2][1]>> \in other,
           NEW x \in OnCycle(graph)
    PROVE  x[1] \in OnCycle(other)
<1> DEFINE S == {y \in Targets(graph) : y[1] \in Reaches(other, x[1])}
<1>1. ASSUME NEW e \in graph, e[1] = x \/ e[1] \in S
      PROVE  e[2] \in S
  <2>1. <<e[1][1], e[2][1]>> \in other
    OBVIOUS
  <2>2. e[2][1] \in Reaches(other, x[1])
    <3> DEFINE d == <<e[1][1], e[2][1]>>
    <3>1. d[1] = x[1] \/ d[1] \in Reaches(other, x[1])
      BY <1>1
    <3>2. d \in other /\ d[2] = e[2][1]
      BY <2>1
    <3> HIDE DEF d
    <3> QED
      BY <3>1, <3>2, ReachesOn
  <2> QED
    BY <2>2 DEF Targets
<1>2. Onwards(graph, {x}) \subseteq S /\ Onwards(graph, S) \subseteq S
  <2> HIDE DEF S
  <2> QED
    BY <1>1 DEF Onwards
<1>3. x \in S
  <2>1. x \in Reaches(graph, x)
    BY OnCycleIs
  <2> HIDE DEF S
  <2> QED
    BY <1>2, <2>1, ReachesIsLeast
<1>4. PICK e \in graph : e[1] = x
  BY DEF OnCycle
<1> DEFINE d == <<e[1][1], e[2][1]>>
<1>5. d \in other /\ d[1] = x[1]
  BY <1>4
<1> HIDE DEF d
<1> QED
  BY <1>3, <1>5, OnCycleIs

\* From what reaches something there is an edge.
LEMMA ReachesFirst ==
    ASSUME NEW graph, NEW x, NEW y \in Reaches(graph, x), IsFiniteSet(Sources(graph))
    PROVE  \E e \in graph : e[1] = x
<1> SUFFICES ASSUME ~\E e \in graph : e[1] = x
             PROVE  FALSE
  OBVIOUS
<1>1. Onwards(graph, {x}) \subseteq {} /\ Onwards(graph, {}) \subseteq {}
  BY DEF Onwards
<1> QED
  BY <1>1, ReachesIsLeast

\* If every edge between members of cycles is one of another graph, the cycles are there too.
LEMMA CycleInOther ==
    ASSUME NEW graph, NEW other, IsFiniteSet(Sources(graph)), IsFiniteSet(Sources(other)),
           \A e \in graph : e[1] \in OnCycle(graph) /\ e[2] \in OnCycle(graph) => e \in other,
           NEW x \in OnCycle(graph)
    PROVE  x \in OnCycle(other)
<1> DEFINE Lost == {y \in Reaches(graph, x) : y # x /\ x \notin Reaches(graph, y)}
           S == Lost \cup (Reaches(graph, x) \cap Reaches(other, x))
<1>1. x \in Reaches(graph, x)
  BY OnCycleIs
<1>2. ASSUME NEW e \in graph, e[1] = x \/ e[1] \in S
      PROVE  e[2] \in S
  <2>1. e[2] \in Reaches(graph, x)
    BY <1>2, ReachesOn
  <2>2. CASE e[2] \in Lost
    BY <2>2
  <2>3. CASE e[2] \notin Lost
    <3>1. x \in Reaches(graph, e[2])
      BY <1>1, <2>1, <2>3
    <3>2. e[2] \in Reaches(graph, e[1])
      BY ReachesOn
    <3>3. x \in Reaches(graph, e[1])
      BY <3>1, <3>2, ReachesTransitive
    <3>4. e[1] \notin Lost
      BY <3>3
    <3>5. e[1] = x \/ e[1] \in Reaches(graph, x)
      BY <1>2
    <3>6. e[1] \in Reaches(graph, e[1])
      BY <1>1, <3>3, <3>5, ReachesTransitive
    <3>7. e[2] \in Reaches(graph, e[2])
      BY <2>1, <3>1, ReachesTransitive
    <3>8. PICK d \in graph : d[1] = e[2]
      BY <3>7, ReachesFirst
    <3>9. e \in other
      BY <3>6, <3>7, <3>8, OnCycleIs
    <3>10. e[1] = x \/ e[1] \in Reaches(other, x)
      BY <1>2, <3>4
    <3>11. e[2] \in Reaches(other, x)
      BY <3>9, <3>10, ReachesOn
    <3> QED
      BY <2>1, <3>11
  <2> QED
    BY <2>2, <2>3
<1>3. Onwards(graph, {x}) \subseteq S /\ Onwards(graph, S) \subseteq S
  <2> HIDE DEF S
  <2> QED
    BY <1>2 DEF Onwards
<1>4. x \in S
  <2> HIDE DEF S
  <2> QED
    BY <1>1, <1>3, ReachesIsLeast
<1>5. x \in Reaches(other, x)
  BY <1>4
<1>6. PICK e \in other : e[1] = x
  BY <1>5, ReachesFirst
<1> QED
  BY <1>5, <1>6, OnCycleIs

-----------------------------------------------------------------------------
(* Sift: what is kept of a sequence.                                       *)

Sifted(s, T, f, i) ==
    IF i = 0 THEN <<>> ELSE IF s[i] \in T THEN Append(f[i - 1], s[i]) ELSE f[i - 1]
Sifts(s, T) == CHOOSE f : f = [i \in 0 .. Len(s) |-> Sifted(s, T, f, i)]

LEMMA SiftsAre ==
    ASSUME NEW S, NEW s \in Seq(S), NEW T
    PROVE  /\ Len(s) \in Nat
           /\ Sift(s, T) = Sifts(s, T)[Len(s)]
           /\ \A i \in 0 .. Len(s) : Sifts(s, T)[i] = Sifted(s, T, Sifts(s, T), i)
<1>1. Sift(s, T) = Sifts(s, T)[Len(s)]
  BY DEF Sift, Sifts, Sifted
<1>2. Len(s) \in Nat
  BY LenProperties
<1> DEFINE Upto(f, n) == f = [i \in 0 .. n |-> Sifted(s, T, f, i)]
           Missing == {n \in Nat : ~\E f : Upto(f, n)}
<1>3. ASSUME NEW n \in Missing
      PROVE  \E m \in Missing : m < n
  <2>1. CASE n = 0
    <3> DEFINE f == [i \in 0 .. 0 |-> <<>>]
    <3>1. Upto(f, 0)
      BY DEF Sifted
    <3> QED
      BY <2>1, <3>1
  <2>2. CASE n # 0
    <3>1. n - 1 \in Nat /\ n - 1 < n /\ n \in Nat
      BY <2>2
    <3>2. SUFFICES ASSUME NEW f, Upto(f, n - 1)
                   PROVE  FALSE
      <4>1. n - 1 \in Missing \/ \E f : Upto(f, n - 1)
        BY <3>1
      <4> HIDE DEF Missing
      <4> QED
        BY <3>1, <4>1
    <3> DEFINE h == [i \in 0 .. n |-> IF i = n THEN Sifted(s, T, f, n) ELSE f[i]]
    <3>3. \A i \in 0 .. n : h[i] = Sifted(s, T, h, i)
      <4> TAKE i \in 0 .. n
      <4>1. i # n => i \in 0 .. n - 1
        BY <3>1
      <4>2. i # 0 => i - 1 \in 0 .. n /\ i - 1 # n
        BY <3>1
      <4>3. i # 0 => h[i - 1] = f[i - 1]
        BY <4>2
      <4>4. Sifted(s, T, h, i) = Sifted(s, T, f, i)
        BY <4>3 DEF Sifted
      <4>5. i # n => f[i] = Sifted(s, T, f, i)
        BY <3>2, <4>1
      <4> QED
        BY <4>4, <4>5
    <3>4. Upto(h, n)
      <4>1. h = [i \in 0 .. n |-> h[i]]
        OBVIOUS
      <4> HIDE DEF h
      <4> QED
        BY <3>3, <4>1
    <3> HIDE DEF h, Upto
    <3> QED
      BY <3>4
  <2> QED
    BY <2>1, <2>2
<1>4. Missing = {}
  <2>1. Missing \subseteq Nat
    OBVIOUS
  <2> HIDE DEF Missing
  <2> QED
    BY <1>3, <2>1, NoLeastIsEmpty
<1>5. \E f : Upto(f, Len(s))
  <2> HIDE DEF Upto
  <2> QED
    BY <1>2, <1>4
<1>6. Upto(Sifts(s, T), Len(s))
  BY <1>5 DEF Sifts
<1> QED
  BY <1>1, <1>2, <1>6

LEMMA SiftEmpty == ASSUME NEW T PROVE Sift(<<>>, T) = <<>>
<1>1. <<>> \in Seq({}) /\ Len(<<>>) = 0
  OBVIOUS
<1>2. Sift(<<>>, T) = Sifts(<<>>, T)[0]
  BY <1>1, SiftsAre
<1>3. \A i \in 0 .. 0 : Sifts(<<>>, T)[i] = Sifted(<<>>, T, Sifts(<<>>, T), i)
  BY <1>1, SiftsAre
<1>4. Sifts(<<>>, T)[0] = Sifted(<<>>, T, Sifts(<<>>, T), 0)
  BY <1>3
<1> QED
  BY <1>2, <1>4 DEF Sifted

\* Each element that is kept comes from a place of its own, and none is forgotten.
LEMMA SiftPlaces ==
    ASSUME NEW S, NEW s \in Seq(S), NEW T
    PROVE  /\ Sift(s, T) \in Seq(S)
           /\ \E m \in [1 .. Len(Sift(s, T)) -> 1 .. Len(s)] :
                  /\ \A i, j \in 1 .. Len(Sift(s, T)) : m[i] = m[j] => i = j
                  /\ \A i \in 1 .. Len(Sift(s, T)) : Sift(s, T)[i] = s[m[i]] /\ s[m[i]] \in T
                  /\ \A p \in 1 .. Len(s) : s[p] \in T => \E i \in 1 .. Len(Sift(s, T)) : m[i] = p
<1> DEFINE f == Sifts(s, T)
           N == Len(s)
           Places(m, r, k) ==
               /\ m \in [1 .. Len(r) -> 1 .. k]
               /\ \A i, j \in 1 .. Len(r) : m[i] = m[j] => i = j
               /\ \A i \in 1 .. Len(r) : r[i] = s[m[i]] /\ s[m[i]] \in T
               /\ \A p \in 1 .. k : s[p] \in T => \E i \in 1 .. Len(r) : m[i] = p
           Not == {k \in 0 .. N : ~(f[k] \in Seq(S) /\ \E m : Places(m, f[k], k))}
<1>1. N \in Nat /\ Sift(s, T) = f[N] /\ \A k \in 0 .. N : f[k] = Sifted(s, T, f, k)
  BY SiftsAre
<1>2. \A k \in 1 .. N : s[k] \in S
  BY ElementOfSeq
<1> HIDE DEF f, N
<1>3. ASSUME NEW k \in Not
      PROVE  \E l \in Not : l < k
  <2>1. CASE k = 0
    <3>1. f[k] = <<>>
      BY <1>1, <2>1 DEF Sifted
    <3>2. Places(<<>>, <<>>, 0)
      OBVIOUS
    <3>3. f[k] \in Seq(S) /\ Places(<<>>, f[k], k)
      BY <2>1, <3>1, <3>2
    <3> HIDE DEF Places
    <3> QED
      BY <3>3
  <2>2. CASE k # 0
    <3>1. k \in 1 .. N /\ k - 1 \in 0 .. N /\ k - 1 < k /\ k \in Nat /\ k - 1 \in Nat
      BY <1>1, <2>2
    <3>2. f[k] = IF s[k] \in T THEN Append(f[k - 1], s[k]) ELSE f[k - 1]
      BY <1>1, <2>2, <3>1 DEF Sifted
    <3> SUFFICES ASSUME k - 1 \notin Not
                 PROVE  FALSE
      <4> HIDE DEF Not
      <4> QED
        BY <3>1
    <3>3. PICK m : f[k - 1] \in Seq(S) /\ Places(m, f[k - 1], k - 1)
      <4> HIDE DEF Places
      <4> QED
        BY <3>1
    <3>4. SUFFICES f[k] \in Seq(S) /\ \E n : Places(n, f[k], k)
      <4> HIDE DEF Places
      <4> QED
        OBVIOUS
    <3> DEFINE r == f[k - 1]
               L == Len(r)
    <3>5. L \in Nat
      BY <3>3, LenProperties
    <3>6. CASE s[k] \in T
      <4> DEFINE q == Append(r, s[k])
                 n == [i \in 1 .. L + 1 |-> IF i = L + 1 THEN k ELSE m[i]]
      <4>1. /\ f[k] = q /\ q \in Seq(S) /\ Len(q) = L + 1 /\ q[L + 1] = s[k]
            /\ \A i \in 1 .. L : q[i] = r[i]
        BY <1>2, <3>1, <3>2, <3>3, <3>6, AppendProperties
      <4>2. \A i \in 1 .. L + 1 : i # L + 1 => i \in 1 .. L
        BY <3>5
      <4>3. \A i \in 1 .. L : m[i] \in 1 .. k - 1 /\ m[i] # k /\ m[i] \in 1 .. k
        <5>1. \A i \in 1 .. L : m[i] \in 1 .. k - 1
          BY <3>3
        <5> HIDE DEF L
        <5> QED
          BY <3>1, <5>1
      <4>4. n \in [1 .. L + 1 -> 1 .. k]
        BY <3>1, <4>2, <4>3
      <4>5. \A i \in 1 .. L : i \in 1 .. L + 1 /\ n[i] = m[i]
        BY <3>5
      <4>6. n[L + 1] = k
        BY <3>5
      <4>7. /\ \A i, j \in 1 .. L : m[i] = m[j] => i = j
            /\ \A i \in 1 .. L : r[i] = s[m[i]] /\ s[m[i]] \in T
        BY <3>3
      <4> HIDE DEF n, q, r, L
      <4>8. \A i, j \in 1 .. L + 1 : n[i] = n[j] => i = j
        BY <4>2, <4>3, <4>5, <4>6, <4>7
      <4>9. \A i \in 1 .. L + 1 : q[i] = s[n[i]] /\ s[n[i]] \in T
        <5> TAKE i \in 1 .. L + 1
        <5>1. CASE i = L + 1
          BY <3>6, <4>1, <4>6, <5>1
        <5>2. CASE i # L + 1
          BY <4>1, <4>2, <4>5, <4>7, <5>2
        <5> QED
          BY <5>1, <5>2
      <4>10. ASSUME NEW p \in 1 .. k, s[p] \in T
            PROVE  \E i \in 1 .. L + 1 : n[i] = p
        <5>1. CASE p = k
          BY <3>5, <4>6, <5>1
        <5>2. CASE p # k
          <6>1. p \in 1 .. k - 1
            BY <3>1, <5>2
          <6>2. PICK i \in 1 .. L : m[i] = p
            BY <3>3, <4>10, <6>1 DEF r, L
          <6> QED
            BY <4>5, <6>2
        <5> QED
          BY <5>1, <5>2
      <4>11. Places(n, q, k)
        BY <4>1, <4>4, <4>8, <4>10, <4>9
      <4> HIDE DEF Places
      <4> QED
        BY <4>1, <4>11
    <3>7. CASE s[k] \notin T
      <4>1. f[k] = r /\ r \in Seq(S)
        BY <3>2, <3>3, <3>7
      <4>2. \A i \in 1 .. L : m[i] \in 1 .. k
        BY <3>1, <3>3
      <4>3. m \in [1 .. L -> 1 .. k]
        BY <3>3, <4>2
      <4>4. \A p \in 1 .. k : s[p] \in T => p \in 1 .. k - 1
        BY <3>1, <3>7
      <4> HIDE DEF r
      <4>5. Places(m, r, k)
        BY <3>3, <4>3, <4>4 DEF r
      <4> HIDE DEF Places
      <4> QED
        BY <4>1, <4>5
    <3> QED
      BY <3>6, <3>7
  <2> QED
    BY <2>1, <2>2
<1>4. Not = {}
  <2>1. Not \subseteq Nat
    BY <1>1
  <2> HIDE DEF Not
  <2> QED
    BY <1>3, <2>1, NoLeastIsEmpty
<1>5. f[N] \in Seq(S) /\ \E m : Places(m, f[N], N)
  <2>1. N \in 0 .. N
    BY <1>1
  <2> HIDE DEF Places
  <2> QED
    BY <1>4, <2>1
<1> QED
  BY <1>1, <1>5 DEF N

\* The elements that are kept, as a set.
LEMMA SiftRange ==
    ASSUME NEW S, NEW s \in Seq(S), NEW T
    PROVE  /\ Sift(s, T) \in Seq(S)
           /\ Range(Sift(s, T)) = Range(s) \cap T
<1>1. PICK m \in [1 .. Len(Sift(s, T)) -> 1 .. Len(s)] :
          /\ \A i \in 1 .. Len(Sift(s, T)) : Sift(s, T)[i] = s[m[i]] /\ s[m[i]] \in T
          /\ \A p \in 1 .. Len(s) : s[p] \in T => \E i \in 1 .. Len(Sift(s, T)) : m[i] = p
  BY SiftPlaces
<1>2. Sift(s, T) \in Seq(S) /\ DOMAIN Sift(s, T) = 1 .. Len(Sift(s, T)) /\ DOMAIN s = 1 .. Len(s)
  BY SiftPlaces, LenProperties
<1>3. \A x \in Range(Sift(s, T)) : x \in Range(s) /\ x \in T
  BY <1>1, <1>2 DEF Range
<1>4. ASSUME NEW x \in Range(s), x \in T
      PROVE  x \in Range(Sift(s, T))
  <2>1. PICK p \in 1 .. Len(s) : x = s[p]
    BY <1>2 DEF Range
  <2>2. PICK i \in 1 .. Len(Sift(s, T)) : m[i] = p
    BY <1>1, <1>4, <2>1
  <2>3. Sift(s, T)[i] = x
    BY <1>1, <2>1, <2>2
  <2> QED
    BY <1>2, <2>3 DEF Range
<1> QED
  BY <1>2, <1>3, <1>4

LEMMA SiftAppend ==
    ASSUME NEW S, NEW s \in Seq(S), NEW e \in S, NEW T
    PROVE  Sift(Append(s, e), T) = IF e \in T THEN Append(Sift(s, T), e) ELSE Sift(s, T)
<1> DEFINE q == Append(s, e)
           N == Len(s)
           f == Sifts(s, T)
           g == Sifts(q, T)
           Differ == {i \in 0 .. N : f[i] # g[i]}
<1>1. /\ N \in Nat /\ q \in Seq(S) /\ Len(q) = N + 1 /\ q[N + 1] = e
      /\ \A i \in 1 .. N : q[i] = s[i]
  BY AppendProperties, LenProperties
<1>2. Sift(s, T) = f[N] /\ \A i \in 0 .. N : f[i] = Sifted(s, T, f, i)
  BY SiftsAre
<1>3. Sift(q, T) = g[N + 1] /\ \A i \in 0 .. N + 1 : g[i] = Sifted(q, T, g, i)
  <2> HIDE DEF q, N
  <2> QED
    BY <1>1, SiftsAre
<1> HIDE DEF q, N, f, g
<1>4. Differ = {}
  <2>1. ASSUME NEW i \in Differ
        PROVE  \E j \in Differ : j < i
    <3>1. i \in 0 .. N /\ i \in 0 .. N + 1 /\ f[i] # g[i]
      BY <1>1
    <3>2. f[i] = Sifted(s, T, f, i) /\ g[i] = Sifted(q, T, g, i)
      BY <1>2, <1>3, <3>1
    <3>3. i # 0
      BY <3>1, <3>2 DEF Sifted
    <3>4. i \in 1 .. N /\ i - 1 \in 0 .. N /\ i - 1 < i
      BY <1>1, <3>1, <3>3
    <3>5. f[i - 1] # g[i - 1]
      BY <1>1, <3>1, <3>2, <3>3, <3>4 DEF Sifted
    <3> QED
      BY <3>4, <3>5
  <2>2. Differ \subseteq Nat
    BY <1>1
  <2> HIDE DEF Differ
  <2> QED
    BY <2>1, <2>2, NoLeastIsEmpty
<1>5. g[N] = f[N]
  BY <1>1, <1>4
<1>6. N + 1 # 0 /\ (N + 1) - 1 = N /\ N + 1 \in 0 .. N + 1
  BY <1>1
<1>7. g[N + 1] = Sifted(q, T, g, N + 1)
  BY <1>3, <1>6
<1>8. Sifted(q, T, g, N + 1) = IF e \in T THEN Append(g[N], e) ELSE g[N]
  BY <1>1, <1>6 DEF Sifted
<1> QED
  BY <1>2, <1>3, <1>5, <1>7, <1>8 DEF q

\* Two sieves one after the other, over elements that may have been changed before, are one
\* over the elements as they were, when they agree on every place.
LEMMA SiftTwice ==
    ASSUME NEW S, NEW s \in Seq(S), NEW t \in Seq(S), Len(t) = Len(s), NEW T, NEW U, NEW V,
           \A i \in 1 .. Len(s) : /\ s[i] \in V <=> t[i] \in T /\ t[i] \in U
                                  /\ s[i] \in V => t[i] = s[i]
    PROVE  Sift(Sift(t, T), U) = Sift(s, V)
<1> DEFINE N == Len(s)
           f == Sifts(t, T)
           g == Sifts(s, V)
           Not == {i \in 0 .. N : ~(f[i] \in Seq(S) /\ Sift(f[i], U) = g[i])}
<1>1. N \in Nat /\ Sift(s, V) = g[N] /\ \A i \in 0 .. N : g[i] = Sifted(s, V, g, i)
  BY SiftsAre
<1>2. Sift(t, T) = f[N] /\ \A i \in 0 .. N : f[i] = Sifted(t, T, f, i)
  BY SiftsAre
<1>3. \A i \in 1 .. N : t[i] \in S
  BY ElementOfSeq
<1>4. \A p \in Seq(S), x \in S : Sift(Append(p, x), U) = IF x \in U THEN Append(Sift(p, U), x) ELSE Sift(p, U)
  BY SiftAppend
<1> HIDE DEF f, g
<1>5. Not = {}
  <2>1. ASSUME NEW i \in Not
        PROVE  \E j \in Not : j < i
    <3>1. f[i] = Sifted(t, T, f, i) /\ g[i] = Sifted(s, V, g, i) /\ i \in 0 .. N
      BY <1>1, <1>2
    <3>2. i # 0
      <4> SUFFICES ASSUME i = 0
                   PROVE  f[i] \in Seq(S) /\ Sift(f[i], U) = g[i]
        OBVIOUS
      <4>1. f[i] = <<>> /\ g[i] = <<>>
        BY <3>1 DEF Sifted
      <4> QED
        BY <4>1, SiftEmpty
    <3>3. i \in 1 .. N /\ i - 1 \in 0 .. N /\ i - 1 < i
      BY <1>1, <3>1, <3>2
    <3>4. ~(f[i - 1] \in Seq(S) /\ Sift(f[i - 1], U) = g[i - 1])
      <4> SUFFICES ASSUME f[i - 1] \in Seq(S), Sift(f[i - 1], U) = g[i - 1]
                   PROVE  f[i] \in Seq(S) /\ Sift(f[i], U) = g[i]
        OBVIOUS
      <4>1. f[i] = IF t[i] \in T THEN Append(f[i - 1], t[i]) ELSE f[i - 1]
        BY <3>1, <3>2 DEF Sifted
      <4>2. g[i] = IF s[i] \in V THEN Append(g[i - 1], s[i]) ELSE g[i - 1]
        BY <3>1, <3>2 DEF Sifted
      <4>3. t[i] \in S
        BY <1>3, <3>3
      <4>4. f[i] \in Seq(S)
        BY <4>1, <4>3, AppendProperties
      <4>5. Sift(Append(f[i - 1], t[i]), U) =
                IF t[i] \in U THEN Append(g[i - 1], t[i]) ELSE g[i - 1]
        <5> DEFINE p == f[i - 1]
                   x == t[i]
        <5>1. p \in Seq(S) /\ x \in S /\ Sift(p, U) = g[i - 1]
          BY <4>3
        <5> HIDE DEF p, x
        <5>2. Sift(Append(p, x), U) = IF x \in U THEN Append(Sift(p, U), x) ELSE Sift(p, U)
          BY <1>4, <5>1
        <5> QED
          BY <5>1, <5>2 DEF p, x
      <4>6. /\ s[i] \in V <=> t[i] \in T /\ t[i] \in U
            /\ s[i] \in V => t[i] = s[i]
        BY <3>3
      <4> QED
        BY <4>1, <4>2, <4>4, <4>5, <4>6
    <3> QED
      BY <3>3, <3>4
  <2>2. Not \subseteq Nat
    BY <1>1
  <2> HIDE DEF Not
  <2> QED
    BY <2>1, <2>2, NoLeastIsEmpty
<1>6. Sift(f[N], U) = g[N]
  BY <1>1, <1>5
<1> QED
  BY <1>1, <1>2, <1>6

-----------------------------------------------------------------------------
(* What is left on a type after its structural derives have been taken off.*)

\* The attribute after the structural derives are out of its list, and whether it stays.
LeftOf(a) ==
    IF a.name \in {"derive", "macro_derive"}
    THEN [a EXCEPT !.paths = Sift(@, {p \in Range(@) : ~NamesOneOf(p, StructuralDerives)})] ELSE a
LeftAttrs(attrs) == [i \in DOMAIN attrs |-> LeftOf(attrs[i])]
StaysOn(a) ==
    IF a.name \in {"derive", "macro_derive"} THEN a.paths # <<>> ELSE a.name \notin StructuralHelpers

LEMMA StripIs ==
    ASSUME NEW attrs
    PROVE  StripStructuralDerives(attrs) =
               Sift(LeftAttrs(attrs), {a \in Range(LeftAttrs(attrs)) : StaysOn(a)})
BY DEF StripStructuralDerives, LeftAttrs, LeftOf, StaysOn

LEMMA LeftOfIs ==
    ASSUME NEW a, a = Attr(a.name, a.paths), IsSequence(a.paths)
    PROVE  /\ LeftOf(a).name = a.name
           /\ a.name \notin {"derive", "macro_derive"} => LeftOf(a) = a
           /\ a.name \in {"derive", "macro_derive"} =>
                  Range(LeftOf(a).paths) = {p \in Range(a.paths) : ~NamesOneOf(p, StructuralDerives)}
<1> DEFINE plain == {p \in Range(a.paths) : ~NamesOneOf(p, StructuralDerives)}
<1>1. a.name \in {"derive", "macro_derive"} => LeftOf(a) = [a EXCEPT !.paths = Sift(a.paths, plain)]
  BY DEF LeftOf
<1>2. Range(Sift(a.paths, plain)) = plain
  <2>1. Range(Sift(a.paths, plain)) = Range(a.paths) \cap plain
    <3>1. a.paths \in Seq(Range(a.paths))
      BY DEF IsSequence
    <3> HIDE DEF plain
    <3> QED
      BY <3>1, SiftRange
  <2> QED
    BY <2>1
<1> HIDE DEF plain
<1>3. DOMAIN a = {"name", "paths"}
  BY DEF Attr
<1>4. a.name \in {"derive", "macro_derive"} => LeftOf(a).name = a.name /\ LeftOf(a).paths = Sift(a.paths, plain)
  BY <1>1, <1>3
<1> QED
  BY <1>2, <1>4 DEF LeftOf, plain

LEMMA LeftAttrsAre ==
    ASSUME NEW attrs, WrittenAttrs(attrs)
    PROVE  /\ \A i \in 1 .. Len(attrs) : attrs[i] = Attr(attrs[i].name, attrs[i].paths) /\ IsSequence(attrs[i].paths)
           /\ DOMAIN attrs = 1 .. Len(attrs) /\ Len(attrs) \in Nat
           /\ DOMAIN LeftAttrs(attrs) = 1 .. Len(attrs) /\ Len(LeftAttrs(attrs)) = Len(attrs)
           /\ \A i \in 1 .. Len(attrs) : LeftAttrs(attrs)[i] = LeftOf(attrs[i])
           /\ \E S : attrs \in Seq(S) /\ LeftAttrs(attrs) \in Seq(S)
<1>1. attrs \in Seq(Range(attrs))
  BY DEF WrittenAttrs, IsSequence
<1>2. DOMAIN attrs = 1 .. Len(attrs) /\ Len(attrs) \in Nat
  BY <1>1, LenProperties
<1> DEFINE S == Range(attrs) \cup Range(LeftAttrs(attrs))
<1>3. attrs \in Seq(S)
  BY <1>1, SeqMonotonic
<1>4. LeftAttrs(attrs) \in [1 .. Len(attrs) -> S]
  BY <1>2 DEF LeftAttrs, Range
<1>5. LeftAttrs(attrs) \in Seq(S) /\ Len(LeftAttrs(attrs)) = Len(attrs)
  <2> HIDE DEF S
  <2> QED
    BY <1>2, <1>4
<1>6. \A i \in 1 .. Len(attrs) : attrs[i] = Attr(attrs[i].name, attrs[i].paths) /\ IsSequence(attrs[i].paths)
  BY <1>2 DEF WrittenAttrs, Range
<1> QED
  BY <1>2, <1>3, <1>5, <1>6 DEF LeftAttrs

\* The attributes that stay, one by one.
LEMMA StripRange ==
    ASSUME NEW attrs, WrittenAttrs(attrs)
    PROVE  /\ IsSequence(StripStructuralDerives(attrs))
           /\ Range(StripStructuralDerives(attrs)) =
                  {a \in {LeftOf(attrs[i]) : i \in DOMAIN attrs} : StaysOn(a)}
<1> DEFINE left == LeftAttrs(attrs)
           stay == {a \in Range(left) : StaysOn(a)}
<1>1. PICK S : left \in Seq(S)
  BY LeftAttrsAre
<1>2. Range(left) = {LeftOf(attrs[i]) : i \in DOMAIN attrs}
  BY LeftAttrsAre DEF Range
<1>3. StripStructuralDerives(attrs) = Sift(left, stay)
  BY StripIs
<1>4. Sift(left, stay) \in Seq(S) /\ Range(Sift(left, stay)) = Range(left) \cap stay
  <2> HIDE DEF left, stay
  <2> QED
    BY <1>1, SiftRange
<1>5. IsSequence(Sift(left, stay))
  <2> HIDE DEF left, stay
  <2> DEFINE q == Sift(left, stay)
  <2>1. q \in [1 .. Len(q) -> S] /\ Len(q) \in Nat /\ DOMAIN q = 1 .. Len(q)
    BY <1>4, LenProperties
  <2> HIDE DEF q
  <2>2. q \in [1 .. Len(q) -> Range(q)]
    BY <2>1 DEF Range
  <2>3. q \in Seq(Range(q))
    BY <2>1, <2>2
  <2> QED
    BY <2>3 DEF q, IsSequence
<1> QED
  BY <1>2, <1>3, <1>4, <1>5

\* No structural derive is left; any other is.
LEMMA StripDerives ==
    ASSUME NEW attrs, WrittenAttrs(attrs), NEW t
    PROVE  DerivesAny(StripStructuralDerives(attrs), {t}) <=> t \notin StructuralDerives /\ DerivesAny(attrs, {t})
<1> DEFINE strip == StripStructuralDerives(attrs)
<1>1. DerivesAny(strip, {t}) <=> \E a \in Range(strip) : \E p \in DeriveList(a) : NamesOneOf(p, {t})
  BY DEF DerivesAny, Range
<1>2. Range(strip) = {a \in {LeftOf(attrs[i]) : i \in DOMAIN attrs} : StaysOn(a)}
  BY StripRange
<1> HIDE DEF strip
<1>3. ASSUME NEW i \in DOMAIN attrs
      PROVE  DeriveList(LeftOf(attrs[i])) = {p \in DeriveList(attrs[i]) : ~NamesOneOf(p, StructuralDerives)}
  <2>1. attrs[i] = Attr(attrs[i].name, attrs[i].paths) /\ IsSequence(attrs[i].paths)
    BY <1>3, LeftAttrsAre
  <2> QED
    BY <2>1, LeftOfIs DEF DeriveList
<1>4. ASSUME NEW i \in DOMAIN attrs, NEW p \in DeriveList(LeftOf(attrs[i]))
      PROVE  StaysOn(LeftOf(attrs[i]))
  BY <1>4 DEF StaysOn, DeriveList, Range
<1>5. \A p : NamesOneOf(p, {t}) => (NamesOneOf(p, StructuralDerives) <=> t \in StructuralDerives)
  BY DEF NamesOneOf
<1>6. ASSUME DerivesAny(strip, {t})
      PROVE  t \notin StructuralDerives /\ DerivesAny(attrs, {t})
  <2>1. PICK i \in DOMAIN attrs : \E p \in DeriveList(LeftOf(attrs[i])) : NamesOneOf(p, {t})
    BY <1>1, <1>2, <1>6
  <2>2. PICK p \in DeriveList(attrs[i]) : ~NamesOneOf(p, StructuralDerives) /\ NamesOneOf(p, {t})
    BY <1>3, <2>1
  <2> QED
    BY <1>5, <2>2 DEF DerivesAny
<1>7. ASSUME t \notin StructuralDerives, DerivesAny(attrs, {t})
      PROVE  DerivesAny(strip, {t})
  <2>1. PICK i \in DOMAIN attrs : \E p \in DeriveList(attrs[i]) : NamesOneOf(p, {t})
    BY <1>7 DEF DerivesAny
  <2>2. PICK p \in DeriveList(attrs[i]) : NamesOneOf(p, {t})
    BY <2>1
  <2>3. p \in DeriveList(LeftOf(attrs[i]))
    BY <1>3, <1>5, <1>7, <2>2
  <2>4. LeftOf(attrs[i]) \in Range(strip)
    BY <1>2, <1>4, <2>3
  <2> QED
    BY <1>1, <2>3, <2>4, <2>2
<1> QED
  BY <1>6, <1>7 DEF strip

\* The entries for the visitors are left alone.
LEMMA StripKeepsSubast ==
    ASSUME NEW attrs, WrittenAttrs(attrs)
    PROVE  Named(StripStructuralDerives(attrs), {"subast"}) = Named(attrs, {"subast"})
<1> DEFINE left == LeftAttrs(attrs)
           stay == {a \in Range(left) : StaysOn(a)}
           strip == Sift(left, stay)
           U == {a \in Range(strip) : a.name \in {"subast"}}
           V == {a \in Range(attrs) : a.name \in {"subast"}}
<1>1. PICK S : attrs \in Seq(S) /\ left \in Seq(S)
  BY LeftAttrsAre
<1>2. Len(left) = Len(attrs) /\ DOMAIN left = 1 .. Len(attrs) /\ DOMAIN attrs = 1 .. Len(attrs)
  BY LeftAttrsAre
<1>3. Range(strip) = Range(left) \cap stay
  <2> HIDE DEF left, stay
  <2> QED
    BY <1>1, SiftRange
<1>4. ASSUME NEW i \in 1 .. Len(attrs)
      PROVE  /\ attrs[i] \in V <=> left[i] \in stay /\ left[i] \in U
             /\ attrs[i] \in V => left[i] = attrs[i]
  <2>1. attrs[i] = Attr(attrs[i].name, attrs[i].paths) /\ IsSequence(attrs[i].paths) /\ left[i] = LeftOf(attrs[i])
    BY LeftAttrsAre
  <2>2. attrs[i] \in Range(attrs) /\ left[i] \in Range(left)
    BY <1>2 DEF Range
  <2>3. left[i].name = attrs[i].name
    BY <2>1, LeftOfIs
  <2>4. attrs[i].name = "subast" => left[i] = attrs[i] /\ StaysOn(left[i])
    BY <2>1, LeftOfIs DEF StaysOn, StructuralHelpers
  <2>5. attrs[i] \in V <=> attrs[i].name = "subast"
    BY <2>2
  <2>6. left[i] \in U <=> left[i] \in stay /\ left[i].name = "subast"
    BY <1>3, <2>2
  <2>7. left[i] \in stay <=> StaysOn(left[i])
    BY <2>2
  <2> QED
    BY <2>3, <2>4, <2>5, <2>6, <2>7
<1>5. Sift(Sift(left, stay), U) = Sift(attrs, V)
  <2> HIDE DEF left, stay, U, V
  <2> QED
    BY <1>1, <1>2, <1>4, SiftTwice
<1>6. StripStructuralDerives(attrs) = strip
  BY StripIs
<1> QED
  BY <1>5, <1>6 DEF Named

\* The markers of a field are left alone.
LEMMA WithoutHelpersKeeps ==
    ASSUME NEW f, WrittenField(f)
    PROVE  /\ [WithoutHelpers(f) EXCEPT !.attrs = Named(@, {"seq", "opt", "skip"})]
                  = [f EXCEPT !.attrs = Named(@, {"seq", "opt", "skip"})]
           /\ WithoutHelpers(f).ty = f.ty
<1> DEFINE markers == {"seq", "opt", "skip"}
           plain == {a \in Range(f.attrs) : a.name \notin StructuralHelpers}
           left == Sift(f.attrs, plain)
           U == {a \in Range(left) : a.name \in markers}
           V == {a \in Range(f.attrs) : a.name \in markers}
<1>1. f = Field(f.variant, f.name, f.ty, f.attrs) /\ f.attrs \in Seq(Range(f.attrs))
  BY DEF WrittenField, WrittenAttrs, IsSequence
<1>2. Range(left) = Range(f.attrs) \cap plain
  <2> HIDE DEF plain
  <2> QED
    BY <1>1, SiftRange
<1>3. ASSUME NEW i \in 1 .. Len(f.attrs)
      PROVE  f.attrs[i] \in V <=> f.attrs[i] \in plain /\ f.attrs[i] \in U
  <2>1. f.attrs[i] \in Range(f.attrs)
    BY <1>1, LenProperties DEF Range
  <2>2. f.attrs[i].name \in markers => f.attrs[i].name \notin StructuralHelpers
    BY DEF StructuralHelpers
  <2> QED
    BY <1>2, <2>1, <2>2
<1>4. Sift(left, U) = Sift(f.attrs, V)
  <2> HIDE DEF plain, U, V
  <2> QED
    BY <1>1, <1>3, SiftTwice
<1>5. WithoutHelpers(f) = Field(f.variant, f.name, f.ty, left)
  BY <1>1 DEF WithoutHelpers, Field
<1>6. Named(left, markers) = Named(f.attrs, markers)
  BY <1>4 DEF Named
<1> HIDE DEF left, plain, U, V
<1>7. [WithoutHelpers(f) EXCEPT !.attrs = Named(@, markers)] = Field(f.variant, f.name, f.ty, Named(left, markers))
  BY <1>5 DEF Field
<1>8. [f EXCEPT !.attrs = Named(@, markers)] = Field(f.variant, f.name, f.ty, Named(f.attrs, markers))
  BY <1>1 DEF Field
<1>9. WithoutHelpers(f).ty = f.ty
  BY <1>5 DEF Field
<1> QED
  BY <1>6, <1>7, <1>8, <1>9

\* What rustc is left with of a type: itself, without its structural derives.
LEMMA NaturalItemIs ==
    ASSUME NEW item, IsAdt(item), WrittenItem(item)
    PROVE  /\ NaturalItem(item).kind = item.kind /\ NaturalItem(item).name = item.name
           /\ NaturalItem(item).attrs = StripStructuralDerives(item.attrs)
           /\ NaturalItem(item).fields = [i \in DOMAIN item.fields |-> WithoutHelpers(item.fields[i])]
<1>1. item = [kind |-> item.kind, name |-> item.name, attrs |-> item.attrs, fields |-> item.fields]
  BY DEF WrittenItem, WrittenAdt
<1>2. DOMAIN item = {"kind", "name", "attrs", "fields"}
  BY <1>1
<1> QED
  BY <1>2 DEF NaturalItem

LEMMA NaturalItemDerives ==
    ASSUME NEW item, IsAdt(item), WrittenItem(item), NEW t
    PROVE  DerivesAny(NaturalItem(item).attrs, {t}) <=> t \notin StructuralDerives /\ DerivesAny(item.attrs, {t})
<1>1. WrittenAttrs(item.attrs)
  BY DEF WrittenItem, WrittenAdt
<1>2. DerivesAny(StripStructuralDerives(item.attrs), {t}) <=> t \notin StructuralDerives /\ DerivesAny(item.attrs, {t})
  BY <1>1, StripDerives
<1>3. NaturalItem(item).attrs = StripStructuralDerives(item.attrs)
  BY NaturalItemIs
<1> QED
  BY <1>2, <1>3

\* derive(Ast) has the same to hand over, and the same to say about it.
LEMMA NaturalItemPublishes ==
    ASSUME NEW item, IsAdt(item), WrittenItem(item)
    PROVE  /\ Published(NaturalItem(item)) = Published(item)
           /\ Reports(NaturalItem(item)) = Reports(item)
<1> DEFINE natural == NaturalItem(item)
<1>1. /\ natural.name = item.name
      /\ natural.attrs = StripStructuralDerives(item.attrs)
      /\ natural.fields = [i \in DOMAIN item.fields |-> WithoutHelpers(item.fields[i])]
  BY NaturalItemIs
<1>2. WrittenAttrs(item.attrs) /\ \A f \in Range(item.fields) : WrittenField(f)
  BY DEF WrittenItem, WrittenAdt
<1> HIDE DEF natural
<1>3. ASSUME NEW i \in DOMAIN item.fields
      PROVE  /\ [natural.fields[i] EXCEPT !.attrs = Named(@, {"seq", "opt", "skip"})]
                    = [item.fields[i] EXCEPT !.attrs = Named(@, {"seq", "opt", "skip"})]
             /\ natural.fields[i].ty = item.fields[i].ty
  <2>1. WrittenField(item.fields[i])
    BY <1>2 DEF Range
  <2>2. natural.fields[i] = WithoutHelpers(item.fields[i])
    BY <1>1
  <2> QED
    BY <2>1, <2>2, WithoutHelpersKeeps
<1>4. DOMAIN natural.fields = DOMAIN item.fields
  BY <1>1
<1>5. CleanedDefinition(natural) = CleanedDefinition(item)
  BY <1>1, <1>3, <1>4 DEF CleanedDefinition
<1>6. Named(natural.attrs, {"subast"}) = Named(item.attrs, {"subast"})
  BY <1>1, <1>2, StripKeepsSubast
<1>7. Subast(natural) = Subast(item)
  BY <1>6 DEF Subast
<1>8. FieldPaths(natural) = FieldPaths(item)
  <2>1. \A i \in DOMAIN item.fields : natural.fields[i].ty = item.fields[i].ty
    BY <1>3
  <2>2. {natural.fields[i].ty : i \in DOMAIN natural.fields} = {item.fields[i].ty : i \in DOMAIN item.fields}
    BY <1>4, <2>1
  <2> QED
    BY <2>2 DEF FieldPaths
<1>9. Published(natural) = Published(item)
  BY <1>5, <1>7 DEF Published
<1>10. Reports(natural) = Reports(item)
  BY <1>7, <1>8 DEF Reports, AmbiguousLastIdents, FieldHeadIdents
<1> QED
  BY <1>9, <1>10 DEF natural

-----------------------------------------------------------------------------
(* What the structural derives generate.                                   *)

\* The fields that hold groups are distinct fields of the item.
LEMMA HoldersAre ==
    ASSUME NEW item, IsAdt(item), WrittenItem(item)
    PROVE  /\ Holders(item) \in Seq(Range(item.fields))
           /\ \A i, j \in 1 .. Len(Holders(item)) :
                  Holders(item)[i].variant = Holders(item)[j].variant /\ Holders(item)[i].name = Holders(item)[j].name
                      => i = j
<1> DEFINE S == Range(item.fields)
           T == {f \in Range(item.fields) : ~Has(f, "default")}
           U == {h \in Range(Parsed(item)) : \E f \in Range(item.fields) : Holds(h, f)}
           s == Parsed(item)
           h == Holders(item)
<1>1. item.fields \in Seq(S) /\ DOMAIN item.fields = 1 .. Len(item.fields)
  <2>1. item.fields \in Seq(S)
    BY DEF WrittenItem, WrittenAdt, IsSequence
  <2> HIDE DEF S
  <2> QED
    BY <2>1, LenProperties
<1>2. /\ \A i, j \in 1 .. Len(item.fields) :
             item.fields[i].variant = item.fields[j].variant /\ item.fields[i].name = item.fields[j].name => i = j
  BY <1>1 DEF WrittenItem, WrittenAdt
<1>3. s = Sift(item.fields, T) /\ h = Sift(s, U)
  BY DEF Parsed, Holders
<1> HIDE DEF S, T, U, s, h
<1>4. s \in Seq(S) /\ \E m \in [1 .. Len(s) -> 1 .. Len(item.fields)] :
          /\ \A i, j \in 1 .. Len(s) : m[i] = m[j] => i = j
          /\ \A i \in 1 .. Len(s) : s[i] = item.fields[m[i]]
  <2>1. \E m \in [1 .. Len(Sift(item.fields, T)) -> 1 .. Len(item.fields)] :
            /\ \A i, j \in 1 .. Len(Sift(item.fields, T)) : m[i] = m[j] => i = j
            /\ \A i \in 1 .. Len(Sift(item.fields, T)) : Sift(item.fields, T)[i] = item.fields[m[i]]
    BY <1>1, SiftPlaces
  <2>2. Sift(item.fields, T) \in Seq(S)
    BY <1>1, SiftPlaces
  <2> QED
    BY <1>3, <2>1, <2>2
<1>5. h \in Seq(S) /\ \E m \in [1 .. Len(h) -> 1 .. Len(s)] :
          /\ \A i, j \in 1 .. Len(h) : m[i] = m[j] => i = j
          /\ \A i \in 1 .. Len(h) : h[i] = s[m[i]]
  <2>1. /\ Sift(s, U) \in Seq(S)
        /\ \E m \in [1 .. Len(Sift(s, U)) -> 1 .. Len(s)] :
               /\ \A i, j \in 1 .. Len(Sift(s, U)) : m[i] = m[j] => i = j
               /\ \A i \in 1 .. Len(Sift(s, U)) : Sift(s, U)[i] = s[m[i]] /\ s[m[i]] \in U
               /\ \A p \in 1 .. Len(s) : s[p] \in U => \E i \in 1 .. Len(Sift(s, U)) : m[i] = p
    <3>1. s \in Seq(S)
      BY <1>4
    <3> QED
      BY <3>1, SiftPlaces
  <2> QED
    BY <1>3, <2>1
<1>6. PICK m \in [1 .. Len(s) -> 1 .. Len(item.fields)] :
          /\ \A i, j \in 1 .. Len(s) : m[i] = m[j] => i = j
          /\ \A i \in 1 .. Len(s) : s[i] = item.fields[m[i]]
  BY <1>4
<1>7. PICK n \in [1 .. Len(h) -> 1 .. Len(s)] :
          /\ \A i, j \in 1 .. Len(h) : n[i] = n[j] => i = j
          /\ \A i \in 1 .. Len(h) : h[i] = s[n[i]]
  BY <1>5
<1>8. ASSUME NEW i \in 1 .. Len(h), NEW j \in 1 .. Len(h), h[i].variant = h[j].variant, h[i].name = h[j].name
      PROVE  i = j
  <2>1. n[i] \in 1 .. Len(s) /\ n[j] \in 1 .. Len(s)
    BY <1>7
  <2>2. h[i] = item.fields[m[n[i]]] /\ h[j] = item.fields[m[n[j]]]
    BY <1>6, <1>7, <2>1
  <2>3. m[n[i]] \in 1 .. Len(item.fields) /\ m[n[j]] \in 1 .. Len(item.fields)
    BY <1>6, <2>1
  <2>4. m[n[i]] = m[n[j]]
    BY <1>2, <1>8, <2>2, <2>3
  <2> QED
    BY <1>6, <1>7, <2>1, <2>4
<1> QED
  BY <1>5, <1>8 DEF S, h

\* The name of a struct that is generated for a group of an item.
OfGroup(n, t, item) == t # "Spanned" /\ \E h \in Range(Holders(item)) : n = SubstructName(t, item, h)

\* A name that two holders share though their parts differ.
Muddled(a, b, n) ==
    \E h \in Range(Holders(a)), k \in Range(Holders(b)) :
        /\ JoinedAlike(a, h, b, k)
        /\ \E t \in StructuralDerives : n = <<Shape(t), Underscored(NameParts(a, h))>>

LEMMA SubstructNameIs ==
    ASSUME NEW a, NEW b, NEW t, NEW u
    PROVE  \A h \in Range(Holders(a)), k \in Range(Holders(b)) :
               SubstructName(t, a, h) = SubstructName(u, b, k) =>
                   \/ Muddled(a, b, SubstructName(t, a, h))
                   \/ a.name = b.name /\ h.name = k.name /\ h.variant = k.variant
<1> SUFFICES ASSUME NEW h \in Range(Holders(a)), NEW k \in Range(Holders(b)), SubstructName(t, a, h) = SubstructName(u, b, k)
             PROVE  \/ Muddled(a, b, SubstructName(t, a, h))
                    \/ a.name = b.name /\ h.name = k.name /\ h.variant = k.variant
  OBVIOUS
<1> DEFINE x == NameParts(a, h)
           y == NameParts(b, k)
           none == ""
<1>1. Underscored(x) = Underscored(y)
  <2> DEFINE v == Underscored(x)
             w == Underscored(y)
  <2>1. <<Shape(t), v>> = <<Shape(u), w>>
    BY DEF SubstructName
  <2> HIDE DEF v, w
  <2>2. v = w
    BY <2>1
  <2> QED
    BY <2>2 DEF v, w
<1>2. CASE x # y
  <2>1. JoinedAlike(a, h, b, k)
    BY <1>1, <1>2 DEF JoinedAlike
  <2>2. \E v \in StructuralDerives : Shape(t) = Shape(v)
    BY DEF Shape, StructuralDerives
  <2>3. \E v \in StructuralDerives : SubstructName(t, a, h) = <<Shape(v), Underscored(NameParts(a, h))>>
    BY <2>2, Zenon DEF SubstructName
  <2> QED
    BY <2>1, <2>3, Zenon DEF Muddled
<1>3. CASE x = y
  <2>1. /\ x = IF h.variant = none THEN <<h.name, a.name>> ELSE <<h.name, a.name, h.variant>>
        /\ y = IF k.variant = none THEN <<k.name, b.name>> ELSE <<k.name, b.name, k.variant>>
    BY Zenon DEF NameParts
  <2> HIDE DEF x, y, none
  <2>2. /\ x[1] = h.name /\ x[2] = a.name
        /\ h.variant = none => Len(x) = 2
        /\ h.variant # none => Len(x) = 3 /\ x[3] = h.variant
    BY <2>1
  <2>3. /\ y[1] = k.name /\ y[2] = b.name
        /\ k.variant = none => Len(y) = 2
        /\ k.variant # none => Len(y) = 3 /\ y[3] = k.variant
    BY <2>1
  <2>4. a.name = b.name /\ h.name = k.name /\ h.variant = k.variant
    BY <1>3, <2>2, <2>3
  <2> QED
    BY <2>4
<1> QED
  BY <1>2, <1>3

\* Only such a name has the two parts of a group's struct: a name that is written has one.
Reserved(path) == Len(path) = 2 /\ path[1] \in {"__SyanSubstructOfOwn", "__SyanSubstructOfRef"}

LEMMA GroupShape == ASSUME NEW n, NEW t, NEW item, OfGroup(n, t, item) PROVE Len(n) = 2 /\ n[1] = Shape(t)
<1>1. PICK h : n = SubstructName(t, item, h)
  BY DEF OfGroup
<1> DEFINE x == Underscored(NameParts(item, h))
<1>2. n = <<Shape(t), x>>
  BY <1>1 DEF SubstructName
<1> HIDE DEF x
<1> QED
  BY <1>2

LEMMA GroupReserved == ASSUME NEW n, NEW t, NEW item, OfGroup(n, t, item) PROVE Reserved(n)
BY GroupShape DEF Reserved, Shape

LEMMA ReservedLen == ASSUME NEW n, Reserved(n) PROVE Len(n) = 2
BY DEF Reserved

LEMMA OneIsNotReserved == ASSUME NEW n, Len(n) = 1 PROVE ~Reserved(n)
BY DEF Reserved

\* Bounds are looked up behind no reference, and no field's type is the struct of a group.
LEMMA BoundsOnAre ==
    ASSUME NEW fields, NEW byRef
    PROVE  \A b \in BoundsOn(fields, byRef) : ~b.ref /\ ~Reserved(b.ty)
<1>1. ASSUME NEW p
      PROVE  LET b == PeelRefs(Bound(<<Last(p)>>, Len(p) = 1, byRef)) IN ~b.ref /\ ~Reserved(b.ty)
  <2> DEFINE x == Bound(<<Last(p)>>, Len(p) = 1, byRef)
             b == PeelRefs(x)
  <2>1. x = [ty |-> <<Last(p)>>, direct |-> Len(p) = 1, ref |-> byRef]
    BY DEF Bound
  <2>2. b = [x EXCEPT !.ref = FALSE]
    BY DEF PeelRefs
  <2> HIDE DEF x, b
  <2>3. b.ref = FALSE /\ b.ty = <<Last(p)>>
    BY <2>1, <2>2
  <2>4. Len(b.ty) = 1
    BY <2>3
  <2>5. ~b.ref /\ ~Reserved(b.ty)
    BY <2>3, <2>4, ReservedLen
  <2> QED
    BY <2>5 DEF x, b
<1> QED
  BY <1>1 DEF BoundsOn

\* An impl or a struct that derive t generates for an item; all but the last are of groups.
Generates(e, g, t, item) ==
    IF e[g].kind = "substruct" THEN g < Len(e) /\ OfGroup(e[g].name, t, item)
    ELSE /\ e[g].kind = "impl" /\ e[g].trait = t /\ \A b \in e[g].bounds : ~b.ref
         /\ IF g = Len(e) THEN /\ e[g].of = <<item.name>>
                               /\ \A b \in e[g].bounds : Reserved(b.ty) => OfGroup(b.ty, t, item)
            ELSE /\ OfGroup(e[g].of, t, item)
                 /\ \E h \in 1 .. Len(e) : e[h].kind = "substruct" /\ e[h].name = e[g].of
                 /\ \A b \in e[g].bounds : ~Reserved(b.ty)
Expansion(e, t, item) ==
    /\ IsSequence(e) /\ e # <<>> /\ e[Len(e)].kind = "impl"
    /\ \A g \in 1 .. Len(e) : Generates(e, g, t, item)
    /\ \A g, h \in 1 .. Len(e) :
           e[g].kind = "substruct" /\ e[h].kind = "substruct" /\ e[g].name = e[h].name =>
               g = h \/ Muddled(item, item, e[g].name)

LEMMA ThreeParts ==
    ASSUME NEW S, NEW a \in Seq(S), NEW b \in Seq(S), Len(b) = Len(a), NEW c \in S
    PROVE  LET e == a \o b \o <<c>>
               n == Len(a)
           IN  /\ e \in Seq(S) /\ n \in Nat /\ Len(e) = n + n + 1 /\ e[n + n + 1] = c
               /\ \A i \in 1 .. n : e[i] = a[i] /\ e[n + i] = b[i]
<1> DEFINE n == Len(a)
           d == a \o b
           e == d \o <<c>>
<1>1. n \in Nat /\ Len(b) = n
  BY LenProperties
<1>2. /\ d \in Seq(S) /\ Len(d) = n + n
      /\ \A i \in 1 .. n + n : d[i] = IF i <= n THEN a[i] ELSE b[i - n]
  <2>1. /\ a \o b \in Seq(S) /\ Len(a \o b) = Len(a) + Len(b)
        /\ \A i \in 1 .. Len(a) + Len(b) : (a \o b)[i] = IF i <= Len(a) THEN a[i] ELSE b[i - Len(a)]
    BY ConcatProperties
  <2> QED
    BY <1>1, <2>1
<1>3. <<c>> \in Seq(S) /\ Len(<<c>>) = 1 /\ <<c>>[1] = c
  OBVIOUS
<1> HIDE DEF d
<1>4. /\ e \in Seq(S) /\ Len(e) = n + n + 1
      /\ \A i \in 1 .. n + n + 1 : e[i] = IF i <= n + n THEN d[i] ELSE <<c>>[i - (n + n)]
  <2> DEFINE k == <<c>>
  <2>1. d \in Seq(S) /\ k \in Seq(S)
    BY <1>2, <1>3
  <2>2. Len(d) = n + n /\ Len(k) = 1
    BY <1>2, <1>3
  <2> HIDE DEF k, n
  <2>3. /\ d \o k \in Seq(S) /\ Len(d \o k) = Len(d) + Len(k)
        /\ \A i \in 1 .. Len(d) + Len(k) : (d \o k)[i] = IF i <= Len(d) THEN d[i] ELSE k[i - Len(d)]
    BY <2>1, ConcatProperties
  <2> QED
    BY <2>2, <2>3 DEF k
<1> HIDE DEF e, n
<1>5. e[n + n + 1] = c
  BY <1>1, <1>3, <1>4
<1>6. ASSUME NEW i \in 1 .. n
      PROVE  e[i] = a[i] /\ e[n + i] = b[i]
  <2>1. i \in 1 .. n + n /\ i <= n /\ n + i \in 1 .. n + n /\ ~(n + i <= n) /\ (n + i) - n = i
    BY <1>1
  <2>2. i \in 1 .. n + n + 1 /\ n + i \in 1 .. n + n + 1 /\ i <= n + n /\ n + i <= n + n
    BY <1>1
  <2> QED
    BY <1>2, <1>4, <2>1, <2>2
<1> QED
  BY <1>1, <1>4, <1>5, <1>6 DEF e, d, n

LEMMA GroupedIs ==
    ASSUME NEW item, IsAdt(item), WrittenItem(item), NEW t, t # "Spanned"
    PROVE  Expansion(ExpandGrouped(t, item), t, item)
<1> DEFINE hs == Holders(item)
           n == Len(hs)
           names == [i \in DOMAIN hs |-> SubstructName(t, item, hs[i])]
           plain == {f \in Range(Parsed(item)) : ~Has(f, "group") /\ f \notin Range(hs)}
           grouped(i) == {f \in Range(Parsed(item)) : Holds(hs[i], f)}
           a == [i \in DOMAIN hs |-> [kind |-> "substruct", name |-> names[i]]]
           b == [i \in DOMAIN hs |-> Impl(t, names[i], BoundsOn(grouped(i), t = "Unparse"))]
           asked == BoundsOn(plain, FALSE) \cup {Bound(m, TRUE, FALSE) : m \in Range(names)}
           c == Impl(t, <<item.name>>, asked)
           S == Range(a) \cup Range(b) \cup {c}
           e == a \o b \o <<c>>
<1>1. ExpandGrouped(t, item) = e
  BY DEF ExpandGrouped
<1>2. /\ n \in Nat /\ DOMAIN hs = 1 .. n
      /\ \A i, j \in 1 .. n : hs[i].variant = hs[j].variant /\ hs[i].name = hs[j].name => i = j
  BY HoldersAre, LenProperties
<1> HIDE DEF hs, n
<1>3. \A i \in 1 .. n : /\ names[i] = SubstructName(t, item, hs[i]) /\ OfGroup(names[i], t, item)
                       /\ hs[i] \in Range(Holders(item))
  BY <1>2 DEF OfGroup, Range, hs
<1>4. ASSUME NEW i \in 1 .. n, NEW j \in 1 .. n, names[i] = names[j]
      PROVE  i = j \/ Muddled(item, item, names[i])
  <2>1. \A h \in Range(Holders(item)), k \in Range(Holders(item)) :
            SubstructName(t, item, h) = SubstructName(t, item, k) =>
                \/ Muddled(item, item, SubstructName(t, item, h))
                \/ h.name = k.name /\ h.variant = k.variant
    BY SubstructNameIs
  <2>2. SubstructName(t, item, hs[i]) = SubstructName(t, item, hs[j])
    BY <1>3, <1>4
  <2>3. \/ Muddled(item, item, names[i])
        \/ hs[i].variant = hs[j].variant /\ hs[i].name = hs[j].name
    BY <1>3, <2>1, <2>2
  <2> QED
    BY <1>2, <2>3
<1>5. \A i \in 1 .. n : a[i] = [kind |-> "substruct", name |-> names[i]]
  BY <1>2
<1>6. \A i \in 1 .. n : b[i] = Impl(t, names[i], BoundsOn(grouped(i), t = "Unparse"))
  BY <1>2
<1>7. \A k \in Range(names) : OfGroup(k, t, item)
  BY <1>2, <1>3 DEF Range
<1>8. a \in Seq(S) /\ b \in Seq(S) /\ Len(a) = n /\ Len(b) = n /\ c \in S
  <2>1. DOMAIN a = 1 .. n /\ DOMAIN b = 1 .. n
    BY <1>2
  <2>2. a = [i \in 1 .. n |-> a[i]] /\ b = [i \in 1 .. n |-> b[i]]
    BY <1>2
  <2>3. \A i \in 1 .. n : a[i] \in S /\ b[i] \in S
    BY <2>1 DEF Range
  <2>4. c \in S
    OBVIOUS
  <2> HIDE DEF a, b, c, S
  <2>5. a \in [1 .. n -> S] /\ b \in [1 .. n -> S]
    BY <2>2, <2>3
  <2>6. a \in Seq(S) /\ b \in Seq(S) /\ Len(a) = n /\ Len(b) = n
    BY <1>2, <2>5
  <2> QED
    BY <2>4, <2>6
<1>9. \A i \in 1 .. n : \A x \in BoundsOn(grouped(i), t = "Unparse") : ~x.ref /\ ~Reserved(x.ty)
  <2> HIDE DEF grouped
  <2> QED
    BY BoundsOnAre
<1>10. \A x \in asked : ~x.ref /\ (Reserved(x.ty) => OfGroup(x.ty, t, item))
  <2>1. \A x \in BoundsOn(plain, FALSE) : ~x.ref /\ ~Reserved(x.ty)
    <3> HIDE DEF plain
    <3> QED
      BY BoundsOnAre
  <2>2. \A k \in Range(names) : Bound(k, TRUE, FALSE).ref = FALSE /\ Bound(k, TRUE, FALSE).ty = k
    BY DEF Bound
  <2> QED
    BY <1>7, <2>1, <2>2
<1> HIDE DEF a, b, S, names, asked, grouped, plain
<1>11. /\ e \in Seq(S) /\ Len(e) = n + n + 1 /\ e[n + n + 1] = c
       /\ \A i \in 1 .. n : e[i] = a[i] /\ e[n + i] = b[i]
  <2> HIDE DEF c
  <2>1. a \in Seq(S) /\ b \in Seq(S) /\ Len(b) = Len(a) /\ c \in S
    BY <1>8
  <2> DEFINE k == Len(a)
             d == a \o b \o <<c>>
  <2>2. /\ d \in Seq(S) /\ k \in Nat /\ Len(d) = k + k + 1 /\ d[k + k + 1] = c
        /\ \A i \in 1 .. k : d[i] = a[i] /\ d[k + i] = b[i]
    BY ONLY <2>1, ThreeParts
  <2>3. d = e /\ k = n
    BY <1>8
  <2> HIDE DEF d, k, e
  <2> QED
    BY <2>2, <2>3
<1> HIDE DEF e
<1>12. \A g \in 1 .. Len(e) : g \in 1 .. n \/ (\E i \in 1 .. n : g = n + i) \/ g = n + n + 1
  <2>1. ASSUME NEW g \in 1 .. n + n + 1, g \notin 1 .. n, g # n + n + 1
        PROVE  g - n \in 1 .. n /\ g = n + (g - n)
    BY <1>2, <2>1
  <2> QED
    BY <1>11, <2>1
<1>13. ASSUME NEW i \in 1 .. n
       PROVE  e[i].kind = "substruct" /\ e[i].name = names[i] /\ i < Len(e) /\ i \in 1 .. Len(e)
  <2>1. i < Len(e) /\ i \in 1 .. Len(e)
    BY <1>2, <1>11
  <2>2. e[i] = [kind |-> "substruct", name |-> names[i]]
    BY <1>5, <1>11
  <2> QED
    BY <2>1, <2>2
<1>14. ASSUME NEW i \in 1 .. n
       PROVE  /\ e[n + i].kind = "impl" /\ e[n + i].trait = t /\ e[n + i].of = names[i]
              /\ e[n + i].bounds = BoundsOn(grouped(i), t = "Unparse") /\ n + i # Len(e)
  <2>1. n + i # Len(e)
    BY <1>2, <1>11
  <2>2. e[n + i] = Impl(t, names[i], BoundsOn(grouped(i), t = "Unparse"))
    BY <1>6, <1>11
  <2> QED
    BY <2>1, <2>2 DEF Impl
<1>15. /\ e[Len(e)].kind = "impl" /\ e[Len(e)].trait = t /\ e[Len(e)].of = <<item.name>>
       /\ e[Len(e)].bounds = asked
  BY <1>11 DEF Impl
<1>16. \A g \in 1 .. Len(e) : Generates(e, g, t, item)
  <2> SUFFICES ASSUME NEW g \in 1 .. Len(e)
               PROVE  Generates(e, g, t, item)
    OBVIOUS
  <2>1. CASE g \in 1 .. n
    BY <1>3, <1>13, <2>1 DEF Generates
  <2>2. ASSUME NEW i \in 1 .. n, g = n + i
        PROVE  Generates(e, g, t, item)
    <3>1. /\ e[g].kind = "impl" /\ e[g].trait = t /\ e[g].of = names[i]
          /\ e[g].bounds = BoundsOn(grouped(i), t = "Unparse") /\ g # Len(e)
      BY <1>14, <2>2
    <3>2. OfGroup(e[g].of, t, item)
      BY <1>3, <3>1
    <3>3. \E h \in 1 .. Len(e) : e[h].kind = "substruct" /\ e[h].name = e[g].of
      BY <1>13, <3>1
    <3>4. \A x \in e[g].bounds : ~x.ref /\ ~Reserved(x.ty)
      BY <1>9, <3>1
    <3> QED
      BY <3>1, <3>2, <3>3, <3>4 DEF Generates
  <2>3. CASE g = n + n + 1
    <3>1. g = Len(e)
      BY <1>11, <2>3
    <3> QED
      BY <1>10, <1>15, <3>1 DEF Generates
  <2> QED
    BY <1>12, <2>1, <2>2, <2>3
<1>17. ASSUME NEW g \in 1 .. Len(e), NEW h \in 1 .. Len(e),
              e[g].kind = "substruct", e[h].kind = "substruct", e[g].name = e[h].name
       PROVE  g = h \/ Muddled(item, item, e[g].name)
  <2>1. g \in 1 .. n /\ h \in 1 .. n
    BY <1>11, <1>12, <1>14, <1>15, <1>17
  <2> QED
    BY <1>4, <1>13, <1>17, <2>1
<1>18. IsSequence(e) /\ e # <<>>
  <2>1. e \in [1 .. Len(e) -> S] /\ Len(e) \in Nat /\ DOMAIN e = 1 .. Len(e)
    BY <1>11, LenProperties
  <2>2. e \in [1 .. Len(e) -> Range(e)]
    BY <2>1 DEF Range
  <2>3. e \in Seq(Range(e))
    BY <2>1, <2>2
  <2>4. Len(e) # 0
    BY <1>2, <1>11
  <2> QED
    BY <2>3, <2>4 DEF IsSequence
<1> QED
  BY <1>1, <1>15, <1>16, <1>17, <1>18 DEF Expansion

LEMMA RoutedIs ==
    ASSUME NEW item, IsAdt(item), WrittenItem(item), NEW t
    PROVE  Expansion(ExpandRouted(t, item), t, item)
<1>1. CASE t # "Spanned"
  BY <1>1, GroupedIs DEF ExpandRouted
<1>2. CASE t = "Spanned"
  <2> DEFINE asked == BoundsOn(Range(Parsed(item)), FALSE)
             e == <<Impl(t, <<item.name>>, asked)>>
  <2>1. ExpandRouted(t, item) = e
    BY <1>2 DEF ExpandRouted
  <2>2. Len(e) = 1 /\ e[1] = Impl(t, <<item.name>>, asked) /\ e \in Seq({Impl(t, <<item.name>>, asked)}) /\ e # <<>>
    OBVIOUS
  <2>3. \A x \in asked : ~x.ref /\ ~Reserved(x.ty)
    BY BoundsOnAre
  <2>4. Range(e) = {Impl(t, <<item.name>>, asked)}
    <3>1. DOMAIN e = {1}
      OBVIOUS
    <3>2. e[1] = Impl(t, <<item.name>>, asked)
      OBVIOUS
    <3> HIDE DEF e, asked
    <3>3. Range(e) = {e[1]}
      BY <3>1 DEF Range
    <3> QED
      BY <3>2, <3>3
  <2> HIDE DEF e, asked
  <2>5. e[1].kind = "impl" /\ e[1].trait = t /\ e[1].of = <<item.name>> /\ e[1].bounds = asked
    BY <2>2 DEF Impl
  <2>6. \A g \in 1 .. Len(e) : g = 1
    BY <2>2
  <2>7. Generates(e, 1, t, item)
    BY <2>2, <2>3, <2>5 DEF Generates
  <2> QED
    BY <2>1, <2>2, <2>4, <2>5, <2>6, <2>7 DEF Expansion, IsSequence
<1> QED
  BY <1>1, <1>2

\* The three derives one after the other: the fold as the function that it is defined by.
Derive(ex, item, t) == IF DerivesAny(item.attrs, {t}) THEN ExpandOne(ex, item, t) ELSE ex
DeriveAll(ex, item) == FoldLeft(LAMBDA e, t : Derive(e, item, t), ex, RoutedTraits)
DeriveTo(ex, item, s, it) ==
    IF s = {} THEN ex ELSE Derive(it[s \ {Max(s)}], item, RoutedTraits[Max(s)])
Derives(ex, item) == CHOOSE it : it = [s \in SUBSET DOMAIN RoutedTraits |-> DeriveTo(ex, item, s, it)]

LEMMA MaxIs ==
    ASSUME NEW S, S \subseteq Int, NEW k \in S, \A y \in S : k >= y
    PROVE  Max(S) = k
<1>1. Max(S) \in S /\ \A y \in S : Max(S) >= y
  BY DEF Max
<1>2. Max(S) <= k /\ k <= Max(S) /\ Max(S) \in Int /\ k \in Int
  BY <1>1
<1> QED
  BY <1>2

LEMMA DeriveAllIs ==
    ASSUME NEW ex, NEW item
    PROVE  DeriveAll(ex, item) = Derive(Derive(Derive(ex, item, "Parse"), item, "Unparse"), item, "Spanned")
<1> DEFINE D == {1, 2, 3}
           first(s) == IF 1 \in s THEN Derive(ex, item, "Parse") ELSE ex
           second(s) == IF 2 \in s THEN Derive(first(s), item, "Unparse") ELSE first(s)
           third(s) == IF 3 \in s THEN Derive(second(s), item, "Spanned") ELSE second(s)
           g == [s \in SUBSET D |-> third(s)]
<1>1. DOMAIN RoutedTraits = D /\ RoutedTraits[1] = "Parse" /\ RoutedTraits[2] = "Unparse" /\ RoutedTraits[3] = "Spanned"
  BY DEF RoutedTraits
<1>2. DeriveAll(ex, item) = Derives(ex, item)[D]
  <2>1. DeriveAll(ex, item) = Derives(ex, item)[DOMAIN RoutedTraits]
    BY DEF DeriveAll, FoldLeft, MapThenFoldSet, Derives, DeriveTo
  <2> HIDE DEF D
  <2> QED
    BY <1>1, <2>1
<1>3. ASSUME NEW s \in SUBSET D
      PROVE  g[s] = DeriveTo(ex, item, s, g)
  <2>1. CASE 3 \in s
    <3>1. Max(s) = 3
      <4>1. s \subseteq Int /\ \A y \in s : 3 >= y
        OBVIOUS
      <4> QED
        BY <2>1, <4>1, MaxIs
    <3>2. s \ {3} \in SUBSET D /\ s # {}
      BY <2>1
    <3>3. first(s \ {3}) = first(s)
      OBVIOUS
    <3>4. second(s \ {3}) = second(s)
      BY <3>3
    <3>5. third(s \ {3}) = second(s)
      BY <3>4
    <3>6. g[s \ {3}] = second(s)
      BY <3>2, <3>5
    <3>7. g[s] = Derive(second(s), item, "Spanned")
      BY <2>1
    <3> HIDE DEF g, second
    <3> QED
      BY <1>1, <3>1, <3>2, <3>6, <3>7 DEF DeriveTo
  <2>2. CASE 3 \notin s /\ 2 \in s
    <3>1. Max(s) = 2
      <4>1. s \subseteq Int /\ \A y \in s : 2 >= y
        BY <2>2
      <4> QED
        BY <2>2, <4>1, MaxIs
    <3>2. s \ {2} \in SUBSET D /\ s # {}
      BY <2>2
    <3>3. first(s \ {2}) = first(s)
      OBVIOUS
    <3>4. third(s \ {2}) = first(s)
      BY <2>2, <3>3
    <3>5. g[s \ {2}] = first(s)
      BY <3>2, <3>4
    <3>6. g[s] = Derive(first(s), item, "Unparse")
      BY <2>2
    <3> HIDE DEF g, first
    <3> QED
      BY <1>1, <3>1, <3>2, <3>5, <3>6 DEF DeriveTo
  <2>3. CASE s = {1}
    <3>1. Max(s) = 1
      <4>1. s \subseteq Int /\ 1 \in s /\ \A y \in s : 1 >= y
        BY <2>3
      <4> QED
        BY <4>1, MaxIs
    <3>2. s \ {1} = {} /\ s # {} /\ {} \in SUBSET D
      BY <2>3
    <3>3. g[{}] = ex
      BY <3>2
    <3>4. g[s] = Derive(ex, item, "Parse")
      BY <2>3
    <3> HIDE DEF g
    <3> QED
      BY <1>1, <3>1, <3>2, <3>3, <3>4 DEF DeriveTo
  <2>4. CASE s = {}
    BY <2>4 DEF DeriveTo
  <2>5. 3 \in s \/ (3 \notin s /\ 2 \in s) \/ s = {1} \/ s = {}
    OBVIOUS
  <2> QED
    BY <2>1, <2>2, <2>3, <2>4, <2>5
<1>4. g = [s \in SUBSET D |-> DeriveTo(ex, item, s, g)]
  <2> DEFINE h == [s \in SUBSET D |-> DeriveTo(ex, item, s, g)]
  <2>1. DOMAIN g = SUBSET D /\ DOMAIN h = SUBSET D /\ g = [s \in SUBSET D |-> g[s]]
    OBVIOUS
  <2>2. \A s \in SUBSET D : h[s] = DeriveTo(ex, item, s, g)
    OBVIOUS
  <2> HIDE DEF g
  <2> QED
    BY <1>3, <2>1, <2>2
<1> HIDE DEF g
<1> DEFINE f == Derives(ex, item)
<1>5. f = [s \in SUBSET D |-> DeriveTo(ex, item, s, f)]
  <2> HIDE DEF D
  <2> QED
    BY <1>1, <1>4 DEF Derives
<1>6. f[{}] = ex
  <2>1. {} \in SUBSET D
    OBVIOUS
  <2> HIDE DEF f, D
  <2> QED
    BY <1>5, <2>1 DEF DeriveTo
<1>7. f[{1}] = Derive(ex, item, "Parse")
  <2>1. {1} \in SUBSET D /\ {1} # {} /\ {1} \ {1} = {}
    OBVIOUS
  <2>2. Max({1}) = 1
    <3>1. {1} \subseteq Int /\ 1 \in {1} /\ \A y \in {1} : 1 >= y
      OBVIOUS
    <3> QED
      BY <3>1, MaxIs
  <2> HIDE DEF f, D
  <2>3. f[{1}] = DeriveTo(ex, item, {1}, f)
    BY <1>5, <2>1
  <2> QED
    BY <1>1, <1>6, <2>1, <2>2, <2>3 DEF DeriveTo
<1>8. f[{1, 2}] = Derive(f[{1}], item, "Unparse")
  <2>1. {1, 2} \in SUBSET D /\ {1, 2} # {} /\ {1, 2} \ {2} = {1}
    OBVIOUS
  <2>2. Max({1, 2}) = 2
    <3>1. {1, 2} \subseteq Int /\ 2 \in {1, 2} /\ \A y \in {1, 2} : 2 >= y
      OBVIOUS
    <3> QED
      BY <3>1, MaxIs
  <2> HIDE DEF f, D
  <2>3. f[{1, 2}] = DeriveTo(ex, item, {1, 2}, f)
    BY <1>5, <2>1
  <2> QED
    BY <1>1, <2>1, <2>2, <2>3 DEF DeriveTo
<1>9. f[D] = Derive(f[{1, 2}], item, "Spanned")
  <2>1. D \in SUBSET D /\ D # {} /\ D \ {3} = {1, 2}
    OBVIOUS
  <2>2. Max(D) = 3
    <3>1. D \subseteq Int /\ 3 \in D /\ \A y \in D : 3 >= y
      OBVIOUS
    <3> QED
      BY <3>1, MaxIs
  <2> HIDE DEF f, D
  <2>3. f[D] = DeriveTo(ex, item, D, f)
    BY <1>5, <2>1
  <2> QED
    BY <1>1, <2>1, <2>2, <2>3 DEF DeriveTo
<1> QED
  BY <1>2, <1>6, <1>7, <1>8, <1>9

-----------------------------------------------------------------------------
(* Where the items of the expansion come from.                             *)

IsTaken(item) == IsAdt(item) /\ DerivesAny(item.attrs, StructuralDerives)
Rewritten(item) == IF IsTaken(item) THEN NaturalItem(item) ELSE RewriteTraitImports(item)

\* Derive t of the i-th of the written items is expanded, when m items are, the last for those of D.
Done(written, m, D, i, t) ==
    /\ i \in 1 .. m /\ t \in StructuralDerives /\ (i < m \/ t \in D)
    /\ IsAdt(written[i]) /\ DerivesAny(written[i].attrs, {t})
\* The i-th of the written items itself, or the g-th that its derive t generated.
Made(written, m, D, i, t, g) ==
    \/ i \in 1 .. m /\ t = "" /\ g = 0
    \/ Done(written, m, D, i, t) /\ g \in 1 .. Len(ExpandRouted(t, written[i]))
Source(written, i, t, g) == IF t = "" THEN Rewritten(written[i]) ELSE ExpandRouted(t, written[i])[g]
DerivedFrom(written, its, from, i, t) ==
    [owner |-> <<written[i].name>>, trait |-> t,
     impls |-> {j \in DOMAIN its : from[j][1] = i /\ from[j][2] = t /\ its[j].kind = "impl"},
     substructs |-> {its[j].name : j \in {k \in DOMAIN its : from[k][1] = i /\ from[k][2] = t /\ its[k].kind # "impl"}}]

\* The expansion so far: from says of each of its items what it is made from.
Places(written, its, m, D, from) ==
    /\ IsSequence(its) /\ DOMAIN from = DOMAIN its
    /\ \A j \in DOMAIN its :
           /\ from[j] = <<from[j][1], from[j][2], from[j][3]>>
           /\ Made(written, m, D, from[j][1], from[j][2], from[j][3])
           /\ its[j] = Source(written, from[j][1], from[j][2], from[j][3])
    /\ \A j, k \in DOMAIN its : from[j] = from[k] => j = k
    /\ \A i, t, g : Made(written, m, D, i, t, g) => \E j \in DOMAIN its : from[j] = <<i, t, g>>
Stage(written, its, der, m, D, from) ==
    /\ Places(written, its, m, D, from)
    /\ IsSequence(der)
    /\ \A d \in Range(der) : \E i, t : Done(written, m, D, i, t) /\ d = DerivedFrom(written, its, from, i, t)
    /\ \A i, t : Done(written, m, D, i, t) => DerivedFrom(written, its, from, i, t) \in Range(der)

\* Sequences of any kind.
LEMMA SequenceIs ==
    ASSUME NEW s, IsSequence(s)
    PROVE  Len(s) \in Nat /\ DOMAIN s = 1 .. Len(s) /\ s \in Seq(Range(s))
BY LenProperties DEF IsSequence

LEMMA SequenceOf ==
    ASSUME NEW S, NEW s \in Seq(S)
    PROVE  IsSequence(s)
<1>1. s \in [1 .. Len(s) -> S] /\ Len(s) \in Nat /\ DOMAIN s = 1 .. Len(s)
  BY LenProperties
<1>2. s \in [1 .. Len(s) -> Range(s)]
  BY <1>1 DEF Range
<1>3. s \in Seq(Range(s))
  BY <1>1, <1>2
<1> QED
  BY <1>3 DEF IsSequence

LEMMA SequenceConcat ==
    ASSUME NEW s, IsSequence(s), NEW t, IsSequence(t)
    PROVE  /\ IsSequence(s \o t) /\ Len(s \o t) = Len(s) + Len(t) /\ DOMAIN (s \o t) = 1 .. Len(s) + Len(t)
           /\ \A i \in 1 .. Len(s) : (s \o t)[i] = s[i]
           /\ \A i \in 1 .. Len(t) : (s \o t)[Len(s) + i] = t[i]
<1> DEFINE S == Range(s) \cup Range(t)
           q == s \o t
<1>1. s \in Seq(S) /\ t \in Seq(S)
  <2>1. s \in Seq(Range(s)) /\ t \in Seq(Range(t)) /\ Range(s) \subseteq S /\ Range(t) \subseteq S
    BY SequenceIs
  <2> HIDE DEF S
  <2> QED
    BY <2>1, SeqMonotonic
<1>2. Len(s) \in Nat /\ Len(t) \in Nat
  BY SequenceIs
<1> HIDE DEF S
<1>3. /\ q \in Seq(S) /\ Len(q) = Len(s) + Len(t)
      /\ \A i \in 1 .. Len(s) + Len(t) : q[i] = IF i <= Len(s) THEN s[i] ELSE t[i - Len(s)]
  BY <1>1, ConcatProperties
<1> HIDE DEF q
<1>4. IsSequence(q) /\ DOMAIN q = 1 .. Len(s) + Len(t)
  BY <1>3, SequenceOf, SequenceIs
<1>5. ASSUME NEW i \in 1 .. Len(s)
      PROVE  q[i] = s[i]
  BY <1>2, <1>3
<1>6. ASSUME NEW i \in 1 .. Len(t)
      PROVE  q[Len(s) + i] = t[i]
  <2>1. Len(s) + i \in 1 .. Len(s) + Len(t) /\ ~(Len(s) + i <= Len(s)) /\ (Len(s) + i) - Len(s) = i
    BY <1>2
  <2> QED
    BY <1>3, <2>1
<1> QED
  BY <1>3, <1>4, <1>5, <1>6 DEF q

LEMMA SequenceAppend ==
    ASSUME NEW s, IsSequence(s), NEW x
    PROVE  /\ IsSequence(Append(s, x)) /\ Len(Append(s, x)) = Len(s) + 1 /\ DOMAIN Append(s, x) = 1 .. Len(s) + 1
           /\ \A i \in 1 .. Len(s) : Append(s, x)[i] = s[i]
           /\ Append(s, x)[Len(s) + 1] = x
           /\ Range(Append(s, x)) = Range(s) \cup {x}
<1> DEFINE S == Range(s) \cup {x}
           q == Append(s, x)
<1>1. s \in Seq(S) /\ x \in S
  <2>1. s \in Seq(Range(s)) /\ Range(s) \subseteq S /\ x \in S
    BY SequenceIs
  <2> HIDE DEF S
  <2> QED
    BY <2>1, SeqMonotonic
<1>2. Len(s) \in Nat /\ DOMAIN s = 1 .. Len(s)
  BY SequenceIs
<1> HIDE DEF S
<1>3. q \in Seq(S) /\ Len(q) = Len(s) + 1 /\ (\A i \in 1 .. Len(s) : q[i] = s[i]) /\ q[Len(s) + 1] = x
  BY <1>1, AppendProperties
<1> HIDE DEF q
<1>4. IsSequence(q) /\ DOMAIN q = 1 .. Len(s) + 1
  BY <1>3, SequenceOf, SequenceIs
<1>5. Range(q) = Range(s) \cup {x}
  <2>1. ASSUME NEW y \in Range(q)
        PROVE  y \in Range(s) \cup {x}
    <3>1. PICK i \in 1 .. Len(s) + 1 : q[i] = y
      BY <1>4, <2>1 DEF Range
    <3>2. i \in 1 .. Len(s) \/ i = Len(s) + 1
      BY <1>2, <3>1
    <3> QED
      BY <1>2, <1>3, <3>1, <3>2 DEF Range
  <2>2. ASSUME NEW y \in Range(s)
        PROVE  y \in Range(q)
    <3>1. PICK i \in 1 .. Len(s) : s[i] = y
      BY <1>2, <2>2 DEF Range
    <3>2. i \in 1 .. Len(s) + 1
      BY <1>2, <3>1
    <3> QED
      BY <1>3, <1>4, <3>1, <3>2 DEF Range
  <2>3. x \in Range(q)
    <3>1. Len(s) + 1 \in 1 .. Len(s) + 1
      BY <1>2
    <3> QED
      BY <1>3, <1>4, <3>1 DEF Range
  <2> QED
    BY <2>1, <2>2, <2>3
<1> QED
  BY <1>3, <1>4, <1>5 DEF q

LEMMA StageStarts ==
    ASSUME NEW written
    PROVE  Stage(written, <<>>, <<>>, 0, StructuralDerives, <<>>)
<1>1. IsSequence(<<>>) /\ DOMAIN <<>> = {} /\ Range(<<>>) = {}
  BY DEF IsSequence, Range
<1>2. \A i, t : ~Done(written, 0, StructuralDerives, i, t)
  BY DEF Done
<1>3. \A i, t, g : ~Made(written, 0, StructuralDerives, i, t, g)
  BY <1>2 DEF Made
<1>4. Places(written, <<>>, 0, StructuralDerives, <<>>)
  BY <1>1, <1>3 DEF Places
<1> QED
  BY <1>1, <1>2, <1>4 DEF Stage

\* Items of one origin are put at the end.
Numbered(t, k) == IF t = "" THEN 0 ELSE k
Extended(from, n, l, i, t) ==
    [j \in 1 .. n + l |-> IF j <= n THEN from[j] ELSE <<i, t, Numbered(t, j - n)>>]

Growth(written, m, D, p, E, i, t, new) ==
    /\ IsSequence(new) /\ (t = "" => Len(new) = 1)
    /\ \A k \in 1 .. Len(new) : new[k] = Source(written, i, t, Numbered(t, k))
    /\ \A g : ~Made(written, m, D, i, t, g)
    /\ \A j, u, g : Made(written, p, E, j, u, g) <=>
           Made(written, m, D, j, u, g) \/ (j = i /\ u = t /\ \E k \in 1 .. Len(new) : g = Numbered(t, k))

LEMMA PlacesGrow ==
    ASSUME NEW written, NEW its, NEW m, NEW D, NEW from, Places(written, its, m, D, from),
           NEW p, NEW E, NEW i0, NEW t0, NEW new, Growth(written, m, D, p, E, i0, t0, new),
           NEW to, to = Extended(from, Len(its), Len(new), i0, t0)
    PROVE  /\ Places(written, its \o new, p, E, to)
           /\ \A i, t : ~(i = i0 /\ t = t0) =>
                  DerivedFrom(written, its \o new, to, i, t) = DerivedFrom(written, its, from, i, t)
           /\ DerivedFrom(written, its \o new, to, i0, t0) =
                  [owner |-> <<written[i0].name>>, trait |-> t0,
                   impls |-> {Len(its) + k : k \in {l \in 1 .. Len(new) : new[l].kind = "impl"}},
                   substructs |-> {new[k].name : k \in {l \in 1 .. Len(new) : new[l].kind # "impl"}}]
<1> DEFINE n == Len(its)
           l == Len(new)
           q == its \o new
<1>1. /\ IsSequence(q) /\ DOMAIN q = 1 .. n + l /\ n \in Nat /\ l \in Nat /\ DOMAIN its = 1 .. n
      /\ \A j \in 1 .. n : q[j] = its[j]
      /\ \A k \in 1 .. l : q[n + k] = new[k]
  <2>1. IsSequence(its) /\ IsSequence(new)
    BY DEF Places, Growth
  <2> QED
    BY <2>1, SequenceIs, SequenceConcat
<1>2. DOMAIN to = 1 .. n + l /\ \A j \in 1 .. n : to[j] = from[j]
  <2>1. \A j \in 1 .. n : j \in 1 .. n + l /\ j <= n
    BY <1>1
  <2> QED
    BY <2>1 DEF Extended
<1>3. \A k \in 1 .. l : to[n + k] = <<i0, t0, Numbered(t0, k)>>
  <2>1. ASSUME NEW k \in 1 .. l
        PROVE  n + k \in 1 .. n + l /\ ~(n + k <= n) /\ (n + k) - n = k
    BY <1>1
  <2> QED
    BY <2>1 DEF Extended
<1>4. \A j \in 1 .. n + l : j \in 1 .. n \/ \E k \in 1 .. l : j = n + k
  <2>1. ASSUME NEW j \in 1 .. n + l, j \notin 1 .. n
        PROVE  j - n \in 1 .. l /\ j = n + (j - n)
    BY <1>1, <2>1
  <2> QED
    BY <2>1
<1>5. \A j \in 1 .. n : j \in 1 .. n + l
  BY <1>1
<1>6. \A k \in 1 .. l : n + k \in 1 .. n + l
  BY <1>1
<1>7. ASSUME NEW j \in 1 .. n
      PROVE  /\ from[j] = <<from[j][1], from[j][2], from[j][3]>>
             /\ Made(written, m, D, from[j][1], from[j][2], from[j][3])
             /\ its[j] = Source(written, from[j][1], from[j][2], from[j][3])
             /\ ~(from[j][1] = i0 /\ from[j][2] = t0)
  <2>1. /\ from[j] = <<from[j][1], from[j][2], from[j][3]>>
        /\ Made(written, m, D, from[j][1], from[j][2], from[j][3])
        /\ its[j] = Source(written, from[j][1], from[j][2], from[j][3])
    BY <1>1 DEF Places
  <2> QED
    BY <2>1 DEF Growth
<1>8. \A k \in 1 .. l : new[k] = Source(written, i0, t0, Numbered(t0, k)) /\ Made(written, p, E, i0, t0, Numbered(t0, k))
  BY DEF Growth
<1>9. \A i, t, g : Made(written, m, D, i, t, g) => Made(written, p, E, i, t, g)
  BY DEF Growth
<1>10. \A i, t, g : Made(written, p, E, i, t, g) =>
           Made(written, m, D, i, t, g) \/ (i = i0 /\ t = t0 /\ \E k \in 1 .. l : g = Numbered(t0, k))
  BY DEF Growth
<1>11. t0 = "" => \A k \in 1 .. l : k = 1
  <2>1. t0 = "" => l = 1
    BY DEF Growth
  <2> HIDE DEF l, n, q
  <2>2. \A k \in 1 .. 1 : k = 1
    OBVIOUS
  <2> QED
    BY <2>1, <2>2
<1> DEFINE Fine(j) == /\ to[j] = <<to[j][1], to[j][2], to[j][3]>>
                      /\ Made(written, p, E, to[j][1], to[j][2], to[j][3])
                      /\ q[j] = Source(written, to[j][1], to[j][2], to[j][3])
<1> HIDE DEF n, l, q
<1>12. ASSUME NEW j \in 1 .. n + l
      PROVE  Fine(j)
  <2>1. CASE j \in 1 .. n
    BY <1>1, <1>2, <1>7, <1>9, <2>1
  <2>2. ASSUME NEW k \in 1 .. l, j = n + k
        PROVE  Fine(j)
    <3>1. to[j] = <<i0, t0, Numbered(t0, k)>>
      BY <1>3, <2>2
    <3>2. to[j][1] = i0 /\ to[j][2] = t0 /\ to[j][3] = Numbered(t0, k)
      BY <3>1
    <3>3. q[j] = Source(written, i0, t0, Numbered(t0, k)) /\ Made(written, p, E, i0, t0, Numbered(t0, k))
      BY <1>1, <1>8, <2>2
    <3> QED
      BY <3>1, <3>2, <3>3
  <2> HIDE DEF Fine
  <2> QED
    BY <1>4, <2>1, <2>2
<1>13. ASSUME NEW j \in 1 .. n + l, NEW k \in 1 .. n + l, to[j] = to[k]
      PROVE  j = k
  <2>1. CASE j \in 1 .. n /\ k \in 1 .. n
    BY <1>1, <1>2, <1>13, <2>1 DEF Places
  <2>2. ASSUME NEW a \in 1 .. n, NEW b \in 1 .. l, to[a] = to[n + b]
        PROVE  FALSE
    <3>1. to[a][1] = i0 /\ to[a][2] = t0
      BY <1>3, <2>2
    <3> QED
      BY <1>2, <1>7, <3>1
  <2>3. ASSUME NEW a \in 1 .. l, NEW b \in 1 .. l, j = n + a, k = n + b
        PROVE  j = k
    <3>1. Numbered(t0, a) = Numbered(t0, b)
      BY <1>3, <1>13, <2>3
    <3>2. CASE t0 = ""
      <4>1. a = 1 /\ b = 1
        BY <1>11, <3>2
      <4> QED
        BY <2>3, <4>1
    <3>3. CASE t0 # ""
      BY <2>3, <3>1, <3>3 DEF Numbered
    <3> QED
      BY <3>2, <3>3
  <2> QED
    BY <1>4, <1>13, <2>1, <2>2, <2>3
<1>14. ASSUME NEW i, NEW t, NEW g, Made(written, p, E, i, t, g)
       PROVE  \E j \in 1 .. n + l : to[j] = <<i, t, g>>
  <2>1. CASE Made(written, m, D, i, t, g)
    <3>1. PICK j \in 1 .. n : from[j] = <<i, t, g>>
      BY <1>1, <2>1 DEF Places
    <3> QED
      BY <1>2, <1>5, <3>1
  <2>2. CASE i = i0 /\ t = t0 /\ \E k \in 1 .. l : g = Numbered(t0, k)
    <3>1. PICK k \in 1 .. l : g = Numbered(t0, k)
      BY <2>2
    <3> QED
      BY <1>3, <1>6, <2>2, <3>1
  <2> QED
    <3>1. Made(written, m, D, i, t, g) \/ (i = i0 /\ t = t0 /\ \E k \in 1 .. l : g = Numbered(t0, k))
      BY <1>14, <1>10
    <3> QED
      BY <2>1, <2>2, <3>1
<1>15. Places(written, q, p, E, to)
  <2>1. \A j \in DOMAIN q : Fine(j)
    BY <1>1, <1>12
  <2>2. \A j, k \in DOMAIN q : to[j] = to[k] => j = k
    BY <1>1, <1>13
  <2>3. \A i, t, g : Made(written, p, E, i, t, g) => \E j \in DOMAIN q : to[j] = <<i, t, g>>
    <3> TAKE i, t, g
    <3> HAVE Made(written, p, E, i, t, g)
    <3>1. PICK j \in 1 .. n + l : to[j] = <<i, t, g>>
      BY <1>14
    <3> QED
      BY <1>1, <3>1
  <2>4. IsSequence(q) /\ DOMAIN to = DOMAIN q
    BY <1>1, <1>2
  <2> QED
    BY <2>1, <2>2, <2>3, <2>4 DEF Places
<1>16. ASSUME NEW i, NEW t, ~(i = i0 /\ t = t0)
       PROVE  DerivedFrom(written, q, to, i, t) = DerivedFrom(written, its, from, i, t)
  <2>1. \A j \in 1 .. n + l : to[j][1] = i /\ to[j][2] = t => j \in 1 .. n
    BY <1>3, <1>4, <1>16
  <2>2. {j \in DOMAIN q : to[j][1] = i /\ to[j][2] = t /\ q[j].kind = "impl"}
            = {j \in DOMAIN its : from[j][1] = i /\ from[j][2] = t /\ its[j].kind = "impl"}
    BY <1>1, <1>2, <1>5, <2>1
  <2>3. {j \in DOMAIN q : to[j][1] = i /\ to[j][2] = t /\ q[j].kind # "impl"}
            = {j \in DOMAIN its : from[j][1] = i /\ from[j][2] = t /\ its[j].kind # "impl"}
    BY <1>1, <1>2, <1>5, <2>1
  <2>4. \A j \in {k \in DOMAIN its : from[k][1] = i /\ from[k][2] = t /\ its[k].kind # "impl"} : q[j].name = its[j].name
    BY <1>1
  <2>5. {q[j].name : j \in {k \in DOMAIN q : to[k][1] = i /\ to[k][2] = t /\ q[k].kind # "impl"}}
            = {its[j].name : j \in {k \in DOMAIN its : from[k][1] = i /\ from[k][2] = t /\ its[k].kind # "impl"}}
    BY <2>3, <2>4
  <2> QED
    BY <2>2, <2>5 DEF DerivedFrom
<1>17. DerivedFrom(written, q, to, i0, t0) =
           [owner |-> <<written[i0].name>>, trait |-> t0,
            impls |-> {n + k : k \in {a \in 1 .. l : new[a].kind = "impl"}},
            substructs |-> {new[k].name : k \in {a \in 1 .. l : new[a].kind # "impl"}}]
  <2>1. \A j \in 1 .. n + l : to[j][1] = i0 /\ to[j][2] = t0 <=> \E k \in 1 .. l : j = n + k
    <3>1. ASSUME NEW j \in 1 .. n + l, to[j][1] = i0, to[j][2] = t0
          PROVE  \E k \in 1 .. l : j = n + k
      BY <1>2, <1>4, <1>7, <3>1
    <3>2. ASSUME NEW j \in 1 .. n + l, NEW k \in 1 .. l, j = n + k
          PROVE  to[j][1] = i0 /\ to[j][2] = t0
      BY <1>3, <3>2
    <3> QED
      BY <3>1, <3>2
  <2>2. \A k \in 1 .. l : n + k \in DOMAIN q /\ to[n + k][1] = i0 /\ to[n + k][2] = t0
    BY <1>1, <1>6, <2>1
  <2>3. {j \in DOMAIN q : to[j][1] = i0 /\ to[j][2] = t0 /\ q[j].kind = "impl"}
            = {n + k : k \in {a \in 1 .. l : new[a].kind = "impl"}}
    <3>1. ASSUME NEW j \in DOMAIN q, to[j][1] = i0, to[j][2] = t0, q[j].kind = "impl"
          PROVE  j \in {n + k : k \in {a \in 1 .. l : new[a].kind = "impl"}}
      <4>1. PICK k \in 1 .. l : j = n + k
        BY <1>1, <2>1, <3>1
      <4>2. q[j] = new[k]
        BY <1>1, <4>1
      <4> QED
        BY <3>1, <4>1, <4>2
    <3>2. ASSUME NEW k \in 1 .. l, new[k].kind = "impl"
          PROVE  n + k \in {j \in DOMAIN q : to[j][1] = i0 /\ to[j][2] = t0 /\ q[j].kind = "impl"}
      BY <1>1, <2>2, <3>2
    <3> QED
      BY <3>1, <3>2
  <2>4. {j \in DOMAIN q : to[j][1] = i0 /\ to[j][2] = t0 /\ q[j].kind # "impl"}
            = {n + k : k \in {a \in 1 .. l : new[a].kind # "impl"}}
    <3>1. ASSUME NEW j \in DOMAIN q, to[j][1] = i0, to[j][2] = t0, q[j].kind # "impl"
          PROVE  j \in {n + k : k \in {a \in 1 .. l : new[a].kind # "impl"}}
      <4>1. PICK k \in 1 .. l : j = n + k
        BY <1>1, <2>1, <3>1
      <4>2. q[j] = new[k]
        BY <1>1, <4>1
      <4> QED
        BY <3>1, <4>1, <4>2
    <3>2. ASSUME NEW k \in 1 .. l, new[k].kind # "impl"
          PROVE  n + k \in {j \in DOMAIN q : to[j][1] = i0 /\ to[j][2] = t0 /\ q[j].kind # "impl"}
      BY <1>1, <2>2, <3>2
    <3> QED
      BY <3>1, <3>2
  <2>5. {q[j].name : j \in {k \in DOMAIN q : to[k][1] = i0 /\ to[k][2] = t0 /\ q[k].kind # "impl"}}
            = {new[k].name : k \in {a \in 1 .. l : new[a].kind # "impl"}}
    <3>1. {q[j].name : j \in {n + k : k \in {a \in 1 .. l : new[a].kind # "impl"}}}
              = {q[n + k].name : k \in {a \in 1 .. l : new[a].kind # "impl"}}
      OBVIOUS
    <3>2. \A k \in {a \in 1 .. l : new[a].kind # "impl"} : q[n + k].name = new[k].name
      BY <1>1
    <3> QED
      BY <2>4, <3>1, <3>2
  <2> QED
    BY <2>3, <2>5 DEF DerivedFrom
<1> QED
  BY <1>15, <1>16, <1>17 DEF n, l, q

\* An item is put at the end as it is rewritten; none of its derives is expanded yet.
LEMMA StageRewrites ==
    ASSUME NEW written, NEW its, NEW der, NEW m \in Nat, NEW from,
           Stage(written, its, der, m, StructuralDerives, from)
    PROVE  \E to : Stage(written, Append(its, Rewritten(written[m + 1])), der, m + 1, {}, to)
<1> DEFINE x == Rewritten(written[m + 1])
           new == <<x>>
           to == Extended(from, Len(its), Len(new), m + 1, "")
           q == its \o new
           D == StructuralDerives
           p == m + 1
           E == {}
           u == ""
<1>1. IsSequence(new) /\ Len(new) = 1 /\ new[1] = x
  <2>1. new \in Seq({x}) /\ Len(new) = 1 /\ new[1] = x
    <3> HIDE DEF x
    <3> QED
      OBVIOUS
  <2> HIDE DEF new
  <2> QED
    BY <2>1, SequenceOf
<1>2. q = Append(its, x)
  <2>1. IsSequence(its)
    BY DEF Stage, Places
  <2>2. PICK S : its \in Seq(S) /\ x \in S
    <3>1. its \in Seq(Range(its)) /\ Range(its) \subseteq Range(its) \cup {x}
      BY <2>1, SequenceIs
    <3>2. its \in Seq(Range(its) \cup {x})
      BY <3>1, SeqMonotonic
    <3> QED
      BY <3>2
  <2> HIDE DEF x
  <2> QED
    BY <2>2
<1> HIDE DEF x
<1>3. \A i, t : Done(written, p, E, i, t) <=> Done(written, m, D, i, t)
  <2>1. \A i : i \in 1 .. p /\ i < p <=> i \in 1 .. m
    OBVIOUS
  <2> QED
    BY <2>1 DEF Done
<1>4. \A i : i \in 1 .. p <=> i \in 1 .. m \/ i = p
  OBVIOUS
<1>5. \A i, t, g : Made(written, p, E, i, t, g) <=> Made(written, m, D, i, t, g) \/ (i = p /\ t = u /\ g = 0)
  <2> HIDE DEF p, D, E, u
  <2> QED
    BY <1>3, <1>4 DEF Made, u
<1>6. \A g : ~Made(written, m, D, p, u, g)
  <2>1. p \notin 1 .. m
    OBVIOUS
  <2> HIDE DEF p, D, E, u
  <2> QED
    BY <2>1 DEF Made, Done, u
<1>7. Growth(written, m, D, p, E, p, u, new)
  <2>1. \A k \in 1 .. Len(new) : new[k] = Source(written, p, u, Numbered(u, k)) /\ Numbered(u, k) = 0
    <3>1. \A k \in 1 .. Len(new) : k = 1
      BY <1>1
    <3>2. Source(written, p, u, 0) = x
      BY DEF Source, x
    <3> HIDE DEF new, p, E, u
    <3> QED
      BY <1>1, <3>1, <3>2 DEF Numbered, u
  <2>2. 1 \in 1 .. Len(new)
    BY <1>1
  <2>3. \A g : g = 0 <=> \E k \in 1 .. Len(new) : g = Numbered(u, k)
    <3> HIDE DEF new, p, E, u
    <3> QED
      BY <2>1, <2>2
  <2> HIDE DEF new, p, D, E, u
  <2> QED
    <3>1. \A j, v, g : Made(written, p, E, j, v, g) <=>
              Made(written, m, D, j, v, g) \/ (j = p /\ v = u /\ \E k \in 1 .. Len(new) : g = Numbered(u, k))
      BY <1>5, <2>3
    <3>2. \A k \in 1 .. Len(new) : new[k] = Source(written, p, u, Numbered(u, k))
      BY <2>1
    <3> QED
      BY <1>1, <1>6, <3>1, <3>2 DEF Growth
<1>8. /\ Places(written, q, p, E, to)
      /\ \A i, t : ~(i = p /\ t = u) =>
             DerivedFrom(written, q, to, i, t) = DerivedFrom(written, its, from, i, t)
      /\ DerivedFrom(written, q, to, p, u) =
             [owner |-> <<written[p].name>>, trait |-> u,
              impls |-> {Len(its) + k : k \in {l \in 1 .. Len(new) : new[l].kind = "impl"}},
              substructs |-> {new[k].name : k \in {l \in 1 .. Len(new) : new[l].kind # "impl"}}]
  <2>1. to = Extended(from, Len(its), Len(new), p, u)
    OBVIOUS
  <2>2. Places(written, its, m, D, from)
    BY DEF Stage
  <2> HIDE DEF new, p, D, E, u, to
  <2> QED
    BY <1>7, <2>2, <2>1, PlacesGrow
<1> HIDE DEF q, to, p, D, E
<1>9. \A i, t : Done(written, p, E, i, t) => DerivedFrom(written, q, to, i, t) = DerivedFrom(written, its, from, i, t)
  <2>1. "" \notin StructuralDerives
    BY DEF StructuralDerives
  <2> QED
    BY <1>8, <2>1 DEF Done
<1>10. Stage(written, q, der, p, E, to)
  <2>1. /\ IsSequence(der)
        /\ \A d \in Range(der) : \E i, t : Done(written, m, D, i, t) /\ d = DerivedFrom(written, its, from, i, t)
        /\ \A i, t : Done(written, m, D, i, t) => DerivedFrom(written, its, from, i, t) \in Range(der)
    BY DEF Stage, D
  <2>2. \A d \in Range(der) : \E i, t : Done(written, p, E, i, t) /\ d = DerivedFrom(written, q, to, i, t)
    BY <1>3, <1>9, <2>1
  <2>3. \A i, t : Done(written, p, E, i, t) => DerivedFrom(written, q, to, i, t) \in Range(der)
    BY <1>3, <1>9, <2>1
  <2>4. Places(written, q, p, E, to)
    BY <1>8
  <2> QED
    BY <2>1, <2>2, <2>3, <2>4 DEF Stage
<1> QED
  BY <1>2, <1>10 DEF p, x, E

\* What is not derived is expanded all along.
LEMMA StageSame ==
    ASSUME NEW written, NEW its, NEW der, NEW m, NEW D, NEW E, NEW from, Stage(written, its, der, m, D, from),
           \A i, t : Done(written, m, E, i, t) <=> Done(written, m, D, i, t)
    PROVE  Stage(written, its, der, m, E, from)
<1>1. \A i, t, g : Made(written, m, E, i, t, g) <=> Made(written, m, D, i, t, g)
  BY DEF Made
<1>2. Places(written, its, m, E, from)
  BY <1>1 DEF Stage, Places
<1> QED
  BY <1>2 DEF Stage

\* One derive of the last item is expanded.
LEMMA StageExpands ==
    ASSUME NEW written, NEW its, NEW der, NEW m \in Nat \ {0}, NEW D, NEW from, Stage(written, its, der, m, D, from),
           IsAdt(written[m]), WrittenItem(written[m]), NEW t0 \in StructuralDerives, t0 \notin D,
           DerivesAny(written[m].attrs, {t0}),
           NEW ex, ex = ExpandOne([items |-> its, derived |-> der], written[m], t0)
    PROVE  \E to : Stage(written, ex.items, ex.derived, m, D \cup {t0}, to)
<1> DEFINE new == ExpandRouted(t0, written[m])
           to == Extended(from, Len(its), Len(new), m, t0)
           q == its \o new
           E == D \cup {t0}
           one == [owner |-> <<written[m].name>>, trait |-> t0,
                   impls |-> {Len(its) + k : k \in {l \in 1 .. Len(new) : new[l].kind = "impl"}},
                   substructs |-> {new[k].name : k \in {l \in 1 .. Len(new) : new[l].kind # "impl"}}]
<1>1. IsSequence(new) /\ DOMAIN new = 1 .. Len(new) /\ Len(new) \in Nat
  <2>1. IsSequence(new)
    BY RoutedIs DEF Expansion
  <2> HIDE DEF new
  <2> QED
    BY <2>1, SequenceIs
<1>2. ex.items = q /\ ex.derived = Append(der, one)
  <2> DEFINE impls == {i \in DOMAIN new : new[i].kind = "impl"}
  <2>1. impls = {l \in 1 .. Len(new) : new[l].kind = "impl"}
    BY <1>1
  <2>2. DOMAIN new \ impls = {l \in 1 .. Len(new) : new[l].kind # "impl"}
    BY <1>1
  <2>3. ex = [items |-> its \o new,
              derived |-> Append(der, [owner |-> <<written[m].name>>, trait |-> t0,
                  impls |-> {Len(its) + i : i \in impls}, substructs |-> {new[i].name : i \in DOMAIN new \ impls}])]
    BY DEF ExpandOne
  <2> HIDE DEF new, impls
  <2>4. one = [owner |-> <<written[m].name>>, trait |-> t0,
               impls |-> {Len(its) + i : i \in impls}, substructs |-> {new[i].name : i \in DOMAIN new \ impls}]
    BY <2>1, <2>2
  <2> HIDE DEF one
  <2> QED
    BY <2>3, <2>4
<1>3. t0 # ""
  BY DEF StructuralDerives
<1>4. \A i, t : Done(written, m, E, i, t) <=> Done(written, m, D, i, t) \/ (i = m /\ t = t0)
  <2>1. m \in 1 .. m /\ ~(m < m)
    OBVIOUS
  <2>2. \A i : i \in 1 .. m => i < m \/ i = m
    OBVIOUS
  <2> QED
    BY <2>1, <2>2 DEF Done
<1>5. ~Done(written, m, D, m, t0)
  BY DEF Done
<1> HIDE DEF new, E
<1>6. \A i, t, g : Made(written, m, E, i, t, g) <=>
          Made(written, m, D, i, t, g) \/ (i = m /\ t = t0 /\ g \in 1 .. Len(new))
  BY <1>3, <1>4 DEF Made, new
<1>7. Growth(written, m, D, m, E, m, t0, new)
  <2>1. \A k \in 1 .. Len(new) : Numbered(t0, k) = k
    BY <1>3 DEF Numbered
  <2>2. \A k \in 1 .. Len(new) : new[k] = Source(written, m, t0, Numbered(t0, k))
    BY <1>3, <2>1 DEF Source, new
  <2>3. \A g : ~Made(written, m, D, m, t0, g)
    BY <1>3, <1>5 DEF Made
  <2>4. \A g : g \in 1 .. Len(new) <=> \E k \in 1 .. Len(new) : g = Numbered(t0, k)
    BY <2>1
  <2>5. \A j, u, g : Made(written, m, E, j, u, g) <=>
            Made(written, m, D, j, u, g) \/ (j = m /\ u = t0 /\ \E k \in 1 .. Len(new) : g = Numbered(t0, k))
    BY <1>6, <2>4
  <2> QED
    BY <1>1, <1>3, <2>2, <2>3, <2>5 DEF Growth
<1>8. Places(written, its, m, D, from)
  BY DEF Stage
<1>9. /\ Places(written, q, m, E, to)
      /\ \A i, t : ~(i = m /\ t = t0) =>
             DerivedFrom(written, q, to, i, t) = DerivedFrom(written, its, from, i, t)
      /\ DerivedFrom(written, q, to, m, t0) = one
  BY <1>7, <1>8, PlacesGrow
<1> HIDE DEF q, to, one
<1>10. IsSequence(Append(der, one)) /\ Range(Append(der, one)) = Range(der) \cup {one}
  <2>1. IsSequence(der)
    BY DEF Stage
  <2> QED
    BY <2>1, SequenceAppend
<1>11. \A i, t : Done(written, m, D, i, t) => DerivedFrom(written, q, to, i, t) = DerivedFrom(written, its, from, i, t)
  BY <1>5, <1>9
<1>12. Stage(written, q, Append(der, one), m, E, to)
  <2>1. \A d \in Range(der) : \E i, t : Done(written, m, D, i, t) /\ d = DerivedFrom(written, its, from, i, t)
    BY DEF Stage
  <2>2. \A i, t : Done(written, m, D, i, t) => DerivedFrom(written, its, from, i, t) \in Range(der)
    BY DEF Stage
  <2>3. \A d \in Range(der) \cup {one} : \E i, t : Done(written, m, E, i, t) /\ d = DerivedFrom(written, q, to, i, t)
    BY <1>4, <1>9, <1>11, <2>1
  <2>4. \A i, t : Done(written, m, E, i, t) => DerivedFrom(written, q, to, i, t) \in Range(der) \cup {one}
    BY <1>4, <1>9, <1>11, <2>2
  <2>5. Places(written, q, m, E, to)
    BY <1>9
  <2> QED
    BY <1>10, <2>3, <2>4, <2>5 DEF Stage
<1> QED
  BY <1>2, <1>12 DEF E

LEMMA DerivesAnyIs ==
    ASSUME NEW attrs
    PROVE  DerivesAny(attrs, StructuralDerives) <=> \E t \in StructuralDerives : DerivesAny(attrs, {t})
BY DEF DerivesAny, NamesOneOf

\* A record of the fold that is at this stage.
Staged(written, e, m, D) ==
    /\ e = [items |-> e.items, derived |-> e.derived]
    /\ \E from : Stage(written, e.items, e.derived, m, D, from)

LEMMA StageDerives ==
    ASSUME NEW written, NEW m \in Nat \ {0}, IsAdt(written[m]), WrittenItem(written[m]),
           NEW e, NEW D, Staged(written, e, m, D), NEW t \in StructuralDerives, t \notin D,
           NEW ex, ex = Derive(e, written[m], t)
    PROVE  Staged(written, ex, m, D \cup {t})
<1>1. PICK from : Stage(written, e.items, e.derived, m, D, from)
  BY DEF Staged
<1>2. e = [items |-> e.items, derived |-> e.derived]
  BY DEF Staged
<1>3. CASE DerivesAny(written[m].attrs, {t})
  <2>1. ex = ExpandOne(e, written[m], t)
    BY <1>3 DEF Derive
  <2>2. \E to : Stage(written, ex.items, ex.derived, m, D \cup {t}, to)
    <3> DEFINE its == e.items
               der == e.derived
    <3>1. e = [items |-> its, derived |-> der] /\ Stage(written, its, der, m, D, from)
      BY <1>1, <1>2
    <3> HIDE DEF its, der
    <3> QED
      BY <1>3, <2>1, <3>1, StageExpands
  <2>3. ex = [items |-> ex.items, derived |-> ex.derived]
    BY <2>1 DEF ExpandOne
  <2> QED
    BY <2>2, <2>3 DEF Staged
<1>4. CASE ~DerivesAny(written[m].attrs, {t})
  <2>1. ex = e
    BY <1>4 DEF Derive
  <2>2. \A i, u : Done(written, m, D \cup {t}, i, u) <=> Done(written, m, D, i, u)
    <3>1. \A i \in 1 .. m : i < m \/ i = m
      OBVIOUS
    <3> QED
      BY <1>4, <3>1 DEF Done
  <2>3. Stage(written, e.items, e.derived, m, D \cup {t}, from)
    BY <1>1, <2>2, StageSame
  <2> QED
    BY <1>2, <2>1, <2>3 DEF Staged
<1> QED
  BY <1>3, <1>4

\* A step of the driver: an item that derives something, and one that does not.
LEMMA StagePasses ==
    ASSUME NEW written, NEW its, NEW der, NEW m \in Nat,
           \E from : Stage(written, its, der, m, StructuralDerives, from), ~IsTaken(written[m + 1])
    PROVE  \E to : Stage(written, Append(its, RewriteTraitImports(written[m + 1])), der, m + 1, StructuralDerives, to)
<1> DEFINE p == m + 1
           none == {}
<1>1. PICK to : Stage(written, Append(its, Rewritten(written[p])), der, p, none, to)
  BY StageRewrites
<1>2. Rewritten(written[p]) = RewriteTraitImports(written[p])
  BY DEF Rewritten
<1>3. \A i, t : Done(written, p, StructuralDerives, i, t) <=> Done(written, p, none, i, t)
  <2>1. \A i \in 1 .. p : i < p \/ i = p
    OBVIOUS
  <2>2. \A t \in StructuralDerives : ~(IsAdt(written[p]) /\ DerivesAny(written[p].attrs, {t}))
    BY DerivesAnyIs DEF IsTaken
  <2> HIDE DEF p
  <2> QED
    BY <2>1, <2>2 DEF Done
<1> HIDE DEF p, none
<1>4. Stage(written, Append(its, Rewritten(written[p])), der, p, StructuralDerives, to)
  BY <1>1, <1>3, StageSame
<1> QED
  BY <1>2, <1>4 DEF p

LEMMA StageTakes ==
    ASSUME NEW written, NEW its, NEW der, NEW m \in Nat,
           \E from : Stage(written, its, der, m, StructuralDerives, from),
           IsTaken(written[m + 1]), WrittenItem(written[m + 1]),
           NEW ex, ex = DeriveAll([items |-> Append(its, NaturalItem(written[m + 1])), derived |-> der], written[m + 1])
    PROVE  \E to : Stage(written, ex.items, ex.derived, m + 1, StructuralDerives, to)
<1> DEFINE p == m + 1
           item == written[p]
           none == {}
           e0 == [items |-> Append(its, NaturalItem(item)), derived |-> der]
           e1 == Derive(e0, item, "Parse")
           e2 == Derive(e1, item, "Unparse")
           e3 == Derive(e2, item, "Spanned")
           t1 == "Parse"
           t2 == "Unparse"
           t3 == "Spanned"
           d1 == none \cup {t1}
           d2 == d1 \cup {t2}
           d3 == d2 \cup {t3}
<1>1. Staged(written, e0, p, none)
  <2>1. PICK to : Stage(written, Append(its, Rewritten(written[p])), der, p, none, to)
    BY StageRewrites
  <2>2. Rewritten(written[p]) = NaturalItem(item)
    BY DEF Rewritten
  <2> QED
    BY <2>1, <2>2 DEF Staged
<1>2. p \in Nat \ {0} /\ IsAdt(written[p]) /\ WrittenItem(written[p])
  BY DEF IsTaken
<1>3. /\ t1 \in StructuralDerives /\ t1 \notin none
      /\ t2 \in StructuralDerives /\ t2 \notin d1
      /\ t3 \in StructuralDerives /\ t3 \notin d2
      /\ d3 = StructuralDerives
  BY DEF StructuralDerives
<1>4. ex = e3
  BY DeriveAllIs
<1>5. e1 = Derive(e0, written[p], t1) /\ e2 = Derive(e1, written[p], t2) /\ e3 = Derive(e2, written[p], t3)
  OBVIOUS
<1> HIDE DEF p, none, e0, e1, e2, e3, t1, t2, t3, d1, d2, d3, item
<1>6. Staged(written, e1, p, d1)
  BY <1>1, <1>2, <1>3, <1>5, StageDerives DEF d1
<1>7. Staged(written, e2, p, d2)
  BY <1>2, <1>3, <1>6, <1>5, StageDerives DEF d2
<1>8. Staged(written, e3, p, d3)
  BY <1>2, <1>3, <1>7, <1>5, StageDerives DEF d3
<1> QED
  BY <1>3, <1>4, <1>8 DEF p, Staged

-----------------------------------------------------------------------------
(* The inductive invariant.                                                *)

Members == {d \in Range(derived) : d.owner \in CyclicTypes(items)}
Expanded(m) == \E from : Stage(module.items, items, derived, m, StructuralDerives, from)
Selected ==
    /\ usedTraits = {d.trait : d \in Members}
    /\ contracted = UNION {{<<d.trait, i>> : i \in d.impls} : d \in Members}
    /\ cycleGraph = CyclicTypes(items) \cup UNION {d.substructs : d \in Members}

\* The expansion is complete up to the next item; the selection is made from all of it; the output
\* is the prelude and the expansion, and there is nothing to break where decycle was not asked.
RecInv ==
    /\ module \in Modules
    /\ phase \in {"expand", "rejected", "selected", "decycled", "emitted"}
    /\ phase = "expand" => output = <<>> /\ next \in 1 .. Len(module.items) + 1 /\ Expanded(next - 1)
    /\ phase \in {"selected", "decycled"} => module.body
    /\ phase = "emitted" /\ ~module.body => output = <<>>
    /\ phase \in {"selected", "decycled", "emitted"} /\ module.body => Expanded(Len(module.items)) /\ Selected
    /\ phase \in {"decycled", "emitted"} /\ module.body => output = Prelude \o items
    /\ phase = "emitted" /\ module.body => usedTraits = {}

LEMMA ModuleIs ==
    ASSUME NEW m \in Modules
    PROVE  /\ m.body \in BOOLEAN
           /\ IsSequence(m.items) /\ Len(m.items) \in Nat /\ DOMAIN m.items = 1 .. Len(m.items)
           /\ \A i \in 1 .. Len(m.items) : WrittenItem(m.items[i])
<1>1. m.body \in BOOLEAN /\ IsSequence(m.items) /\ \A i \in DOMAIN m.items : WrittenItem(m.items[i])
  BY ModulesAssumption
<1>2. Len(m.items) \in Nat /\ DOMAIN m.items = 1 .. Len(m.items)
  BY <1>1, SequenceIs
<1> QED
  BY <1>1, <1>2

LEMMA RecInit == ASSUME Init PROVE RecInv
<1>1. Stage(module.items, <<>>, <<>>, 0, StructuralDerives, <<>>)
  BY StageStarts
<1>2. Expanded(0)
  BY <1>1 DEF Init, Expanded
<1>3. module \in Modules /\ phase = "expand" /\ output = <<>> /\ next = 1
  BY DEF Init
<1>4. next \in 1 .. Len(module.items) + 1 /\ next - 1 = 0
  <2>1. Len(module.items) \in Nat
    BY <1>3, ModuleIs
  <2> QED
    BY <1>3, <2>1
<1> QED
  BY <1>2, <1>3, <1>4 DEF RecInv

LEMMA RecPassItem == ASSUME RecInv, PassItem PROVE RecInv'
<1>1. /\ phase = "expand" /\ phase' = "expand" /\ module' = module /\ output' = output /\ derived' = derived
      /\ next <= Len(module.items) /\ next' = next + 1
      /\ items' = Append(items, RewriteTraitImports(module.items[next]))
  BY DEF PassItem, Going, Item
<1>2. ~IsTaken(module.items[next])
  BY DEF PassItem, Taken, Item, IsTaken
<1>3. module \in Modules /\ output = <<>> /\ next \in 1 .. Len(module.items) + 1 /\ Expanded(next - 1)
  BY <1>1 DEF RecInv
<1>4. next - 1 \in Nat /\ (next - 1) + 1 = next /\ next' - 1 = next /\ next' \in 1 .. Len(module.items) + 1
  <2>1. Len(module.items) \in Nat
    BY <1>3, ModuleIs
  <2> QED
    BY <1>1, <1>3, <2>1
<1>5. \E to : Stage(module.items, items', derived, next, StructuralDerives, to)
  <2> DEFINE m == next - 1
  <2>1. m \in Nat /\ m + 1 = next
    BY <1>4
  <2>2. \E from : Stage(module.items, items, derived, m, StructuralDerives, from)
    BY <1>3 DEF Expanded
  <2> HIDE DEF m
  <2>3. \E to : Stage(module.items, Append(items, RewriteTraitImports(module.items[m + 1])), derived, m + 1,
                      StructuralDerives, to)
    BY <1>2, <2>1, <2>2, StagePasses
  <2> QED
    BY <1>1, <2>1, <2>3
<1>6. Expanded(next - 1)'
  BY <1>1, <1>4, <1>5 DEF Expanded
<1> QED
  BY <1>1, <1>3, <1>4, <1>6 DEF RecInv

LEMMA RecExpandItem == ASSUME RecInv, ExpandItem PROVE RecInv'
<1> DEFINE ex == DeriveAll([items |-> Append(items, NaturalItem(module.items[next])), derived |-> derived],
                           module.items[next])
<1>1. /\ phase = "expand" /\ phase' = "expand" /\ module' = module /\ output' = output
      /\ next <= Len(module.items) /\ next' = next + 1
  BY DEF ExpandItem, Going
<1>2. items' = ex.items /\ derived' = ex.derived
  BY DEF ExpandItem, Item, DeriveAll, Derive
<1>3. IsTaken(module.items[next])
  BY DEF ExpandItem, Taken, Item, IsTaken
<1>4. module \in Modules /\ output = <<>> /\ next \in 1 .. Len(module.items) + 1 /\ Expanded(next - 1)
  BY <1>1 DEF RecInv
<1>5. /\ next - 1 \in Nat /\ (next - 1) + 1 = next /\ next' - 1 = next /\ next' \in 1 .. Len(module.items) + 1
      /\ WrittenItem(module.items[next])
  <2>1. Len(module.items) \in Nat /\ \A i \in 1 .. Len(module.items) : WrittenItem(module.items[i])
    BY <1>4, ModuleIs
  <2> QED
    BY <1>1, <1>4, <2>1
<1> HIDE DEF ex
<1>6. \E to : Stage(module.items, items', derived', next, StructuralDerives, to)
  <2> DEFINE m == next - 1
  <2>1. m \in Nat /\ m + 1 = next
    BY <1>5
  <2>2. \E from : Stage(module.items, items, derived, m, StructuralDerives, from)
    BY <1>4 DEF Expanded
  <2> HIDE DEF m
  <2>3. ex = DeriveAll([items |-> Append(items, NaturalItem(module.items[m + 1])), derived |-> derived],
                       module.items[m + 1])
    BY <2>1 DEF ex
  <2>4. \E to : Stage(module.items, ex.items, ex.derived, m + 1, StructuralDerives, to)
    BY <1>3, <1>5, <2>1, <2>2, <2>3, StageTakes
  <2> QED
    BY <1>2, <2>1, <2>4
<1>7. Expanded(next - 1)'
  BY <1>1, <1>5, <1>6 DEF Expanded
<1> QED
  BY <1>1, <1>4, <1>5, <1>7 DEF RecInv

LEMMA RecSelect == ASSUME RecInv, SelectCycleMembers PROVE RecInv'
<1>1. /\ phase = "expand" /\ phase' = "selected" /\ module' = module /\ module.body /\ next > Len(module.items)
      /\ items' = items /\ derived' = derived
  BY DEF SelectCycleMembers
<1>2. module \in Modules /\ next \in 1 .. Len(module.items) + 1 /\ Expanded(next - 1)
  BY <1>1 DEF RecInv
<1>3. next - 1 = Len(module.items)
  <2>1. Len(module.items) \in Nat
    BY <1>2, ModuleIs
  <2> QED
    BY <1>1, <1>2, <2>1
<1>4. Expanded(Len(module.items))'
  BY <1>1, <1>2, <1>3 DEF Expanded
<1>5. Members' = Members /\ CyclicTypes(items)' = CyclicTypes(items)
  BY <1>1 DEF Members
<1>6. Selected'
  BY <1>5 DEF Selected, SelectCycleMembers, Members
<1> QED
  BY <1>1, <1>2, <1>4, <1>6 DEF RecInv

\* What was expanded and selected stays.
LEMMA RecKeeps ==
    ASSUME UNCHANGED <<module, items, derived, usedTraits, contracted, cycleGraph>>
    PROVE  /\ Expanded(Len(module.items))' <=> Expanded(Len(module.items))
           /\ Selected' <=> Selected
           /\ Prelude' = Prelude
BY DEF Expanded, Selected, Members, Prelude

LEMMA RecNext == ASSUME RecInv, [Next]_vars PROVE RecInv'
<1>1. CASE Reject
  BY <1>1 DEF Reject, RecInv
<1>2. CASE NoBody
  BY <1>2 DEF NoBody, RecInv
<1>3. CASE PassItem
  BY <1>3, RecPassItem
<1>4. CASE ExpandItem
  BY <1>4, RecExpandItem
<1>5. CASE SelectCycleMembers
  BY <1>5, RecSelect
<1>6. CASE EmitVerbatim
  <2>1. /\ phase = "selected" /\ phase' = "emitted" /\ usedTraits = {} /\ output' = Prelude \o items
        /\ UNCHANGED <<module, items, derived, usedTraits, contracted, cycleGraph>>
    BY <1>6 DEF EmitVerbatim
  <2>2. module \in Modules /\ module.body /\ Expanded(Len(module.items)) /\ Selected
    BY <2>1 DEF RecInv
  <2>3. Expanded(Len(module.items))' /\ Selected' /\ Prelude' = Prelude
    BY <2>1, <2>2, RecKeeps
  <2> QED
    BY <2>1, <2>2, <2>3 DEF RecInv
<1>7. CASE EmitDecycled
  <2>1. /\ phase = "selected" /\ phase' = "decycled" /\ output' = Prelude \o items
        /\ UNCHANGED <<module, items, derived, usedTraits, contracted, cycleGraph>>
    BY <1>7 DEF EmitDecycled
  <2>2. module \in Modules /\ module.body /\ Expanded(Len(module.items)) /\ Selected
    BY <2>1 DEF RecInv
  <2>3. Expanded(Len(module.items))' /\ Selected' /\ Prelude' = Prelude
    BY <2>1, <2>2, RecKeeps
  <2> QED
    BY <2>1, <2>2, <2>3 DEF RecInv
<1>8. CASE UNCHANGED vars
  <2>1. UNCHANGED <<module, items, derived, usedTraits, contracted, cycleGraph>>
    BY <1>8 DEF vars
  <2>2. UNCHANGED <<phase, output, next>>
    BY <1>8 DEF vars
  <2>3. /\ Expanded(Len(module.items))' <=> Expanded(Len(module.items))
        /\ Selected' <=> Selected
        /\ Prelude' = Prelude
    BY <2>1, RecKeeps
  <2>4. Expanded(next - 1)' <=> Expanded(next - 1)
    BY <2>1, <2>2 DEF Expanded
  <2> QED
    BY <2>1, <2>2, <2>3, <2>4 DEF RecInv
<1> QED
  BY <1>1, <1>2, <1>3, <1>4, <1>5, <1>6, <1>7, <1>8 DEF Next

\* #[recurse] expands what it should, and selects from all of it.
THEOREM RecurseInvariant == Spec => []RecInv
<1>1. Init => RecInv
  BY RecInit
<1>2. RecInv /\ [Next]_vars => RecInv'
  BY RecNext
<1> QED
  BY <1>1, <1>2, PTL DEF Spec

-----------------------------------------------------------------------------
(* What the items of the module that is emitted are.                       *)

\* From one written item as it was rewritten, or the g-th of what its derive t generated.
FromItem(x, item) == WrittenItem(item) /\ x = Rewritten(item)
FromDerive(x, item, t, g) ==
    /\ WrittenItem(item) /\ IsAdt(item) /\ t \in StructuralDerives /\ DerivesAny(item.attrs, {t})
    /\ g \in 1 .. Len(ExpandRouted(t, item)) /\ x = ExpandRouted(t, item)[g]
    /\ Expansion(ExpandRouted(t, item), t, item)
Whole(m, its, der, from) == m \in Modules /\ Stage(m.items, its, der, Len(m.items), StructuralDerives, from)

LEMMA DoneIs ==
    ASSUME NEW m \in Modules, NEW i, NEW t
    PROVE  Done(m.items, Len(m.items), StructuralDerives, i, t) <=>
               /\ i \in 1 .. Len(m.items) /\ t \in StructuralDerives
               /\ IsAdt(m.items[i]) /\ DerivesAny(m.items[i].attrs, {t})
BY DEF Done

Originates(m, its, from, j) ==
    \E i \in 1 .. Len(m.items) :
        \/ from[j] = <<i, "", 0>> /\ FromItem(its[j], m.items[i])
        \/ \E t, g : from[j] = <<i, t, g>> /\ FromDerive(its[j], m.items[i], t, g)

LEMMA OriginIs ==
    ASSUME NEW m, NEW its, NEW der, NEW from, Whole(m, its, der, from), NEW j \in DOMAIN its
    PROVE  Originates(m, its, from, j)
<1> DEFINE i == from[j][1]
           t == from[j][2]
           g == from[j][3]
           n == Len(m.items)
<1>1. from[j] = <<i, t, g>> /\ Made(m.items, n, StructuralDerives, i, t, g) /\ its[j] = Source(m.items, i, t, g)
  BY DEF Whole, Stage, Places
<1>2. m \in Modules
  BY DEF Whole
<1> HIDE DEF i, t, g
<1>3. CASE i \in 1 .. n /\ t = "" /\ g = 0
  <2>1. WrittenItem(m.items[i])
    BY <1>2, <1>3, ModuleIs
  <2>2. FromItem(its[j], m.items[i])
    BY <1>1, <1>3, <2>1 DEF FromItem, Source
  <2> QED
    BY <1>1, <1>3, <2>2 DEF Originates
<1>4. CASE Done(m.items, n, StructuralDerives, i, t) /\ g \in 1 .. Len(ExpandRouted(t, m.items[i]))
  <2>1. i \in 1 .. n /\ t \in StructuralDerives /\ IsAdt(m.items[i]) /\ DerivesAny(m.items[i].attrs, {t})
    BY <1>2, <1>4, DoneIs
  <2>2. WrittenItem(m.items[i])
    BY <1>2, <2>1, ModuleIs
  <2>3. t # ""
    BY <2>1 DEF StructuralDerives
  <2>4. Expansion(ExpandRouted(t, m.items[i]), t, m.items[i])
    BY <2>1, <2>2, RoutedIs
  <2>5. FromDerive(its[j], m.items[i], t, g)
    BY <1>1, <1>4, <2>1, <2>2, <2>3, <2>4 DEF FromDerive, Source
  <2> QED
    BY <1>1, <2>1, <2>5 DEF Originates
<1> QED
  BY <1>1, <1>3, <1>4 DEF Made

LEMMA TripleIs ==
    ASSUME NEW a, NEW b, NEW c, NEW x, x = <<a, b, c>>
    PROVE  x[1] = a /\ x[2] = b /\ x[3] = c
OBVIOUS

LEMMA OriginsOnce ==
    ASSUME NEW m, NEW its, NEW der, NEW from, Whole(m, its, der, from)
    PROVE  /\ IsSequence(its) /\ DOMAIN its = 1 .. Len(its)
           /\ \A j, k \in DOMAIN its : from[j] = from[k] => j = k
           /\ \A i \in 1 .. Len(m.items) : \E j \in DOMAIN its : from[j] = <<i, "", 0>> /\ FromItem(its[j], m.items[i])
<1>1. IsSequence(its) /\ DOMAIN its = 1 .. Len(its) /\ \A j, k \in DOMAIN its : from[j] = from[k] => j = k
  <2>1. IsSequence(its) /\ \A j, k \in DOMAIN its : from[j] = from[k] => j = k
    BY DEF Whole, Stage, Places
  <2> QED
    BY <2>1, SequenceIs
<1>2. ASSUME NEW i \in 1 .. Len(m.items)
      PROVE  \E j \in DOMAIN its : from[j] = <<i, "", 0>> /\ FromItem(its[j], m.items[i])
  <2>1. Made(m.items, Len(m.items), StructuralDerives, i, "", 0)
    BY DEF Made
  <2>2. \A k, t, g : Made(m.items, Len(m.items), StructuralDerives, k, t, g) => \E j \in DOMAIN its : from[j] = <<k, t, g>>
    BY DEF Whole, Stage, Places
  <2>3. PICK j \in DOMAIN its : from[j] = <<i, "", 0>>
    BY <2>1, <2>2
  <2>4. its[j] = Source(m.items, from[j][1], from[j][2], from[j][3])
    BY DEF Whole, Stage, Places
  <2>5. its[j] = Source(m.items, i, "", 0)
    <3> DEFINE x == from[j]
               u == ""
               z == 0
    <3>1. x = <<i, u, z>>
      BY <2>3
    <3>2. its[j] = Source(m.items, x[1], x[2], x[3])
      BY <2>4
    <3> HIDE DEF x, u, z
    <3>3. x[1] = i /\ x[2] = u /\ x[3] = z
      BY <3>1, TripleIs
    <3>4. its[j] = Source(m.items, i, u, z)
      BY <3>2, <3>3
    <3> QED
      BY <3>4 DEF u, z
  <2>6. WrittenItem(m.items[i])
    BY ModuleIs DEF Whole
  <2>7. FromItem(its[j], m.items[i])
    BY <2>5, <2>6 DEF Source, FromItem
  <2> QED
    BY <2>3, <2>7
<1> QED
  BY <1>1, <1>2

\* A rewritten item is of its kind; a type keeps its name, and an import loses the routed traits.
LEMMA RewrittenIs ==
    ASSUME NEW x, NEW item, FromItem(x, item)
    PROVE  /\ x.kind = item.kind
           /\ IsAdt(item) => x.name = item.name
           /\ item.kind = "impl" => x = item
           /\ item.kind = "use" => /\ x.leaves = {l \in item.leaves : l.local \notin StructuralDerives}
                                   /\ x.leaves \subseteq item.leaves
<1>1. CASE IsAdt(item)
  <2>1. x = NaturalItem(item) \/ x = item
    BY <1>1 DEF FromItem, Rewritten, RewriteTraitImports, IsAdt
  <2>2. NaturalItem(item).kind = item.kind /\ NaturalItem(item).name = item.name
    BY <1>1, NaturalItemIs DEF FromItem
  <2> QED
    BY <1>1, <2>1, <2>2 DEF IsAdt
<1>2. CASE ~IsAdt(item) /\ item.kind # "use"
  BY <1>2 DEF FromItem, Rewritten, IsTaken, RewriteTraitImports
<1>3. CASE ~IsAdt(item) /\ item.kind = "use"
  <2>1. x = PruneUse(item)
    BY <1>3 DEF FromItem, Rewritten, IsTaken, RewriteTraitImports
  <2>2. item = [kind |-> "use", leaves |-> item.leaves, decycle |-> item.decycle]
    BY <1>3 DEF FromItem, WrittenItem, WrittenUse, Use
  <2>3. Range(RoutedTraits) = StructuralDerives
    BY DEF RoutedTraits, StructuralDerives, Range
  <2>4. x = [kind |-> "use", leaves |-> {l \in item.leaves : l.local \notin StructuralDerives}, decycle |-> item.decycle]
    <3> DEFINE left == {l \in item.leaves : l.local \notin StructuralDerives}
    <3>1. x = [item EXCEPT !.leaves = left]
      BY <2>1, <2>3 DEF PruneUse
    <3> HIDE DEF left
    <3>2. [item EXCEPT !.leaves = left] = [kind |-> "use", leaves |-> left, decycle |-> item.decycle]
      BY <2>2
    <3> QED
      BY <3>1, <3>2 DEF left
  <2>5. x.kind = "use" /\ x.leaves = {l \in item.leaves : l.local \notin StructuralDerives}
    BY <2>4
  <2> QED
    BY <1>3, <2>5
<1> QED
  BY <1>1, <1>2, <1>3

\* The prelude: for each used trait, an import of the trait and one of the macro of decycle.
TraitUse(t) == Use({Leaf(<<"syan", "decycle_traits", t>>, t, {"type"})})
MacroUse(t) == [Use({Leaf(<<"syan", "__syan_decycle_" \o t>>, t, {"macro"})}) EXCEPT !.decycle = TRUE]

LEMMA ImportsAre ==
    ASSUME NEW t
    PROVE  /\ TraitUse(t).kind = "use" /\ MacroUse(t).kind = "use" /\ MacroUse(t).decycle
           /\ \A l \in TraitUse(t).leaves : l.local = t /\ l.binds = {"type"}
           /\ \A l \in MacroUse(t).leaves : l.local = t /\ l.binds = {"macro"}
           /\ \E l \in MacroUse(t).leaves : l.local = t
<1> DEFINE trait == Leaf(<<"syan", "decycle_traits", t>>, t, {"type"})
           macro == Leaf(<<"syan", "__syan_decycle_" \o t>>, t, {"macro"})
<1>1. trait.local = t /\ trait.binds = {"type"} /\ macro.local = t /\ macro.binds = {"macro"}
  BY DEF Leaf
<1>2. TraitUse(t) = Use({trait}) /\ MacroUse(t) = [Use({macro}) EXCEPT !.decycle = TRUE]
  BY DEF TraitUse, MacroUse
<1> HIDE DEF trait, macro
<1>3. TraitUse(t) = [kind |-> "use", leaves |-> {trait}, decycle |-> FALSE]
  BY <1>2 DEF Use
<1>4. MacroUse(t) = [kind |-> "use", leaves |-> {macro}, decycle |-> TRUE]
  BY <1>2 DEF Use
<1>5. TraitUse(t).kind = "use" /\ TraitUse(t).leaves = {trait}
  BY <1>3
<1>6. MacroUse(t).kind = "use" /\ MacroUse(t).leaves = {macro} /\ MacroUse(t).decycle
  BY <1>4
<1> QED
  BY <1>1, <1>5, <1>6

LEMMA SiftDistinct ==
    ASSUME NEW S, NEW s \in Seq(S), NEW T, \A a, b \in 1 .. Len(s) : s[a] = s[b] => a = b
    PROVE  \A a, b \in 1 .. Len(Sift(s, T)) : Sift(s, T)[a] = Sift(s, T)[b] => a = b
<1>1. PICK m \in [1 .. Len(Sift(s, T)) -> 1 .. Len(s)] :
          /\ \A i, j \in 1 .. Len(Sift(s, T)) : m[i] = m[j] => i = j
          /\ \A i \in 1 .. Len(Sift(s, T)) : Sift(s, T)[i] = s[m[i]] /\ s[m[i]] \in T
          /\ \A p \in 1 .. Len(s) : s[p] \in T => \E i \in 1 .. Len(Sift(s, T)) : m[i] = p
  BY SiftPlaces
<1> DEFINE q == Sift(s, T)
<1>2. /\ \A i, j \in 1 .. Len(q) : m[i] = m[j] => i = j
      /\ \A i \in 1 .. Len(q) : q[i] = s[m[i]] /\ m[i] \in 1 .. Len(s)
  BY <1>1
<1> HIDE DEF q
<1>3. \A a, b \in 1 .. Len(q) : q[a] = q[b] => a = b
  <2> TAKE a, b \in 1 .. Len(q)
  <2> HAVE q[a] = q[b]
  <2>1. s[m[a]] = s[m[b]]
    BY <1>2
  <2>2. m[a] = m[b]
    BY <1>2, <2>1
  <2> QED
    BY <1>2, <2>2
<1> QED
  BY <1>3 DEF q

LEMMA PreludeIs ==
    ASSUME usedTraits \subseteq StructuralDerives
    PROVE  /\ IsSequence(Prelude)
           /\ \E used : /\ \A a, b \in 1 .. Len(used) : used[a] = used[b] => a = b
                        /\ \A a \in 1 .. Len(used) : used[a] \in usedTraits
                        /\ \A i \in 1 .. Len(Prelude) : \E a \in 1 .. Len(used) :
                               \/ i = 2 * a - 1 /\ Prelude[i] = TraitUse(used[a])
                               \/ i = 2 * a /\ Prelude[i] = MacroUse(used[a])
           /\ \A t \in usedTraits : \E i \in 1 .. Len(Prelude) : Prelude[i] = MacroUse(t)
<1> DEFINE used == Sift(RoutedTraits, usedTraits)
           N == 2 * Len(used)
           Entry(i) == IF i % 2 = 1 THEN TraitUse(used[(i + 1) \div 2]) ELSE MacroUse(used[i \div 2])
           q == [i \in 1 .. N |-> Entry(i)]
<1>1. Prelude = q
  BY DEF Prelude, TraitUse, MacroUse
<1>2. RoutedTraits \in Seq(StructuralDerives) /\ Len(RoutedTraits) = 3 /\ Range(RoutedTraits) = StructuralDerives
  BY DEF RoutedTraits, StructuralDerives, Range
<1>3. \A a, b \in 1 .. 3 : RoutedTraits[a] = RoutedTraits[b] => a = b
  BY DEF RoutedTraits
<1>4. used \in Seq(StructuralDerives) /\ Len(used) \in Nat /\ DOMAIN used = 1 .. Len(used) /\ Range(used) = usedTraits
  <2>1. Sift(RoutedTraits, usedTraits) \in Seq(StructuralDerives)
        /\ Range(Sift(RoutedTraits, usedTraits)) = Range(RoutedTraits) \cap usedTraits
    BY <1>2, SiftRange
  <2> QED
    BY <1>2, <2>1, LenProperties
<1>5. \A a, b \in 1 .. Len(used) : used[a] = used[b] => a = b
  BY <1>2, <1>3, SiftDistinct
<1> HIDE DEF used
<1>6. IsSequence(q) /\ Len(q) = N /\ DOMAIN q = 1 .. N
  <2> DEFINE S == {Entry(i) : i \in 1 .. N}
  <2>1. q \in [1 .. N -> S] /\ N \in Nat
    BY <1>4
  <2> HIDE DEF S, q, N
  <2>2. q \in Seq(S) /\ Len(q) = N /\ DOMAIN q = 1 .. N
    BY <2>1
  <2> QED
    BY <2>2, SequenceOf
<1>7. ASSUME NEW i \in 1 .. N
      PROVE  \E a \in 1 .. Len(used) :
                 \/ i = 2 * a - 1 /\ q[i] = TraitUse(used[a])
                 \/ i = 2 * a /\ q[i] = MacroUse(used[a])
  <2>1. i \in Int /\ (i % 2 = 1 \/ i % 2 = 0)
    BY <1>4
  <2>2. CASE i % 2 = 1
    <3>1. (i + 1) \div 2 \in 1 .. Len(used) /\ i = 2 * ((i + 1) \div 2) - 1
      BY <1>4, <2>2
    <3> QED
      BY <2>2, <3>1
  <2>3. CASE i % 2 = 0
    <3>1. i \div 2 \in 1 .. Len(used) /\ i = 2 * (i \div 2)
      BY <1>4, <2>3
    <3> QED
      BY <2>3, <3>1
  <2> QED
    BY <2>1, <2>2, <2>3
<1>8. ASSUME NEW t \in usedTraits
      PROVE  \E i \in 1 .. N : q[i] = MacroUse(t)
  <2>1. PICK a \in 1 .. Len(used) : used[a] = t
    BY <1>4 DEF Range
  <2>2. 2 * a \in 1 .. N /\ (2 * a) % 2 = 0 /\ (2 * a) \div 2 = a
    BY <1>4
  <2> QED
    BY <2>1, <2>2
<1>9. \A a \in 1 .. Len(used) : used[a] \in usedTraits
  BY <1>4 DEF Range
<1> HIDE DEF q, N
<1> QED
  BY <1>1, <1>5, <1>6, <1>7, <1>8, <1>9

Generated(m, its, from, i, t, g) ==
    \E j \in DOMAIN its : from[j] = <<i, t, g>> /\ FromDerive(its[j], m.items[i], t, g)

LEMMA GeneratedIs ==
    ASSUME NEW m, NEW its, NEW der, NEW from, Whole(m, its, der, from),
           NEW i \in 1 .. Len(m.items), NEW t \in StructuralDerives, IsAdt(m.items[i]), DerivesAny(m.items[i].attrs, {t}),
           NEW g \in 1 .. Len(ExpandRouted(t, m.items[i]))
    PROVE  Generated(m, its, from, i, t, g)
<1>1. m \in Modules
  BY DEF Whole
<1>2. Made(m.items, Len(m.items), StructuralDerives, i, t, g)
  BY <1>1, DoneIs DEF Made
<1>3. \A k, u, h : Made(m.items, Len(m.items), StructuralDerives, k, u, h) => \E j \in DOMAIN its : from[j] = <<k, u, h>>
  BY DEF Whole, Stage, Places
<1>4. PICK j \in DOMAIN its : from[j] = <<i, t, g>>
  BY <1>2, <1>3
<1>5. its[j] = Source(m.items, from[j][1], from[j][2], from[j][3])
  BY DEF Whole, Stage, Places
<1>6. from[j][1] = i /\ from[j][2] = t /\ from[j][3] = g
  BY <1>4, TripleIs
<1>7. its[j] = ExpandRouted(t, m.items[i])[g]
  <2>1. t # ""
    BY DEF StructuralDerives
  <2> QED
    BY <1>5, <1>6, <2>1 DEF Source
<1>8. WrittenItem(m.items[i])
  BY <1>1, ModuleIs
<1>9. Expansion(ExpandRouted(t, m.items[i]), t, m.items[i])
  BY <1>8, RoutedIs
<1>10. FromDerive(its[j], m.items[i], t, g)
  BY <1>7, <1>8, <1>9 DEF FromDerive
<1> QED
  BY <1>4, <1>10 DEF Generated

\* What a derive generates, seen from its item.
LEMMA FromDeriveIs ==
    ASSUME NEW x, NEW item, NEW t, NEW g, FromDerive(x, item, t, g)
    PROVE  /\ x.kind \in {"impl", "substruct"}
           /\ x.kind = "substruct" => OfGroup(x.name, t, item)
           /\ x.kind = "impl" =>
                  /\ x.trait = t /\ \A b \in x.bounds : ~b.ref
                  /\ \/ /\ g = Len(ExpandRouted(t, item)) /\ x.of = <<item.name>>
                        /\ \A b \in x.bounds : Reserved(b.ty) => OfGroup(b.ty, t, item)
                     \/ /\ OfGroup(x.of, t, item) /\ \A b \in x.bounds : ~Reserved(b.ty)
                        /\ \E h \in 1 .. Len(ExpandRouted(t, item)) :
                               ExpandRouted(t, item)[h].kind = "substruct" /\ ExpandRouted(t, item)[h].name = x.of
<1> DEFINE e == ExpandRouted(t, item)
<1>1. x = e[g] /\ g \in 1 .. Len(e) /\ Generates(e, g, t, item)
  BY DEF FromDerive, Expansion
<1> HIDE DEF e
<1>2. CASE x.kind = "substruct"
  BY <1>1, <1>2 DEF Generates
<1>3. CASE x.kind # "substruct"
  <2>1. x.kind = "impl" /\ x.trait = t /\ \A b \in x.bounds : ~b.ref
    BY <1>1, <1>3 DEF Generates
  <2>2. CASE g = Len(e)
    <3>1. x.of = <<item.name>> /\ \A b \in x.bounds : Reserved(b.ty) => OfGroup(b.ty, t, item)
      BY <1>1, <1>3, <2>2 DEF Generates
    <3> QED
      BY <2>1, <2>2, <3>1 DEF e
  <2>3. CASE g # Len(e)
    <3>1. /\ OfGroup(x.of, t, item) /\ \A b \in x.bounds : ~Reserved(b.ty)
          /\ \E h \in 1 .. Len(e) : e[h].kind = "substruct" /\ e[h].name = x.of
      BY <1>1, <1>3, <2>3 DEF Generates
    <3> QED
      BY <2>1, <3>1 DEF e
  <2> QED
    BY <2>2, <2>3
<1> QED
  BY <1>2, <1>3

\* A type is what it was to derive(Ast), and derives nothing that was expanded.
LEMMA AdtIs ==
    ASSUME NEW x, NEW item, FromItem(x, item), IsAdt(item)
    PROVE  /\ x.kind = item.kind /\ x.name = item.name
           /\ Published(x) = Published(item) /\ Reports(x) = Reports(item)
           /\ \A t : DerivesAny(x.attrs, {t}) <=> t \notin StructuralDerives /\ DerivesAny(item.attrs, {t})
<1>1. WrittenItem(item) /\ (x = NaturalItem(item) \/ (x = item /\ ~DerivesAny(item.attrs, StructuralDerives)))
  BY DEF FromItem, Rewritten, IsTaken, RewriteTraitImports, IsAdt
<1>2. x.kind = item.kind /\ x.name = item.name
  BY RewrittenIs
<1>3. CASE x = NaturalItem(item)
  BY <1>1, <1>2, <1>3, NaturalItemPublishes, NaturalItemDerives
<1>4. CASE x = item /\ ~DerivesAny(item.attrs, StructuralDerives)
  BY <1>2, <1>4, DerivesAnyIs
<1> QED
  BY <1>1, <1>3, <1>4

IsDerived(m, its, from, d) ==
    \E i \in 1 .. Len(m.items), t \in StructuralDerives :
        /\ IsAdt(m.items[i]) /\ DerivesAny(m.items[i].attrs, {t})
        /\ d = DerivedFrom(m.items, its, from, i, t)

LEMMA DerivedIs ==
    ASSUME NEW m, NEW its, NEW der, NEW from, Whole(m, its, der, from)
    PROVE  /\ \A d \in Range(der) : IsDerived(m, its, from, d)
           /\ \A i \in 1 .. Len(m.items), t \in StructuralDerives :
                  IsAdt(m.items[i]) /\ DerivesAny(m.items[i].attrs, {t}) =>
                      DerivedFrom(m.items, its, from, i, t) \in Range(der)
<1>1. m \in Modules
  BY DEF Whole
<1>2. \A d \in Range(der) : \E i, t : Done(m.items, Len(m.items), StructuralDerives, i, t)
                                      /\ d = DerivedFrom(m.items, its, from, i, t)
  BY DEF Whole, Stage
<1>3. \A i, t : Done(m.items, Len(m.items), StructuralDerives, i, t) => DerivedFrom(m.items, its, from, i, t) \in Range(der)
  BY DEF Whole, Stage
<1>4. \A i, t : Done(m.items, Len(m.items), StructuralDerives, i, t) <=>
          /\ i \in 1 .. Len(m.items) /\ t \in StructuralDerives
          /\ IsAdt(m.items[i]) /\ DerivesAny(m.items[i].attrs, {t})
  BY <1>1, DoneIs
<1> QED
  BY <1>2, <1>3, <1>4 DEF IsDerived

\* The output is the prelude with the expansion behind it.
LEMMA OutputIs ==
    ASSUME RecInv, Finished, module.body
    PROVE  /\ \E from : Whole(module, items, derived, from)
           /\ Selected /\ usedTraits \subseteq StructuralDerives
           /\ Len(Prelude) \in Nat /\ DOMAIN Prelude = 1 .. Len(Prelude) /\ DOMAIN items = 1 .. Len(items)
           /\ \A k \in 1 .. Len(Prelude) : k \in DOMAIN output /\ output[k] = Prelude[k]
           /\ \A k \in DOMAIN items : Len(Prelude) + k \in DOMAIN output /\ output[Len(Prelude) + k] = items[k]
           /\ \A j \in DOMAIN output : j \in 1 .. Len(Prelude) \/ \E k \in DOMAIN items : j = Len(Prelude) + k
<1>1. module \in Modules /\ Expanded(Len(module.items)) /\ Selected /\ output = Prelude \o items
  BY DEF RecInv, Finished
<1>2. PICK from : Whole(module, items, derived, from)
  BY <1>1 DEF Expanded, Whole
<1>3. usedTraits \subseteq StructuralDerives
  <2>1. ASSUME NEW d \in Range(derived)
        PROVE  d.trait \in StructuralDerives
    <3>1. IsDerived(module, items, from, d)
      BY <1>2, DerivedIs
    <3>2. PICK i \in 1 .. Len(module.items), t \in StructuralDerives :
              d = DerivedFrom(module.items, items, from, i, t)
      BY <3>1 DEF IsDerived
    <3> QED
      BY <3>2 DEF DerivedFrom
  <2> QED
    BY <1>1, <2>1 DEF Selected, Members
<1>4. IsSequence(items) /\ DOMAIN items = 1 .. Len(items) /\ Len(items) \in Nat
  BY <1>2, OriginsOnce, SequenceIs
<1>5. IsSequence(Prelude) /\ Len(Prelude) \in Nat /\ DOMAIN Prelude = 1 .. Len(Prelude)
  BY <1>3, PreludeIs, SequenceIs
<1> DEFINE n == Len(Prelude)
           l == Len(items)
<1>6. /\ DOMAIN output = 1 .. n + l
      /\ \A k \in 1 .. n : output[k] = Prelude[k]
      /\ \A k \in 1 .. l : output[n + k] = items[k]
  BY <1>1, <1>4, <1>5, SequenceConcat
<1>7. n \in Nat /\ l \in Nat
  BY <1>4, <1>5
<1> HIDE DEF n, l
<1>8. /\ \A k \in 1 .. n : k \in 1 .. n + l
      /\ \A k \in 1 .. l : n + k \in 1 .. n + l
  BY <1>7
<1>9. ASSUME NEW j \in 1 .. n + l, j \notin 1 .. n
      PROVE  \E k \in 1 .. l : j = n + k
  <2>1. j - n \in 1 .. l /\ j = n + (j - n)
    BY <1>7, <1>9
  <2> QED
    BY <2>1
<1> QED
  BY <1>1, <1>2, <1>3, <1>4, <1>5, <1>6, <1>8, <1>9 DEF n, l

LEMMA AdtsAre ==
    ASSUME NEW m \in Modules, NEW i \in DOMAIN m.items, NEW j \in DOMAIN m.items, IsAdt(m.items[i])
    PROVE  /\ IsAdt(m.items[j]) /\ m.items[i].name = m.items[j].name => i = j
           /\ m.items[j].kind = "impl" /\ m.items[j].of = <<m.items[i].name>> =>
                  ~DerivesAny(m.items[i].attrs, {m.items[j].trait})
BY ModulesAssumption

\* Whose group a name is of: the joined names tell, but for those that are joined alike.
LEMMA GroupTells ==
    ASSUME NEW m \in Modules, NEW i \in 1 .. Len(m.items), NEW j \in 1 .. Len(m.items),
           IsAdt(m.items[i]), IsAdt(m.items[j]), NEW t \in StructuralDerives, NEW u \in StructuralDerives,
           NEW n, OfGroup(n, t, m.items[i]), OfGroup(n, u, m.items[j])
    PROVE  Muddled(m.items[i], m.items[j], n) \/ (i = j /\ t = u)
<1>1. DOMAIN m.items = 1 .. Len(m.items)
  BY ModuleIs
<1>2. Muddled(m.items[i], m.items[j], n) \/ m.items[i].name = m.items[j].name
  <2> DEFINE a == m.items[i]
             b == m.items[j]
  <2>1. PICK h \in Range(Holders(a)) : n = SubstructName(t, a, h)
    BY DEF OfGroup
  <2>2. PICK k \in Range(Holders(b)) : n = SubstructName(u, b, k)
    BY DEF OfGroup
  <2> HIDE DEF a, b
  <2>3. \A f \in Range(Holders(a)), e \in Range(Holders(b)) :
            SubstructName(t, a, f) = SubstructName(u, b, e) =>
                Muddled(a, b, SubstructName(t, a, f)) \/ a.name = b.name
    BY SubstructNameIs
  <2>4. Muddled(a, b, n) \/ a.name = b.name
    BY <2>1, <2>2, <2>3
  <2> QED
    BY <2>4 DEF a, b
<1>3. m.items[i].name = m.items[j].name => i = j
  BY <1>1, AdtsAre
<1>4. t = u
  <2>1. Shape(t) = Shape(u) /\ t # "Spanned" /\ u # "Spanned"
    BY GroupShape DEF OfGroup
  <2> QED
    BY <2>1 DEF Shape, StructuralDerives
<1> QED
  BY <1>2, <1>3, <1>4

\* derive(Ast) is none the wiser.
LEMMA AstHolds == ASSUME RecInv PROVE AstUnaffected
<1> SUFFICES ASSUME Finished, module.body, NEW i \in Adts, DerivesAny(module.items[i].attrs, {"Ast"})
             PROVE  \E j \in DOMAIN output :
                        /\ output[j].kind = module.items[i].kind /\ output[j].name = module.items[i].name
                        /\ DerivesAny(output[j].attrs, {"Ast"})
                        /\ Published(output[j]) = Published(module.items[i])
                        /\ Reports(output[j]) = Reports(module.items[i])
  BY DEF AstUnaffected
<1>1. PICK from : Whole(module, items, derived, from)
  BY OutputIs
<1>2. i \in 1 .. Len(module.items) /\ IsAdt(module.items[i])
  <2>1. module \in Modules
    BY DEF RecInv
  <2> QED
    BY <2>1, ModuleIs DEF Adts
<1>3. PICK k \in DOMAIN items : FromItem(items[k], module.items[i])
  BY <1>1, <1>2, OriginsOnce
<1>4. Len(Prelude) + k \in DOMAIN output /\ output[Len(Prelude) + k] = items[k]
  BY OutputIs
<1>5. "Ast" \notin StructuralDerives
  BY DEF StructuralDerives
<1>6. /\ items[k].kind = module.items[i].kind /\ items[k].name = module.items[i].name
      /\ DerivesAny(items[k].attrs, {"Ast"})
      /\ Published(items[k]) = Published(module.items[i])
      /\ Reports(items[k]) = Reports(module.items[i])
  BY <1>2, <1>3, <1>5, AdtIs
<1> QED
  BY <1>4, <1>6

\* The place of an impl of trait t for the i-th item, and where the derive put it.
ImplFor(m, its, i, t, j) ==
    /\ i \in 1 .. Len(m.items) /\ t \in StructuralDerives /\ IsAdt(m.items[i]) /\ DerivesAny(m.items[i].attrs, {t})
    /\ j \in DOMAIN its /\ its[j].kind = "impl" /\ its[j].trait = t /\ its[j].of = <<m.items[i].name>>
Closes(m, from, i, t, j) == from[j] = <<i, t, Len(ExpandRouted(t, m.items[i]))>>

\* An impl of a trait for a type that derives it is the one that the derive generated.
LEMMA ImplIs ==
    ASSUME NEW m, NEW its, NEW der, NEW from, Whole(m, its, der, from), NEW i, NEW t, NEW j, ImplFor(m, its, i, t, j)
    PROVE  Closes(m, from, i, t, j)
<1> SUFFICES from[j] = <<i, t, Len(ExpandRouted(t, m.items[i]))>>
  BY DEF Closes
<1>1. /\ i \in 1 .. Len(m.items) /\ t \in StructuralDerives /\ IsAdt(m.items[i]) /\ DerivesAny(m.items[i].attrs, {t})
      /\ j \in DOMAIN its /\ its[j].kind = "impl" /\ its[j].trait = t /\ its[j].of = <<m.items[i].name>>
  BY DEF ImplFor
<1>2. m \in Modules /\ DOMAIN m.items = 1 .. Len(m.items)
  BY ModuleIs DEF Whole
<1>3. PICK k \in 1 .. Len(m.items) :
          \/ from[j] = <<k, "", 0>> /\ FromItem(its[j], m.items[k])
          \/ \E u, g : from[j] = <<k, u, g>> /\ FromDerive(its[j], m.items[k], u, g)
  <2>1. Originates(m, its, from, j)
    BY <1>1, OriginIs
  <2> QED
    BY <2>1 DEF Originates
<1>4. CASE FromItem(its[j], m.items[k])
  <2>1. m.items[k].kind = "impl"
    BY <1>1, <1>4, RewrittenIs
  <2>2. its[j] = m.items[k]
    BY <1>4, <2>1, RewrittenIs
  <2>3. ~DerivesAny(m.items[i].attrs, {m.items[k].trait})
    BY <1>1, <1>2, <2>2, AdtsAre
  <2> QED
    BY <1>1, <2>2, <2>3
<1>5. ASSUME NEW u, NEW g, from[j] = <<k, u, g>>, FromDerive(its[j], m.items[k], u, g)
      PROVE  from[j] = <<i, t, Len(ExpandRouted(t, m.items[i]))>>
  <2>1. /\ its[j].trait = u
        /\ \/ g = Len(ExpandRouted(u, m.items[k])) /\ its[j].of = <<m.items[k].name>>
           \/ OfGroup(its[j].of, u, m.items[k])
    BY <1>1, <1>5, FromDeriveIs
  <2>2. ~OfGroup(its[j].of, u, m.items[k])
    <3>1. Len(its[j].of) = 1
      BY <1>1
    <3> QED
      BY <3>1, GroupReserved, ReservedLen
  <2>3. <<m.items[k].name>>[1] = <<m.items[i].name>>[1]
    BY <1>1, <2>1, <2>2
  <2>4. m.items[k].name = m.items[i].name
    BY <2>3
  <2>5. IsAdt(m.items[k])
    BY <1>5 DEF FromDerive
  <2>6. k = i
    BY <1>1, <1>2, <2>4, <2>5, AdtsAre
  <2> QED
    BY <1>1, <1>5, <2>1, <2>2, <2>6
<1>6. CASE ~FromItem(its[j], m.items[k])
  <2>1. PICK u, g : from[j] = <<k, u, g>> /\ FromDerive(its[j], m.items[k], u, g)
    BY <1>3, <1>6
  <2> QED
    BY <1>5, <2>1
<1> QED
  BY <1>4, <1>6

\* So two of them stand at the same place.
LEMMA ImplsAgree ==
    ASSUME NEW m, NEW its, NEW der, NEW from, Whole(m, its, der, from), NEW i, NEW t,
           NEW j, ImplFor(m, its, i, t, j), NEW k, ImplFor(m, its, i, t, k)
    PROVE  j = k
<1>1. Closes(m, from, i, t, j) /\ Closes(m, from, i, t, k)
  BY ImplIs
<1>2. \A p, q \in DOMAIN its : from[p] = from[q] => p = q
  BY DEF Whole, Stage, Places
<1>3. j \in DOMAIN its /\ k \in DOMAIN its
  BY DEF ImplFor
<1>4. from[j] = from[k]
  BY <1>1 DEF Closes
<1> QED
  BY <1>2, <1>3, <1>4

LEMMA OnceHolds == ASSUME RecInv PROVE ImplementedOnce
<1> DEFINE item(i) == module.items[i]
           left(i, t) == {j \in DOMAIN output : IsAdt(output[j]) /\ output[j].name = item(i).name
                                                    /\ DerivesAny(output[j].attrs, {t})}
           impls(i, t) == {j \in Impls(output) : output[j].trait = t /\ output[j].of = <<item(i).name>>}
<1> SUFFICES ASSUME Finished, module.body, NEW i \in Adts, NEW t \in StructuralDerives,
                    DerivesAny(item(i).attrs, {t})
             PROVE  Cardinality(left(i, t)) + Cardinality(impls(i, t)) = 1
  BY DEF ImplementedOnce
<1>1. PICK from : Whole(module, items, derived, from)
  BY OutputIs
<1>2. module \in Modules /\ i \in 1 .. Len(module.items) /\ i \in DOMAIN module.items /\ IsAdt(item(i))
      /\ DOMAIN module.items = 1 .. Len(module.items)
  <2>1. module \in Modules
    BY DEF RecInv
  <2> QED
    BY <2>1, ModuleIs DEF Adts
<1>3. \A k \in 1 .. Len(Prelude) : output[k].kind = "use"
  <2>1. ASSUME NEW k \in 1 .. Len(Prelude)
        PROVE  Prelude[k].kind = "use"
    <3>1. \E u : Prelude[k] = TraitUse(u) \/ Prelude[k] = MacroUse(u)
      BY OutputIs, PreludeIs
    <3> QED
      BY <3>1, ImportsAre
  <2> QED
    BY <2>1, OutputIs
<1>4. ASSUME NEW k \in DOMAIN items, IsAdt(items[k]), items[k].name = item(i).name
      PROVE  ~DerivesAny(items[k].attrs, {t})
  <2>1. PICK p \in 1 .. Len(module.items) :
            \/ from[k] = <<p, "", 0>> /\ FromItem(items[k], module.items[p])
            \/ \E u, g : from[k] = <<p, u, g>> /\ FromDerive(items[k], module.items[p], u, g)
    <3>1. Originates(module, items, from, k)
      BY <1>1, OriginIs
    <3> QED
      BY <3>1 DEF Originates
  <2>2. CASE FromItem(items[k], module.items[p])
    <3>1. IsAdt(module.items[p])
      BY <1>4, <2>2, RewrittenIs DEF IsAdt
    <3> QED
      BY <2>2, <3>1, AdtIs
  <2>3. ASSUME NEW u, NEW g, FromDerive(items[k], module.items[p], u, g)
        PROVE  FALSE
    BY <1>4, <2>3, FromDeriveIs DEF IsAdt
  <2> QED
    BY <2>1, <2>2, <2>3
<1>5. left(i, t) = {}
  <2> SUFFICES ASSUME NEW j \in DOMAIN output, IsAdt(output[j]), output[j].name = item(i).name,
                      DerivesAny(output[j].attrs, {t})
               PROVE  FALSE
    OBVIOUS
  <2>1. j \notin 1 .. Len(Prelude)
    BY <1>3 DEF IsAdt
  <2>2. PICK k \in DOMAIN items : j = Len(Prelude) + k
    BY <2>1, OutputIs
  <2>3. output[j] = items[k]
    BY <2>2, OutputIs
  <2> QED
    BY <1>4, <2>3
<1> DEFINE l == Len(ExpandRouted(t, item(i)))
<1>6. PICK k \in DOMAIN items : from[k] = <<i, t, l>> /\ FromDerive(items[k], item(i), t, l)
  <2>1. l \in 1 .. l
    <3>1. Expansion(ExpandRouted(t, item(i)), t, item(i))
      BY <1>2, RoutedIs, ModuleIs
    <3>2. IsSequence(ExpandRouted(t, item(i))) /\ ExpandRouted(t, item(i)) # <<>>
      BY <3>1 DEF Expansion
    <3>3. l \in Nat /\ l # 0
      BY <3>2, EmptySeq DEF IsSequence
    <3> HIDE DEF l
    <3> QED
      BY <3>3
  <2> QED
    <3>1. Generated(module, items, from, i, t, l)
      BY <1>1, <1>2, <2>1, GeneratedIs
    <3> QED
      BY <3>1 DEF Generated
<1>7. items[k].kind = "impl" /\ items[k].trait = t /\ items[k].of = <<item(i).name>>
  <2>1. items[k].kind = "impl"
    BY <1>6 DEF FromDerive, Expansion
  <2>2. items[k] = ExpandRouted(t, item(i))[l] /\ Generates(ExpandRouted(t, item(i)), l, t, item(i))
    BY <1>6 DEF FromDerive, Expansion
  <2> QED
    BY <2>1, <2>2 DEF Generates
<1>8. impls(i, t) = {Len(Prelude) + k}
  <2>1. ASSUME NEW j \in impls(i, t)
        PROVE  j = Len(Prelude) + k
    <3>1. j \in DOMAIN output /\ output[j].kind = "impl" /\ output[j].trait = t /\ output[j].of = <<item(i).name>>
      BY DEF Impls
    <3>2. j \notin 1 .. Len(Prelude)
      BY <1>3, <3>1
    <3>3. PICK p \in DOMAIN items : j = Len(Prelude) + p
      BY <3>1, <3>2, OutputIs
    <3>4. items[p].kind = "impl" /\ items[p].trait = t /\ items[p].of = <<item(i).name>>
      BY <3>1, <3>3, OutputIs
    <3>5. ImplFor(module, items, i, t, p) /\ ImplFor(module, items, i, t, k)
      BY <1>2, <1>6, <1>7, <3>3, <3>4 DEF ImplFor
    <3>6. p = k
      BY <1>1, <3>5, ImplsAgree
    <3> QED
      BY <3>3, <3>6
  <2>2. Len(Prelude) + k \in impls(i, t)
    BY <1>7, OutputIs DEF Impls
  <2> QED
    BY <2>1, <2>2
<1>9. Cardinality(left(i, t)) = 0 /\ Cardinality(impls(i, t)) = 1
  BY <1>5, <1>8, FS_EmptySet, FS_Singleton
<1> QED
  BY <1>9

-----------------------------------------------------------------------------
(* The names that an item of the output binds, and where they come from.   *)

BindsIn(x, space) ==
    CASE x.kind = "use" -> {<<l.local>> : l \in {k \in x.leaves : space \in k.binds}}
      [] x.kind = "substruct" /\ space = "type" -> {x.name}
      [] IsAdt(x) /\ space = "type" -> {<<x.name>>}
      [] OTHER -> {}

LEMMA BindsAre ==
    ASSUME NEW x, NEW space, NEW n \in BindsIn(x, space)
    PROVE  \/ x.kind = "use" /\ \E l \in x.leaves : space \in l.binds /\ n = <<l.local>>
           \/ x.kind = "substruct" /\ n = x.name
           \/ IsAdt(x) /\ space = "type" /\ n = <<x.name>>
BY DEF BindsIn

\* From a leaf or a type that was written, or from a struct that a derive generated for a group.
ImportedBy(m, from, j, n, space) ==
    \E i \in 1 .. Len(m.items) :
        /\ from[j] = <<i, "", 0>> /\ m.items[i].kind = "use"
        /\ \E l \in m.items[i].leaves : l.local \notin StructuralDerives /\ space \in l.binds /\ n = <<l.local>>
DefinedBy(m, from, j, n, space) ==
    \E i \in 1 .. Len(m.items) :
        from[j] = <<i, "", 0>> /\ IsAdt(m.items[i]) /\ space = "type" /\ n = <<m.items[i].name>>
GroupAt(m, from, j, n, i, t, g) ==
    /\ from[j] = <<i, t, g>> /\ IsAdt(m.items[i]) /\ OfGroup(n, t, m.items[i])
    /\ g \in 1 .. Len(ExpandRouted(t, m.items[i])) /\ Expansion(ExpandRouted(t, m.items[i]), t, m.items[i])
    /\ ExpandRouted(t, m.items[i])[g].kind = "substruct" /\ ExpandRouted(t, m.items[i])[g].name = n
GroupedBy(m, from, j, n) ==
    \E i \in 1 .. Len(m.items), t \in StructuralDerives : \E g : GroupAt(m, from, j, n, i, t, g)

LEMMA GroupedLen == ASSUME NEW m, NEW from, NEW j, NEW n, GroupedBy(m, from, j, n) PROVE Len(n) = 2
BY GroupReserved, ReservedLen DEF GroupedBy, GroupAt

LEMMA ItemBinds ==
    ASSUME NEW m, NEW its, NEW der, NEW from, Whole(m, its, der, from),
           NEW j \in DOMAIN its, NEW space, NEW n \in BindsIn(its[j], space)
    PROVE  ImportedBy(m, from, j, n, space) \/ DefinedBy(m, from, j, n, space) \/ GroupedBy(m, from, j, n)
<1>1. Originates(m, its, from, j)
  BY OriginIs
<1>2. PICK i \in 1 .. Len(m.items) :
          \/ from[j] = <<i, "", 0>> /\ FromItem(its[j], m.items[i])
          \/ \E t, g : from[j] = <<i, t, g>> /\ FromDerive(its[j], m.items[i], t, g)
  BY <1>1 DEF Originates
<1>3. \/ its[j].kind = "use" /\ \E l \in its[j].leaves : space \in l.binds /\ n = <<l.local>>
      \/ its[j].kind = "substruct" /\ n = its[j].name
      \/ IsAdt(its[j]) /\ space = "type" /\ n = <<its[j].name>>
  BY BindsAre
<1>4. CASE from[j] = <<i, "", 0>> /\ FromItem(its[j], m.items[i])
  <2>1. its[j].kind = m.items[i].kind /\ m.items[i].kind # "substruct"
    <3>1. its[j].kind = m.items[i].kind
      BY <1>4, RewrittenIs
    <3>2. m.items[i].kind # "substruct"
      BY <1>4 DEF FromItem, WrittenItem
    <3> QED
      BY <3>1, <3>2
  <2>2. CASE IsAdt(its[j]) /\ space = "type" /\ n = <<its[j].name>>
    <3>1. IsAdt(m.items[i])
      BY <2>1, <2>2 DEF IsAdt
    <3>2. its[j].name = m.items[i].name
      BY <1>4, <3>1, RewrittenIs
    <3> QED
      BY <1>4, <2>2, <3>1, <3>2 DEF DefinedBy
  <2>3. ASSUME its[j].kind = "use", NEW l \in its[j].leaves, space \in l.binds, n = <<l.local>>
        PROVE  ImportedBy(m, from, j, n, space)
    <3>1. m.items[i].kind = "use"
      BY <2>1, <2>3
    <3> DEFINE left == {p \in m.items[i].leaves : p.local \notin StructuralDerives}
    <3>2. its[j].leaves = left
      BY <1>4, <3>1, RewrittenIs
    <3>3. l \in left
      BY <2>3, <3>2
    <3> QED
      BY <1>4, <2>3, <3>1, <3>3 DEF ImportedBy
  <2> QED
    BY <1>3, <2>1, <2>2, <2>3
<1>5. ASSUME NEW t, NEW g, from[j] = <<i, t, g>>, FromDerive(its[j], m.items[i], t, g)
      PROVE  GroupedBy(m, from, j, n)
  <2>1. its[j].kind = "substruct" /\ n = its[j].name /\ OfGroup(n, t, m.items[i])
    BY <1>3, <1>5, FromDeriveIs DEF IsAdt
  <2> QED
    BY <1>5, <2>1 DEF FromDerive, GroupedBy, GroupAt
<1>6. CASE ~(from[j] = <<i, "", 0>> /\ FromItem(its[j], m.items[i]))
  <2>1. PICK t, g : from[j] = <<i, t, g>> /\ FromDerive(its[j], m.items[i], t, g)
    BY <1>2, <1>6
  <2> QED
    BY <1>5, <2>1
<1> QED
  BY <1>4, <1>6

LEMMA OriginsDiffer ==
    ASSUME NEW m, NEW its, NEW der, NEW from, Whole(m, its, der, from), NEW j \in DOMAIN its, NEW k \in DOMAIN its,
           from[j] = from[k]
    PROVE  j = k
BY DEF Whole, Stage, Places

LEMMA ImportsOnce ==
    ASSUME NEW m, NEW its, NEW der, NEW from, Whole(m, its, der, from), NEW j \in DOMAIN its, NEW k \in DOMAIN its,
           NEW n, NEW space, ImportedBy(m, from, j, n, space), ImportedBy(m, from, k, n, space)
    PROVE  j = k
<1>1. PICK a \in 1 .. Len(m.items) :
          /\ from[j] = <<a, "", 0>> /\ m.items[a].kind = "use"
          /\ \E l \in m.items[a].leaves : space \in l.binds /\ n = <<l.local>>
  BY DEF ImportedBy
<1>2. PICK b \in 1 .. Len(m.items) :
          /\ from[k] = <<b, "", 0>> /\ m.items[b].kind = "use"
          /\ \E l \in m.items[b].leaves : space \in l.binds /\ n = <<l.local>>
  BY DEF ImportedBy
<1>3. m \in Modules /\ DOMAIN m.items = 1 .. Len(m.items)
  BY ModuleIs DEF Whole
<1>4. PICK l \in m.items[a].leaves, p \in m.items[b].leaves : l.local = p.local /\ l.binds \cap p.binds # {}
  <2>1. PICK l \in m.items[a].leaves : space \in l.binds /\ n = <<l.local>>
    BY <1>1
  <2>2. PICK p \in m.items[b].leaves : space \in p.binds /\ n = <<p.local>>
    BY <1>2
  <2>3. l.local = n[1] /\ p.local = n[1]
    BY <2>1, <2>2
  <2> QED
    BY <2>1, <2>2, <2>3
<1>5. a = b
  BY <1>1, <1>2, <1>3, <1>4, ModulesAssumption
<1>6. from[j] = from[k]
  BY <1>1, <1>2, <1>5
<1> QED
  BY <1>6, OriginsDiffer

\* A type is defined once, and beside no import of its name.
LEMMA DefinedOnce ==
    ASSUME NEW m, NEW its, NEW der, NEW from, Whole(m, its, der, from), NEW j \in DOMAIN its, NEW k \in DOMAIN its,
           NEW n, NEW space, DefinedBy(m, from, j, n, space)
    PROVE  /\ DefinedBy(m, from, k, n, space) => j = k
           /\ ~ImportedBy(m, from, k, n, space)
<1>1. PICK a \in 1 .. Len(m.items) :
          from[j] = <<a, "", 0>> /\ IsAdt(m.items[a]) /\ space = "type" /\ n = <<m.items[a].name>>
  BY DEF DefinedBy
<1>2. m \in Modules /\ DOMAIN m.items = 1 .. Len(m.items)
  BY ModuleIs DEF Whole
<1>3. n[1] = m.items[a].name
  BY <1>1
<1>4. ASSUME DefinedBy(m, from, k, n, space)
      PROVE  j = k
  <2>1. PICK b \in 1 .. Len(m.items) : from[k] = <<b, "", 0>> /\ IsAdt(m.items[b]) /\ n = <<m.items[b].name>>
    BY <1>4 DEF DefinedBy
  <2>2. n[1] = m.items[b].name
    BY <2>1
  <2>3. a = b
    BY <1>1, <1>2, <1>3, <2>1, <2>2, AdtsAre
  <2>4. from[j] = from[k]
    BY <1>1, <2>1, <2>3
  <2> QED
    BY <2>4, OriginsDiffer
<1>5. ASSUME ImportedBy(m, from, k, n, space)
      PROVE  FALSE
  <2>1. PICK b \in 1 .. Len(m.items) :
            /\ m.items[b].kind = "use"
            /\ \E l \in m.items[b].leaves : space \in l.binds /\ n = <<l.local>>
    BY <1>5 DEF ImportedBy
  <2>2. PICK l \in m.items[b].leaves : space \in l.binds /\ n = <<l.local>>
    BY <2>1
  <2>3. l.local = m.items[a].name
    <3>1. n[1] = l.local
      BY <2>2
    <3> QED
      BY <1>3, <3>1
  <2>4. a \in DOMAIN m.items /\ b \in DOMAIN m.items /\ IsAdt(m.items[a])
    BY <1>1, <1>2
  <2>5. "type" \notin l.binds
    BY <1>2, <2>1, <2>3, <2>4, ModulesAssumption
  <2> QED
    BY <1>1, <2>2, <2>5
<1> QED
  BY <1>4, <1>5

\* Two groups of the module whose structs are called the same.
Clash(m, n) ==
    \E i, j \in 1 .. Len(m.items) :
        IsAdt(m.items[i]) /\ IsAdt(m.items[j]) /\ Muddled(m.items[i], m.items[j], n)

LEMMA GroupsOnce ==
    ASSUME NEW m, NEW its, NEW der, NEW from, Whole(m, its, der, from), NEW j \in DOMAIN its, NEW k \in DOMAIN its,
           NEW n, GroupedBy(m, from, j, n), GroupedBy(m, from, k, n), ~Clash(m, n)
    PROVE  j = k
<1>1. PICK a \in 1 .. Len(m.items), t \in StructuralDerives : \E g : GroupAt(m, from, j, n, a, t, g)
  BY DEF GroupedBy
<1>2. PICK g : GroupAt(m, from, j, n, a, t, g)
  BY <1>1
<1>3. PICK b \in 1 .. Len(m.items), u \in StructuralDerives : \E h : GroupAt(m, from, k, n, b, u, h)
  BY DEF GroupedBy
<1>4. PICK h : GroupAt(m, from, k, n, b, u, h)
  BY <1>3
<1>5. m \in Modules /\ DOMAIN m.items = 1 .. Len(m.items)
  BY ModuleIs DEF Whole
<1>6. a = b /\ t = u
  <2>1. IsAdt(m.items[a]) /\ IsAdt(m.items[b]) /\ OfGroup(n, t, m.items[a]) /\ OfGroup(n, u, m.items[b])
    BY <1>2, <1>4 DEF GroupAt
  <2>2. ~Muddled(m.items[a], m.items[b], n)
    BY <2>1 DEF Clash
  <2> QED
    BY <1>5, <2>1, <2>2, GroupTells
<1>7. g = h
  <2>1. IsAdt(m.items[a])
    BY <1>2 DEF GroupAt
  <2>2. ~Muddled(m.items[a], m.items[a], n)
    BY <2>1 DEF Clash
  <2> QED
    BY <1>2, <1>4, <1>6, <2>2 DEF GroupAt, Expansion
<1>8. from[j] = from[k]
  BY <1>2, <1>4, <1>6, <1>7 DEF GroupAt
<1> QED
  BY <1>8, OriginsDiffer

\* No two items of the expansion bind a name in the same namespace.
LEMMA ItemsBindOnce ==
    ASSUME NEW m, NEW its, NEW der, NEW from, Whole(m, its, der, from), NEW j \in DOMAIN its, NEW k \in DOMAIN its,
           NEW space, NEW n \in BindsIn(its[j], space), n \in BindsIn(its[k], space), ~Clash(m, n)
    PROVE  j = k
<1>1. ImportedBy(m, from, j, n, space) \/ DefinedBy(m, from, j, n, space) \/ GroupedBy(m, from, j, n)
  BY ItemBinds
<1>2. ImportedBy(m, from, k, n, space) \/ DefinedBy(m, from, k, n, space) \/ GroupedBy(m, from, k, n)
  BY ItemBinds
<1>3. \A i : ImportedBy(m, from, i, n, space) \/ DefinedBy(m, from, i, n, space) => Len(n) = 1
  <2> TAKE i
  <2> HAVE ImportedBy(m, from, i, n, space) \/ DefinedBy(m, from, i, n, space)
  <2>1. PICK l : n = <<l>>
    BY DEF ImportedBy, DefinedBy
  <2> QED
    BY <2>1
<1>4. \A i : GroupedBy(m, from, i, n) => Len(n) = 2
  BY GroupedLen
<1>5. CASE Len(n) = 1 /\ (DefinedBy(m, from, j, n, space) \/ DefinedBy(m, from, k, n, space))
  BY <1>1, <1>2, <1>4, <1>5, DefinedOnce
<1>6. CASE Len(n) = 1 /\ ~(DefinedBy(m, from, j, n, space) \/ DefinedBy(m, from, k, n, space))
  BY <1>1, <1>2, <1>4, <1>6, ImportsOnce
<1>7. CASE Len(n) # 1
  BY <1>1, <1>2, <1>3, <1>7, GroupsOnce
<1> QED
  BY <1>5, <1>6, <1>7

\* Nor do two of the prelude, which bind the traits that are used.
LEMMA PreludeBinds ==
    ASSUME usedTraits \subseteq StructuralDerives, NEW i \in 1 .. Len(Prelude), NEW space,
           NEW n \in BindsIn(Prelude[i], space)
    PROVE  /\ \E t \in usedTraits : n = <<t>>
           /\ \A j \in 1 .. Len(Prelude) : n \in BindsIn(Prelude[j], space) => i = j
<1>1. PICK used :
          /\ \A a, b \in 1 .. Len(used) : used[a] = used[b] => a = b
          /\ \A a \in 1 .. Len(used) : used[a] \in usedTraits
          /\ \A j \in 1 .. Len(Prelude) : \E a \in 1 .. Len(used) :
                 \/ j = 2 * a - 1 /\ Prelude[j] = TraitUse(used[a])
                 \/ j = 2 * a /\ Prelude[j] = MacroUse(used[a])
  BY PreludeIs
<1>2. ASSUME NEW j \in 1 .. Len(Prelude), n \in BindsIn(Prelude[j], space)
      PROVE  \E a \in 1 .. Len(used) :
                 n = <<used[a]>> /\ ((space = "type" /\ j = 2 * a - 1) \/ (space = "macro" /\ j = 2 * a))
  <2>1. PICK a \in 1 .. Len(used) : \/ j = 2 * a - 1 /\ Prelude[j] = TraitUse(used[a])
                                    \/ j = 2 * a /\ Prelude[j] = MacroUse(used[a])
    BY <1>1
  <2>2. CASE j = 2 * a - 1 /\ Prelude[j] = TraitUse(used[a])
    <3>1. n \in BindsIn(TraitUse(used[a]), space) /\ TraitUse(used[a]).kind = "use"
      BY <1>2, <2>2, ImportsAre
    <3>2. PICK l \in TraitUse(used[a]).leaves : space \in l.binds /\ n = <<l.local>>
      BY <3>1, BindsAre DEF IsAdt
    <3>3. l.local = used[a] /\ l.binds = {"type"}
      BY <3>2, ImportsAre
    <3> QED
      BY <2>2, <3>2, <3>3
  <2>3. CASE j = 2 * a /\ Prelude[j] = MacroUse(used[a])
    <3>1. n \in BindsIn(MacroUse(used[a]), space) /\ MacroUse(used[a]).kind = "use"
      BY <1>2, <2>3, ImportsAre
    <3>2. PICK l \in MacroUse(used[a]).leaves : space \in l.binds /\ n = <<l.local>>
      BY <3>1, BindsAre DEF IsAdt
    <3>3. l.local = used[a] /\ l.binds = {"macro"}
      BY <3>2, ImportsAre
    <3> QED
      BY <2>3, <3>2, <3>3
  <2> QED
    BY <2>1, <2>2, <2>3
<1>3. PICK a \in 1 .. Len(used) :
          n = <<used[a]>> /\ ((space = "type" /\ i = 2 * a - 1) \/ (space = "macro" /\ i = 2 * a))
  BY <1>2
<1>4. ASSUME NEW j \in 1 .. Len(Prelude), n \in BindsIn(Prelude[j], space)
      PROVE  i = j
  <2>1. PICK b \in 1 .. Len(used) :
            n = <<used[b]>> /\ ((space = "type" /\ j = 2 * b - 1) \/ (space = "macro" /\ j = 2 * b))
    BY <1>2, <1>4
  <2>2. used[a] = n[1] /\ used[b] = n[1]
    BY <1>3, <2>1
  <2>3. a = b
    BY <1>1, <2>2
  <2> QED
    BY <1>3, <2>1, <2>3
<1> QED
  BY <1>1, <1>3, <1>4

LEMMA PreludeTakes ==
    ASSUME usedTraits \subseteq StructuralDerives, NEW i \in 1 .. Len(Prelude), NEW space,
           NEW n \in BindsIn(Prelude[i], space)
    PROVE  \E t \in usedTraits : n = <<t>>
BY PreludeBinds

\* A name of the expansion is one of the prelude only when a type is called so.
LEMMA ItemBindsOther ==
    ASSUME NEW m, NEW its, NEW der, NEW from, Whole(m, its, der, from), NEW j \in DOMAIN its,
           NEW space, NEW n \in BindsIn(its[j], space), NEW t \in StructuralDerives, n = <<t>>
    PROVE  \E i \in 1 .. Len(m.items) : IsAdt(m.items[i]) /\ m.items[i].name = t
<1>1. ImportedBy(m, from, j, n, space) \/ DefinedBy(m, from, j, n, space) \/ GroupedBy(m, from, j, n)
  BY ItemBinds
<1>2. n[1] = t /\ Len(n) = 1
  OBVIOUS
<1>3. ~GroupedBy(m, from, j, n)
  BY <1>2, GroupedLen
<1>4. ~ImportedBy(m, from, j, n, space)
  <2> SUFFICES ASSUME ImportedBy(m, from, j, n, space)
               PROVE  FALSE
    OBVIOUS
  <2>1. PICK l : l.local \notin StructuralDerives /\ n = <<l.local>>
    BY DEF ImportedBy
  <2>2. n[1] = l.local
    BY <2>1
  <2> QED
    BY <1>2, <2>1, <2>2
<1>5. PICK i \in 1 .. Len(m.items) : IsAdt(m.items[i]) /\ n = <<m.items[i].name>>
  BY <1>1, <1>3, <1>4 DEF DefinedBy
<1>6. n[1] = m.items[i].name
  BY <1>5
<1> QED
  BY <1>2, <1>5, <1>6

LEMMA NamesHold == ASSUME RecInv PROVE NamesBoundOnce
<1> SUFFICES ASSUME Finished, NEW i \in DOMAIN output, NEW j \in DOMAIN output, NEW space,
                    NEW n \in BindsIn(output[i], space), n \in BindsIn(output[j], space),
                    ~LikeTrait(n), ~LikeGroup(n)
             PROVE  i = j
  <2>1. \A a, b \in DOMAIN output : \A space \in {"type", "macro"} :
            Finished /\ a # b =>
                \A n \in BindsIn(output[a], space) \cap BindsIn(output[b], space) : LikeTrait(n) \/ LikeGroup(n)
    OBVIOUS
  <2> QED
    BY <2>1 DEF NamesBoundOnce, BindsIn
<1>1. module.body
  <2> SUFFICES ASSUME ~module.body
               PROVE  FALSE
    OBVIOUS
  <2>1. output = <<>>
    BY DEF RecInv, Finished
  <2> QED
    BY <2>1
<1>2. PICK from : Whole(module, items, derived, from)
  BY <1>1, OutputIs
<1>3. usedTraits \subseteq StructuralDerives
  BY <1>1, OutputIs
<1>4. DOMAIN module.items = 1 .. Len(module.items)
  BY <1>2, ModuleIs DEF Whole
<1>5. ~Clash(module, n)
  <2> SUFFICES ASSUME Clash(module, n)
               PROVE  LikeGroup(n)
    OBVIOUS
  <2>1. PICK a, b \in 1 .. Len(module.items) :
            IsAdt(module.items[a]) /\ IsAdt(module.items[b]) /\ Muddled(module.items[a], module.items[b], n)
    BY DEF Clash
  <2>2. a \in Adts /\ b \in Adts
    BY <1>4, <2>1 DEF Adts
  <2> QED
    BY <2>1, <2>2, Zenon DEF Muddled, LikeGroup
<1>6. ASSUME NEW a \in DOMAIN output, a \notin 1 .. Len(Prelude)
      PROVE  \E k \in DOMAIN items : a = Len(Prelude) + k /\ output[a] = items[k]
  <2>1. PICK k \in DOMAIN items : a = Len(Prelude) + k
    BY <1>1, <1>6, OutputIs
  <2> QED
    BY <1>1, <2>1, OutputIs
<1>7. \A a \in 1 .. Len(Prelude) : output[a] = Prelude[a]
  BY <1>1, OutputIs
<1>8. CASE i \in 1 .. Len(Prelude) /\ j \in 1 .. Len(Prelude)
  BY <1>3, <1>7, <1>8, PreludeBinds
<1>9. CASE i \notin 1 .. Len(Prelude) /\ j \notin 1 .. Len(Prelude)
  <2>1. PICK a \in DOMAIN items : i = Len(Prelude) + a /\ output[i] = items[a]
    BY <1>6, <1>9
  <2>2. PICK b \in DOMAIN items : j = Len(Prelude) + b /\ output[j] = items[b]
    BY <1>6, <1>9
  <2>3. a = b
    BY <1>2, <1>5, <2>1, <2>2, ItemsBindOnce
  <2> QED
    BY <2>1, <2>2, <2>3
<1>10. ASSUME NEW p \in 1 .. Len(Prelude), NEW q \in DOMAIN output, q \notin 1 .. Len(Prelude),
             n \in BindsIn(output[p], space), n \in BindsIn(output[q], space)
      PROVE  FALSE
  <2>1. PICK b \in DOMAIN items : output[q] = items[b]
    BY <1>6, <1>10
  <2>2. PICK t \in usedTraits : n = <<t>>
    <3>1. n \in BindsIn(Prelude[p], space)
      BY <1>7, <1>10
    <3>2. p \in 1 .. Len(Prelude) /\ usedTraits \subseteq StructuralDerives
      BY <1>3
    <3>3. \E t \in usedTraits : n = <<t>>
      BY ONLY <3>1, <3>2, PreludeTakes
    <3> QED
      BY <3>3
  <2>3. n \in BindsIn(items[b], space)
    BY <1>10, <2>1
  <2>4. PICK k \in 1 .. Len(module.items) : IsAdt(module.items[k]) /\ module.items[k].name = t
    BY <1>2, <1>3, <2>2, <2>3, ItemBindsOther
  <2>5. k \in Adts
    BY <1>4, <2>4 DEF Adts
  <2> QED
    BY <2>2, <2>4, <2>5 DEF LikeTrait
<1> QED
  BY <1>8, <1>9, <1>10

-----------------------------------------------------------------------------
(* The graph of the types: a struct of a group is on a cycle only when its *)
(* owner is, for nothing else asks for it.                                 *)

LEMMA ImageIsFinite ==
    ASSUME NEW n \in Nat, NEW f, f = [x \in 1 .. n |-> f[x]]
    PROVE  IsFiniteSet({f[x] : x \in 1 .. n})
<1> DEFINE T == {f[x] : x \in 1 .. n}
<1>1. f \in [1 .. n -> T] /\ \A t \in T : \E x \in 1 .. n : f[x] = t
  OBVIOUS
<1> HIDE DEF T
<1>2. f \in Surjection(1 .. n, T)
  BY <1>1 DEF Surjection
<1>3. IsFiniteSet(1 .. n)
  BY FS_Interval
<1>4. IsFiniteSet(T)
  BY <1>2, <1>3, FS_Surjection
<1> QED
  BY <1>4 DEF T

LEMMA TypeGraphIs ==
    ASSUME NEW its, NEW e
    PROVE  e \in TypeGraph(its) <=>
               \E i \in Impls(its) : \E b \in its[i].bounds : ~b.ref /\ e = <<its[i].of, b.ty>>
BY DEF TypeGraph

LEMMA ObligationsAre ==
    ASSUME NEW its, NEW e
    PROVE  e \in Obligations(its) <=>
               \E i \in Impls(its) : \E b \in its[i].bounds : e = <<<<its[i].of, its[i].trait>>, <<b.ty, its[i].trait>>>>
BY DEF Obligations

LEMMA SourcesAreFinite ==
    ASSUME NEW its, IsSequence(its)
    PROVE  /\ IsFiniteSet(Sources(TypeGraph(its)))
           /\ IsFiniteSet(Sources(Obligations(its)))
<1>1. Len(its) \in Nat /\ DOMAIN its = 1 .. Len(its)
  BY SequenceIs
<1> DEFINE n == Len(its)
           f == [i \in 1 .. n |-> its[i].of]
           h == [i \in 1 .. n |-> <<its[i].of, its[i].trait>>]
           F == {f[i] : i \in 1 .. n}
           H == {h[i] : i \in 1 .. n}
<1>2. IsFiniteSet(F) /\ IsFiniteSet(H)
  <2>1. f = [i \in 1 .. n |-> f[i]] /\ h = [i \in 1 .. n |-> h[i]]
    OBVIOUS
  <2> HIDE DEF f, h
  <2> QED
    BY <1>1, <2>1, ImageIsFinite
<1>3. Sources(TypeGraph(its)) \subseteq F
  <2> SUFFICES ASSUME NEW e \in TypeGraph(its)
               PROVE  e[1] \in F
    BY DEF Sources
  <2>1. PICK i \in Impls(its) : \E b \in its[i].bounds : e = <<its[i].of, b.ty>>
    BY TypeGraphIs
  <2>2. i \in 1 .. n /\ e[1] = its[i].of
    BY <1>1, <2>1 DEF Impls
  <2>3. f[i] = its[i].of
    BY <2>2
  <2> QED
    BY <2>2, <2>3
<1>4. Sources(Obligations(its)) \subseteq H
  <2> SUFFICES ASSUME NEW e \in Obligations(its)
               PROVE  e[1] \in H
    BY DEF Sources
  <2>1. PICK i \in Impls(its) : \E b \in its[i].bounds : e = <<<<its[i].of, its[i].trait>>, <<b.ty, its[i].trait>>>>
    BY ObligationsAre
  <2>2. i \in 1 .. n /\ e[1] = <<its[i].of, its[i].trait>>
    BY <1>1, <2>1 DEF Impls
  <2>3. h[i] = <<its[i].of, its[i].trait>>
    BY <2>2
  <2> QED
    BY <2>2, <2>3
<1> HIDE DEF F, H
<1> QED
  BY <1>2, <1>3, <1>4, FS_Subset

\* The type that owns a group, which the name of the group's struct tells.
GroupOwner(m, n, owner) ==
    \E i \in 1 .. Len(m.items), t \in StructuralDerives :
        IsAdt(m.items[i]) /\ OfGroup(n, t, m.items[i]) /\ owner = <<m.items[i].name>>

LEMMA OwnerIsOne ==
    ASSUME NEW m \in Modules, NEW n, ~Clash(m, n), NEW a, NEW b, GroupOwner(m, n, a), GroupOwner(m, n, b)
    PROVE  Reserved(n) /\ a = b
<1>1. PICK i \in 1 .. Len(m.items), t \in StructuralDerives :
          IsAdt(m.items[i]) /\ OfGroup(n, t, m.items[i]) /\ a = <<m.items[i].name>>
  BY DEF GroupOwner
<1>2. PICK j \in 1 .. Len(m.items), u \in StructuralDerives :
          IsAdt(m.items[j]) /\ OfGroup(n, u, m.items[j]) /\ b = <<m.items[j].name>>
  BY DEF GroupOwner
<1>3. i = j
  <2>1. ~Muddled(m.items[i], m.items[j], n)
    BY <1>1, <1>2 DEF Clash
  <2> QED
    BY <1>1, <1>2, <2>1, GroupTells
<1> QED
  BY <1>1, <1>2, <1>3, GroupReserved

\* An impl of the expansion looks up no bound behind a reference, and asks for the struct of a
\* group only for the type that owns it.
LEMMA ImplAsks ==
    ASSUME NEW m, NEW its, NEW der, NEW from, Whole(m, its, der, from),
           NEW j \in Impls(its), NEW b \in its[j].bounds
    PROVE  ~b.ref /\ (Reserved(b.ty) => GroupOwner(m, b.ty, its[j].of))
<1>1. j \in DOMAIN its /\ its[j].kind = "impl"
  BY DEF Impls
<1>2. Originates(m, its, from, j)
  BY <1>1, OriginIs
<1>3. PICK i \in 1 .. Len(m.items) :
          \/ FromItem(its[j], m.items[i])
          \/ \E t, g : FromDerive(its[j], m.items[i], t, g)
  BY <1>2 DEF Originates
<1>4. CASE FromItem(its[j], m.items[i])
  <2>1. m.items[i].kind = "impl" /\ its[j] = m.items[i]
    BY <1>1, <1>4, RewrittenIs
  <2>2. WrittenImpl(m.items[i])
    BY <1>4, <2>1 DEF FromItem, WrittenItem
  <2>3. ~b.ref /\ Len(b.ty) = 1
    BY <2>1, <2>2 DEF WrittenImpl
  <2> QED
    BY <2>3 DEF Reserved
<1>5. ASSUME NEW t, NEW g, FromDerive(its[j], m.items[i], t, g)
      PROVE  ~b.ref /\ (Reserved(b.ty) => GroupOwner(m, b.ty, its[j].of))
  <2>1. ~b.ref
    BY <1>1, <1>5, FromDeriveIs
  <2>2. ASSUME Reserved(b.ty)
        PROVE  GroupOwner(m, b.ty, its[j].of)
    <3>1. its[j].of = <<m.items[i].name>> /\ OfGroup(b.ty, t, m.items[i])
      BY <1>1, <1>5, <2>2, FromDeriveIs
    <3>2. t \in StructuralDerives /\ IsAdt(m.items[i])
      BY <1>5 DEF FromDerive
    <3> QED
      BY <3>1, <3>2 DEF GroupOwner
  <2> QED
    BY <2>1, <2>2
<1> QED
  BY <1>3, <1>4, <1>5

LEMMA OwnerOnCycle ==
    ASSUME NEW m, NEW its, NEW der, NEW from, Whole(m, its, der, from),
           NEW n \in CyclicTypes(its), Reserved(n)
    PROVE  \E owner \in CyclicTypes(its) : GroupOwner(m, n, owner)
<1>1. IsFiniteSet(Sources(TypeGraph(its)))
  BY OriginsOnce, SourcesAreFinite
<1>2. PICK e \in TypeGraph(its) : e[2] = n /\ e[1] \in OnCycle(TypeGraph(its))
  BY <1>1, CycleEntered DEF CyclicTypes
<1>3. PICK j \in Impls(its) : \E b \in its[j].bounds : e = <<its[j].of, b.ty>>
  BY TypeGraphIs
<1>4. PICK b \in its[j].bounds : e = <<its[j].of, b.ty>>
  BY <1>3
<1>5. e[1] = its[j].of /\ e[2] = b.ty
  BY <1>4
<1>6. GroupOwner(m, n, its[j].of)
  BY <1>2, <1>5, ImplAsks
<1> QED
  BY <1>2, <1>5, <1>6 DEF CyclicTypes

\* What one derive generated: its impls are for the type and for the structs of the type's groups.
Owns(m, d, n) == n = d.owner \/ GroupOwner(m, n, d.owner)

LEMMA DerivedOwns ==
    ASSUME NEW m, NEW its, NEW der, NEW from, Whole(m, its, der, from), NEW d \in Range(der)
    PROVE  /\ Len(d.owner) = 1
           /\ \A n \in d.substructs : Reserved(n) /\ Owns(m, d, n)
           /\ \A j \in d.impls : /\ j \in Impls(its) /\ its[j].trait = d.trait
                                 /\ its[j].of = d.owner \/ its[j].of \in d.substructs
<1>1. IsDerived(m, its, from, d)
  BY DerivedIs
<1>2. PICK i \in 1 .. Len(m.items), t \in StructuralDerives :
          /\ IsAdt(m.items[i]) /\ DerivesAny(m.items[i].attrs, {t})
          /\ d = DerivedFrom(m.items, its, from, i, t)
  BY <1>1 DEF IsDerived
<1>3. /\ d.owner = <<m.items[i].name>> /\ d.trait = t
      /\ d.impls = {j \in DOMAIN its : from[j][1] = i /\ from[j][2] = t /\ its[j].kind = "impl"}
      /\ d.substructs = {its[j].name : j \in {k \in DOMAIN its : from[k][1] = i /\ from[k][2] = t /\ its[k].kind # "impl"}}
  BY <1>2 DEF DerivedFrom
<1>4. ASSUME NEW j \in DOMAIN its, from[j][1] = i, from[j][2] = t
      PROVE  \E g : FromDerive(its[j], m.items[i], t, g)
  <2>1. Originates(m, its, from, j)
    BY OriginIs
  <2>2. PICK k \in 1 .. Len(m.items) :
            \/ from[j] = <<k, "", 0>> /\ FromItem(its[j], m.items[k])
            \/ \E u, g : from[j] = <<k, u, g>> /\ FromDerive(its[j], m.items[k], u, g)
    BY <2>1 DEF Originates
  <2>3. from[j] # <<k, "", 0>>
    <3> DEFINE u == ""
               x == from[j]
    <3>1. t # u
      BY DEF StructuralDerives
    <3>2. x[2] = t
      BY <1>4
    <3> HIDE DEF u, x
    <3>3. x # <<k, u, 0>>
      BY <3>1, <3>2
    <3> QED
      BY <3>3 DEF u, x
  <2>4. PICK u, g : from[j] = <<k, u, g>> /\ FromDerive(its[j], m.items[k], u, g)
    BY <2>2, <2>3
  <2>5. k = i /\ u = t
    BY <1>4, <2>4
  <2> QED
    BY <2>4, <2>5
<1>5. ASSUME NEW n \in d.substructs
      PROVE  Reserved(n) /\ Owns(m, d, n)
  <2>1. PICK j \in DOMAIN its : from[j][1] = i /\ from[j][2] = t /\ its[j].kind # "impl" /\ n = its[j].name
    BY <1>3
  <2>2. PICK g : FromDerive(its[j], m.items[i], t, g)
    BY <1>4, <2>1
  <2>3. OfGroup(n, t, m.items[i])
    BY <2>1, <2>2, FromDeriveIs
  <2> QED
    BY <1>2, <1>3, <2>3, GroupReserved DEF GroupOwner, Owns
<1>6. ASSUME NEW j \in d.impls
      PROVE  /\ j \in Impls(its) /\ its[j].trait = d.trait
             /\ its[j].of = d.owner \/ its[j].of \in d.substructs
  <2>1. j \in DOMAIN its /\ from[j][1] = i /\ from[j][2] = t /\ its[j].kind = "impl"
    BY <1>3
  <2>2. PICK g : FromDerive(its[j], m.items[i], t, g)
    BY <1>4, <2>1
  <2>3. /\ its[j].trait = t
        /\ \/ its[j].of = <<m.items[i].name>>
           \/ \E h \in 1 .. Len(ExpandRouted(t, m.items[i])) :
                  ExpandRouted(t, m.items[i])[h].kind = "substruct" /\ ExpandRouted(t, m.items[i])[h].name = its[j].of
    BY <2>1, <2>2, FromDeriveIs
  <2>4. ASSUME NEW h \in 1 .. Len(ExpandRouted(t, m.items[i])),
               ExpandRouted(t, m.items[i])[h].kind = "substruct", ExpandRouted(t, m.items[i])[h].name = its[j].of
        PROVE  its[j].of \in d.substructs
    <3>1. Generated(m, its, from, i, t, h)
      BY <1>2, GeneratedIs
    <3>2. PICK k \in DOMAIN its : from[k] = <<i, t, h>> /\ FromDerive(its[k], m.items[i], t, h)
      BY <3>1 DEF Generated
    <3>3. its[k] = ExpandRouted(t, m.items[i])[h]
      BY <3>2 DEF FromDerive
    <3>4. from[k][1] = i /\ from[k][2] = t
      BY <3>2
    <3> QED
      BY <1>3, <2>4, <3>3, <3>4
  <2> QED
    BY <1>3, <2>1, <2>3, <2>4 DEF Impls
<1>7. Len(d.owner) = 1
  BY <1>3
<1> QED
  BY <1>5, <1>6, <1>7

\* What a derive generated is for a type of the graph when it is of a member of a cycle.
LEMMA MemberIs ==
    ASSUME NEW from, Whole(module, items, derived, from), Selected,
           NEW d \in Range(derived), NEW n \in cycleGraph, n = d.owner \/ n \in d.substructs, ~Clash(module, n)
    PROVE  d \in Members
<1> DEFINE m == module
<1>1. m \in Modules
  BY DEF Whole
<1>2. \A c \in Range(derived) : Len(c.owner) = 1 /\ \A k \in c.substructs : Reserved(k) /\ GroupOwner(m, k, c.owner)
  <2> TAKE c \in Range(derived)
  <2>1. Len(c.owner) = 1 /\ \A k \in c.substructs : Reserved(k) /\ Owns(m, c, k)
    BY DerivedOwns
  <2>2. ~Reserved(c.owner)
    BY <2>1, ReservedLen
  <2> QED
    BY <2>1, <2>2 DEF Owns
<1>3. n \in CyclicTypes(items) \/ \E c \in Members : n \in c.substructs
  BY DEF Selected
<1>4. Members \subseteq Range(derived) /\ \A c \in Members : c.owner \in CyclicTypes(items)
  BY DEF Members
<1>5. CASE n = d.owner
  <2>1. ~Reserved(n)
    BY <1>2, <1>5, ReservedLen
  <2>2. n \in CyclicTypes(items)
    BY <1>2, <1>3, <1>4, <2>1
  <2> QED
    BY <1>5, <2>2 DEF Members
<1>6. CASE n # d.owner
  <2>1. Reserved(n) /\ GroupOwner(m, n, d.owner)
    BY <1>2, <1>6
  <2>2. \E owner \in CyclicTypes(items) : GroupOwner(m, n, owner)
    <3>1. CASE n \in CyclicTypes(items)
      BY <2>1, <3>1, OwnerOnCycle
    <3>2. CASE \E c \in Members : n \in c.substructs
      BY <1>2, <1>4, <3>2
    <3> QED
      BY <1>3, <3>1, <3>2
  <2>3. d.owner \in CyclicTypes(items)
    BY <1>1, <2>1, <2>2, OwnerIsOne
  <2> QED
    BY <2>3 DEF Members
<1> QED
  BY <1>5, <1>6

LEMMA ContractedHold == ASSUME RecInv PROVE ContractedAgrees
<1> DEFINE generated == UNION {d.impls : d \in Range(derived)}
           found == {j \in generated : items[j].of \in cycleGraph /\ items[j].trait \in usedTraits}
<1> SUFFICES ASSUME phase = "decycled", GroupsTold
             PROVE  contracted = {<<items[i].trait, i>> : i \in found}
  BY DEF ContractedAgrees
<1>1. module.body /\ Finished
  BY DEF RecInv, Finished
<1>2. PICK from : Whole(module, items, derived, from)
  BY <1>1, OutputIs
<1>3. Selected
  BY <1>1, OutputIs
<1>4. \A n : ~Clash(module, n)
  <2>1. DOMAIN module.items = 1 .. Len(module.items)
    BY <1>2, ModuleIs DEF Whole
  <2>2. \A n : \A i, j \in Adts : ~Muddled(module.items[i], module.items[j], n)
    BY Zenon DEF GroupsTold, Muddled
  <2> QED
    BY <2>1, <2>2 DEF Clash, Adts
<1>5. ASSUME NEW d \in Range(derived), NEW j \in d.impls
      PROVE  items[j].trait = d.trait /\ (items[j].of = d.owner \/ items[j].of \in d.substructs)
  BY <1>2, DerivedOwns
<1>6. ASSUME NEW d \in Members, NEW j \in d.impls
      PROVE  j \in found /\ <<d.trait, j>> = <<items[j].trait, j>>
  <2>1. d \in Range(derived) /\ d.owner \in CyclicTypes(items)
    BY DEF Members
  <2>2. d.owner \in cycleGraph /\ d.substructs \subseteq cycleGraph /\ d.trait \in usedTraits
    BY <1>3, <2>1 DEF Selected
  <2> QED
    BY <1>5, <2>1, <2>2
<1>7. ASSUME NEW j \in found
      PROVE  \E d \in Members : j \in d.impls
  <2>1. PICK d \in Range(derived) : j \in d.impls
    OBVIOUS
  <2>2. d \in Members
    BY <1>2, <1>3, <1>5, <1>4, <2>1, MemberIs
  <2> QED
    BY <2>1, <2>2
<1>8. contracted = UNION {{<<d.trait, i>> : i \in d.impls} : d \in Members}
  BY <1>3 DEF Selected
<1> HIDE DEF found
<1> QED
  BY <1>6, <1>7, <1>8

-----------------------------------------------------------------------------
(* A circle of obligations that contraction leaves would be one of the     *)
(* types as well; what derives generate for these is adopted and spelled   *)
(* directly, so the circle would have been written by hand.                *)

LEMMA DeriveOwned ==
    ASSUME NEW m, NEW its, NEW der, NEW from, Whole(m, its, der, from), NEW j \in Impls(its),
           NEW i \in 1 .. Len(m.items), NEW t, NEW g, from[j] = <<i, t, g>>, FromDerive(its[j], m.items[i], t, g)
    PROVE  \E d \in Range(der) : j \in d.impls
<1> DEFINE d == DerivedFrom(m.items, its, from, i, t)
<1>1. t \in StructuralDerives /\ IsAdt(m.items[i]) /\ DerivesAny(m.items[i].attrs, {t})
  BY DEF FromDerive
<1>2. d \in Range(der)
  BY <1>1, DerivedIs
<1>3. from[j][1] = i /\ from[j][2] = t
  BY TripleIs
<1>4. j \in d.impls
  BY <1>3 DEF DerivedFrom, Impls
<1> QED
  BY <1>2, <1>4

\* The impls of the output are those of the expansion.
LEMMA OutputImpls ==
    ASSUME RecInv, Finished, module.body, NEW i \in Impls(output)
    PROVE  \E k \in Impls(items) : output[i] = items[k]
<1>1. i \in DOMAIN output /\ output[i].kind = "impl"
  BY DEF Impls
<1>2. i \notin 1 .. Len(Prelude)
  <2> SUFFICES ASSUME i \in 1 .. Len(Prelude)
               PROVE  FALSE
    OBVIOUS
  <2>1. usedTraits \subseteq StructuralDerives /\ output[i] = Prelude[i]
    BY OutputIs
  <2>2. Prelude[i].kind = "use"
    BY <2>1, PreludeIs, ImportsAre
  <2> QED
    BY <1>1, <2>1, <2>2
<1>3. PICK k \in DOMAIN items : i = Len(Prelude) + k
  BY <1>1, <1>2, OutputIs
<1>4. output[i] = items[k]
  BY <1>3, OutputIs
<1> QED
  BY <1>1, <1>4 DEF Impls

LEMMA OutputSequence ==
    ASSUME RecInv, Finished, module.body
    PROVE  IsSequence(output)
<1>1. output = Prelude \o items
  BY DEF RecInv, Finished
<1>2. usedTraits \subseteq StructuralDerives /\ \E from : Whole(module, items, derived, from)
  BY OutputIs
<1>3. IsSequence(Prelude)
  BY <1>2, PreludeIs
<1>4. IsSequence(items)
  BY <1>2, OriginsOnce
<1> QED
  BY <1>1, <1>3, <1>4, SequenceConcat

\* Only the derive of its owner asks for the struct of a group.
LEMMA OwnerAsks ==
    ASSUME NEW m, NEW its, NEW der, NEW from, Whole(m, its, der, from),
           NEW j \in Impls(its), NEW b \in its[j].bounds, Reserved(b.ty)
    PROVE  \E d \in Range(der) : d.owner = its[j].of /\ d.trait = its[j].trait
<1>1. j \in DOMAIN its /\ its[j].kind = "impl"
  BY DEF Impls
<1>2. Originates(m, its, from, j)
  BY <1>1, OriginIs
<1>3. PICK i \in 1 .. Len(m.items) :
          \/ FromItem(its[j], m.items[i])
          \/ \E t, g : FromDerive(its[j], m.items[i], t, g)
  BY <1>2 DEF Originates
<1>4. ~FromItem(its[j], m.items[i])
  <2> SUFFICES ASSUME FromItem(its[j], m.items[i])
               PROVE  FALSE
    OBVIOUS
  <2>1. m.items[i].kind = "impl" /\ its[j] = m.items[i]
    BY <1>1, RewrittenIs
  <2>2. WrittenImpl(m.items[i])
    BY <2>1 DEF FromItem, WrittenItem
  <2>3. Len(b.ty) = 1
    BY <2>1, <2>2 DEF WrittenImpl
  <2> QED
    BY <2>3, OneIsNotReserved
<1>5. PICK t, g : FromDerive(its[j], m.items[i], t, g)
  BY <1>3, <1>4
<1> DEFINE d == DerivedFrom(m.items, its, from, i, t)
<1>6. d \in Range(der)
  BY <1>5, DerivedIs DEF FromDerive
<1>7. its[j].of = <<m.items[i].name>> /\ its[j].trait = t
  BY <1>1, <1>5, FromDeriveIs
<1>8. d.owner = <<m.items[i].name>> /\ d.trait = t
  BY DEF DerivedFrom
<1> QED
  BY <1>6, <1>7, <1>8

\* An impl of a used trait for a type of the graph is adopted, whoever wrote it.
LEMMA UsedAdopted ==
    ASSUME RecInv, Finished, module.body, NEW i \in Impls(output), output[i].trait \in usedTraits,
           output[i].of \in cycleGraph
    PROVE  i \in Adopted
<1> DEFINE t == output[i].trait
<1>1. usedTraits \subseteq StructuralDerives
  BY OutputIs
<1>2. phase = "decycled"
  BY DEF RecInv, Finished
<1>3. PICK j \in 1 .. Len(Prelude) : Prelude[j] = MacroUse(t)
  BY <1>1, PreludeIs
<1>4. j \in DOMAIN output /\ output[j] = MacroUse(t)
  BY <1>3, OutputIs
<1>5. output[j].kind = "use" /\ output[j].decycle /\ \E l \in output[j].leaves : l.local = t
  BY <1>4, ImportsAre
<1>6. i \in DOMAIN output /\ output[i].kind = "impl"
  BY DEF Impls
<1> QED
  BY <1>2, <1>4, <1>5, <1>6 DEF Adopted

\* What contraction leaves of the impls: of those that are adopted, the bounds that cannot be ranked.
LEMMA ContractedAre ==
    ASSUME NEW e \in Obligations(Contracted)
    PROVE  \E i \in Impls(output) : \E b \in output[i].bounds :
               /\ i \in Adopted => ~Ranked(b)
               /\ e = <<<<output[i].of, output[i].trait>>, <<b.ty, output[i].trait>>>>
<1>1. PICK i \in Impls(Contracted) : \E b \in Contracted[i].bounds :
          e = <<<<Contracted[i].of, Contracted[i].trait>>, <<b.ty, Contracted[i].trait>>>>
  BY ObligationsAre
<1>2. DOMAIN Contracted = DOMAIN output
  BY DEF Contracted
<1>3. i \in DOMAIN output /\ Contracted[i].kind = "impl"
  BY <1>1, <1>2 DEF Impls
<1>4. CASE i \in Adopted
  <2> DEFINE left == {b \in output[i].bounds : ~Ranked(b)}
             x == Impl(output[i].trait, output[i].of, left)
  <2>1. Contracted[i] = x
    BY <1>3, <1>4 DEF Contracted
  <2>2. x.of = output[i].of /\ x.trait = output[i].trait /\ x.bounds = left
    BY DEF Impl
  <2>3. output[i].kind = "impl"
    BY <1>4 DEF Adopted
  <2> HIDE DEF x
  <2> QED
    BY <1>1, <1>3, <2>1, <2>2, <2>3 DEF Impls
<1>5. CASE i \notin Adopted
  <2>1. Contracted[i] = output[i]
    BY <1>3, <1>5 DEF Contracted
  <2> QED
    BY <1>1, <1>3, <1>5, <2>1 DEF Impls
<1> QED
  BY <1>4, <1>5

LEMMA CyclesHold == ASSUME RecInv PROVE CyclesBroken
<1> DEFINE graph == Obligations(Contracted)
           written == Obligations(module.items)
<1> SUFFICES ASSUME Finished, SpelledDirectly, NEW x \in OnCycle(graph)
             PROVE  FALSE
  BY DEF CyclesBroken
<1>1. module.body
  <2> SUFFICES ASSUME ~module.body
               PROVE  FALSE
    OBVIOUS
  <2>1. output = <<>>
    BY DEF RecInv, Finished
  <2>2. Impls(output) = {}
    BY <2>1 DEF Impls
  <2>3. graph = {}
    BY <2>2, ContractedAre
  <2> HIDE DEF graph
  <2> QED
    BY <2>3 DEF OnCycle
<1>2. PICK from : Whole(module, items, derived, from)
  BY <1>1, OutputIs
<1>3. module \in Modules /\ Selected
  BY <1>1, OutputIs DEF RecInv
<1>4. IsFiniteSet(Sources(graph)) /\ IsFiniteSet(Sources(written)) /\ IsFiniteSet(Sources(TypeGraph(items)))
  <2>1. IsSequence(output) /\ IsSequence(module.items) /\ IsSequence(items)
    BY <1>1, <1>2, <1>3, OutputSequence, ModuleIs, OriginsOnce
  <2>2. IsSequence(Contracted)
    <3>1. Len(output) \in Nat /\ DOMAIN output = 1 .. Len(output)
      BY <2>1, SequenceIs
    <3>2. DOMAIN Contracted = 1 .. Len(output) /\ Contracted = [i \in DOMAIN Contracted |-> Contracted[i]]
      BY <3>1 DEF Contracted
    <3>3. Contracted \in [1 .. Len(output) -> Range(Contracted)]
      BY <3>2 DEF Range
    <3> QED
      BY <3>1, <3>3 DEF IsSequence
  <2> QED
    BY <2>1, <2>2, SourcesAreFinite
<1>5. ASSUME NEW e \in graph
      PROVE  \E i \in Impls(output), k \in Impls(items) : \E b \in items[k].bounds :
                 /\ output[i] = items[k] /\ (i \in Adopted => ~Ranked(b))
                 /\ e = <<<<items[k].of, items[k].trait>>, <<b.ty, items[k].trait>>>>
  <2>1. PICK i \in Impls(output) : \E b \in output[i].bounds :
            /\ i \in Adopted => ~Ranked(b)
            /\ e = <<<<output[i].of, output[i].trait>>, <<b.ty, output[i].trait>>>>
    BY ContractedAre
  <2>2. PICK k \in Impls(items) : output[i] = items[k]
    BY <1>1, OutputImpls
  <2> QED
    BY <2>1, <2>2
<1>6. ASSUME NEW e \in graph
      PROVE  <<e[1][1], e[2][1]>> \in TypeGraph(items)
  <2>1. PICK k \in Impls(items) : \E b \in items[k].bounds :
            e = <<<<items[k].of, items[k].trait>>, <<b.ty, items[k].trait>>>>
    BY <1>5
  <2>2. PICK b \in items[k].bounds : e = <<<<items[k].of, items[k].trait>>, <<b.ty, items[k].trait>>>>
    BY <2>1
  <2>3. e[1][1] = items[k].of /\ e[2][1] = b.ty
    BY <2>2
  <2>4. ~b.ref
    BY <1>2, ImplAsks
  <2> QED
    BY <2>3, <2>4, TypeGraphIs
<1>7. \A y \in OnCycle(graph) : y[1] \in CyclicTypes(items)
  <2> HIDE DEF graph
  <2> QED
    BY <1>4, <1>6, CycleMapped DEF CyclicTypes
<1>8. CyclicTypes(items) \subseteq cycleGraph
  BY <1>3 DEF Selected
<1>9. \A d \in Range(derived) : d.owner \in CyclicTypes(items) => d.trait \in usedTraits
  BY <1>3 DEF Selected, Members
<1>10. ASSUME NEW k \in Impls(items), NEW d \in Range(derived), k \in d.impls, NEW y \in OnCycle(graph),
              y[1] = items[k].of, y[2] = items[k].trait
       PROVE  items[k].trait \in usedTraits
  <2>1. items[k].trait = d.trait /\ (items[k].of = d.owner \/ (items[k].of \in d.substructs /\ Reserved(items[k].of)))
    BY <1>2, <1>10, DerivedOwns
  <2>2. CASE items[k].of = d.owner
    BY <1>7, <1>9, <1>10, <2>1, <2>2
  <2>3. CASE Reserved(items[k].of)
    <3>1. PICK e \in graph : e[2] = y /\ e[1] \in OnCycle(graph)
      <4> HIDE DEF graph
      <4> QED
        BY <1>4, CycleEntered
    <3>2. PICK l \in Impls(items) : \E b \in items[l].bounds :
              e = <<<<items[l].of, items[l].trait>>, <<b.ty, items[l].trait>>>>
      BY <1>5
    <3>3. PICK b \in items[l].bounds : e = <<<<items[l].of, items[l].trait>>, <<b.ty, items[l].trait>>>>
      BY <3>2
    <3>4. b.ty = items[k].of /\ items[l].trait = items[k].trait /\ e[1][1] = items[l].of
      <4>1. e[2] = <<b.ty, items[l].trait>> /\ e[1] = <<items[l].of, items[l].trait>>
        BY <3>3
      <4>2. y[1] = b.ty /\ y[2] = items[l].trait
        BY <3>1, <4>1
      <4> QED
        BY <1>10, <4>1, <4>2
    <3>5. PICK c \in Range(derived) : c.owner = items[l].of /\ c.trait = items[l].trait
      BY <1>2, <2>3, <3>4, OwnerAsks
    <3>6. c.owner \in CyclicTypes(items)
      BY <1>7, <3>1, <3>4, <3>5
    <3> QED
      BY <1>9, <3>4, <3>5, <3>6
  <2> QED
    BY <2>1, <2>2, <2>3
<1>11. ASSUME NEW e \in graph, e[1] \in OnCycle(graph), e[2] \in OnCycle(graph)
       PROVE  e \in written
  <2>1. PICK i \in Impls(output), k \in Impls(items) : \E b \in items[k].bounds :
            /\ output[i] = items[k] /\ (i \in Adopted => ~Ranked(b))
            /\ e = <<<<items[k].of, items[k].trait>>, <<b.ty, items[k].trait>>>>
    BY <1>5
  <2>2. PICK b \in items[k].bounds :
            /\ output[i] = items[k] /\ (i \in Adopted => ~Ranked(b))
            /\ e = <<<<items[k].of, items[k].trait>>, <<b.ty, items[k].trait>>>>
    BY <2>1
  <2>3. e[1][1] = items[k].of /\ e[1][2] = items[k].trait /\ e[2][1] = b.ty
    BY <2>2
  <2>4. items[k].of \in cycleGraph /\ b.ty \in cycleGraph
    BY <1>7, <1>8, <1>11, <2>3
  <2>5. Originates(module, items, from, k)
    BY <1>2, OriginIs DEF Impls
  <2>6. PICK p \in 1 .. Len(module.items) :
            \/ FromItem(items[k], module.items[p])
            \/ \E t, g : from[k] = <<p, t, g>> /\ FromDerive(items[k], module.items[p], t, g)
    BY <2>5 DEF Originates
  <2>7. CASE FromItem(items[k], module.items[p])
    <3>1. items[k].kind = "impl"
      BY DEF Impls
    <3>2. items[k] = module.items[p] /\ p \in Impls(module.items)
      <4>1. items[k] = module.items[p]
        BY <2>7, <3>1, RewrittenIs
      <4>2. DOMAIN module.items = 1 .. Len(module.items)
        BY <1>3, ModuleIs
      <4> QED
        BY <3>1, <4>1, <4>2 DEF Impls
    <3> QED
      BY <2>2, <3>2, ObligationsAre
  <2>8. ASSUME NEW t, NEW g, from[k] = <<p, t, g>>, FromDerive(items[k], module.items[p], t, g)
        PROVE  FALSE
    <3>1. PICK d \in Range(derived) : k \in d.impls
      BY <1>2, <2>8, DeriveOwned
    <3>2. items[k].trait \in usedTraits
      BY <1>10, <1>11, <2>3, <3>1
    <3>3. i \in Adopted
      BY <1>1, <2>2, <2>4, <3>2, UsedAdopted
    <3>4. ~b.ref /\ b.direct
      BY <1>2, <2>2, <2>4, <3>3, ImplAsks DEF SpelledDirectly
    <3> QED
      BY <2>2, <2>4, <3>3, <3>4 DEF Ranked
  <2> QED
    BY <2>6, <2>7, <2>8
<1>12. x \in OnCycle(written)
  <2> HIDE DEF graph, written
  <2> QED
    BY <1>4, <1>11, CycleInOther
<1> QED
  BY <1>3, <1>12, ModulesAssumption

-----------------------------------------------------------------------------

\* Every structural derive that was written yields exactly one impl for its type, and none is left
\* on the type to be expanded once more.
THEOREM RecurseImplementsOnce == Spec => []ImplementedOnce
BY RecurseInvariant, OnceHolds, PTL

\* Of a module whose groups decycle can tell apart (GroupsTold), the positions that are contracted
\* are those of the impls that decycle finds by the graph.
THEOREM RecurseContracts == Spec => []ContractedAgrees
BY RecurseInvariant, ContractedHold, PTL

\* Of a module whose cycles are spelled directly (SpelledDirectly), no circle of obligations is
\* left: what is generated for a type on a cycle is adopted, and an adopted impl keeps no bound
\* that leads on to the cycle.
THEOREM RecurseBreaksCycles == Spec => []CyclesBroken
BY RecurseInvariant, CyclesHold, PTL

\* Types, imports, the prelude and the structs of groups bind each name once in each namespace,
\* but for the two clashes that NamesBoundOnce names.
THEOREM RecurseBindsOnce == Spec => []NamesBoundOnce
BY RecurseInvariant, NamesHold, PTL

\* derive(Ast) hands a visitor what it would hand over without #[recurse], and reports the same.
THEOREM RecurseLeavesAst == Spec => []AstUnaffected
BY RecurseInvariant, AstHolds, PTL
=============================================================================
