---------------------------- MODULE ParserLemmas ----------------------------
(***************************************************************************)
(* What the proofs about parses (ParserProofs) rest on: the programs that  *)
(* the derive macro and the combinators make of a grammar, and the         *)
(* operations of the two kinds of source.                                  *)
(***************************************************************************)
EXTENDS Grammar, SourceOps, TapeOpsProofs, WellFoundedInduction

(***************************************************************************)
(* What the derive macro and the combinators make of any well-formed       *)
(* grammar is a list of items whose every node is a type of the grammar    *)
(* and whose every group is a group of the source.                         *)
(***************************************************************************)

\* The items that occur inside a group, and those of a type.
FlatItem == {SkipSep, Together, Default} \cup {Spaced(b) : b \in BOOLEAN}
            \cup {Parse(n) : n \in NodeId}
GroupItem == [op : {"group"}, groups : SUBSET DOMAIN Content, body : Seq(FlatItem)]
ItemType == FlatItem \cup GroupItem

-----------------------------------------------------------------------------
(* Facts about natural numbers and sequences. *)

\* A set of naturals that has no least element is empty.
LEMMA NoLeastIsEmpty ==
    ASSUME NEW T, T \subseteq Nat, \A n \in T : \E m \in T : m < n
    PROVE  T = {}
<1> DEFINE R == {ss \in Nat \X Nat : ss[1] < ss[2]}
<1>1. OpToRel(<, Nat) = R
  BY DEF OpToRel
<1>2. IsWellFoundedOn(R, Nat)
  BY <1>1, NatLessThanWellFounded
<1> HIDE DEF R
<1> SUFFICES ASSUME T # {} PROVE FALSE
  OBVIOUS
<1>3. PICK x \in T : \A y \in T : ~(<<y, x>> \in R)
  BY <1>2, WFMin
<1>4. \A y \in T : ~(y < x)
  BY <1>3 DEF R
<1> QED
  BY <1>4

\* Max of a bounded set of naturals with an element is one of them.
LEMMA MaxIsElement ==
    ASSUME NEW N \in Nat, NEW T, T \subseteq 0 .. N, T # {}
    PROVE  Max(T) \in T
<1> DEFINE Rest == {N - x : x \in T}
<1>1. \A x \in T : x \in Nat /\ x <= N
  OBVIOUS
<1>2. Rest \subseteq Nat
  BY <1>1
<1>3. Rest # {}
  OBVIOUS
<1>4. PICK m \in Rest : \A n \in Rest : ~(n < m)
  <2> HIDE DEF Rest
  <2> QED
    BY <1>2, <1>3, NoLeastIsEmpty
<1>5. PICK x \in T : m = N - x
  OBVIOUS
<1>6. \A y \in T : x >= y
  <2> TAKE y \in T
  <2>1. N - y \in Rest
    OBVIOUS
  <2>2. ~(N - y < N - x)
    BY <1>4, <1>5, <2>1
  <2>3. x \in Nat /\ y \in Nat /\ x <= N /\ y <= N
    BY <1>1
  <2> HIDE DEF Rest
  <2> QED
    BY <2>2, <2>3
<1> QED
  BY <1>6 DEF Max

\* FlattenSeq of sequences over S is one.
LEMMA FlattenSeqType ==
    ASSUME NEW S, NEW seqs \in Seq(Seq(S))
    PROVE  FlattenSeq(seqs) \in Seq(S)
<1> DEFINE N == Len(seqs)
           At(f, i) == IF i = 1 THEN seqs[i] ELSE f[i - 1] \o seqs[i]
           Upto(n) == \E f \in [1 .. n -> Seq(S)] : \A i \in 1 .. n : f[i] = At(f, i)
           Missing == {n \in 0 .. N : ~Upto(n)}
<1>1. N \in Nat /\ \A i \in 1 .. N : seqs[i] \in Seq(S)
  BY LenProperties, ElementOfSeq
<1>2. ASSUME NEW n \in 0 .. N, \A m \in 0 .. n - 1 : Upto(m)
      PROVE  Upto(n)
  <2>1. CASE n = 0
    <3>1. \E f \in [1 .. n -> Seq(S)] : TRUE
      <4>1. [i \in 1 .. n |-> <<>>] \in [1 .. n -> Seq(S)]
        BY <2>1
      <4> QED
        BY <4>1
    <3> QED
      <4>1. 1 .. n = {}
        BY <2>1
      <4> QED
        BY <4>1, <3>1
  <2>2. CASE n # 0
    <3>1. n - 1 \in 0 .. n - 1 /\ n \in 1 .. N
      BY <1>1, <2>2
    <3>2. PICK f \in [1 .. n - 1 -> Seq(S)] : \A i \in 1 .. n - 1 : f[i] = At(f, i)
      BY <1>2, <3>1
    <3>3. At(f, n) \in Seq(S)
      <4>1. CASE n = 1
        BY <1>1, <3>1, <4>1
      <4>2. CASE n # 1
        <5>1. f[n - 1] \in Seq(S) /\ seqs[n] \in Seq(S)
          BY <1>1, <3>1, <4>2
        <5> QED
          BY <5>1, <4>2, ConcatProperties
      <4> QED
        BY <4>1, <4>2
    <3> DEFINE g == [i \in 1 .. n |-> IF i = n THEN At(f, n) ELSE f[i]]
    <3>4. g \in [1 .. n -> Seq(S)]
      BY <3>1, <3>3
    <3>5. \A i \in 1 .. n : g[i] = At(g, i)
      <4> TAKE i \in 1 .. n
      <4>1. i = 1 \/ i - 1 \in 1 .. n - 1
        BY <3>1
      <4>2. i = 1 \/ g[i - 1] = f[i - 1]
        BY <3>1, <4>1
      <4>3. At(g, i) = At(f, i)
        BY <4>2
      <4>4. i # n => i \in 1 .. n - 1
        BY <3>1
      <4>5. i # n => f[i] = At(f, i)
        BY <3>2, <4>4
      <4>6. g[i] = IF i = n THEN At(f, n) ELSE f[i]
        OBVIOUS
      <4> HIDE DEF At
      <4> QED
        BY <4>3, <4>5, <4>6
    <3> QED
      BY <3>4, <3>5
  <2> QED
    BY <2>1, <2>2
<1>3. Missing = {}
  <2>1. \A n \in Missing : \E m \in Missing : m < n
    <3> SUFFICES ASSUME NEW n \in Missing, \A m \in Missing : ~(m < n)
                 PROVE  FALSE
      OBVIOUS
    <3>1. \A m \in 0 .. n - 1 : Upto(m)
      <4> TAKE m \in 0 .. n - 1
      <4>1. n \in 0 .. N /\ m \in 0 .. N /\ m < n
        BY <1>1
      <4> HIDE DEF Upto
      <4> QED
        BY <4>1
    <3> QED
      BY <1>2, <3>1
  <2>2. Missing \subseteq Nat
    BY <1>1
  <2> HIDE DEF Missing
  <2> QED
    BY <2>1, <2>2, NoLeastIsEmpty
<1>4. CASE N = 0
  <2>1. seqs = <<>>
    BY <1>4, EmptySeq
  <2> QED
    BY <1>4, <2>1, EmptySeq DEF FlattenSeq
<1>5. CASE N # 0
  <2>1. PICK f \in [1 .. N -> Seq(S)] : \A i \in 1 .. N : f[i] = At(f, i)
    <3>1. N \in 0 .. N
      BY <1>1
    <3>2. Upto(N)
      <4> HIDE DEF Upto
      <4> QED
        BY <1>3, <3>1
    <3> QED
      BY <3>2
  <2> DEFINE Solves(g) == g = [i \in 1 .. N |-> At(g, i)]
             chosen == CHOOSE g : Solves(g)
             Odd == {i \in 1 .. N : chosen[i] \notin Seq(S)}
  <2>2. Solves(f)
    BY <2>1
  <2>3. Solves(chosen)
    BY <2>2
  <2>4. FlattenSeq(seqs) = chosen[N]
    BY <1>5 DEF FlattenSeq
  <2> HIDE DEF chosen
  <2>5. \A i \in 1 .. N : chosen[i] = At(chosen, i)
    BY <2>3
  <2>6. Odd \subseteq Nat
    OBVIOUS
  <2>7. \A i \in Odd : \E j \in Odd : j < i
    <3> SUFFICES ASSUME NEW i \in Odd, \A j \in Odd : ~(j < i)
                 PROVE  FALSE
      OBVIOUS
    <3>1. i \in 1 .. N /\ chosen[i] \notin Seq(S) /\ chosen[i] = At(chosen, i)
      BY <2>5
    <3>2. i # 1
      BY <3>1, <1>1
    <3>3. i - 1 \in 1 .. N /\ i - 1 < i
      BY <3>1, <3>2, <1>1
    <3>4. chosen[i - 1] \in Seq(S) /\ seqs[i] \in Seq(S)
      BY <3>1, <3>3, <1>1
    <3>5. chosen[i] = chosen[i - 1] \o seqs[i]
      BY <3>1, <3>2
    <3> QED
      BY <3>1, <3>4, <3>5, ConcatProperties
  <2> HIDE DEF Odd
  <2>8. Odd = {}
    BY <2>6, <2>7, NoLeastIsEmpty
  <2>9. N \in 1 .. N
    BY <1>1, <1>5
  <2>10. chosen[N] \in Seq(S)
    BY <2>8, <2>9 DEF Odd
  <2> QED
    BY <2>4, <2>10
<1> QED
  BY <1>4, <1>5

-----------------------------------------------------------------------------
(* Items. *)

\* What running an item relies on.
LEMMA ItemFacts ==
    ASSUME NEW it \in ItemType
    PROVE  /\ it.op = "parse" => it.node \in NodeId
           /\ it.op = "group" => /\ it.groups \subseteq DOMAIN Content
                                /\ it.body \in Seq(FlatItem)
<1>1. CASE it \in GroupItem
  BY <1>1 DEF GroupItem
<1>2. CASE it \in FlatItem
  BY <1>2 DEF FlatItem, SkipSep, Together, Default, Spaced, Parse
<1> QED
  BY <1>1, <1>2 DEF ItemType

LEMMA FlatItems ==
    /\ SkipSep \in FlatItem /\ Together \in FlatItem /\ Default \in FlatItem
    /\ \A b \in BOOLEAN : Spaced(b) \in FlatItem
    /\ \A n \in NodeId : Parse(n) \in FlatItem
    /\ Seq(FlatItem) \subseteq Seq(ItemType)
<1>1. FlatItem \subseteq ItemType
  BY DEF ItemType
<1>2. \A s \in Seq(FlatItem) : s \in Seq(ItemType)
  BY <1>1, SeqMonotonic
<1> QED
  BY <1>2 DEF FlatItem

LEMMA PlainItemsType ==
    ASSUME NEW f \in FieldType
    PROVE  PlainItems(f) \in Seq(FlatItem)
<1>1. f.node \in NodeId /\ f.attr \in {"none", "joint", "alone", "default"}
  BY DEF FieldType
<1>2. /\ SkipSep \in FlatItem /\ Default \in FlatItem /\ Spaced(TRUE) \in FlatItem
      /\ Spaced(FALSE) \in FlatItem /\ Parse(f.node) \in FlatItem
  BY <1>1, FlatItems
<1>3. /\ <<Default>> \in Seq(FlatItem)
      /\ <<SkipSep, Parse(f.node)>> \in Seq(FlatItem)
      /\ <<Spaced(TRUE), Parse(f.node)>> \in Seq(FlatItem)
      /\ <<Spaced(FALSE), Parse(f.node)>> \in Seq(FlatItem)
  <2>1. \A a, b \in FlatItem : <<a>> \in Seq(FlatItem) /\ <<a, b>> \in Seq(FlatItem)
    OBVIOUS
  <2> QED
    BY <1>2, <2>1
<1>4. CASE f.attr = "default"
  BY <1>3, <1>4 DEF PlainItems
<1>5. CASE f.attr = "joint"
  BY <1>3, <1>5 DEF PlainItems
<1>6. CASE f.attr = "alone"
  BY <1>3, <1>6 DEF PlainItems
<1>7. CASE f.attr = "none"
  BY <1>3, <1>7 DEF PlainItems
<1> QED
  BY <1>1, <1>4, <1>5, <1>6, <1>7

\* The delimiters around the body of a group, or the group as one item.
LEMMA GroupItemsType ==
    ASSUME NEW delims \in DelimsType, NEW body \in Seq(FlatItem)
    PROVE  GroupItems(delims, body) \in Seq(ItemType)
<1>1. CASE TokenSource
  <2>1. delims.groups \in SUBSET DOMAIN Content
    BY <1>1 DEF DelimsType
  <2>2. [op |-> "group", groups |-> delims.groups, body |-> body] \in ItemType
    BY <2>1 DEF GroupItem, ItemType
  <2> QED
    BY <1>1, <2>2 DEF GroupItems
<1>2. CASE ~TokenSource
  <2>1. delims.open \in NodeId /\ delims.close \in NodeId
    BY <1>2 DEF DelimsType
  <2>2. /\ <<Parse(delims.open), SkipSep>> \in Seq(FlatItem)
        /\ <<SkipSep, Parse(delims.close)>> \in Seq(FlatItem)
    BY <2>1, FlatItems
  <2>3. <<Parse(delims.open), SkipSep>> \o body \in Seq(FlatItem)
    BY <2>2, ConcatProperties
  <2>4. GroupItems(delims, body) \in Seq(FlatItem)
    BY <1>2, <2>2, <2>3, ConcatProperties DEF GroupItems
  <2> QED
    BY <2>4, FlatItems
<1> QED
  BY <1>1, <1>2

LEMMA TupleItemsType ==
    ASSUME NEW nodes \in Seq(NodeId)
    PROVE  TupleItems(nodes) \in Seq(ItemType)
<1>1. Len(nodes) \in Nat /\ DOMAIN nodes = 1 .. Len(nodes)
  BY LenProperties
<1>2. \A i \in 1 .. Len(nodes) : Parse(nodes[i]) \in FlatItem
  BY ElementOfSeq, FlatItems
<1>3. TupleItems(nodes) \in [1 .. Len(nodes) -> FlatItem]
  BY <1>1, <1>2 DEF TupleItems
<1>4. TupleItems(nodes) \in Seq(FlatItem)
  BY <1>1, <1>3, FunctionIsSeq
<1> QED
  BY <1>4, FlatItems

LEMMA JointItemsType ==
    ASSUME NEW nodes \in Seq(NodeId)
    PROVE  JointItems(nodes) \in Seq(ItemType)
<1> DEFINE Part(i) == IF i < Len(nodes) THEN <<Parse(nodes[i]), Together>>
                      ELSE <<Parse(nodes[i])>>
           parts == [i \in DOMAIN nodes |-> Part(i)]
<1>1. Len(nodes) \in Nat /\ DOMAIN nodes = 1 .. Len(nodes)
  BY LenProperties
<1>2. \A i \in 1 .. Len(nodes) : Parse(nodes[i]) \in FlatItem
  BY ElementOfSeq, FlatItems
<1>3. \A i \in 1 .. Len(nodes) : Part(i) \in Seq(FlatItem)
  BY <1>2, FlatItems
<1>4. parts \in [1 .. Len(nodes) -> Seq(FlatItem)]
  BY <1>1, <1>3
<1>5. parts \in Seq(Seq(FlatItem))
  BY <1>1, <1>4, FunctionIsSeq
<1>6. FlattenSeq(parts) \in Seq(FlatItem)
  BY <1>5, FlattenSeqType
<1> QED
  BY <1>6, FlatItems DEF JointItems

-----------------------------------------------------------------------------
(* Fields and variants. *)

\* Only a field directly followed by a content field absorbs any.
LEMMA AbsorbedFields ==
    ASSUME NEW fields \in Seq(FieldType), NEW i \in 1 .. Len(fields)
    PROVE  /\ Absorbed(fields, i) \in Seq(FieldType)
           /\ Absorbed(fields, i) # <<>> => i < Len(fields) /\ fields[i + 1].content
<1> DEFINE Run == {j \in i .. Len(fields) : \A k \in i + 1 .. j : fields[k].content}
           last == Max(Run)
<1>1. Len(fields) \in Nat /\ i \in Nat /\ i <= Len(fields)
  BY LenProperties
<1>2. i \in Run
  BY <1>1
<1>3. Run \subseteq 0 .. Len(fields) /\ Run # {}
  BY <1>1, <1>2
<1>4. last \in Run
  <2> HIDE DEF Run
  <2> QED
    BY <1>1, <1>3, MaxIsElement
<1>5. /\ last \in i .. Len(fields) /\ last \in Int
      /\ \A k \in i + 1 .. last : fields[k].content
  <2> HIDE DEF last
  <2> QED
    BY <1>1, <1>4
<1> HIDE DEF last
<1>6. Absorbed(fields, i) = SubSeq(fields, i + 1, last)
  BY DEF Absorbed, last
<1>7. \A k \in i + 1 .. last : k \in 1 .. Len(fields)
  BY <1>1, <1>5
<1>8. \A k \in i + 1 .. last : fields[k] \in FieldType
  BY <1>7, ElementOfSeq
<1>9. i + 1 \in Int
  BY <1>1
<1>10. SubSeq(fields, i + 1, last) \in Seq(FieldType)
  BY <1>5, <1>8, <1>9, SubSeqProperties
<1>11. last < i + 1 => SubSeq(fields, i + 1, last) = <<>>
  BY <1>5, <1>9, SubSeqEmpty
<1>12. i + 1 <= last => i < Len(fields) /\ fields[i + 1].content
  BY <1>1, <1>5
<1>13. last < i + 1 \/ i + 1 <= last
  BY <1>1, <1>5
<1> QED
  BY <1>6, <1>10, <1>11, <1>12, <1>13

LEMMA SubstructItemsType ==
    ASSUME NEW fields \in Seq(FieldType)
    PROVE  SubstructItems(fields) \in Seq(FlatItem)
<1> DEFINE parts == [i \in DOMAIN fields |-> PlainItems(fields[i])]
<1>1. Len(fields) \in Nat /\ DOMAIN fields = 1 .. Len(fields)
  BY LenProperties
<1>2. \A i \in 1 .. Len(fields) : PlainItems(fields[i]) \in Seq(FlatItem)
  BY ElementOfSeq, PlainItemsType
<1>3. parts \in [1 .. Len(fields) -> Seq(FlatItem)]
  BY <1>1, <1>2
<1>4. parts \in Seq(Seq(FlatItem))
  BY <1>1, <1>3, FunctionIsSeq
<1> QED
  BY <1>4, FlattenSeqType DEF SubstructItems

\* A type with the shape of a group has delimiters.
LEMMA GroupHasDelims ==
    ASSUME NEW n \in NodeId, Rules[n].kind = "group"
    PROVE  Rules[n].delims \in DelimsType /\ Rules[n].of \in NodeId
BY GrammarAssumption DEF IsNode

LEMMA FieldItemsType ==
    ASSUME NEW fields \in Seq(FieldType), HoldersAreGroups(fields)
    PROVE  FieldItems(fields) \in Seq(ItemType)
<1> DEFINE Holds(i) == fields[i].attr # "default" /\ Absorbed(fields, i) # <<>>
           Part(i) == IF fields[i].content THEN <<>>
                      ELSE IF Holds(i)
                      THEN GroupItems(Rules[fields[i].node].delims,
                                      SubstructItems(Absorbed(fields, i)))
                      ELSE PlainItems(fields[i])
           parts == [i \in DOMAIN fields |-> Part(i)]
<1>1. Len(fields) \in Nat /\ DOMAIN fields = 1 .. Len(fields)
  BY LenProperties
<1>2. ASSUME NEW i \in 1 .. Len(fields)
      PROVE  Part(i) \in Seq(ItemType)
  <2>1. fields[i] \in FieldType
    BY ElementOfSeq
  <2>2. CASE fields[i].content
    BY <2>2, EmptySeq
  <2>3. CASE ~fields[i].content /\ Holds(i)
    <3>1. i < Len(fields) /\ fields[i + 1].content
      BY <2>3, AbsorbedFields
    <3>2. i \in 1 .. Len(fields) - 1
      BY <1>1, <3>1
    <3>3. fields[i].node \in NodeId /\ Rules[fields[i].node].kind = "group"
      BY <2>1, <2>3, <3>1, <3>2 DEF HoldersAreGroups, FieldType
    <3>4. Rules[fields[i].node].delims \in DelimsType
      BY <3>3, GroupHasDelims
    <3>5. SubstructItems(Absorbed(fields, i)) \in Seq(FlatItem)
      BY AbsorbedFields, SubstructItemsType
    <3>6. Part(i) = GroupItems(Rules[fields[i].node].delims,
                               SubstructItems(Absorbed(fields, i)))
      BY <2>3
    <3> QED
      BY <3>4, <3>5, <3>6, GroupItemsType
  <2>4. CASE ~fields[i].content /\ ~Holds(i)
    <3>1. Part(i) = PlainItems(fields[i])
      BY <2>4
    <3> QED
      BY <2>1, <3>1, PlainItemsType, FlatItems
  <2> QED
    BY <2>2, <2>3, <2>4
<1>3. parts \in [1 .. Len(fields) -> Seq(ItemType)]
  <2> HIDE DEF Part
  <2> QED
    BY <1>1, <1>2
<1>4. parts \in Seq(Seq(ItemType))
  <2> HIDE DEF parts
  <2> QED
    BY <1>1, <1>3, FunctionIsSeq
<1>5. FieldItems(fields) = FlattenSeq(parts)
  BY DEF FieldItems
<1> QED
  BY <1>4, <1>5, FlattenSeqType

\* A stretch of fields in which every holder is a group.
LEMMA StretchOfFields ==
    ASSUME NEW fields \in Seq(FieldType), HoldersAreGroups(fields),
           NEW m \in Nat \ {0}, NEW n \in 0 .. Len(fields)
    PROVE  FieldItems(SubSeq(fields, m, n)) \in Seq(ItemType)
<1> DEFINE part == SubSeq(fields, m, n)
<1>1. Len(fields) \in Nat
  BY LenProperties
<1>2. \A k \in m .. n : k \in 1 .. Len(fields)
  BY <1>1
<1>3. \A k \in m .. n : fields[k] \in FieldType
  BY <1>2, ElementOfSeq
<1>4. /\ part \in Seq(FieldType)
      /\ Len(part) = IF m <= n THEN n - m + 1 ELSE 0
      /\ \A k \in 1 .. n - m + 1 : part[k] = fields[m + k - 1]
  BY <1>3, SubSeqProperties
<1> HIDE DEF part
<1>5. HoldersAreGroups(part)
  <2> SUFFICES ASSUME NEW k \in 1 .. Len(part) - 1,
                      ~part[k].content, part[k].attr # "default", part[k + 1].content
               PROVE  Rules[part[k].node].kind = "group"
    BY DEF HoldersAreGroups
  <2>1. /\ k \in 1 .. n - m + 1 /\ k + 1 \in 1 .. n - m + 1
        /\ m + k - 1 \in 1 .. Len(fields) - 1
    BY <1>1, <1>4
  <2>2. part[k] = fields[m + k - 1] /\ part[k + 1] = fields[m + (k + 1) - 1]
    BY <1>4, <2>1
  <2>3. m + (k + 1) - 1 = (m + k - 1) + 1
    BY <2>1
  <2> QED
    BY <2>1, <2>2, <2>3 DEF HoldersAreGroups
<1>6. FieldItems(part) \in Seq(ItemType)
  BY <1>4, <1>5, FieldItemsType
<1> QED
  BY <1>6 DEF part

\* What variants share is no longer than the first of them.
LEMMA PrefixLenBound ==
    ASSUME NEW variants \in Seq(Seq(FieldType))
    PROVE  /\ PrefixLen(variants) \in Nat
           /\ variants # <<>> => PrefixLen(variants) <= Len(variants[1])
           /\ variants = <<>> => PrefixLen(variants) = 0
<1>1. Len(variants) \in Nat
  BY LenProperties
<1>2. variants # <<>> => 1 \in 1 .. Len(variants)
  BY <1>1, EmptySeq
<1>3. variants # <<>> => variants[1] \in Seq(FieldType)
  BY <1>2, ElementOfSeq
<1>4. CASE Len(variants) < 2
  <2>1. PrefixLen(variants) = 0
    BY <1>4 DEF PrefixLen
  <2>2. variants # <<>> => Len(variants[1]) \in Nat
    BY <1>3, LenProperties
  <2> QED
    BY <2>1, <2>2
<1>5. CASE ~(Len(variants) < 2)
  <2> DEFINE Shared == {n \in 0 .. Len(variants[1]) :
                           \A v \in DOMAIN variants :
                              /\ n <= Len(variants[v])
                              /\ SubSeq(variants[v], 1, n) = SubSeq(variants[1], 1, n)}
             common == CommonFieldPrefixLen(variants)
             Walked == {n \in 1 .. common :
                           \A v \in DOMAIN variants :
                              ~(n < Len(variants[v]) /\ variants[v][n + 1].content)}
  <2>1. variants # <<>>
    BY <1>5, EmptySeq
  <2>2. Len(variants[1]) \in Nat
    BY <1>3, <2>1, LenProperties
  <2>3. 0 \in Shared
    <3>1. \A v \in DOMAIN variants : variants[v] \in Seq(FieldType)
      BY LenProperties, ElementOfSeq
    <3>2. \A v \in DOMAIN variants : 0 <= Len(variants[v])
      BY <3>1, LenProperties
    <3>3. \A v \in DOMAIN variants : SubSeq(variants[v], 1, 0) = <<>>
      BY SubSeqEmpty
    <3>4. SubSeq(variants[1], 1, 0) = <<>>
      BY SubSeqEmpty
    <3> QED
      BY <2>2, <3>2, <3>3, <3>4
  <2>4. Shared \subseteq 0 .. Len(variants[1])
    OBVIOUS
  <2>5. common = Max(Shared)
    BY DEF CommonFieldPrefixLen
  <2> HIDE DEF Shared
  <2>6. Max(Shared) \in Shared
    BY <2>2, <2>3, <2>4, MaxIsElement
  <2>7. common \in 0 .. Len(variants[1])
    BY <2>4, <2>5, <2>6
  <2>8. Walked \cup {0} \subseteq 0 .. common /\ Walked \cup {0} # {} /\ common \in Nat
    BY <2>2, <2>7
  <2>9. PrefixLen(variants) = Max(Walked \cup {0})
    BY <1>5 DEF PrefixLen
  <2> HIDE DEF Walked, common
  <2>10. PrefixLen(variants) \in 0 .. common
    BY <2>8, <2>9, MaxIsElement
  <2> QED
    BY <2>1, <2>2, <2>7, <2>8, <2>10
<1> QED
  BY <1>4, <1>5

-----------------------------------------------------------------------------
\* The code of every type of a well-formed grammar.
THEOREM GrammarCode ==
    /\ \A n \in ItemNodes : TypeItems[n] \in Seq(ItemType)
    /\ \A n \in EnumNodes :
          /\ SharedFields[n] \in Nat
          /\ PrefixItems[n] \in Seq(ItemType)
          /\ \A v \in DOMAIN Rules[n].variants : SuffixItems[n][v] \in Seq(ItemType)
<1>1. ASSUME NEW n \in ItemNodes
      PROVE  TypeItems[n] \in Seq(ItemType)
  <2>1. n \in NodeId /\ Rules[n].kind \in ItemKinds /\ TypeItems[n] = ItemsOf(Rules[n])
    BY DEF ItemNodes, TypeItems
  <2>2. CASE Rules[n].kind = "struct"
    <3>1. Rules[n].fields \in Seq(FieldType) /\ HoldersAreGroups(Rules[n].fields)
      BY <2>1, <2>2, GrammarAssumption DEF IsNode
    <3>2. ItemsOf(Rules[n]) = FieldItems(Rules[n].fields)
      BY <2>2 DEF ItemsOf
    <3> QED
      BY <2>1, <3>1, <3>2, FieldItemsType
  <2>3. CASE Rules[n].kind = "tuple"
    <3>1. Rules[n].of \in Seq(NodeId)
      BY <2>1, <2>3, GrammarAssumption DEF IsNode
    <3>2. ItemsOf(Rules[n]) = TupleItems(Rules[n].of)
      BY <2>3 DEF ItemsOf
    <3> QED
      BY <2>1, <3>1, <3>2, TupleItemsType
  <2>4. CASE Rules[n].kind = "joint"
    <3>1. Rules[n].of \in Seq(NodeId)
      BY <2>1, <2>4, GrammarAssumption DEF IsNode
    <3>2. ItemsOf(Rules[n]) = JointItems(Rules[n].of)
      BY <2>4 DEF ItemsOf
    <3> QED
      BY <2>1, <3>1, <3>2, JointItemsType
  <2>5. CASE Rules[n].kind = "group"
    <3>1. Rules[n].delims \in DelimsType /\ <<Parse(Rules[n].of)>> \in Seq(FlatItem)
      BY <2>1, <2>5, GroupHasDelims, FlatItems
    <3>2. ItemsOf(Rules[n]) = GroupItems(Rules[n].delims, <<Parse(Rules[n].of)>>)
      BY <2>5 DEF ItemsOf
    <3> QED
      BY <2>1, <3>1, <3>2, GroupItemsType
  <2> QED
    BY <2>1, <2>2, <2>3, <2>4, <2>5 DEF ItemKinds
<1>2. ASSUME NEW n \in EnumNodes
      PROVE  /\ SharedFields[n] \in Nat
             /\ PrefixItems[n] \in Seq(ItemType)
             /\ \A v \in DOMAIN Rules[n].variants : SuffixItems[n][v] \in Seq(ItemType)
  <2> DEFINE variants == Rules[n].variants
             shared == PrefixLen(variants)
  <2>1. n \in NodeId /\ Rules[n].kind = "enum"
    BY DEF EnumNodes
  <2>2. /\ variants \in Seq(Seq(FieldType))
        /\ \A v \in DOMAIN variants : HoldersAreGroups(variants[v])
    BY <2>1, GrammarAssumption DEF IsNode
  <2>3. /\ DOMAIN variants = 1 .. Len(variants) /\ Len(variants) \in Nat
        /\ \A v \in DOMAIN variants : variants[v] \in Seq(FieldType)
    BY <2>2, LenProperties, ElementOfSeq
  <2>4. /\ shared \in Nat
        /\ variants # <<>> => shared <= Len(variants[1])
        /\ variants = <<>> => shared = 0
    BY <2>2, PrefixLenBound
  <2>5. /\ SharedFields[n] = shared
        /\ PrefixItems[n] = FieldItems(SubSeq(variants[1], 1, shared))
        /\ \A v \in DOMAIN variants :
              SuffixItems[n][v] = FieldItems(SubSeq(variants[v], shared + 1,
                                                   Len(variants[v])))
    BY DEF SharedFields, PrefixItems, SuffixItems, Prefix, Suffix
  <2> HIDE DEF variants, shared
  <2>6. FieldItems(SubSeq(variants[1], 1, shared)) \in Seq(ItemType)
    <3>1. CASE variants = <<>>
      <4>1. SubSeq(variants[1], 1, shared) = <<>>
        BY <2>4, <3>1, SubSeqEmpty
      <4>2. <<>> \in Seq(FieldType) /\ HoldersAreGroups(<<>>)
        BY EmptySeq DEF HoldersAreGroups
      <4> QED
        BY <4>1, <4>2, FieldItemsType
    <3>2. CASE variants # <<>>
      <4>1. 1 \in DOMAIN variants
        BY <2>2, <2>3, <3>2, EmptySeq
      <4>2. variants[1] \in Seq(FieldType) /\ HoldersAreGroups(variants[1])
        BY <2>2, <2>3, <4>1
      <4>3. shared \in 0 .. Len(variants[1]) /\ 1 \in Nat \ {0}
        BY <2>4, <3>2, <4>2, LenProperties
      <4> QED
        BY <4>2, <4>3, StretchOfFields
    <3> QED
      BY <3>1, <3>2
  <2>7. ASSUME NEW v \in DOMAIN variants
        PROVE  FieldItems(SubSeq(variants[v], shared + 1, Len(variants[v]))) \in Seq(ItemType)
    <3>1. variants[v] \in Seq(FieldType) /\ HoldersAreGroups(variants[v])
      BY <2>2, <2>3
    <3>2. Len(variants[v]) \in 0 .. Len(variants[v]) /\ shared + 1 \in Nat \ {0}
      BY <2>4, <3>1, LenProperties
    <3> QED
      BY <3>1, <3>2, StretchOfFields
  <2>8. DOMAIN Rules[n].variants = DOMAIN variants
    BY DEF variants
  <2> QED
    BY <2>4, <2>5, <2>6, <2>7, <2>8
<1> QED
  BY <1>1, <1>2

(***************************************************************************)
(* The operations of the two kinds of source, on top of what TapeOpsProofs *)
(* says of the tape inside them: what a stream still serves stays a rest   *)
(* of what it was made from, so does every mark a rewind returns to, and   *)
(* the flags of the token source stay those of the places they belong to.  *)
(***************************************************************************)
\* All but the first so many atoms of a source.
RestFrom(source, n) == SubSeq(source, n + 1, Len(source))
IsRest(u, source) == \E n \in 0 .. Len(source) : u = RestFrom(source, n)

StreamInv(s) ==
    /\ s \in Stream
    /\ TapeInv(s.tape)
    /\ IsRest(Unread(s), s.source)
    /\ \A i \in 1 .. StreamDepth(s) : IsRest(Marks(s.tape)[i], s.source)
    /\ TokenSource => Len(s.jointSaves) = StreamDepth(s)

\* Where in the source a stream is when u is what it still serves.
PlaceOf(s, u) == Len(s.source) - Len(u)

\* is_joint is the spacing in front of the next atom ..
FlagRight(s) == s.isJoint = JointAt(s.source, Position(s))
\* .. and each saved flag that in front of the atom the rewind returns to.
SavedFlagsRight(s) ==
    \A i \in 1 .. StreamDepth(s) :
        s.jointSaves[i] = JointAt(s.source, PlaceOf(s, Marks(s.tape)[i]))

\* Two states of one stream that differ in no scope.
SameScopes(s, t) ==
    /\ s.source = t.source /\ s.origin = t.origin
    /\ s.jointSaves = t.jointSaves
    /\ StreamDepth(s) = StreamDepth(t)
    /\ Marks(s.tape) = Marks(t.tape)

-----------------------------------------------------------------------------
(* Rests of a source. *)

LEMMA RestProperties ==
    ASSUME NEW S, NEW source \in Seq(S), NEW n \in 0 .. Len(source)
    PROVE  /\ RestFrom(source, n) \in Seq(S)
           /\ Len(RestFrom(source, n)) = Len(source) - n
           /\ \A i \in 1 .. Len(source) - n : RestFrom(source, n)[i] = source[n + i]
<1> DEFINE u == SubSeq(source, n + 1, Len(source))
<1>1. Len(source) \in Nat /\ n \in Nat
  BY LenProperties
<1>2. \A i \in n + 1 .. Len(source) : i \in 1 .. Len(source)
  BY <1>1
<1>3. \A i \in n + 1 .. Len(source) : source[i] \in S
  BY <1>2, ElementOfSeq
<1>4. /\ u \in Seq(S)
      /\ Len(u) = IF n + 1 <= Len(source) THEN Len(source) - (n + 1) + 1 ELSE 0
      /\ \A i \in 1 .. Len(source) - (n + 1) + 1 : u[i] = source[(n + 1) + i - 1]
  BY <1>1, <1>3, SubSeqProperties
<1> HIDE DEF u
<1>5. Len(u) = Len(source) - n
  BY <1>1, <1>4
<1>6. \A i \in 1 .. Len(source) - n : u[i] = source[n + i]
  <2> TAKE i \in 1 .. Len(source) - n
  <2>1. i \in 1 .. Len(source) - (n + 1) + 1 /\ (n + 1) + i - 1 = n + i
    BY <1>1
  <2> QED
    BY <1>4, <2>1
<1>7. RestFrom(source, n) = u
  BY DEF RestFrom, u
<1> QED
  BY <1>4, <1>5, <1>6, <1>7

\* The first of a rest, if any, is the atom of the source at its place, and
\* what follows is the next rest.
LEMMA RestParts ==
    ASSUME NEW S, NEW source \in Seq(S), NEW u, IsRest(u, source)
    PROVE  /\ u \in Seq(S) /\ Len(u) \in 0 .. Len(source) /\ Len(source) \in Nat
           /\ Len(source) - Len(u) \in 0 .. Len(source)
           /\ u = RestFrom(source, Len(source) - Len(u))
           /\ u # <<>> => /\ Len(source) - Len(u) + 1 \in 1 .. Len(source)
                          /\ Head(u) = source[Len(source) - Len(u) + 1]
                          /\ Head(u) \in S
                          /\ IsRest(Tail(u), source)
                          /\ Len(Tail(u)) = Len(u) - 1
           /\ u = <<>> => Len(u) = 0
<1>1. PICK n \in 0 .. Len(source) : u = RestFrom(source, n)
  BY DEF IsRest
<1>2. /\ u \in Seq(S) /\ Len(u) = Len(source) - n
      /\ \A i \in 1 .. Len(source) - n : u[i] = source[n + i]
  BY <1>1, RestProperties
<1>3. Len(source) \in Nat /\ n \in 0 .. Len(source)
  BY LenProperties
<1>4. n = Len(source) - Len(u)
  BY <1>2, <1>3
<1>5. ASSUME u # <<>>
      PROVE  /\ Head(u) = source[n + 1] /\ Head(u) \in S
             /\ IsRest(Tail(u), source) /\ Len(Tail(u)) = Len(u) - 1
             /\ n + 1 \in 0 .. Len(source)
  <2>1. Len(u) \in Nat \ {0}
    BY <1>2, <1>5, EmptySeq
  <2>2. n + 1 \in 0 .. Len(source)
    BY <1>2, <1>3, <2>1
  <2>3. /\ Head(u) \in S /\ Tail(u) \in Seq(S) /\ Len(Tail(u)) = Len(u) - 1
        /\ \A i \in 1 .. Len(Tail(u)) : Tail(u)[i] = u[i + 1]
    BY <1>2, <1>5, HeadTailProperties
  <2>4. /\ RestFrom(source, n + 1) \in Seq(S)
        /\ Len(RestFrom(source, n + 1)) = Len(source) - (n + 1)
        /\ \A i \in 1 .. Len(source) - (n + 1) :
              RestFrom(source, n + 1)[i] = source[(n + 1) + i]
    BY <2>2, RestProperties
  <2>5. Tail(u) = RestFrom(source, n + 1)
    <3>1. Len(Tail(u)) = Len(RestFrom(source, n + 1))
      BY <1>2, <1>3, <2>3, <2>4
    <3>2. ASSUME NEW i \in 1 .. Len(Tail(u))
          PROVE  Tail(u)[i] = RestFrom(source, n + 1)[i]
      <4>1. /\ i \in 1 .. Len(source) - (n + 1) /\ i + 1 \in 1 .. Len(source) - n
            /\ n + (i + 1) = (n + 1) + i
        BY <1>2, <1>3, <2>3, <3>2
      <4> QED
        BY <1>2, <2>3, <2>4, <4>1
    <3> QED
      BY <2>3, <2>4, <3>1, <3>2, SeqEqual
  <2>6. Head(u) = u[1]
    OBVIOUS
  <2>7. u[1] = source[n + 1]
    <3>1. 1 \in 1 .. Len(source) - n
      BY <1>2, <1>3, <2>1
    <3> QED
      BY <1>2, <3>1
  <2> QED
    BY <2>2, <2>3, <2>5, <2>6, <2>7 DEF IsRest
<1>6. Len(<<>>) = 0
  BY EmptySeq
<1> HIDE DEF IsRest, RestFrom
<1> QED
  BY <1>1, <1>2, <1>3, <1>4, <1>5, <1>6

\* A rest is a suffix as SequencesExt defines it.
LEMMA RestIsSuffix ==
    ASSUME NEW S, NEW source \in Seq(S), NEW u, IsRest(u, source)
    PROVE  IsSuffix(u, source)
<1> DEFINE n == Len(source) - Len(u)
           ru == Reverse(u)
           rs == Reverse(source)
<1>1. /\ u \in Seq(S) /\ Len(u) \in 0 .. Len(source) /\ Len(source) \in Nat
      /\ n \in 0 .. Len(source) /\ u = RestFrom(source, n)
  BY RestParts
<1>2. \A i \in 1 .. Len(source) - n : u[i] = source[n + i]
  <2>1. \A i \in 1 .. Len(source) - n : RestFrom(source, n)[i] = source[n + i]
    BY <1>1, RestProperties
  <2> QED
    BY <1>1, <2>1
<1>3. /\ ru \in Seq(S) /\ Len(ru) = Len(u)
      /\ \A i \in 1 .. Len(u) : ru[i] = u[(Len(u) - i) + 1]
  BY <1>1, ReverseProperties
<1>4. /\ rs \in Seq(S) /\ Len(rs) = Len(source)
      /\ \A i \in 1 .. Len(source) : rs[i] = source[(Len(source) - i) + 1]
  BY ReverseProperties
<1>5. \A i \in 1 .. Len(u) : ru[i] = rs[i]
  <2> TAKE i \in 1 .. Len(u)
  <2>1. /\ i \in 1 .. Len(source) /\ (Len(u) - i) + 1 \in 1 .. Len(source) - n
        /\ n + ((Len(u) - i) + 1) = (Len(source) - i) + 1
    BY <1>1
  <2> HIDE DEF ru, rs, n
  <2> QED
    BY <1>2, <1>3, <1>4, <2>1
<1> HIDE DEF ru, rs, n
<1>6. \A i \in 1 .. Len(u) : rs[i] \in S
  <2> TAKE i \in 1 .. Len(u)
  <2>1. i \in 1 .. Len(rs)
    BY <1>1, <1>4
  <2> QED
    BY <1>4, <2>1, ElementOfSeq
<1>7. /\ SubSeq(rs, 1, Len(u)) \in Seq(S)
      /\ Len(SubSeq(rs, 1, Len(u))) = Len(u)
      /\ \A i \in 1 .. Len(u) : SubSeq(rs, 1, Len(u))[i] = rs[i]
  <2>1. Len(u) \in Int /\ 1 \in Int
    BY <1>1
  <2>2. /\ SubSeq(rs, 1, Len(u)) \in Seq(S)
        /\ Len(SubSeq(rs, 1, Len(u))) = IF 1 <= Len(u) THEN Len(u) - 1 + 1 ELSE 0
        /\ \A i \in 1 .. Len(u) - 1 + 1 : SubSeq(rs, 1, Len(u))[i] = rs[1 + i - 1]
    BY <1>6, <2>1, SubSeqProperties
  <2> QED
    BY <1>1, <2>2
<1>8. ru = SubSeq(rs, 1, Len(u))
  BY <1>3, <1>5, <1>7, SeqEqual
<1>9. SubSeq(ru, 1, Len(ru)) = ru
  BY <1>3, SubSeqFull
<1> QED
  BY <1>1, <1>3, <1>4, <1>8, <1>9 DEF IsSuffix, IsPrefix, ru, rs

-----------------------------------------------------------------------------
(* The operations. *)

\* The fields of a stream, and the atoms it serves.
LEMMA StreamFields ==
    ASSUME NEW s, StreamInv(s)
    PROVE  /\ DOMAIN s = {"tape", "isJoint", "jointSaves", "source", "origin"}
           /\ s.tape \in Tapes /\ TapeInv(s.tape)
           /\ s.isJoint \in BOOLEAN /\ s.jointSaves \in Seq(BOOLEAN)
           /\ s.source \in Seq(Atom) /\ s.origin \in Seq(Nat)
           /\ Unread(s) \in Seq(Atom) /\ Unread(s) = Upcoming(s.tape)
           /\ Position(s) \in Nat /\ Position(s) = PlaceOf(s, Unread(s))
           /\ StreamDepth(s) \in Nat /\ Len(Marks(s.tape)) = StreamDepth(s)
           /\ Marks(s.tape) \in Seq(Seq(Atom))
<1>1. s \in Stream /\ TapeInv(s.tape) /\ IsRest(Unread(s), s.source)
  BY DEF StreamInv
<1>2. /\ DOMAIN s = {"tape", "isJoint", "jointSaves", "source", "origin"}
      /\ s.tape \in Tapes
      /\ s.isJoint \in BOOLEAN /\ s.jointSaves \in Seq(BOOLEAN)
      /\ s.source \in Seq(Atom) /\ s.origin \in Seq(Nat)
  BY <1>1 DEF Stream
<1>3. Unread(s) = Upcoming(s.tape)
  BY DEF Unread
<1>4. Unread(s) \in Seq(Atom) /\ Len(s.source) - Len(Unread(s)) \in 0 .. Len(s.source)
  BY <1>1, <1>2, RestParts
<1>5. Len(s.source) - Len(Unread(s)) \in Nat
  BY <1>2, <1>4, LenProperties
<1>6. Depth(s.tape) \in Nat
  BY <1>2, FieldTypes
<1>7. Len(Marks(s.tape)) = Depth(s.tape) /\ Marks(s.tape) \in Seq(Seq(Atom))
  BY <1>2, ViewType
<1> QED
  BY <1>1, <1>2, <1>3, <1>4, <1>5, <1>6, <1>7 DEF Position, PlaceOf, StreamDepth

\* The invariant of a stream whose scopes have not changed.
LEMMA SameScopesInv ==
    ASSUME NEW s, StreamInv(s), NEW t, SameScopes(t, s), t \in Stream,
           TapeInv(t.tape), IsRest(Unread(t), s.source)
    PROVE  /\ StreamInv(t)
           /\ SavedFlagsRight(s) => SavedFlagsRight(t)
BY DEF StreamInv, SameScopes, SavedFlagsRight, PlaceOf

\* next serves the first of what is left, and for tokens sets the flag to the
\* spacing behind it.
LEMMA NextStream ==
    ASSUME NEW s, StreamInv(s)
    PROVE  LET served == StreamNext(s)
           IN  /\ StreamInv(served.stream) /\ SameScopes(served.stream, s)
               /\ served.atom = FirstOf(Unread(s))
               /\ Unread(served.stream) = AfterFirst(Unread(s))
               /\ served.atom = NoAtom => served.stream.isJoint = s.isJoint
               /\ TokenSource /\ FlagRight(s) => FlagRight(served.stream)
               /\ SavedFlagsRight(s) => SavedFlagsRight(served.stream)
<1> DEFINE u == Unread(s)
           v == AfterFirst(u)
           tape == TapeNext(s.tape).tape
           atom == TapeNext(s.tape).atom
           flag == IF ~TokenSource \/ atom = NoAtom THEN s.isJoint ELSE atom \in Joint
           t == [s EXCEPT !.tape = tape, !.isJoint = flag]
<1>1. /\ TapeInv(tape) /\ atom = FirstOf(u)
      /\ Upcoming(tape) = v /\ Marks(tape) = Marks(s.tape)
      /\ tape \in Tapes
  <2>1. TapeInv(s.tape) /\ u = Upcoming(s.tape)
    BY StreamFields
  <2>2. TapeInv(tape)
    BY <2>1, NextPreservesInv
  <2>3. tape \in Tapes
    BY <2>2 DEF TapeInv
  <2> QED
    BY <2>1, <2>2, <2>3, NextView
<1>2. StreamNext(s) = [stream |-> t, atom |-> atom]
  BY DEF StreamNext
<1>3. /\ u \in Seq(Atom) /\ IsRest(u, s.source) /\ s.source \in Seq(Atom)
      /\ Len(s.source) \in Nat
  BY StreamFields, LenProperties DEF StreamInv
<1>4. IsRest(v, s.source)
  BY <1>3, RestParts DEF AfterFirst
<1>5. Depth(tape) = Depth(s.tape)
  <2>1. s.tape \in Tapes /\ tape \in Tapes
    BY <1>1, StreamFields
  <2>2. Len(Marks(tape)) = Depth(tape) /\ Len(Marks(s.tape)) = Depth(s.tape)
    BY <2>1, ViewType
  <2> QED
    BY <1>1, <2>2
<1>6. /\ t.tape = tape /\ t.isJoint = flag
      /\ t.jointSaves = s.jointSaves /\ t.source = s.source /\ t.origin = s.origin
      /\ t \in Stream
  <2> HIDE DEF tape, flag
  <2>1. flag \in BOOLEAN
    <3>1. s.isJoint \in BOOLEAN /\ (atom \in Joint) \in BOOLEAN
      BY StreamFields
    <3> QED
      BY <3>1 DEF flag
  <2> QED
    BY <1>1, <2>1 DEF StreamInv, Stream
<1> HIDE DEF t, tape, atom, flag, u, v
<1>7. Unread(t) = v
  BY <1>1, <1>6 DEF Unread
<1>8. SameScopes(t, s)
  BY <1>1, <1>5, <1>6 DEF SameScopes, StreamDepth
<1>9. StreamInv(t) /\ (SavedFlagsRight(s) => SavedFlagsRight(t))
  BY <1>1, <1>4, <1>6, <1>7, <1>8, SameScopesInv
<1>10. ASSUME TokenSource, FlagRight(s)
       PROVE  FlagRight(t)
  <2>1. s.isJoint = JointAt(s.source, Len(s.source) - Len(u))
    BY <1>10 DEF FlagRight, Position, u
  <2>2. Position(t) = Len(s.source) - Len(v)
    BY <1>6, <1>7 DEF Position
  <2>3. CASE u = <<>>
    <3>1. v = <<>> /\ atom = NoAtom
      BY <1>1, <2>3 DEF AfterFirst, FirstOf, v
    <3> QED
      BY <1>6, <2>1, <2>2, <2>3, <3>1 DEF FlagRight, flag
  <2>4. CASE u # <<>>
    <3>1. /\ Head(u) \in Atom /\ Len(Tail(u)) = Len(u) - 1
          /\ Len(s.source) - Len(u) + 1 \in 1 .. Len(s.source)
          /\ Head(u) = s.source[Len(s.source) - Len(u) + 1]
          /\ Len(u) \in 0 .. Len(s.source)
      BY <1>3, <2>4, RestParts
    <3>2. atom = Head(u) /\ v = Tail(u)
      BY <1>1, <2>4 DEF AfterFirst, FirstOf, v
    <3>3. atom # NoAtom
      BY <3>1, <3>2, NoAtomAssumption
    <3>4. t.isJoint = (Head(u) \in Joint)
      BY <1>6, <1>10, <3>2, <3>3 DEF flag
    <3>5. Len(s.source) - Len(v) = Len(s.source) - Len(u) + 1
      <4>1. Len(v) = Len(u) - 1 /\ Len(u) \in Int /\ Len(s.source) \in Int
        BY <1>3, <3>1, <3>2
      <4> QED
        BY <4>1
    <3>6. Len(s.source) - Len(u) + 1 > 0
      BY <3>1
    <3> QED
      BY <1>6, <2>2, <3>1, <3>4, <3>5, <3>6 DEF FlagRight, JointAt
  <2> QED
    BY <2>3, <2>4
<1>11. atom = NoAtom => t.isJoint = s.isJoint
  BY <1>6 DEF flag
<1> QED
  BY <1>1, <1>2, <1>7, <1>8, <1>9, <1>10, <1>11 DEF u, v

\* peek changes nothing that a client can see.
LEMMA PeekStream ==
    ASSUME NEW s, StreamInv(s)
    PROVE  LET looked == StreamPeek(s)
           IN  /\ StreamInv(looked.stream) /\ SameScopes(looked.stream, s)
               /\ looked.atom = FirstOf(Unread(s))
               /\ Unread(looked.stream) = Unread(s)
               /\ FlagRight(s) => FlagRight(looked.stream)
               /\ SavedFlagsRight(s) => SavedFlagsRight(looked.stream)
<1> DEFINE u == Unread(s)
           tape == TapePeek(s.tape).tape
           atom == TapePeek(s.tape).atom
           t == [s EXCEPT !.tape = tape]
<1>1. /\ TapeInv(tape) /\ atom = FirstOf(u)
      /\ Upcoming(tape) = u /\ Marks(tape) = Marks(s.tape)
      /\ tape \in Tapes
  <2>1. TapeInv(s.tape) /\ u = Upcoming(s.tape)
    BY StreamFields
  <2>2. TapeInv(tape)
    BY <2>1, PeekPreservesInv
  <2>3. tape \in Tapes
    BY <2>2 DEF TapeInv
  <2> QED
    BY <2>1, <2>2, <2>3, PeekView
<1>2. StreamPeek(s) = [stream |-> t, atom |-> atom]
  BY DEF StreamPeek
<1>3. Depth(tape) = Depth(s.tape)
  <2>1. s.tape \in Tapes /\ tape \in Tapes
    BY <1>1, StreamFields
  <2>2. Len(Marks(tape)) = Depth(tape) /\ Len(Marks(s.tape)) = Depth(s.tape)
    BY <2>1, ViewType
  <2> QED
    BY <1>1, <2>2
<1>4. /\ t.tape = tape /\ t.isJoint = s.isJoint
      /\ t.jointSaves = s.jointSaves /\ t.source = s.source /\ t.origin = s.origin
      /\ t \in Stream
  <2> HIDE DEF tape
  <2> QED
    BY <1>1 DEF StreamInv, Stream
<1> HIDE DEF t, tape, atom, u
<1>5. Unread(t) = u
  BY <1>1, <1>4 DEF Unread
<1>6. SameScopes(t, s)
  BY <1>1, <1>3, <1>4 DEF SameScopes, StreamDepth
<1>7. IsRest(u, s.source)
  BY DEF StreamInv, u
<1>8. StreamInv(t) /\ (SavedFlagsRight(s) => SavedFlagsRight(t))
  BY <1>1, <1>4, <1>5, <1>6, <1>7, SameScopesInv
<1>9. FlagRight(s) => FlagRight(t)
  BY <1>4, <1>5 DEF FlagRight, Position, u
<1> QED
  BY <1>1, <1>2, <1>5, <1>6, <1>8, <1>9 DEF u

\* An atom handed back right after next served it is served again, but the flag
\* is left as it was behind it.
LEMMA HandedBackStream ==
    ASSUME NEW s, StreamInv(s), StreamNext(s).atom \in Atom
    PROVE  LET served == StreamNext(s)
               back == StreamPush(served.stream, served.atom)
           IN  /\ StreamInv(back) /\ SameScopes(back, s)
               /\ Unread(back) = Unread(s)
               /\ SavedFlagsRight(s) => SavedFlagsRight(back)
<1> DEFINE r == StreamNext(s).stream
           a == StreamNext(s).atom
           u == Unread(s)
           tape == TapePush(r.tape, a)
           t == [r EXCEPT !.tape = tape]
<1>1. /\ StreamInv(r) /\ SameScopes(r, s) /\ a = FirstOf(u)
      /\ Unread(r) = AfterFirst(u) /\ a \in Atom
      /\ SavedFlagsRight(s) => SavedFlagsRight(r)
  BY NextStream
<1>2. u \in Seq(Atom) /\ IsRest(u, s.source)
  BY StreamFields DEF StreamInv
<1>3. u # <<>>
  BY <1>1, NoAtomAssumption DEF FirstOf
<1>4. u = <<a>> \o Unread(r)
  BY <1>1, <1>2, <1>3, HeadThenTail DEF FirstOf, AfterFirst
<1> HIDE DEF r, a, u
<1>5. StreamPush(r, a) = t
  BY DEF StreamPush
<1>6. /\ TapeInv(tape) /\ tape \in Tapes
      /\ Upcoming(tape) = <<a>> \o Upcoming(r.tape) /\ Marks(tape) = Marks(r.tape)
  <2>1. TapeInv(r.tape) /\ a \in Atom
    BY <1>1, StreamFields
  <2>2. TapeInv(tape)
    BY <2>1, PushPreservesInv
  <2>3. tape \in Tapes
    BY <2>2 DEF TapeInv
  <2> QED
    BY <2>1, <2>2, <2>3, PushView
<1>7. Depth(tape) = Depth(r.tape)
  <2>1. r.tape \in Tapes /\ tape \in Tapes
    BY <1>1, <1>6, StreamFields
  <2>2. Len(Marks(tape)) = Depth(tape) /\ Len(Marks(r.tape)) = Depth(r.tape)
    BY <2>1, ViewType
  <2> QED
    BY <1>6, <2>2
<1>8. /\ t.tape = tape /\ t.jointSaves = r.jointSaves
      /\ t.source = r.source /\ t.origin = r.origin /\ t \in Stream
  <2> HIDE DEF tape
  <2> QED
    BY <1>1, <1>6 DEF StreamInv, Stream
<1> HIDE DEF t, tape
<1>9. Unread(t) = u
  BY <1>4, <1>6, <1>8 DEF Unread
<1>10. SameScopes(t, s)
  BY <1>1, <1>6, <1>7, <1>8 DEF SameScopes, StreamDepth
<1>11. StreamInv(t) /\ (SavedFlagsRight(s) => SavedFlagsRight(t))
  BY <1>2, <1>6, <1>8, <1>9, <1>10, SameScopesInv
<1> QED
  BY <1>5, <1>9, <1>10, <1>11 DEF r, a, u

\* The first flags of a stack, and the marks that go with them.
LEMMA OuterFlags ==
    ASSUME NEW s, StreamInv(s), NEW raw \in 0 .. StreamDepth(s) - 1,
           NEW t, t \in Stream, t.source = s.source,
           StreamDepth(t) = raw, Marks(t.tape) = SubSeq(Marks(s.tape), 1, raw),
           TokenSource => t.jointSaves = SubSeq(s.jointSaves, 1, raw),
           TapeInv(t.tape), IsRest(Unread(t), s.source)
    PROVE  /\ StreamInv(t)
           /\ TokenSource /\ SavedFlagsRight(s) => SavedFlagsRight(t)
<1>1. /\ StreamDepth(s) \in Nat /\ s.jointSaves \in Seq(BOOLEAN)
      /\ raw \in Nat /\ raw <= StreamDepth(s)
  BY StreamFields
<1>2. \A i \in 1 .. raw :
         i \in 1 .. StreamDepth(s) /\ Marks(t.tape)[i] = Marks(s.tape)[i]
  <2>1. Marks(s.tape) \in Seq(Seq(Atom)) /\ Len(Marks(s.tape)) = StreamDepth(s)
    BY StreamFields
  <2>2. \A i \in 1 .. raw : i \in 1 .. Len(Marks(s.tape))
    BY <1>1, <2>1
  <2>3. \A i \in 1 .. raw : Marks(s.tape)[i] \in Seq(Atom)
    BY <2>1, <2>2, ElementOfSeq
  <2>4. raw \in Int /\ 1 \in Int
    BY <1>1
  <2>5. \A i \in 1 .. raw - 1 + 1 :
           SubSeq(Marks(s.tape), 1, raw)[i] = Marks(s.tape)[1 + i - 1]
    BY <2>3, <2>4, SubSeqProperties
  <2>6. \A i \in 1 .. raw : SubSeq(Marks(s.tape), 1, raw)[i] = Marks(s.tape)[i]
    BY <1>1, <2>5
  <2> QED
    BY <2>1, <2>2, <2>6
<1>3. \A i \in 1 .. StreamDepth(t) : IsRest(Marks(t.tape)[i], t.source)
  BY <1>2 DEF StreamInv
<1>4. ASSUME TokenSource
      PROVE  /\ Len(t.jointSaves) = raw
             /\ \A i \in 1 .. raw : t.jointSaves[i] = s.jointSaves[i]
  <2>1. Len(s.jointSaves) = StreamDepth(s)
    BY <1>4 DEF StreamInv
  <2>2. \A i \in 1 .. raw : i \in 1 .. Len(s.jointSaves)
    BY <1>1, <2>1
  <2>3. \A i \in 1 .. raw : s.jointSaves[i] \in BOOLEAN
    BY <1>1, <2>2, ElementOfSeq
  <2>4. raw \in Int /\ 1 \in Int
    BY <1>1
  <2>5. /\ Len(SubSeq(s.jointSaves, 1, raw)) = IF 1 <= raw THEN raw - 1 + 1 ELSE 0
        /\ \A i \in 1 .. raw - 1 + 1 :
              SubSeq(s.jointSaves, 1, raw)[i] = s.jointSaves[1 + i - 1]
    BY <2>3, <2>4, SubSeqProperties
  <2>6. /\ Len(SubSeq(s.jointSaves, 1, raw)) = raw
        /\ \A i \in 1 .. raw : SubSeq(s.jointSaves, 1, raw)[i] = s.jointSaves[i]
    BY <1>1, <2>5
  <2> QED
    BY <1>4, <2>6
<1>5. StreamInv(t)
  BY <1>3, <1>4 DEF StreamInv
<1>6. ASSUME TokenSource, SavedFlagsRight(s)
      PROVE  SavedFlagsRight(t)
  <2> SUFFICES ASSUME NEW i \in 1 .. StreamDepth(t)
               PROVE  t.jointSaves[i] = JointAt(t.source, PlaceOf(t, Marks(t.tape)[i]))
    BY DEF SavedFlagsRight
  <2>1. t.jointSaves[i] = s.jointSaves[i] /\ Marks(t.tape)[i] = Marks(s.tape)[i]
    BY <1>2, <1>4, <1>6
  <2>2. i \in 1 .. StreamDepth(s)
    BY <1>2
  <2> QED
    BY <1>6, <2>1, <2>2 DEF SavedFlagsRight, PlaceOf
<1> QED
  BY <1>5, <1>6

\* checkpoint marks the place, and saves the flag there.
LEMMA CheckpointStream ==
    ASSUME NEW s, StreamInv(s)
    PROVE  LET t == StreamCheckpoint(s)
           IN  /\ StreamInv(t) /\ t.source = s.source /\ t.origin = s.origin
               /\ StreamDepth(t) = StreamDepth(s) + 1
               /\ Unread(t) = Unread(s)
               /\ FlagRight(s) => FlagRight(t)
               /\ TokenSource /\ FlagRight(s) /\ SavedFlagsRight(s) => SavedFlagsRight(t)
<1> DEFINE u == Unread(s)
           tape == TapeCheckpoint(s.tape)
           flags == IF TokenSource THEN Append(s.jointSaves, s.isJoint) ELSE s.jointSaves
           t == [s EXCEPT !.tape = tape, !.jointSaves = flags]
           n == StreamDepth(s)
<1>1. /\ TapeInv(tape) /\ tape \in Tapes
      /\ Upcoming(tape) = u /\ Marks(tape) = Append(Marks(s.tape), u)
  <2>1. TapeInv(s.tape) /\ u = Upcoming(s.tape)
    BY StreamFields
  <2>2. TapeInv(tape)
    BY <2>1, CheckpointPreservesInv
  <2>3. tape \in Tapes
    BY <2>2 DEF TapeInv
  <2> QED
    BY <2>1, <2>2, <2>3, CheckpointView
<1>2. StreamCheckpoint(s) = t
  BY DEF StreamCheckpoint
<1>3. /\ s.jointSaves \in Seq(BOOLEAN) /\ s.isJoint \in BOOLEAN /\ flags \in Seq(BOOLEAN)
      /\ n \in Nat /\ u \in Seq(Atom)
      /\ Marks(s.tape) \in Seq(Seq(Atom)) /\ Len(Marks(s.tape)) = n
  BY StreamFields, AppendProperties
<1>4. /\ t.tape = tape /\ t.isJoint = s.isJoint
      /\ t.jointSaves = flags /\ t.source = s.source /\ t.origin = s.origin
      /\ t \in Stream
  <2> HIDE DEF tape, flags
  <2> QED
    BY <1>1, <1>3 DEF StreamInv, Stream
<1> HIDE DEF t, tape, u
<1>5. /\ Len(Marks(tape)) = n + 1
      /\ \A i \in 1 .. n : Marks(tape)[i] = Marks(s.tape)[i]
      /\ Marks(tape)[n + 1] = u
  BY <1>1, <1>3, AppendProperties
<1>6. StreamDepth(t) = n + 1
  <2>1. Len(Marks(tape)) = Depth(tape)
    BY <1>1, ViewType
  <2> QED
    BY <1>4, <1>5, <2>1 DEF StreamDepth
<1>7. Unread(t) = u
  BY <1>1, <1>4 DEF Unread
<1>8. TokenSource =>
         /\ Len(s.jointSaves) = n /\ Len(t.jointSaves) = n + 1
         /\ \A i \in 1 .. n : t.jointSaves[i] = s.jointSaves[i]
         /\ t.jointSaves[n + 1] = s.isJoint
  <2>1. TokenSource => Len(s.jointSaves) = n
    BY DEF StreamInv
  <2> QED
    BY <1>3, <1>4, <2>1, AppendProperties
<1> HIDE DEF n, flags
<1>9. IsRest(u, s.source) /\ \A i \in 1 .. n : IsRest(Marks(s.tape)[i], s.source)
  BY DEF StreamInv, u, n
<1>10. \A i \in 1 .. n + 1 : i \in 1 .. n \/ i = n + 1
  BY <1>3
<1>11. \A i \in 1 .. n + 1 : IsRest(Marks(tape)[i], s.source)
  BY <1>5, <1>9, <1>10
<1>12. StreamInv(t)
  BY <1>1, <1>4, <1>6, <1>7, <1>8, <1>9, <1>11 DEF StreamInv
<1>13. FlagRight(s) => FlagRight(t)
  BY <1>4, <1>7 DEF FlagRight, Position, u
<1>14. ASSUME TokenSource, FlagRight(s), SavedFlagsRight(s)
       PROVE  SavedFlagsRight(t)
  <2>1. ASSUME NEW i \in 1 .. n
        PROVE  t.jointSaves[i] = JointAt(t.source, PlaceOf(t, Marks(t.tape)[i]))
    BY <1>4, <1>5, <1>8, <1>14 DEF SavedFlagsRight, PlaceOf, n
  <2>2. t.jointSaves[n + 1] = JointAt(t.source, PlaceOf(t, Marks(t.tape)[n + 1]))
    BY <1>4, <1>5, <1>8, <1>14 DEF FlagRight, Position, PlaceOf, u
  <2> QED
    BY <1>6, <1>10, <2>1, <2>2 DEF SavedFlagsRight
<1> QED
  BY <1>2, <1>4, <1>6, <1>7, <1>12, <1>13, <1>14 DEF u, n

\* rollback returns to the mark of the scope, and to the flag saved with it.
LEMMA RollbackStream ==
    ASSUME NEW s, StreamInv(s), NEW raw \in 0 .. StreamDepth(s) - 1
    PROVE  LET t == StreamRollback(s, raw)
           IN  /\ StreamInv(t) /\ t.source = s.source /\ t.origin = s.origin
               /\ StreamDepth(t) = raw
               /\ TokenSource /\ SavedFlagsRight(s) => SavedFlagsRight(t) /\ FlagRight(t)
<1> DEFINE tape == TapeRollback(s.tape, raw)
           mark == Marks(s.tape)[raw + 1]
           flags == IF TokenSource THEN SubSeq(s.jointSaves, 1, raw) ELSE s.jointSaves
           flag == IF TokenSource THEN s.jointSaves[raw + 1] ELSE s.isJoint
           t == [s EXCEPT !.tape = tape, !.isJoint = flag, !.jointSaves = flags]
<1>1. /\ s.jointSaves \in Seq(BOOLEAN) /\ s.isJoint \in BOOLEAN
      /\ StreamDepth(s) \in Nat /\ raw + 1 \in 1 .. StreamDepth(s) /\ raw \in Nat
      /\ TapeInv(s.tape) /\ StreamDepth(s) = Depth(s.tape)
  BY StreamFields DEF StreamDepth
<1>2. /\ TapeInv(tape) /\ tape \in Tapes
      /\ Upcoming(tape) = mark /\ Marks(tape) = SubSeq(Marks(s.tape), 1, raw)
  <2>1. RawIsOpen(s.tape, raw)
    BY <1>1 DEF RawIsOpen
  <2>2. TapeInv(tape)
    BY <1>1, <2>1, RollbackPreservesInv
  <2>3. tape \in Tapes
    BY <2>2 DEF TapeInv
  <2> QED
    BY <1>1, <2>1, <2>2, <2>3, RollbackView
<1>3. s \in Stream /\ DOMAIN s = {"tape", "isJoint", "jointSaves", "source", "origin"}
  BY StreamFields DEF StreamInv
<1>4. flags \in Seq(BOOLEAN) /\ flag \in BOOLEAN
  <2>1. CASE TokenSource
    <3>1. Len(s.jointSaves) = StreamDepth(s)
      BY <2>1 DEF StreamInv
    <3>2. \A i \in 1 .. raw : i \in 1 .. Len(s.jointSaves)
      BY <1>1, <3>1
    <3>3. \A i \in 1 .. raw : s.jointSaves[i] \in BOOLEAN
      BY <1>1, <3>2, ElementOfSeq
    <3>4. SubSeq(s.jointSaves, 1, raw) \in Seq(BOOLEAN)
      BY <1>1, <3>3, SubSeqProperties
    <3>5. s.jointSaves[raw + 1] \in BOOLEAN
      BY <1>1, <3>1, ElementOfSeq
    <3> QED
      BY <2>1, <3>4, <3>5
  <2>2. CASE ~TokenSource
    BY <1>1, <2>2
  <2> QED
    BY <2>1, <2>2
<1>5. StreamRollback(s, raw) = t
  <2>1. CASE TokenSource
    BY <2>1 DEF StreamRollback
  <2>2. CASE ~TokenSource
    <3> HIDE DEF tape
    <3>1. flag = s.isJoint /\ flags = s.jointSaves
      BY <2>2
    <3>2. t = [s EXCEPT !.tape = tape]
      BY <1>3, <3>1 DEF Stream
    <3> QED
      BY <2>2, <3>2 DEF StreamRollback, tape
  <2> QED
    BY <2>1, <2>2
<1>6. /\ t.tape = tape /\ t.isJoint = flag
      /\ t.jointSaves = flags /\ t.source = s.source /\ t.origin = s.origin
      /\ t \in Stream
  <2> HIDE DEF tape, flags, flag
  <2> QED
    BY <1>2, <1>3, <1>4 DEF Stream
<1> HIDE DEF t, tape
<1>7. StreamDepth(t) = raw
  <2>1. Len(Marks(tape)) = Depth(tape)
    BY <1>2, ViewType
  <2>2. Marks(s.tape) \in Seq(Seq(Atom)) /\ Len(Marks(s.tape)) = StreamDepth(s)
    BY StreamFields
  <2>3. raw \in 0 .. Len(Marks(s.tape))
    BY <1>1, <2>2
  <2>4. Len(SubSeq(Marks(s.tape), 1, raw)) = raw
    BY <2>2, <2>3
  <2> QED
    BY <1>2, <1>6, <2>1, <2>4 DEF StreamDepth
<1>8. Unread(t) = mark
  BY <1>2, <1>6 DEF Unread
<1>9. IsRest(mark, s.source)
  BY <1>1 DEF StreamInv
<1>10. StreamInv(t) /\ (TokenSource /\ SavedFlagsRight(s) => SavedFlagsRight(t))
  BY <1>2, <1>6, <1>7, <1>8, <1>9, OuterFlags
<1>11. ASSUME TokenSource, SavedFlagsRight(s)
       PROVE  FlagRight(t)
  <2>1. s.jointSaves[raw + 1] = JointAt(s.source, PlaceOf(s, mark))
    BY <1>1, <1>11 DEF SavedFlagsRight
  <2> QED
    BY <1>6, <1>8, <1>11, <2>1 DEF FlagRight, Position, PlaceOf
<1> QED
  BY <1>5, <1>6, <1>7, <1>10, <1>11

\* commit closes the scope and keeps everything else.
LEMMA CommitStream ==
    ASSUME NEW s, StreamInv(s), NEW raw \in 0 .. StreamDepth(s) - 1
    PROVE  LET t == StreamCommit(s, raw)
           IN  /\ StreamInv(t) /\ t.source = s.source /\ t.origin = s.origin
               /\ StreamDepth(t) = raw /\ Unread(t) = Unread(s)
               /\ FlagRight(s) => FlagRight(t)
               /\ TokenSource /\ SavedFlagsRight(s) => SavedFlagsRight(t)
<1> DEFINE u == Unread(s)
           tape == TapeCommit(s.tape, raw)
           flags == IF TokenSource THEN SubSeq(s.jointSaves, 1, raw) ELSE s.jointSaves
           t == [s EXCEPT !.tape = tape, !.jointSaves = flags]
<1>1. /\ s.jointSaves \in Seq(BOOLEAN) /\ s.isJoint \in BOOLEAN
      /\ StreamDepth(s) \in Nat /\ raw \in Nat /\ raw + 1 \in 1 .. StreamDepth(s)
      /\ TapeInv(s.tape) /\ StreamDepth(s) = Depth(s.tape) /\ u = Upcoming(s.tape)
  BY StreamFields DEF StreamDepth
<1>2. /\ TapeInv(tape) /\ tape \in Tapes
      /\ Upcoming(tape) = u /\ Marks(tape) = SubSeq(Marks(s.tape), 1, raw)
  <2>1. RawIsOpen(s.tape, raw)
    BY <1>1 DEF RawIsOpen
  <2>2. TapeInv(tape)
    BY <1>1, <2>1, CommitPreservesInv
  <2>3. tape \in Tapes
    BY <2>2 DEF TapeInv
  <2> QED
    BY <1>1, <2>1, <2>2, <2>3, CommitView
<1>3. s \in Stream /\ DOMAIN s = {"tape", "isJoint", "jointSaves", "source", "origin"}
  BY StreamFields DEF StreamInv
<1>4. flags \in Seq(BOOLEAN)
  <2>1. CASE TokenSource
    <3>1. Len(s.jointSaves) = StreamDepth(s)
      BY <2>1 DEF StreamInv
    <3>2. \A i \in 1 .. raw : i \in 1 .. Len(s.jointSaves)
      BY <1>1, <3>1
    <3>3. \A i \in 1 .. raw : s.jointSaves[i] \in BOOLEAN
      BY <1>1, <3>2, ElementOfSeq
    <3>4. SubSeq(s.jointSaves, 1, raw) \in Seq(BOOLEAN)
      BY <1>1, <3>3, SubSeqProperties
    <3> QED
      BY <2>1, <3>4
  <2>2. CASE ~TokenSource
    BY <1>1, <2>2
  <2> QED
    BY <2>1, <2>2
<1>5. StreamCommit(s, raw) = t
  BY DEF StreamCommit
<1>6. /\ t.tape = tape /\ t.isJoint = s.isJoint
      /\ t.jointSaves = flags /\ t.source = s.source /\ t.origin = s.origin
      /\ t \in Stream
  <2> HIDE DEF tape, flags
  <2> QED
    BY <1>2, <1>3, <1>4 DEF Stream
<1> HIDE DEF t, tape, u
<1>7. StreamDepth(t) = raw
  <2>1. Len(Marks(tape)) = Depth(tape)
    BY <1>2, ViewType
  <2>2. Marks(s.tape) \in Seq(Seq(Atom)) /\ Len(Marks(s.tape)) = StreamDepth(s)
    BY StreamFields
  <2>3. raw \in 0 .. Len(Marks(s.tape))
    BY <1>1, <2>2
  <2>4. Len(SubSeq(Marks(s.tape), 1, raw)) = raw
    BY <2>2, <2>3
  <2> QED
    BY <1>2, <1>6, <2>1, <2>4 DEF StreamDepth
<1>8. Unread(t) = u
  BY <1>2, <1>6 DEF Unread
<1>9. IsRest(u, s.source)
  BY DEF StreamInv, u
<1>10. StreamInv(t) /\ (TokenSource /\ SavedFlagsRight(s) => SavedFlagsRight(t))
  BY <1>2, <1>6, <1>7, <1>8, <1>9, OuterFlags
<1>11. FlagRight(s) => FlagRight(t)
  BY <1>6, <1>8 DEF FlagRight, Position, u
<1> QED
  BY <1>5, <1>6, <1>7, <1>8, <1>10, <1>11 DEF u

\* A new stream serves its whole source, and has no scope.
LEMMA NewStream ==
    ASSUME NEW atoms \in Seq(Atom), NEW origin \in Seq(Nat)
    PROVE  LET s == StreamNew(atoms, origin)
           IN  /\ StreamInv(s) /\ StreamDepth(s) = 0
               /\ Unread(s) = atoms /\ s.source = atoms /\ s.origin = origin
               /\ FlagRight(s) /\ SavedFlagsRight(s)
<1> DEFINE s == StreamNew(atoms, origin)
           tape == TapeNew(IterOver(atoms))
<1>1. IterOver(atoms) \in Iterator /\ <<>> \in Seq(Atom)
  BY EmptySeq DEF IterOver, Iterator
<1>2. /\ tape.iter = IterOver(atoms) /\ tape.buf = <<>> /\ tape.pos = 0
      /\ tape.extra = <<>> /\ tape.saves = <<>> /\ tape.done = FALSE
  BY DEF TapeNew
<1>3. tape \in Tapes
  <2>1. <<>> \in Seq(Save)
    BY EmptySeq
  <2> QED
    BY <1>1, <2>1 DEF TapeNew, Tapes
<1> HIDE DEF tape
<1>4. Depth(tape) = 0
  BY <1>2, EmptySeq DEF Depth
<1>5. TapeInv(tape)
  <2>1. Len(tape.buf) = 0 /\ tape.pos = 0
    BY <1>2, EmptySeq
  <2>2. CursorsInOrder(tape)
    BY <1>4, <2>1 DEF CursorsInOrder
  <2>3. OnlyScopedRetention(tape) /\ EndKnown(tape)
    BY <1>2 DEF OnlyScopedRetention, EndKnown, IterOver
  <2> QED
    BY <1>3, <2>2, <2>3 DEF TapeInv
<1>6. Held(tape) = atoms
  <2>1. tape.iter.left = atoms
    BY <1>2 DEF IterOver
  <2> QED
    BY <1>2, <2>1, ConcatEmptySeq DEF Held
<1>7. Upcoming(tape) = atoms
  <2>1. Upcoming(tape) = SubSeq(atoms, 0 + 1, Len(atoms))
    BY <1>2, <1>3, <1>6, HeldIsFirst
  <2> QED
    BY <2>1, SubSeqFull
<1>8. /\ s.tape = tape /\ s.isJoint = FALSE /\ s.jointSaves = <<>>
      /\ s.source = atoms /\ s.origin = origin
  BY DEF StreamNew, tape
<1>9. s \in Stream
  <2>1. <<>> \in Seq(BOOLEAN)
    BY EmptySeq
  <2> QED
    BY <1>3, <2>1 DEF StreamNew, Stream, tape
<1> HIDE DEF s
<1>10. StreamDepth(s) = 0 /\ Unread(s) = atoms /\ Len(s.jointSaves) = 0
  BY <1>4, <1>7, <1>8, EmptySeq DEF StreamDepth, Unread
<1>11. IsRest(atoms, atoms)
  <2>1. 0 \in 0 .. Len(atoms)
    BY LenProperties
  <2>2. RestFrom(atoms, 0) = atoms
    BY SubSeqFull DEF RestFrom
  <2> QED
    BY <2>1, <2>2 DEF IsRest
<1>12. StreamInv(s)
  BY <1>5, <1>8, <1>9, <1>10, <1>11 DEF StreamInv
<1>13. FlagRight(s)
  <2>1. Len(atoms) \in Nat
    BY LenProperties
  <2>2. Position(s) = 0
    BY <1>8, <1>10, <2>1 DEF Position
  <2>3. JointAt(atoms, 0) = FALSE
    BY DEF JointAt
  <2> QED
    BY <1>8, <2>2, <2>3 DEF FlagRight
<1>14. SavedFlagsRight(s)
  BY <1>10 DEF SavedFlagsRight
<1> QED
  BY <1>8, <1>10, <1>12, <1>13, <1>14 DEF s
=============================================================================
