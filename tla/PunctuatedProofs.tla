-------------------------- MODULE PunctuatedProofs --------------------------
(***************************************************************************)
(* A Punctuated list is the sequence of its items: one lemma for each      *)
(* operation says which sequence it makes of them, and the theorems follow *)
(* for every list, every length and every visitor.                         *)
(***************************************************************************)
EXTENDS PunctuatedClient, SequenceTheorems, TLAPS

-----------------------------------------------------------------------------
(* Sequences. *)

\* A function on 1 .. n is a sequence of length n.
LEMMA FunctionIsSeq ==
    ASSUME NEW S, NEW n \in Nat, NEW f \in [1 .. n -> S]
    PROVE  f \in Seq(S) /\ Len(f) = n
<1>1. f \in Seq(S)
  BY SeqDef
<1> QED
  BY <1>1, LenProperties

\* What InsertAt returns, item by item.
LEMMA InsertAtItems ==
    ASSUME NEW S, NEW s \in Seq(S), NEW i \in 1 .. Len(s) + 1, NEW e \in S
    PROVE  /\ InsertAt(s, i, e) \in Seq(S)
           /\ Len(InsertAt(s, i, e)) = Len(s) + 1
           /\ \A j \in 1 .. i - 1 : InsertAt(s, i, e)[j] = s[j]
           /\ InsertAt(s, i, e)[i] = e
           /\ \A j \in i .. Len(s) : InsertAt(s, i, e)[j + 1] = s[j]
<1> DEFINE l == SubSeq(s, 1, i - 1)
           r == SubSeq(s, i, Len(s))
<1>1. Len(s) \in Nat /\ i \in Int
  BY LenProperties
<1>2. l \in Seq(S) /\ Len(l) = i - 1 /\ \A j \in 1 .. i - 1 : l[j] = s[j]
  <2>1. \A j \in 1 .. i - 1 : s[j] \in S
    BY <1>1, ElementOfSeq
  <2> QED
    BY <1>1, <2>1, SubSeqProperties
<1>3. /\ r \in Seq(S) /\ Len(r) = Len(s) - i + 1
      /\ \A j \in 1 .. Len(s) - i + 1 : r[j] = s[i + j - 1]
  <2>1. \A j \in i .. Len(s) : s[j] \in S
    BY <1>1, ElementOfSeq
  <2> QED
    BY <1>1, <2>1, SubSeqProperties
<1> HIDE DEF l, r
<1>4. <<e>> \in Seq(S) /\ Len(<<e>>) = 1 /\ <<e>>[1] = e
  OBVIOUS
<1>5. /\ l \o <<e>> \in Seq(S) /\ Len(l \o <<e>>) = i
      /\ \A j \in 1 .. i - 1 : (l \o <<e>>)[j] = s[j]
      /\ (l \o <<e>>)[i] = e
  <2>1. /\ l \o <<e>> \in Seq(S) /\ Len(l \o <<e>>) = Len(l) + Len(<<e>>)
        /\ \A j \in 1 .. Len(l) + Len(<<e>>) :
              (l \o <<e>>)[j] = IF j <= Len(l) THEN l[j] ELSE <<e>>[j - Len(l)]
    <3> DEFINE one == <<e>>
    <3>1. l \in Seq(S) /\ one \in Seq(S)
      BY <1>2, <1>4
    <3> HIDE DEF one
    <3>2. /\ l \o one \in Seq(S) /\ Len(l \o one) = Len(l) + Len(one)
          /\ \A j \in 1 .. Len(l) + Len(one) :
                (l \o one)[j] = IF j <= Len(l) THEN l[j] ELSE one[j - Len(l)]
      BY <3>1, ConcatProperties
    <3> QED
      BY <3>2 DEF one
  <2> QED
    BY <1>1, <1>2, <1>4, <2>1
<1>6. InsertAt(s, i, e) = (l \o <<e>>) \o r
  BY DEF InsertAt, l, r
<1> HIDE DEF InsertAt
<1>7. /\ InsertAt(s, i, e) \in Seq(S) /\ Len(InsertAt(s, i, e)) = Len(s) + 1
      /\ \A j \in 1 .. i : InsertAt(s, i, e)[j] = (l \o <<e>>)[j]
      /\ \A j \in i + 1 .. Len(s) + 1 : InsertAt(s, i, e)[j] = r[j - i]
  <2> DEFINE f == l \o <<e>>
  <2>1. f \in Seq(S) /\ r \in Seq(S)
    BY <1>3, <1>5
  <2>2. Len(f) = i /\ Len(r) = Len(s) - i + 1
    BY <1>3, <1>5
  <2> HIDE DEF f
  <2>3. /\ f \o r \in Seq(S) /\ Len(f \o r) = Len(f) + Len(r)
        /\ \A j \in 1 .. Len(f) + Len(r) :
              (f \o r)[j] = IF j <= Len(f) THEN f[j] ELSE r[j - Len(f)]
    BY <2>1, ConcatProperties
  <2>4. InsertAt(s, i, e) = f \o r
    BY <1>6 DEF f
  <2>5. /\ f \o r \in Seq(S) /\ Len(f \o r) = Len(s) + 1
        /\ \A j \in 1 .. i : (f \o r)[j] = f[j]
        /\ \A j \in i + 1 .. Len(s) + 1 : (f \o r)[j] = r[j - i]
    BY <1>1, <2>2, <2>3
  <2> QED
    BY <2>4, <2>5 DEF f
<1>8. \A j \in i .. Len(s) : InsertAt(s, i, e)[j + 1] = s[j]
  <2> TAKE j \in i .. Len(s)
  <2>1. /\ j + 1 \in i + 1 .. Len(s) + 1
        /\ (j + 1) - i \in 1 .. Len(s) - i + 1
        /\ i + ((j + 1) - i) - 1 = j
    BY <1>1
  <2> QED
    BY <1>3, <1>7, <2>1
<1> QED
  BY <1>1, <1>5, <1>7, <1>8

\* What RemoveAt returns, item by item.
LEMMA RemoveAtItems ==
    ASSUME NEW S, NEW s \in Seq(S), NEW i \in 1 .. Len(s)
    PROVE  /\ RemoveAt(s, i) \in Seq(S)
           /\ Len(RemoveAt(s, i)) = Len(s) - 1
           /\ \A j \in 1 .. i - 1 : RemoveAt(s, i)[j] = s[j]
           /\ \A j \in i .. Len(s) - 1 : RemoveAt(s, i)[j] = s[j + 1]
<1> DEFINE l == SubSeq(s, 1, i - 1)
           r == SubSeq(s, i + 1, Len(s))
<1>1. Len(s) \in Nat /\ i \in Int
  BY LenProperties
<1>2. l \in Seq(S) /\ Len(l) = i - 1 /\ \A j \in 1 .. i - 1 : l[j] = s[j]
  <2>1. \A j \in 1 .. i - 1 : s[j] \in S
    BY <1>1, ElementOfSeq
  <2> QED
    BY <1>1, <2>1, SubSeqProperties
<1>3. /\ r \in Seq(S) /\ Len(r) = Len(s) - i
      /\ \A j \in 1 .. Len(s) - i : r[j] = s[i + j]
  <2>1. \A j \in i + 1 .. Len(s) : s[j] \in S
    BY <1>1, ElementOfSeq
  <2> QED
    BY <1>1, <2>1, SubSeqProperties
<1> HIDE DEF l, r
<1>4. RemoveAt(s, i) = l \o r
  BY DEF RemoveAt, l, r
<1> HIDE DEF RemoveAt
<1>5. /\ RemoveAt(s, i) \in Seq(S) /\ Len(RemoveAt(s, i)) = Len(s) - 1
      /\ \A j \in 1 .. i - 1 : RemoveAt(s, i)[j] = l[j]
      /\ \A j \in i .. Len(s) - 1 : RemoveAt(s, i)[j] = r[j - (i - 1)]
  <2>1. Len(l) + Len(r) = Len(s) - 1
    BY <1>1, <1>2, <1>3
  <2>2. /\ l \o r \in Seq(S) /\ Len(l \o r) = Len(s) - 1
        /\ \A j \in 1 .. i - 1 : (l \o r)[j] = l[j]
        /\ \A j \in i .. Len(s) - 1 : (l \o r)[j] = r[j - (i - 1)]
    <3>1. /\ l \o r \in Seq(S) /\ Len(l \o r) = Len(l) + Len(r)
          /\ \A j \in 1 .. Len(l) + Len(r) :
                (l \o r)[j] = IF j <= Len(l) THEN l[j] ELSE r[j - Len(l)]
      BY <1>2, <1>3, ConcatProperties
    <3> QED
      BY <1>1, <1>2, <2>1, <3>1
  <2> QED
    BY <1>4, <2>2
<1>6. \A j \in i .. Len(s) - 1 : RemoveAt(s, i)[j] = s[j + 1]
  <2> TAKE j \in i .. Len(s) - 1
  <2>1. j - (i - 1) \in 1 .. Len(s) - i /\ i + (j - (i - 1)) = j + 1
    BY <1>1
  <2> QED
    BY <1>3, <1>5, <2>1
<1> QED
  BY <1>2, <1>5, <1>6

-----------------------------------------------------------------------------
(* The items of a list. *)

\* The parts of a list that is not empty.
LEMMA ListParts ==
    ASSUME NEW l \in Lists
    PROVE  /\ l.some \in BOOLEAN
           /\ ~l.some => l = Empty
           /\ l.some => /\ l = Some(l.first, l.rest)
                        /\ l.first \in Item
                        /\ l.rest \in Seq(Pair) /\ Len(l.rest) \in Nat
                        /\ l.rest = <<>> <=> Len(l.rest) = 0
                        /\ \A i \in 1 .. Len(l.rest) :
                              l.rest[i].item \in Item /\ l.rest[i].punct \in Punct
<1>1. CASE l = Empty
  BY <1>1 DEF Empty
<1>2. CASE l \in [some : {TRUE}, first : Item, rest : Seq(Pair)]
  <2>1. l.rest \in Seq(Pair)
    BY <1>2
  <2>2. \A i \in 1 .. Len(l.rest) : l.rest[i] \in Pair
    BY <2>1, ElementOfSeq
  <2>3. Len(l.rest) \in Nat /\ l.rest = <<>> <=> Len(l.rest) = 0
    BY <2>1, EmptySeq, LenProperties
  <2>4. \A i \in 1 .. Len(l.rest) : l.rest[i].item \in Item /\ l.rest[i].punct \in Punct
    BY <2>2 DEF Pair
  <2>5. l.some /\ l.first \in Item /\ l = Some(l.first, l.rest)
    BY <1>2 DEF Some
  <2> QED
    BY <2>1, <2>3, <2>4, <2>5
<1> QED
  BY <1>1, <1>2 DEF Lists

\* The items are a sequence as long as the list, which get reads.
LEMMA ItemsAreGot ==
    ASSUME NEW l \in Lists
    PROVE  /\ ListLen(l) \in Nat
           /\ ItemsOf(l) \in Seq(Item) /\ Len(ItemsOf(l)) = ListLen(l)
           /\ \A i \in 1 .. ListLen(l) : ItemsOf(l)[i] = ListGet(l, i - 1)
           /\ \A index \in Nat :
                 ListGet(l, index) = IF index < ListLen(l) THEN ItemsOf(l)[index + 1]
                                     ELSE NoItem
<1>1. ListLen(l) \in Nat
  BY ListParts DEF ListLen
<1>2. \A i \in 1 .. ListLen(l) : ListGet(l, i - 1) \in Item
  BY ListParts DEF ListLen, ListGet
<1>3. ItemsOf(l) \in [1 .. ListLen(l) -> Item]
  BY <1>2 DEF ItemsOf
<1>4. ItemsOf(l) \in Seq(Item) /\ Len(ItemsOf(l)) = ListLen(l)
  BY <1>1, <1>3, FunctionIsSeq
<1>5. \A i \in 1 .. ListLen(l) : ItemsOf(l)[i] = ListGet(l, i - 1)
  BY DEF ItemsOf
<1>6. \A index \in Nat : index >= ListLen(l) => ListGet(l, index) = NoItem
  BY ListParts DEF ListLen, ListGet
<1>7. \A index \in Nat : index < ListLen(l) => ListGet(l, index) = ItemsOf(l)[index + 1]
  <2> TAKE index \in Nat
  <2> HAVE index < ListLen(l)
  <2>1. index + 1 \in 1 .. ListLen(l) /\ (index + 1) - 1 = index
    BY <1>1
  <2> QED
    BY <1>5, <2>1
<1> QED
  BY <1>1, <1>4, <1>5, <1>6, <1>7

\* Whatever has the fields of a list that is not empty is one.
LEMMA SomeIsList ==
    ASSUME NEW first \in Item, NEW rest \in Seq(Pair)
    PROVE  /\ Some(first, rest) \in Lists
           /\ Some(first, rest).some
           /\ Some(first, rest).first = first /\ Some(first, rest).rest = rest
           /\ ListLen(Some(first, rest)) = 1 + Len(rest)
BY DEF Some, Lists, ListLen

\* The items of a list that is not empty.
LEMMA ItemsOfSome ==
    ASSUME NEW first \in Item, NEW rest \in Seq(Pair)
    PROVE  /\ ItemsOf(Some(first, rest)) \in Seq(Item)
           /\ Len(rest) \in Nat
           /\ Len(ItemsOf(Some(first, rest))) = Len(rest) + 1
           /\ ItemsOf(Some(first, rest))[1] = first
           /\ \A i \in 1 .. Len(rest) : ItemsOf(Some(first, rest))[i + 1] = rest[i].item
<1> DEFINE l == Some(first, rest)
<1>1. l \in Lists /\ ListLen(l) = 1 + Len(rest) /\ Len(rest) \in Nat
  BY SomeIsList, LenProperties
<1>2. l.some /\ l.first = first /\ l.rest = rest
  BY SomeIsList
<1> HIDE DEF l
<1>3. ItemsOf(l) \in Seq(Item) /\ Len(ItemsOf(l)) = ListLen(l)
  BY <1>1, ItemsAreGot
<1>4. \A index \in 0 .. Len(rest) : ItemsOf(l)[index + 1] = ListGet(l, index)
  <2>1. \A index \in Nat : index < ListLen(l) => ItemsOf(l)[index + 1] = ListGet(l, index)
    BY <1>1, ItemsAreGot
  <2> QED
    BY <1>1, <2>1
<1>5. ListGet(l, 0) = first
  BY <1>2 DEF ListGet
<1>6. \A i \in 1 .. Len(rest) : ListGet(l, i) = rest[i].item
  BY <1>1, <1>2 DEF ListGet
<1>7. ItemsOf(l)[0 + 1] = first
  BY <1>1, <1>4, <1>5
<1>8. \A i \in 1 .. Len(rest) : ItemsOf(l)[i + 1] = rest[i].item
  BY <1>1, <1>4, <1>6
<1> QED
  BY <1>1, <1>3, <1>7, <1>8 DEF l

\* A sequence of items is that of a list if it agrees with it item by item.
LEMMA SameItems ==
    ASSUME NEW first \in Item, NEW rest \in Seq(Pair),
           NEW s \in Seq(Item), Len(s) = Len(rest) + 1,
           s[1] = first,
           \A i \in 1 .. Len(rest) : s[i + 1] = rest[i].item
    PROVE  ItemsOf(Some(first, rest)) = s
<1> DEFINE t == ItemsOf(Some(first, rest))
<1>1. /\ t \in Seq(Item) /\ Len(rest) \in Nat /\ Len(t) = Len(rest) + 1
      /\ t[1] = first
      /\ \A i \in 1 .. Len(rest) : t[i + 1] = rest[i].item
  BY ItemsOfSome
<1> HIDE DEF t
<1>2. ASSUME NEW j \in 1 .. Len(t)
      PROVE  t[j] = s[j]
  <2>1. CASE j = 1
    BY <1>1, <2>1
  <2>2. CASE j # 1
    <3>1. j - 1 \in 1 .. Len(rest) /\ (j - 1) + 1 = j
      BY <1>1, <2>2
    <3> QED
      BY <1>1, <3>1
  <2> QED
    BY <2>1, <2>2
<1>3. t = s
  BY <1>1, <1>2, SeqEqual
<1> QED
  BY <1>3 DEF t

-----------------------------------------------------------------------------
(* What a change of the representation does to the items. *)

\* A new first item takes the place of the old one.
LEMMA SetFirst ==
    ASSUME NEW first \in Item, NEW rest \in Seq(Pair), NEW item \in Item
    PROVE  ItemsOf(Some(item, rest)) = [ItemsOf(Some(first, rest)) EXCEPT ![1] = item]
<1> DEFINE s == ItemsOf(Some(first, rest))
<1>1. /\ s \in Seq(Item) /\ Len(rest) \in Nat /\ Len(s) = Len(rest) + 1
      /\ \A i \in 1 .. Len(rest) : s[i + 1] = rest[i].item
  BY ItemsOfSome
<1> HIDE DEF s
<1> DEFINE t == [s EXCEPT ![1] = item]
<1>2. /\ t \in Seq(Item) /\ Len(t) = Len(rest) + 1
      /\ t[1] = item
      /\ \A i \in 1 .. Len(rest) : t[i + 1] = rest[i].item
  BY <1>1, ExceptSeq
<1> HIDE DEF t
<1>3. ItemsOf(Some(item, rest)) = t
  BY <1>2, SameItems
<1> QED
  BY <1>3 DEF s, t

\* The assignments that get_mut makes possible, under a name.
SetItem(rest, i, item) == [rest EXCEPT ![i].item = item]
SetAt(s, i, e) == [s EXCEPT ![i] = e]

\* A new item in a pair takes the place of the old one.
LEMMA SetInRest ==
    ASSUME NEW first \in Item, NEW rest \in Seq(Pair), NEW i \in 1 .. Len(rest),
           NEW item \in Item
    PROVE  /\ SetItem(rest, i, item) \in Seq(Pair)
           /\ Len(SetItem(rest, i, item)) = Len(rest)
           /\ ItemsOf(Some(first, SetItem(rest, i, item))) =
                 SetAt(ItemsOf(Some(first, rest)), i + 1, item)
<1> DEFINE s == ItemsOf(Some(first, rest))
           p == [rest[i] EXCEPT !.item = item]
<1>1. /\ s \in Seq(Item) /\ Len(rest) \in Nat /\ Len(s) = Len(rest) + 1
      /\ s[1] = first
      /\ \A j \in 1 .. Len(rest) : s[j + 1] = rest[j].item
  BY ItemsOfSome
<1>2. p \in Pair /\ p.item = item
  <2>1. rest[i] \in Pair
    BY ElementOfSeq
  <2> QED
    BY <2>1 DEF Pair
<1> HIDE DEF s
<1> DEFINE t == [s EXCEPT ![i + 1] = item]
           r == [rest EXCEPT ![i] = p]
<1>3. /\ r \in Seq(Pair) /\ Len(r) = Len(rest)
      /\ r[i] = p /\ \A j \in 1 .. Len(rest) : j # i => r[j] = rest[j]
  <2> HIDE DEF p
  <2> QED
    BY <1>1, <1>2, ExceptSeq
<1>4. /\ t \in Seq(Item) /\ Len(t) = Len(rest) + 1
      /\ t[1] = first /\ t[i + 1] = item
      /\ \A j \in 1 .. Len(rest) : j # i => t[j + 1] = rest[j].item
  BY <1>1, ExceptSeq
<1>5. [rest EXCEPT ![i].item = item] = r
  BY <1>1
<1> HIDE DEF t, r, p
<1>6. \A j \in 1 .. Len(r) : t[j + 1] = r[j].item
  BY <1>2, <1>3, <1>4
<1>7. ItemsOf(Some(first, r)) = t
  <2>1. r \in Seq(Pair) /\ t \in Seq(Item) /\ Len(t) = Len(r) + 1 /\ t[1] = first
    BY <1>3, <1>4
  <2> QED
    BY <1>6, <2>1, SameItems
<1> QED
  BY <1>3, <1>5, <1>7 DEF s, t, SetItem, SetAt

\* An item put first takes the one that was first into a pair.
LEMMA InsertFirst ==
    ASSUME NEW rest \in Seq(Pair), NEW p \in Pair, NEW item \in Item
    PROVE  /\ InsertAt(rest, 1, p) \in Seq(Pair)
           /\ Len(InsertAt(rest, 1, p)) = Len(rest) + 1
           /\ ItemsOf(Some(item, InsertAt(rest, 1, p))) =
                 InsertAt(ItemsOf(Some(p.item, rest)), 1, item)
<1> DEFINE first == p.item
<1>0. first \in Item
  BY DEF Pair
<1> HIDE DEF first
<1> DEFINE s == ItemsOf(Some(first, rest))
           r == InsertAt(rest, 1, p)
           t == InsertAt(s, 1, item)
<1>1. /\ s \in Seq(Item) /\ Len(rest) \in Nat /\ Len(s) = Len(rest) + 1
      /\ s[1] = first
      /\ \A j \in 1 .. Len(rest) : s[j + 1] = rest[j].item
  BY <1>0, ItemsOfSome
<1>2. /\ r \in Seq(Pair) /\ Len(r) = Len(rest) + 1
      /\ r[1] = p
      /\ \A j \in 1 .. Len(rest) : r[j + 1] = rest[j]
  <2>1. 1 \in 1 .. Len(rest) + 1
    BY <1>1
  <2> HIDE DEF r, t, s
  <2> QED
    BY <2>1, InsertAtItems DEF r
<1> HIDE DEF s
<1>3. /\ t \in Seq(Item) /\ Len(t) = Len(s) + 1
      /\ t[1] = item
      /\ \A j \in 1 .. Len(s) : t[j + 1] = s[j]
  <2>1. 1 \in 1 .. Len(s) + 1
    BY <1>1
  <2>2. s \in Seq(Item)
    BY <1>1
  <2> HIDE DEF t, r
  <2> QED
    BY <2>1, <2>2, InsertAtItems DEF t
<1> HIDE DEF t, r
<1>4. \A j \in 1 .. Len(r) : t[j + 1] = r[j].item
  <2> TAKE j \in 1 .. Len(r)
  <2>1. CASE j = 1
    BY <1>1, <1>2, <1>3, <2>1 DEF first
  <2>2. CASE j # 1
    <3>1. j - 1 \in 1 .. Len(rest) /\ (j - 1) + 1 = j /\ j \in 1 .. Len(s)
      BY <1>1, <1>2, <2>2
    <3>2. t[j + 1] = s[j] /\ s[j] = rest[j - 1].item /\ r[j] = rest[j - 1]
      BY <1>1, <1>2, <1>3, <3>1
    <3> QED
      BY <3>2
  <2> QED
    BY <2>1, <2>2
<1>5. ItemsOf(Some(item, r)) = t
  <2>1. r \in Seq(Pair) /\ t \in Seq(Item) /\ Len(t) = Len(r) + 1 /\ t[1] = item
    BY <1>1, <1>2, <1>3
  <2> QED
    BY <1>4, <2>1, SameItems
<1> QED
  BY <1>2, <1>5 DEF s, t, r, first

\* A pair put among the others is an item put behind the first.
LEMMA InsertInRest ==
    ASSUME NEW first \in Item, NEW rest \in Seq(Pair), NEW p \in Pair,
           NEW i \in 1 .. Len(rest) + 1
    PROVE  /\ InsertAt(rest, i, p) \in Seq(Pair)
           /\ Len(InsertAt(rest, i, p)) = Len(rest) + 1
           /\ ItemsOf(Some(first, InsertAt(rest, i, p))) =
                 InsertAt(ItemsOf(Some(first, rest)), i + 1, p.item)
<1> DEFINE s == ItemsOf(Some(first, rest))
           r == InsertAt(rest, i, p)
           item == p.item
           k == i + 1
           t == InsertAt(s, k, item)
<1>1. /\ s \in Seq(Item) /\ Len(rest) \in Nat /\ Len(s) = Len(rest) + 1
      /\ s[1] = first
      /\ \A j \in 1 .. Len(rest) : s[j + 1] = rest[j].item
  BY ItemsOfSome
<1>2. item \in Item
  BY DEF Pair
<1>3. /\ r \in Seq(Pair) /\ Len(r) = Len(rest) + 1
      /\ \A j \in 1 .. i - 1 : r[j] = rest[j]
      /\ r[i] = p
      /\ \A j \in i .. Len(rest) : r[j + 1] = rest[j]
  BY InsertAtItems
<1>4. k \in 1 .. Len(s) + 1 /\ k = i + 1
  BY <1>1
<1> HIDE DEF s, item, k
<1>5. /\ t \in Seq(Item) /\ Len(t) = Len(s) + 1
      /\ \A j \in 1 .. k - 1 : t[j] = s[j]
      /\ t[k] = item
      /\ \A j \in k .. Len(s) : t[j + 1] = s[j]
  <2>1. s \in Seq(Item) /\ k \in 1 .. Len(s) + 1
    BY <1>1, <1>4
  <2> QED
    BY <1>2, <2>1, InsertAtItems
<1> HIDE DEF t, r
<1>6. \A j \in 1 .. Len(r) : t[j + 1] = r[j].item
  <2> TAKE j \in 1 .. Len(r)
  <2>1. CASE j < i
    <3>1. j \in 1 .. i - 1 /\ j + 1 \in 1 .. k - 1 /\ j \in 1 .. Len(rest)
      BY <1>1, <1>3, <1>4, <2>1
    <3>2. t[j + 1] = s[j + 1] /\ s[j + 1] = rest[j].item /\ r[j] = rest[j]
      BY <1>1, <1>3, <1>5, <3>1
    <3> QED
      BY <3>2
  <2>2. CASE j = i
    BY <1>3, <1>4, <1>5, <2>2 DEF item
  <2>3. CASE j > i
    <3>1. /\ j - 1 \in i .. Len(rest) /\ j - 1 \in 1 .. Len(rest)
          /\ (j - 1) + 1 = j /\ j \in k .. Len(s)
      BY <1>1, <1>3, <1>4, <2>3
    <3>2. t[j + 1] = s[j] /\ s[j] = rest[j - 1].item /\ r[j] = rest[j - 1]
      BY <1>1, <1>3, <1>5, <3>1
    <3> QED
      BY <3>2
  <2> QED
    BY <1>3, <2>1, <2>2, <2>3
<1>7. t[1] = first
  BY <1>1, <1>4, <1>5
<1>8. Len(t) = Len(r) + 1
  BY <1>1, <1>3, <1>5
<1>9. ItemsOf(Some(first, r)) = t
  <2>1. r \in Seq(Pair) /\ t \in Seq(Item)
    BY <1>3, <1>5
  <2> QED
    BY <2>1, <1>6, <1>7, <1>8, SameItems
<1> QED
  BY <1>3, <1>9 DEF s, t, r, item, k

\* When the first item goes, that of the first pair comes to be first.
LEMMA RemoveHead ==
    ASSUME NEW first \in Item, NEW rest \in Seq(Pair), rest # <<>>
    PROVE  /\ RemoveAt(rest, 1) \in Seq(Pair)
           /\ Len(RemoveAt(rest, 1)) = Len(rest) - 1
           /\ rest[1].item \in Item
           /\ ItemsOf(Some(rest[1].item, RemoveAt(rest, 1))) =
                 RemoveAt(ItemsOf(Some(first, rest)), 1)
<1> DEFINE s == ItemsOf(Some(first, rest))
           r == RemoveAt(rest, 1)
           second == rest[1].item
           t == RemoveAt(s, 1)
<1>0. Len(rest) \in Nat /\ 1 \in 1 .. Len(rest)
  BY EmptySeq, LenProperties
<1>1. /\ s \in Seq(Item) /\ Len(rest) \in Nat /\ Len(s) = Len(rest) + 1
      /\ \A j \in 1 .. Len(rest) : s[j + 1] = rest[j].item
  BY ItemsOfSome
<1>2. second \in Item
  <2>1. rest[1] \in Pair
    BY <1>0, ElementOfSeq
  <2> QED
    BY <2>1 DEF Pair
<1>3. /\ r \in Seq(Pair) /\ Len(r) = Len(rest) - 1
      /\ \A j \in 1 .. Len(rest) - 1 : r[j] = rest[j + 1]
  BY <1>0, RemoveAtItems
<1> HIDE DEF s
<1>4. /\ t \in Seq(Item) /\ Len(t) = Len(s) - 1
      /\ \A j \in 1 .. Len(s) - 1 : t[j] = s[j + 1]
  <2>1. s \in Seq(Item) /\ 1 \in 1 .. Len(s)
    BY <1>1
  <2> QED
    BY <2>1, RemoveAtItems
<1> HIDE DEF t, r
<1>5. \A j \in 1 .. Len(r) : t[j + 1] = r[j].item
  <2> TAKE j \in 1 .. Len(r)
  <2>1. j \in 1 .. Len(rest) - 1 /\ j + 1 \in 1 .. Len(rest) /\ j + 1 \in 1 .. Len(s) - 1
    BY <1>1, <1>3
  <2>2. t[j + 1] = s[(j + 1) + 1] /\ s[(j + 1) + 1] = rest[j + 1].item
    BY <1>1, <1>4, <2>1
  <2>3. r[j] = rest[j + 1]
    BY <1>3, <2>1
  <2> QED
    BY <2>2, <2>3
<1>6. t[1] = second
  BY <1>0, <1>1, <1>4
<1> HIDE DEF second
<1>7. ItemsOf(Some(second, r)) = t
  <2>1. r \in Seq(Pair) /\ t \in Seq(Item) /\ Len(t) = Len(r) + 1
    BY <1>0, <1>1, <1>3, <1>4
  <2> QED
    BY <1>2, <1>5, <1>6, <2>1, SameItems
<1> QED
  BY <1>2, <1>3, <1>7 DEF s, t, r, second

\* A pair taken out is an item taken out behind the first.
LEMMA RemoveInRest ==
    ASSUME NEW first \in Item, NEW rest \in Seq(Pair), NEW i \in 1 .. Len(rest)
    PROVE  /\ RemoveAt(rest, i) \in Seq(Pair)
           /\ Len(RemoveAt(rest, i)) = Len(rest) - 1
           /\ ItemsOf(Some(first, RemoveAt(rest, i))) =
                 RemoveAt(ItemsOf(Some(first, rest)), i + 1)
<1> DEFINE s == ItemsOf(Some(first, rest))
           r == RemoveAt(rest, i)
           k == i + 1
           t == RemoveAt(s, k)
<1>1. /\ s \in Seq(Item) /\ Len(rest) \in Nat /\ Len(s) = Len(rest) + 1
      /\ s[1] = first
      /\ \A j \in 1 .. Len(rest) : s[j + 1] = rest[j].item
  BY ItemsOfSome
<1>2. /\ r \in Seq(Pair) /\ Len(r) = Len(rest) - 1
      /\ \A j \in 1 .. i - 1 : r[j] = rest[j]
      /\ \A j \in i .. Len(rest) - 1 : r[j] = rest[j + 1]
  BY RemoveAtItems
<1>3. k \in 1 .. Len(s) /\ k = i + 1
  BY <1>1
<1> HIDE DEF s, k
<1>4. /\ t \in Seq(Item) /\ Len(t) = Len(s) - 1
      /\ \A j \in 1 .. k - 1 : t[j] = s[j]
      /\ \A j \in k .. Len(s) - 1 : t[j] = s[j + 1]
  <2>1. s \in Seq(Item) /\ k \in 1 .. Len(s)
    BY <1>1, <1>3
  <2> QED
    BY <2>1, RemoveAtItems
<1> HIDE DEF t, r
<1>5. \A j \in 1 .. Len(r) : t[j + 1] = r[j].item
  <2> TAKE j \in 1 .. Len(r)
  <2>1. CASE j < i
    BY <1>1, <1>2, <1>3, <1>4, <2>1
  <2>2. CASE j >= i
    <3>1. /\ j \in i .. Len(rest) - 1 /\ j + 1 \in 1 .. Len(rest)
          /\ j + 1 \in k .. Len(s) - 1
      BY <1>1, <1>2, <1>3, <2>2
    <3>2. t[j + 1] = s[(j + 1) + 1] /\ s[(j + 1) + 1] = rest[j + 1].item
      BY <1>1, <1>4, <3>1
    <3>3. r[j] = rest[j + 1]
      BY <1>2, <3>1
    <3> QED
      BY <3>2, <3>3
  <2> QED
    BY <1>2, <2>1, <2>2
<1>6. t[1] = first
  BY <1>1, <1>3, <1>4
<1>7. ItemsOf(Some(first, r)) = t
  <2>1. r \in Seq(Pair) /\ t \in Seq(Item) /\ Len(t) = Len(r) + 1
    BY <1>1, <1>2, <1>4
  <2> QED
    BY <1>5, <1>6, <2>1, SameItems
<1> QED
  BY <1>2, <1>7 DEF s, t, r, k
-----------------------------------------------------------------------------
(* What each operation does to the items. *)

\* Writing through get_mut replaces the item at the index, if there is one.
LEMMA SetReplaces ==
    ASSUME NEW l \in Lists, NEW index \in Nat, NEW item \in Item
    PROVE  /\ ListSet(l, index, item) \in Lists
           /\ ListLen(ListSet(l, index, item)) = ListLen(l)
           /\ index >= ListLen(l) => ListSet(l, index, item) = l
           /\ index < ListLen(l) =>
                 ItemsOf(ListSet(l, index, item)) = [ItemsOf(l) EXCEPT ![index + 1] = item]
<1>1. CASE index >= ListLen(l)
  <2>1. ListSet(l, index, item) = l
    BY <1>1, ListParts DEF ListSet, ListLen
  <2> QED
    BY <1>1, <2>1, ItemsAreGot
<1>2. CASE index < ListLen(l)
  <2>1. /\ l.some /\ l.first \in Item /\ l.rest \in Seq(Pair) /\ Len(l.rest) \in Nat
        /\ l = Some(l.first, l.rest) /\ ListLen(l) = 1 + Len(l.rest)
    BY <1>2, ListParts DEF ListLen
  <2>2. CASE index = 0
    <3>1. ListSet(l, index, item) = Some(item, l.rest)
      BY <2>1, <2>2 DEF ListSet
    <3>2. /\ Some(item, l.rest) \in Lists
          /\ ListLen(Some(item, l.rest)) = 1 + Len(l.rest)
          /\ ItemsOf(Some(item, l.rest)) = [ItemsOf(Some(l.first, l.rest)) EXCEPT ![1] = item]
      BY <2>1, SomeIsList, SetFirst
    <3> QED
      BY <1>2, <2>1, <2>2, <3>1, <3>2
  <2>3. CASE index # 0
    <3> DEFINE r == [l.rest EXCEPT ![index].item = item]
    <3>1. index \in 1 .. Len(l.rest)
      BY <1>2, <2>1, <2>3
    <3>2. ListSet(l, index, item) = Some(l.first, r)
      BY <2>1, <2>3, <3>1 DEF ListSet
    <3>3. /\ r \in Seq(Pair) /\ Len(r) = Len(l.rest)
          /\ ItemsOf(Some(l.first, r)) =
                [ItemsOf(Some(l.first, l.rest)) EXCEPT ![index + 1] = item]
      <4> DEFINE first == l.first
                 rest == l.rest
      <4>1. first \in Item /\ rest \in Seq(Pair) /\ index \in 1 .. Len(rest)
        BY <2>1, <3>1
      <4> HIDE DEF first, rest, r
      <4>2. /\ SetItem(rest, index, item) \in Seq(Pair)
            /\ Len(SetItem(rest, index, item)) = Len(rest)
            /\ ItemsOf(Some(first, SetItem(rest, index, item))) =
                  SetAt(ItemsOf(Some(first, rest)), index + 1, item)
        BY <4>1, SetInRest
      <4>3. r = SetItem(rest, index, item)
        BY DEF r, rest, SetItem
      <4> QED
        BY <4>2, <4>3 DEF first, rest, SetAt
    <3> HIDE DEF r
    <3>4. Some(l.first, r) \in Lists /\ ListLen(Some(l.first, r)) = 1 + Len(r)
      BY <2>1, <3>3, SomeIsList
    <3> QED
      BY <1>2, <2>1, <3>2, <3>3, <3>4
  <2> QED
    BY <2>2, <2>3
<1> QED
  BY <1>1, <1>2, ItemsAreGot

\* insert puts the item at the index and what was there behind it.
LEMMA InsertInserts ==
    ASSUME NEW l \in Lists, NEW index \in 0 .. ListLen(l), NEW item \in Item
    PROVE  /\ ListInsert(l, index, item) \in Lists
           /\ ListLen(ListInsert(l, index, item)) = ListLen(l) + 1
           /\ ItemsOf(ListInsert(l, index, item)) = InsertAt(ItemsOf(l), index + 1, item)
<1> DEFINE n == ListInsert(l, index, item)
<1>1. CASE ~l.some
  <2> DEFINE none == <<>>
  <2>1. none \in Seq(Pair) /\ Len(none) = 0
    BY EmptySeq
  <2>2. n = Some(item, none) /\ ListLen(l) = 0 /\ index = 0
    BY <1>1 DEF ListInsert, ListLen
  <2> HIDE DEF n, none
  <2>3. n \in Lists /\ ListLen(n) = 1
    <3>1. Some(item, none) \in Lists /\ ListLen(Some(item, none)) = 1 + Len(none)
      <4>1. none \in Seq(Pair)
        BY <2>1
      <4> QED
        BY <4>1, SomeIsList
    <3> QED
      BY <2>1, <2>2, <3>1
  <2>4. /\ ItemsOf(n) \in Seq(Item) /\ Len(ItemsOf(n)) = 1 /\ ItemsOf(n)[1] = item
    <3>1. /\ ItemsOf(Some(item, none)) \in Seq(Item)
          /\ Len(ItemsOf(Some(item, none))) = Len(none) + 1
          /\ ItemsOf(Some(item, none))[1] = item
      <4>1. none \in Seq(Pair)
        BY <2>1
      <4> QED
        BY <4>1, ItemsOfSome
    <3> QED
      BY <2>1, <2>2, <3>1
  <2> DEFINE s == ItemsOf(l)
             one == 1
             t == InsertAt(s, one, item)
  <2>5. s \in Seq(Item) /\ Len(s) = 0 /\ one \in 1 .. Len(s) + 1
    BY <2>2, ItemsAreGot
  <2> HIDE DEF s, one
  <2>6. t \in Seq(Item) /\ Len(t) = Len(s) + 1 /\ t[one] = item
    <3>1. s \in Seq(Item) /\ one \in 1 .. Len(s) + 1
      BY <2>5
    <3> QED
      BY <3>1, InsertAtItems
  <2> HIDE DEF t
  <2>7. ItemsOf(n) = t
    BY <2>4, <2>5, <2>6, SeqEqual DEF one
  <2> QED
    BY <2>2, <2>3, <2>7 DEF n, t, s, one
<1>2. CASE l.some
  <2>1. /\ l.first \in Item /\ l.rest \in Seq(Pair) /\ Len(l.rest) \in Nat
        /\ l = Some(l.first, l.rest) /\ ListLen(l) = 1 + Len(l.rest)
    BY <1>2, ListParts DEF ListLen
  <2>2. CASE index = 0
    <3> DEFINE p == [punct |-> DefaultPunct, item |-> l.first]
               r == InsertAt(l.rest, 1, p)
    <3>1. p \in Pair /\ p.item = l.first
      BY <2>1, DefaultPunctAssumption DEF Pair
    <3>2. n = Some(item, r)
      BY <1>2, <2>2 DEF ListInsert
    <3> HIDE DEF n, p
    <3>3. /\ r \in Seq(Pair) /\ Len(r) = Len(l.rest) + 1
          /\ ItemsOf(Some(item, r)) = InsertAt(ItemsOf(Some(p.item, l.rest)), 1, item)
      BY <2>1, <3>1, InsertFirst
    <3> HIDE DEF r
    <3>4. Some(item, r) \in Lists /\ ListLen(Some(item, r)) = 1 + Len(r)
      BY <3>3, SomeIsList
    <3> QED
      BY <2>1, <2>2, <3>1, <3>2, <3>3, <3>4 DEF n
  <2>3. CASE index # 0
    <3> DEFINE p == [punct |-> DefaultPunct, item |-> item]
               r == InsertAt(l.rest, index, p)
    <3>1. p \in Pair /\ p.item = item
      BY DefaultPunctAssumption DEF Pair
    <3>2. n = Some(l.first, r)
      BY <1>2, <2>3 DEF ListInsert
    <3> HIDE DEF n, p
    <3>3. index \in 1 .. Len(l.rest) + 1
      BY <2>1, <2>3
    <3>4. /\ r \in Seq(Pair) /\ Len(r) = Len(l.rest) + 1
          /\ ItemsOf(Some(l.first, r)) =
                InsertAt(ItemsOf(Some(l.first, l.rest)), index + 1, p.item)
      BY <2>1, <3>1, <3>3, InsertInRest
    <3> HIDE DEF r
    <3>5. Some(l.first, r) \in Lists /\ ListLen(Some(l.first, r)) = 1 + Len(r)
      BY <2>1, <3>4, SomeIsList
    <3> QED
      BY <2>1, <3>1, <3>2, <3>4, <3>5 DEF n
  <2> QED
    BY <2>2, <2>3
<1> QED
  BY <1>1, <1>2, ListParts

\* remove takes out the item at the index, if there is one.
LEMMA RemoveRemoves ==
    ASSUME NEW l \in Lists, NEW index \in Nat
    PROVE  /\ ListRemove(l, index) \in Lists
           /\ index >= ListLen(l) => ListRemove(l, index) = l
           /\ index < ListLen(l) =>
                 /\ ListLen(ListRemove(l, index)) = ListLen(l) - 1
                 /\ ItemsOf(ListRemove(l, index)) = RemoveAt(ItemsOf(l), index + 1)
<1> DEFINE n == ListRemove(l, index)
<1>1. CASE index >= ListLen(l)
  BY <1>1, ListParts DEF ListRemove, ListLen
<1>2. CASE index < ListLen(l)
  <2>1. /\ l.some /\ l.first \in Item /\ l.rest \in Seq(Pair) /\ Len(l.rest) \in Nat
        /\ l.rest = <<>> <=> Len(l.rest) = 0
        /\ l = Some(l.first, l.rest) /\ ListLen(l) = 1 + Len(l.rest)
    BY <1>2, ListParts DEF ListLen
  <2>2. CASE index = 0 /\ l.rest = <<>>
    <3>1. n = Empty
      BY <2>1, <2>2 DEF ListRemove
    <3>2. Empty \in Lists /\ ListLen(Empty) = 0
      BY DEF Lists, Empty, ListLen
    <3> DEFINE s == ItemsOf(l)
               one == 1
               t == RemoveAt(s, one)
               e == ItemsOf(Empty)
    <3>3. s \in Seq(Item) /\ Len(s) = 1 /\ one \in 1 .. Len(s)
      <4>1. s \in Seq(Item) /\ Len(s) = ListLen(l)
        BY ItemsAreGot
      <4>2. ListLen(l) = 1
        BY <2>1, <2>2
      <4> QED
        BY <4>1, <4>2
    <3>4. e \in Seq(Item) /\ Len(e) = 0
      BY <3>2, ItemsAreGot
    <3> HIDE DEF s, one, n
    <3>5. t \in Seq(Item) /\ Len(t) = Len(s) - 1
      BY <3>3, RemoveAtItems
    <3> HIDE DEF t, e
    <3>6. e = t
      BY <3>3, <3>4, <3>5, SeqEqual
    <3> QED
      BY <1>2, <2>1, <2>2, <3>1, <3>2, <3>6 DEF n, e, t, s, one
  <2>3. CASE index = 0 /\ l.rest # <<>>
    <3> DEFINE r == RemoveAt(l.rest, 1)
               first == l.rest[1].item
    <3>1. n = Some(first, r)
      BY <2>1, <2>3 DEF ListRemove
    <3>2. /\ r \in Seq(Pair) /\ Len(r) = Len(l.rest) - 1 /\ first \in Item
          /\ ItemsOf(Some(first, r)) = RemoveAt(ItemsOf(Some(l.first, l.rest)), 1)
      BY <2>1, <2>3, RemoveHead
    <3> HIDE DEF r, n, first
    <3>3. Some(first, r) \in Lists /\ ListLen(Some(first, r)) = 1 + Len(r)
      BY <3>2, SomeIsList
    <3> QED
      BY <1>2, <2>1, <2>3, <3>1, <3>2, <3>3 DEF n
  <2>4. CASE index # 0
    <3> DEFINE r == RemoveAt(l.rest, index)
    <3>1. index \in 1 .. Len(l.rest)
      BY <1>2, <2>1, <2>4
    <3>2. n = Some(l.first, r)
      BY <2>1, <2>4, <3>1 DEF ListRemove
    <3>3. /\ r \in Seq(Pair) /\ Len(r) = Len(l.rest) - 1
          /\ ItemsOf(Some(l.first, r)) = RemoveAt(ItemsOf(Some(l.first, l.rest)), index + 1)
      BY <2>1, <3>1, RemoveInRest
    <3> HIDE DEF r, n
    <3>4. Some(l.first, r) \in Lists /\ ListLen(Some(l.first, r)) = 1 + Len(r)
      BY <2>1, <3>3, SomeIsList
    <3> QED
      BY <1>2, <2>1, <3>2, <3>3, <3>4 DEF n
  <2> QED
    BY <2>2, <2>3, <2>4
<1> QED
  BY <1>1, <1>2, ItemsAreGot

\* last and last_mut are get and get_mut of the last index.
LEMMA LastIsAtTheEnd ==
    ASSUME NEW l \in Lists, NEW item \in Item
    PROVE  /\ ~l.some => ListLen(l) = 0 /\ ListLast(l) = NoItem /\ ListSetLast(l, item) = l
           /\ l.some => /\ ListLen(l) - 1 \in Nat
                        /\ ListLast(l) = ListGet(l, ListLen(l) - 1)
                        /\ ListSetLast(l, item) = ListSet(l, ListLen(l) - 1, item)
<1>1. CASE ~l.some
  BY <1>1 DEF ListLast, ListSetLast, ListLen
<1>2. CASE l.some /\ l.rest = <<>>
  <2>1. ListLen(l) - 1 = 0
    BY <1>2, ListParts DEF ListLen
  <2> QED
    BY <1>2, <2>1 DEF ListLast, ListSetLast, ListGet, ListSet
<1>3. CASE l.some /\ l.rest # <<>>
  <2>1. Len(l.rest) \in Nat \ {0} /\ ListLen(l) - 1 = Len(l.rest)
    BY <1>3, ListParts DEF ListLen
  <2>2. Len(l.rest) \in 1 .. Len(l.rest) /\ Len(l.rest) # 0
    BY <2>1
  <2> QED
    BY <1>3, <2>1, <2>2 DEF ListLast, ListSetLast, ListGet, ListSet, Last
<1> QED
  BY <1>1, <1>2, <1>3

\* push is insert at the end.
LEMMA PushInserts ==
    ASSUME NEW l \in Lists, NEW item \in Item
    PROVE  ListPush(l, item) = ListInsert(l, ListLen(l), item)
<1>1. CASE ~l.some
  BY <1>1 DEF ListPush, ListInsert
<1>2. CASE l.some
  <2> DEFINE p == [punct |-> DefaultPunct, item |-> item]
             rest == l.rest
             k == Len(rest) + 1
             r == InsertAt(rest, k, p)
             a == Append(rest, p)
  <2>1. p \in Pair
    BY DefaultPunctAssumption DEF Pair
  <2>2. rest \in Seq(Pair) /\ Len(rest) \in Nat /\ ListLen(l) = k /\ k # 0
    BY <1>2, ListParts DEF ListLen
  <2>3. k \in 1 .. Len(rest) + 1 /\ k = Len(rest) + 1
    BY <2>2
  <2> HIDE DEF p, rest, k
  <2>4. /\ r \in Seq(Pair) /\ Len(r) = Len(rest) + 1
        /\ \A j \in 1 .. k - 1 : r[j] = rest[j]
        /\ r[k] = p
    <3>1. rest \in Seq(Pair) /\ k \in 1 .. Len(rest) + 1
      BY <2>2, <2>3
    <3> QED
      BY <2>1, <3>1, InsertAtItems
  <2>5. /\ a \in Seq(Pair) /\ Len(a) = Len(rest) + 1
        /\ \A j \in 1 .. Len(rest) : a[j] = rest[j]
        /\ a[Len(rest) + 1] = p
    BY <2>1, <2>2, AppendProperties
  <2> HIDE DEF r, a
  <2>6. \A j \in 1 .. Len(r) : r[j] = a[j]
    BY <2>2, <2>3, <2>4, <2>5
  <2>7. r = a
    BY <2>4, <2>5, <2>6, SeqEqual
  <2> QED
    BY <1>2, <2>2, <2>7 DEF ListPush, ListInsert, r, a, p, rest
<1> QED
  BY <1>1, <1>2, ListParts
-----------------------------------------------------------------------------
(* The items ahead of a walk. *)

LEMMA AheadItems ==
    ASSUME NEW S, NEW s \in Seq(S), NEW k \in 0 .. Len(s)
    PROVE  /\ Ahead(s, k) \in Seq(S) /\ Len(Ahead(s, k)) = Len(s) - k
           /\ \A j \in 1 .. Len(s) - k : Ahead(s, k)[j] = s[k + j]
<1>1. Len(s) \in Nat /\ k \in Nat
  BY LenProperties
<1>2. \A j \in k + 1 .. Len(s) : s[j] \in S
  BY <1>1, ElementOfSeq
<1>3. /\ SubSeq(s, k + 1, Len(s)) \in Seq(S)
      /\ Len(SubSeq(s, k + 1, Len(s))) = Len(s) - k
      /\ \A j \in 1 .. Len(s) - k : SubSeq(s, k + 1, Len(s))[j] = s[k + 1 + j - 1]
  BY <1>1, <1>2, SubSeqProperties
<1>4. \A j \in 1 .. Len(s) - k : k + 1 + j - 1 = k + j
  BY <1>1
<1> QED
  BY <1>3, <1>4 DEF Ahead

\* Before it starts, all of them are.
LEMMA AllAhead ==
    ASSUME NEW S, NEW s \in Seq(S)
    PROVE  <<>> \o Ahead(s, 0) = s
<1>1. Ahead(s, 0) = s
  BY SubSeqFull DEF Ahead
<1> QED
  BY <1>1, ConcatEmptySeq

\* What is appended to a sequence can as well be put in front of the next one.
LEMMA AppendOrPrepend ==
    ASSUME NEW S, NEW s \in Seq(S), NEW e \in S, NEW t \in Seq(S)
    PROVE  /\ Append(s, e) \in Seq(S)
           /\ Append(s, e) \o t = s \o (<<e>> \o t)
<1> DEFINE one == <<e>>
<1>1. one \in Seq(S)
  OBVIOUS
<1>2. Append(s, e) = s \o one /\ Append(s, e) \in Seq(S)
  BY AppendIsConcat, AppendProperties
<1> HIDE DEF one
<1>3. (s \o one) \o t = s \o (one \o t)
  BY <1>1, ConcatAssociative
<1> QED
  BY <1>2, <1>3 DEF one

\* Showing the next one moves it from those ahead to those shown.
LEMMA ShowNext ==
    ASSUME NEW S, NEW s \in Seq(S), NEW k \in 0 .. Len(s) - 1, NEW shown \in Seq(S)
    PROVE  /\ s[k + 1] \in S /\ Append(shown, s[k + 1]) \in Seq(S)
           /\ Append(shown, s[k + 1]) \o Ahead(s, k + 1) = shown \o Ahead(s, k)
<1> DEFINE e == s[k + 1]
           m == k + 1
           n == Len(s)
           after == Ahead(s, m)
<1>1. n \in Nat /\ m \in 1 .. n /\ n \in m .. n /\ m \in 0 .. Len(s)
  BY LenProperties
<1>2. e \in S
  BY <1>1, ElementOfSeq
<1>3. SubSeq(s, m, n) = <<s[m]>> \o SubSeq(s, m + 1, n)
  BY <1>1, SubSeqRecursiveFirst
<1>4. Ahead(s, k) = <<e>> \o after
  BY <1>3 DEF Ahead
<1> HIDE DEF m, n, after, e
<1>5. after \in Seq(S)
  <2>1. m \in 0 .. Len(s)
    BY <1>1
  <2> QED
    BY <2>1, AheadItems DEF after
<1>6. /\ Append(shown, e) \in Seq(S)
      /\ Append(shown, e) \o after = shown \o (<<e>> \o after)
  <2>1. e \in S /\ after \in Seq(S) /\ shown \in Seq(S)
    BY <1>2, <1>5
  <2>2. Append(shown, e) \in Seq(S)
    BY ONLY <2>1, AppendProperties
  <2>3. Append(shown, e) \o after = shown \o (<<e>> \o after)
    BY ONLY <2>1, AppendOrPrepend
  <2> QED
    BY <2>2, <2>3
<1> QED
  BY <1>2, <1>4, <1>6 DEF e, after, m

\* An item behind the walk can change: those ahead do not.
LEMMA SetBehind ==
    ASSUME NEW S, NEW s \in Seq(S), NEW k \in 0 .. Len(s), NEW i \in 1 .. k, NEW e \in S
    PROVE  /\ [s EXCEPT ![i] = e] \in Seq(S) /\ Len([s EXCEPT ![i] = e]) = Len(s)
           /\ Ahead([s EXCEPT ![i] = e], k) = Ahead(s, k)
<1> DEFINE t == [s EXCEPT ![i] = e]
<1>1. Len(s) \in Nat /\ k \in Nat /\ i \in 1 .. Len(s)
  BY LenProperties
<1>2. /\ t \in Seq(S) /\ Len(t) = Len(s)
      /\ \A j \in 1 .. Len(s) : j # i => t[j] = s[j]
  BY <1>1, ExceptSeq
<1> HIDE DEF t
<1>3. k \in 0 .. Len(t)
  BY <1>1, <1>2
<1>4. /\ Ahead(s, k) \in Seq(S) /\ Len(Ahead(s, k)) = Len(s) - k
      /\ \A j \in 1 .. Len(s) - k : Ahead(s, k)[j] = s[k + j]
  BY AheadItems
<1>5. /\ Ahead(t, k) \in Seq(S) /\ Len(Ahead(t, k)) = Len(t) - k
      /\ \A j \in 1 .. Len(t) - k : Ahead(t, k)[j] = t[k + j]
  <2>1. t \in Seq(S)
    BY <1>2
  <2> QED
    BY <1>3, <2>1, AheadItems
<1>6. \A j \in 1 .. Len(s) - k : t[k + j] = s[k + j]
  BY <1>1, <1>2
<1>7. \A j \in 1 .. Len(Ahead(t, k)) : Ahead(t, k)[j] = Ahead(s, k)[j]
  BY <1>2, <1>4, <1>5, <1>6
<1>8. Ahead(t, k) = Ahead(s, k)
  <2>1. Len(Ahead(t, k)) = Len(Ahead(s, k))
    BY <1>2, <1>4, <1>5
  <2> QED
    BY <1>4, <1>5, <1>7, <2>1, SeqEqual
<1> QED
  BY <1>2, <1>8 DEF t

\* When the item the walk has reached is dropped, the next one is in its place;
\* what was written over it is lost.
LEMMA RemoveReached ==
    ASSUME NEW S, NEW s \in Seq(S), NEW k \in 0 .. Len(s) - 1, NEW e \in S
    PROVE  /\ RemoveAt(s, k + 1) \in Seq(S)
           /\ RemoveAt([s EXCEPT ![k + 1] = e], k + 1) = RemoveAt(s, k + 1)
           /\ Ahead(RemoveAt(s, k + 1), k) = Ahead(s, k + 1)
<1> DEFINE m == k + 1
           u == [s EXCEPT ![m] = e]
           t == RemoveAt(s, m)
           w == RemoveAt(u, m)
<1>1. Len(s) \in Nat /\ k \in Nat /\ m \in 1 .. Len(s) /\ m = k + 1
  BY LenProperties
<1> HIDE DEF m
<1>2. /\ u \in Seq(S) /\ Len(u) = Len(s)
      /\ \A j \in 1 .. Len(s) : j # m => u[j] = s[j]
  BY <1>1, ExceptSeq
<1>3. /\ t \in Seq(S) /\ Len(t) = Len(s) - 1
      /\ \A j \in 1 .. m - 1 : t[j] = s[j]
      /\ \A j \in m .. Len(s) - 1 : t[j] = s[j + 1]
  <2>1. m \in 1 .. Len(s)
    BY <1>1
  <2> QED
    BY <2>1, RemoveAtItems
<1> HIDE DEF u
<1>4. /\ w \in Seq(S) /\ Len(w) = Len(u) - 1
      /\ \A j \in 1 .. m - 1 : w[j] = u[j]
      /\ \A j \in m .. Len(u) - 1 : w[j] = u[j + 1]
  <2>1. u \in Seq(S) /\ m \in 1 .. Len(u)
    BY <1>1, <1>2
  <2> QED
    BY <2>1, RemoveAtItems
<1> HIDE DEF t, w
<1>5. w = t
  <2>1. \A j \in 1 .. Len(w) : w[j] = t[j]
    BY <1>1, <1>2, <1>3, <1>4
  <2>2. Len(w) = Len(t)
    BY <1>2, <1>3, <1>4
  <2> QED
    BY <1>3, <1>4, <2>1, <2>2, SeqEqual
<1>6. /\ Ahead(t, k) \in Seq(S) /\ Len(Ahead(t, k)) = Len(t) - k
      /\ \A j \in 1 .. Len(t) - k : Ahead(t, k)[j] = t[k + j]
  <2>1. t \in Seq(S) /\ k \in 0 .. Len(t)
    BY <1>1, <1>3
  <2> QED
    BY <2>1, AheadItems
<1>7. /\ Ahead(s, m) \in Seq(S) /\ Len(Ahead(s, m)) = Len(s) - m
      /\ \A j \in 1 .. Len(s) - m : Ahead(s, m)[j] = s[m + j]
  <2>1. m \in 0 .. Len(s)
    BY <1>1
  <2> QED
    BY <2>1, AheadItems
<1>8. Ahead(t, k) = Ahead(s, m)
  <2>1. \A j \in 1 .. Len(t) - k : t[k + j] = s[m + j]
    <3> TAKE j \in 1 .. Len(t) - k
    <3>1. k + j \in m .. Len(s) - 1 /\ (k + j) + 1 = m + j
      BY <1>1, <1>3
    <3> QED
      BY <1>3, <3>1
  <2>2. Len(Ahead(t, k)) = Len(Ahead(s, m)) /\ Len(t) - k = Len(s) - m
    BY <1>1, <1>3, <1>6, <1>7
  <2>3. \A j \in 1 .. Len(Ahead(t, k)) : Ahead(t, k)[j] = Ahead(s, m)[j]
    BY <1>6, <1>7, <2>1, <2>2
  <2> QED
    BY <1>6, <1>7, <2>2, <2>3, SeqEqual
<1> QED
  BY <1>3, <1>5, <1>8 DEF m, u, t, w
-----------------------------------------------------------------------------
(* The inductive invariant. *)

\* A walk stays inside the list, and an iterator's end is the list's.
WalkInside ==
    /\ walk.idx <= ListLen(list)
    /\ Iterating => walk.len = ListLen(list)

IInv == TypeOK /\ WalkInside /\ WalkOffersEach

LEMMA InvInit == Init => IInv
<1> SUFFICES ASSUME Init PROVE IInv
  OBVIOUS
<1>1. Idle /\ walk \in [kind : {"none", "retain", "iter"}, idx : Nat, len : Nat]
  BY DEF Init, Idle, NoWalk
<1>2. list \in Lists /\ ListLen(list) \in Nat
  BY ParsedAssumption, ItemsAreGot DEF Init
<1>3. walk.idx = 0 /\ walk.kind = "none"
  BY <1>1 DEF Idle, NoWalk
<1>4. answer \in Item \cup {NoItem} /\ before \in Seq(Item) /\ offered \in Seq(Item)
  BY EmptySeq DEF Init
<1> QED
  BY <1>1, <1>2, <1>3, <1>4 DEF IInv, TypeOK, WalkInside, WalkOffersEach, Iterating

\* What the reads answer.
LEMMA AnswersAreItems ==
    ASSUME NEW l \in Lists, NEW index \in Nat
    PROVE  /\ ListGet(l, index) \in Item \cup {NoItem}
           /\ ListGet(l, index) = NoItem <=> index >= ListLen(l)
           /\ ListFirst(l) = ListGet(l, 0)
<1>1. CASE index < ListLen(l)
  <2>1. index + 1 \in 1 .. ListLen(l) /\ ListLen(l) \in Nat
    BY <1>1, ItemsAreGot
  <2>2. ItemsOf(l) \in Seq(Item) /\ Len(ItemsOf(l)) = ListLen(l)
    BY ItemsAreGot
  <2>3. ItemsOf(l)[index + 1] \in Item
    BY <2>1, <2>2, ElementOfSeq
  <2>4. ListGet(l, index) = ItemsOf(l)[index + 1]
    BY <1>1, ItemsAreGot
  <2> QED
    BY <1>1, <2>1, <2>3, <2>4, NoItemAssumption DEF ListFirst, ListGet
<1>2. CASE index >= ListLen(l)
  BY <1>2, ItemsAreGot DEF ListFirst, ListGet
<1> QED
  BY <1>1, <1>2, ItemsAreGot

\* A call between two walks leaves a list, whatever it answers.
LEMMA CallsKeepInv ==
    ASSUME IInv, Idle, UNCHANGED <<walk, before, offered>>,
           list' \in Lists, answer' \in Item \cup {NoItem}
    PROVE  IInv'
<1>1. walk' = NoWalk
  BY DEF Idle
<1>2. Idle' /\ walk'.idx = 0 /\ walk'.kind = "none"
  BY <1>1 DEF Idle, NoWalk
<1>3. ListLen(list') \in Nat
  BY ItemsAreGot
<1> QED
  BY <1>1, <1>2, <1>3 DEF IInv, TypeOK, WalkInside, WalkOffersEach, Iterating

\* The walk shows the next item, and goes past it or stays on its place.
LEMMA WalkStepKeepsInv ==
    ASSUME IInv, ~Idle, walk.idx < ListLen(list),
           NEW item \in Item,
           offered' = Append(offered, ListGet(list, walk.idx)),
           UNCHANGED <<answer, before>>,
           \/ /\ list' = ListSet(list, walk.idx, item)
              /\ walk' = [walk EXCEPT !.idx = walk.idx + 1]
           \/ /\ Retaining
              /\ list' = ListRemove(ListSet(list, walk.idx, item), walk.idx)
              /\ walk' = walk
    PROVE  IInv'
<1> DEFINE k == walk.idx
           s == ItemsOf(list)
           u == ListSet(list, k, item)
<1>1. /\ list \in Lists /\ k \in Nat /\ k < ListLen(list)
      /\ walk \in [kind : {"none", "retain", "iter"}, idx : Nat, len : Nat]
      /\ walk.kind # "none"
      /\ offered \in Seq(Item) /\ before \in Seq(Item)
      /\ offered \o Ahead(s, k) = before
  BY DEF IInv, TypeOK, WalkInside, WalkOffersEach
<1>2. /\ s \in Seq(Item) /\ ListLen(list) \in Nat /\ Len(s) = ListLen(list)
      /\ ListGet(list, k) = s[k + 1]
  BY <1>1, ItemsAreGot
<1>3. /\ u \in Lists /\ ListLen(u) = ListLen(list)
      /\ ItemsOf(u) = [s EXCEPT ![k + 1] = item]
  BY <1>1, SetReplaces
<1>4. k \in 0 .. Len(s) - 1 /\ k + 1 \in 0 .. Len(s) /\ k + 1 \in 1 .. k + 1
  BY <1>1, <1>2
<1> HIDE DEF k, s, u
<1>5. /\ offered' \in Seq(Item)
      /\ offered' \o Ahead(s, k + 1) = before
  <2>1. /\ Append(offered, s[k + 1]) \in Seq(Item)
        /\ Append(offered, s[k + 1]) \o Ahead(s, k + 1) = offered \o Ahead(s, k)
    <3>1. s \in Seq(Item) /\ offered \in Seq(Item)
      BY <1>1, <1>2
    <3> QED
      BY <1>4, <3>1, ShowNext
  <2> QED
    BY <1>1, <1>2, <2>1 DEF k
<1>6. ~Idle'
  <2>1. walk'.kind = walk.kind
    BY <1>1
  <2> QED
    BY <1>1, <2>1 DEF Idle, NoWalk
<1>7. CASE list' = u /\ walk' = [walk EXCEPT !.idx = k + 1]
  <2>1. walk'.idx = k + 1 /\ walk'.kind = walk.kind /\ walk'.len = walk.len
    BY <1>1, <1>7
  <2>2. walk' \in [kind : {"none", "retain", "iter"}, idx : Nat, len : Nat]
    BY <1>1, <1>7
  <2>3. Ahead([s EXCEPT ![k + 1] = item], k + 1) = Ahead(s, k + 1)
    <3> DEFINE m == k + 1
    <3>1. s \in Seq(Item) /\ m \in 0 .. Len(s) /\ m \in 1 .. m
      BY <1>2, <1>4
    <3> HIDE DEF m
    <3>2. Ahead([s EXCEPT ![m] = item], m) = Ahead(s, m)
      BY <3>1, SetBehind
    <3> QED
      BY <3>2 DEF m
  <2>4. Ahead(ItemsOf(list'), walk'.idx) = Ahead(s, k + 1)
    BY <1>3, <1>7, <2>1, <2>3
  <2>5. WalkOffersEach'
    BY <1>5, <2>4 DEF WalkOffersEach
  <2>6. TypeOK' /\ WalkInside'
    BY <1>1, <1>2, <1>3, <1>5, <1>7, <2>1, <2>2 DEF IInv, TypeOK, WalkInside, Iterating
  <2> QED
    BY <2>5, <2>6 DEF IInv
<1>8. CASE Retaining /\ list' = ListRemove(u, k) /\ walk' = walk
  <2>1. /\ ListRemove(u, k) \in Lists
        /\ ListLen(ListRemove(u, k)) = ListLen(list) - 1
        /\ ItemsOf(ListRemove(u, k)) = RemoveAt([s EXCEPT ![k + 1] = item], k + 1)
    <3>1. u \in Lists /\ k \in Nat /\ k < ListLen(u)
      BY <1>1, <1>3 DEF k
    <3>2. /\ ListRemove(u, k) \in Lists
          /\ ListLen(ListRemove(u, k)) = ListLen(u) - 1
          /\ ItemsOf(ListRemove(u, k)) = RemoveAt(ItemsOf(u), k + 1)
      BY <3>1, RemoveRemoves
    <3> QED
      BY <1>3, <3>2
  <2>2. Ahead(RemoveAt([s EXCEPT ![k + 1] = item], k + 1), k) = Ahead(s, k + 1)
    <3>1. s \in Seq(Item)
      BY <1>2
    <3>2. /\ RemoveAt([s EXCEPT ![k + 1] = item], k + 1) = RemoveAt(s, k + 1)
          /\ Ahead(RemoveAt(s, k + 1), k) = Ahead(s, k + 1)
      BY <1>4, <3>1, RemoveReached
    <3> QED
      BY <3>2
  <2>3. Ahead(ItemsOf(list'), walk'.idx) = Ahead(s, k + 1)
    BY <1>8, <2>1, <2>2 DEF k
  <2>4. WalkOffersEach'
    BY <1>5, <2>3 DEF WalkOffersEach
  <2>5. TypeOK' /\ WalkInside'
    <3>1. walk'.idx <= ListLen(list')
      BY <1>1, <1>2, <1>8, <2>1 DEF k
    <3> QED
      BY <1>1, <1>5, <1>8, <2>1, <3>1 DEF IInv, TypeOK, WalkInside, Iterating, Retaining, Idle
  <2> QED
    BY <2>4, <2>5 DEF IInv
<1> QED
  BY <1>7, <1>8 DEF u, k

\* Every action keeps the invariant.
LEMMA InvNext == IInv /\ [Step]_vars => IInv'
<1> SUFFICES ASSUME IInv, [Step]_vars PROVE IInv'
  OBVIOUS
<1>1. list \in Lists /\ answer \in Item \cup {NoItem} /\ ListLen(list) \in Nat
  BY ItemsAreGot DEF IInv, TypeOK, WalkInside
<1>2. ASSUME NEW a \in Item \cup {NoItem}, Answers(a)
      PROVE  IInv'
  BY <1>1, <1>2, CallsKeepInv DEF Answers
<1>3. ASSUME NEW l \in Lists, Edits(l)
      PROVE  IInv'
  BY <1>1, <1>3, CallsKeepInv DEF Edits
<1>4. CASE CallFirst
  BY <1>1, <1>2, <1>4, AnswersAreItems DEF CallFirst
<1>5. CASE CallLast
  <2>1. ListLast(list) \in Item \cup {NoItem}
    <3>1. CASE \E item \in Item : TRUE
      BY <1>1, <3>1, LastIsAtTheEnd, AnswersAreItems
    <3>2. CASE ~ \E item \in Item : TRUE
      BY <1>1, <3>2, ListParts DEF ListLast
    <3> QED
      BY <3>1, <3>2
  <2> QED
    BY <1>2, <1>5, <2>1 DEF CallLast
<1>6. ASSUME NEW index \in 0 .. ListLen(list), CallGet(index)
      PROVE  IInv'
  <2>1. index \in Nat
    BY <1>1
  <2> QED
    BY <1>1, <1>2, <1>6, <2>1, AnswersAreItems DEF CallGet
<1>7. ASSUME NEW index \in 0 .. ListLen(list), CallRemove(index)
      PROVE  IInv'
  <2>1. index \in Nat
    BY <1>1
  <2>2. ListRemove(list, index) \in Lists /\ ListGet(list, index) \in Item \cup {NoItem}
    BY <1>1, <2>1, RemoveRemoves, AnswersAreItems
  <2> QED
    BY <1>7, <2>2, CallsKeepInv DEF CallRemove
<1>8. ASSUME NEW index \in 0 .. ListLen(list), NEW item \in Item,
             CallGetMut(index, item) \/ CallInsert(index, item)
      PROVE  IInv'
  <2>1. index \in Nat
    BY <1>1
  <2>2. ListSet(list, index, item) \in Lists /\ ListInsert(list, index, item) \in Lists
    BY <1>1, <2>1, SetReplaces, InsertInserts
  <2> QED
    BY <1>3, <1>8, <2>2 DEF CallGetMut, CallInsert
<1>9. ASSUME NEW item \in Item, CallLastMut(item) \/ CallPush(item)
      PROVE  IInv'
  <2>1. ListSetLast(list, item) \in Lists
    BY <1>1, LastIsAtTheEnd, SetReplaces
  <2>2. ListPush(list, item) \in Lists
    <3>1. ListLen(list) \in 0 .. ListLen(list)
      BY <1>1
    <3> QED
      BY <1>1, <3>1, PushInserts, InsertInserts
  <2> QED
    BY <1>3, <1>9, <2>1, <2>2 DEF CallLastMut, CallPush
<1>10. ASSUME NEW w \in [kind : {"retain", "iter"}, idx : {0}, len : Nat],
              w.kind = "iter" => w.len = ListLen(list), Starts(w)
       PROVE  IInv'
  <2>1. /\ walk' = w /\ list' = list /\ answer' = answer
        /\ before' = ItemsOf(list) /\ offered' = <<>>
    BY <1>10 DEF Starts
  <2>2. /\ walk'.idx = 0 /\ walk'.kind # "none"
        /\ walk' \in [kind : {"none", "retain", "iter"}, idx : Nat, len : Nat]
    BY <2>1
  <2>3. ItemsOf(list) \in Seq(Item) /\ <<>> \in Seq(Item)
    BY <1>1, ItemsAreGot, EmptySeq
  <2>4. <<>> \o Ahead(ItemsOf(list), 0) = ItemsOf(list)
    BY <2>3, AllAhead
  <2>5. WalkOffersEach'
    BY <2>1, <2>2, <2>4 DEF WalkOffersEach
  <2>6. TypeOK' /\ WalkInside'
    BY <1>1, <1>10, <2>1, <2>2, <2>3 DEF TypeOK, WalkInside, Iterating
  <2> QED
    BY <2>5, <2>6 DEF IInv
<1>11. CASE CallRetainMut
  BY <1>10, <1>11 DEF CallRetainMut
<1>12. CASE CallViewIterMut
  BY <1>1, <1>10, <1>12 DEF CallViewIterMut
<1>13. ASSUME NEW item \in Item, NEW keep \in BOOLEAN, RetainItem(item, keep)
       PROVE  IInv'
  <2>1. ~Idle
    BY <1>13 DEF RetainItem, Retaining, Idle, NoWalk
  <2>2. CASE keep
    <3>1. /\ walk.idx < ListLen(list)
          /\ offered' = Append(offered, ListGet(list, walk.idx))
          /\ UNCHANGED <<answer, before>>
          /\ list' = ListSet(list, walk.idx, item)
          /\ walk' = [walk EXCEPT !.idx = walk.idx + 1]
      BY <1>13, <2>2 DEF RetainItem
    <3> QED
      BY <2>1, <3>1, WalkStepKeepsInv
  <2>3. CASE ~keep
    <3>1. /\ Retaining /\ walk.idx < ListLen(list)
          /\ offered' = Append(offered, ListGet(list, walk.idx))
          /\ UNCHANGED <<answer, before>>
          /\ list' = ListRemove(ListSet(list, walk.idx, item), walk.idx)
          /\ walk' = walk
      BY <1>13, <2>3 DEF RetainItem
    <3> QED
      BY <2>1, <3>1, WalkStepKeepsInv
  <2> QED
    BY <2>2, <2>3
<1>14. ASSUME NEW item \in Item, IterItem(item)
       PROVE  IInv'
  <2>1. ~Idle /\ walk.idx < ListLen(list)
    BY <1>14 DEF IterItem, Iterating, Idle, NoWalk, IInv, TypeOK, WalkInside
  <2>2. /\ offered' = Append(offered, ListGet(list, walk.idx))
        /\ UNCHANGED <<answer, before>>
        /\ list' = ListSet(list, walk.idx, item)
        /\ walk' = [walk EXCEPT !.idx = walk.idx + 1]
    BY <1>14 DEF IterItem
  <2> QED
    BY <2>1, <2>2, WalkStepKeepsInv
<1>15. ASSUME NEW index \in 0 .. MaxLen, NEW item \in Item, EditYielded(index, item)
       PROVE  IInv'
  <2>1. /\ Iterating /\ index < walk.idx
        /\ list' = ListSet(list, index, item)
        /\ UNCHANGED <<walk, answer, before, offered>>
    BY <1>15 DEF EditYielded
  <2>2. walk.idx \in 0 .. ListLen(list) /\ index \in Nat /\ index < ListLen(list)
    BY <1>1, <2>1, MaxLenAssumption DEF IInv, TypeOK, WalkInside
  <2>3. /\ ListSet(list, index, item) \in Lists
        /\ ListLen(ListSet(list, index, item)) = ListLen(list)
        /\ ItemsOf(ListSet(list, index, item)) = [ItemsOf(list) EXCEPT ![index + 1] = item]
    BY <1>1, <2>2, SetReplaces
  <2>4. Ahead([ItemsOf(list) EXCEPT ![index + 1] = item], walk.idx) =
           Ahead(ItemsOf(list), walk.idx)
    <3> DEFINE s == ItemsOf(list)
               k == walk.idx
               i == index + 1
    <3>1. s \in Seq(Item) /\ k \in 0 .. Len(s) /\ i \in 1 .. k
      BY <1>1, <2>1, <2>2, ItemsAreGot
    <3> HIDE DEF s, k, i
    <3>2. Ahead([s EXCEPT ![i] = item], k) = Ahead(s, k)
      BY <3>1, SetBehind
    <3> QED
      BY <3>2 DEF s, k, i
  <2>5. WalkOffersEach'
    BY <2>1, <2>3, <2>4 DEF IInv, WalkOffersEach, Idle
  <2>6. TypeOK' /\ WalkInside'
    BY <1>1, <2>1, <2>3 DEF IInv, TypeOK, WalkInside, Iterating, Idle
  <2> QED
    BY <2>5, <2>6 DEF IInv
<1>16. ASSUME Ends PROVE IInv'
  <2>1. walk' = NoWalk /\ list' = list /\ answer' = answer
    BY <1>16 DEF Ends
  <2>2. /\ Idle' /\ walk'.idx = 0 /\ walk'.kind = "none"
        /\ walk' \in [kind : {"none", "retain", "iter"}, idx : Nat, len : Nat]
    BY <2>1 DEF Idle, NoWalk
  <2>3. before' \in Seq(Item) /\ offered' \in Seq(Item)
    BY <1>16, EmptySeq DEF Ends
  <2> QED
    BY <1>1, <2>1, <2>2, <2>3 DEF IInv, TypeOK, WalkInside, WalkOffersEach, Iterating
<1>17. CASE RetainReturns \/ GiveUp
  BY <1>16, <1>17 DEF RetainReturns, GiveUp
<1>18. CASE UNCHANGED vars
  BY <1>18 DEF vars, IInv, TypeOK, WalkInside, WalkOffersEach, Idle, Iterating
<1> QED
  BY <1>4, <1>5, <1>6, <1>7, <1>8, <1>9, <1>11, <1>12, <1>13, <1>14, <1>15, <1>17, <1>18
     DEF Step

THEOREM Invariance == Spec => []IInv
BY InvInit, InvNext, PTL DEF Spec

\* The variables keep their types.
THEOREM TypeCorrect == Spec => []TypeOK
<1>1. IInv => TypeOK
  BY DEF IInv
<1> QED
  BY <1>1, Invariance, PTL

\* Whatever a visitor removes or rewrites while retain_mut or view_iter_mut runs,
\* it is shown each of the items there were, once and in order.
THEOREM WalksAreExact == Spec => []WalkOffersEach
<1>1. IInv => WalkOffersEach
  BY DEF IInv
<1> QED
  BY <1>1, Invariance, PTL

-----------------------------------------------------------------------------
(* The wire format. *)

LEMMA WireOfEmpty == WireAccepted(ToWire(Empty)) /\ FromWire(ToWire(Empty)) = Empty
<1>1. Empty \in Lists /\ ListLen(Empty) = 0
  BY DEF Lists, Empty, ListLen
<1>2. ItemsOf(Empty) = <<>>
  BY <1>1, ItemsAreGot, EmptySeq
<1>3. PunctsOf(Empty) = <<>>
  BY DEF PunctsOf, Empty
<1> QED
  BY <1>2, <1>3 DEF WireAccepted, ToWire, FromWire

LEMMA WireOfSome ==
    ASSUME NEW first \in Item, NEW rest \in Seq(Pair)
    PROVE  /\ WireAccepted(ToWire(Some(first, rest)))
           /\ FromWire(ToWire(Some(first, rest))) = Some(first, rest)
<1> DEFINE l == Some(first, rest)
           s == ItemsOf(l)
           p == [i \in 1 .. Len(rest) |-> rest[i].punct]
           r == [i \in 1 .. Len(p) |-> [punct |-> p[i], item |-> Tail(s)[i]]]
<1>1. /\ s \in Seq(Item) /\ Len(rest) \in Nat /\ Len(s) = Len(rest) + 1
      /\ s[1] = first
      /\ \A i \in 1 .. Len(rest) : s[i + 1] = rest[i].item
  BY ItemsOfSome
<1>2. \A i \in 1 .. Len(rest) :
         /\ rest[i] \in Pair
         /\ rest[i].punct \in Punct /\ rest[i].item \in Item
         /\ rest[i] = [punct |-> rest[i].punct, item |-> rest[i].item]
  <2>1. \A i \in 1 .. Len(rest) : rest[i] \in Pair
    BY <1>1, ElementOfSeq
  <2> QED
    BY <2>1 DEF Pair
<1>3. Len(p) = Len(rest)
  <2>1. p \in [1 .. Len(rest) -> Punct]
    BY <1>2
  <2> HIDE DEF p
  <2> QED
    BY <1>1, <2>1, FunctionIsSeq
<1>4. PunctsOf(l) = p
  BY SomeIsList DEF PunctsOf
<1> HIDE DEF s, l
<1>5. s # <<>> /\ Head(s) = first /\ \A i \in 1 .. Len(rest) : Tail(s)[i] = s[i + 1]
  <2>1. s # <<>>
    BY <1>1, EmptySeq
  <2>2. Len(Tail(s)) = Len(s) - 1 /\ \A i \in 1 .. Len(Tail(s)) : Tail(s)[i] = s[i + 1]
    BY <1>1, <2>1, HeadTailProperties
  <2> QED
    BY <1>1, <2>1, <2>2
<1>6. \A i \in 1 .. Len(rest) : r[i] = rest[i]
  BY <1>1, <1>2, <1>3, <1>5
<1>7. r = rest
  <2>1. r \in [1 .. Len(rest) -> Pair]
    BY <1>2, <1>3, <1>6
  <2> HIDE DEF r
  <2>2. r \in Seq(Pair) /\ Len(r) = Len(rest)
    BY <1>1, <2>1, FunctionIsSeq
  <2> QED
    BY <1>6, <2>2, SeqEqual
<1> HIDE DEF p
<1>8. ToWire(l) = [items |-> s, puncts |-> p]
  BY <1>4 DEF ToWire, s
<1>9. WireAccepted(ToWire(l))
  BY <1>1, <1>3, <1>5, <1>8 DEF WireAccepted
<1>10. FromWire(ToWire(l)) = Some(first, r)
  <2> DEFINE w == [items |-> s, puncts |-> p]
  <2>1. w.items = s /\ w.puncts = p
    OBVIOUS
  <2>2. w.items # <<>>
    BY <1>5
  <2> HIDE DEF w
  <2>3. FromWire(w) = Some(Head(s), r)
    BY <2>1, <2>2, Zenon DEF FromWire
  <2> QED
    BY <1>5, <1>8, <2>3 DEF w
<1> QED
  BY <1>7, <1>9, <1>10 DEF l

\* Whatever is serialized is accepted, and is the same list again.
THEOREM WireIsLossless == Spec => []WireRoundTrips
<1>1. IInv => WireRoundTrips
  <2> SUFFICES ASSUME IInv PROVE WireRoundTrips
    OBVIOUS
  <2>1. list \in Lists
    BY DEF IInv, TypeOK, WalkInside
  <2>2. CASE list.some
    <3>1. list.first \in Item /\ list.rest \in Seq(Pair) /\ list = Some(list.first, list.rest)
      BY <2>1, <2>2, ListParts
    <3>2. /\ WireAccepted(ToWire(Some(list.first, list.rest)))
          /\ FromWire(ToWire(Some(list.first, list.rest))) = Some(list.first, list.rest)
      BY <3>1, WireOfSome
    <3> QED
      BY <3>1, <3>2 DEF WireRoundTrips
  <2>3. CASE ~list.some
    BY <2>1, <2>3, ListParts, WireOfEmpty DEF WireRoundTrips
  <2> QED
    BY <2>2, <2>3
<1> QED
  BY <1>1, Invariance, PTL

-----------------------------------------------------------------------------
(* The refinement: each action is one of the sequence's, or a stutter. *)

LEMMA AbstractInit == Init => Abstract!Init
<1> SUFFICES ASSUME Init PROVE Abstract!Init
  OBVIOUS
<1>1. list \in Lists
  BY ParsedAssumption DEF Init
<1>2. ItemsOf(list) \in Seq(Item)
  BY <1>1, ItemsAreGot
<1> QED
  BY <1>2 DEF Init, Idle, Abstract!Init

\* The library's operators are the same under the instance's names.
LEMMA SameOperators ==
    /\ \A t, i, e : Abstract!InsertAt(t, i, e) = InsertAt(t, i, e)
    /\ \A t, i : Abstract!RemoveAt(t, i) = RemoveAt(t, i)
BY DEF Abstract!InsertAt, Abstract!RemoveAt, InsertAt, RemoveAt

\* An index of the sequence is one of the list.
LEMMA AbstractAt ==
    ASSUME list \in Lists
    PROVE  /\ Len(ItemsOf(list)) = ListLen(list) /\ ListLen(list) \in Nat
           /\ \A index \in Nat :
                 /\ Abstract!At(index) = ListGet(list, index)
                 /\ Abstract!At(index) = NoItem <=> index >= ListLen(list)
<1>1. /\ Len(ItemsOf(list)) = ListLen(list) /\ ListLen(list) \in Nat
      /\ \A index \in Nat :
            ListGet(list, index) = IF index < ListLen(list) THEN ItemsOf(list)[index + 1]
                                   ELSE NoItem
  BY ItemsAreGot
<1>2. \A index \in Nat : ListGet(list, index) = NoItem <=> index >= ListLen(list)
  BY AnswersAreItems
<1> QED
  BY <1>1, <1>2 DEF Abstract!At

LEMMA AbstractNext == IInv /\ [Step]_vars => [Abstract!Step]_(Abstract!vars)
<1> SUFFICES ASSUME IInv, [Step]_vars PROVE [Abstract!Step]_(Abstract!vars)
  OBVIOUS
<1> USE DEF Abstract!Idle
<1> DEFINE s == ItemsOf(list)
<1>1. list \in Lists /\ ListLen(list) \in Nat /\ Len(s) = ListLen(list)
  BY AbstractAt DEF IInv, TypeOK, WalkInside
<1>2. /\ walk.idx \in Nat /\ walk.idx <= ListLen(list)
      /\ walk \in [kind : {"none", "retain", "iter"}, idx : Nat, len : Nat]
  BY DEF IInv, TypeOK, WalkInside
<1>3. ASSUME NEW index \in 0 .. ListLen(list), Answers(ListGet(list, index))
      PROVE  Abstract!Read
  <2>1. Abstract!At(index) = ListGet(list, index)
    BY <1>1, AbstractAt
  <2>2. index \in 0 .. Len(s)
    BY <1>1
  <2> QED
    BY <1>3, <2>1, <2>2 DEF Answers, Abstract!Read, Idle
<1>4. ASSUME NEW index \in 0 .. ListLen(list), NEW item \in Item,
             Edits(ListSet(list, index, item))
      PROVE  Abstract!Replace(index, item)
  <2>1. Idle /\ list' = ListSet(list, index, item) /\ UNCHANGED <<walk, answer>>
    BY <1>4 DEF Edits
  <2>2. index \in Nat /\ (Abstract!At(index) = NoItem <=> index >= ListLen(list))
    BY <1>1, AbstractAt
  <2>3. /\ index >= ListLen(list) => ListSet(list, index, item) = list
        /\ index < ListLen(list) =>
              ItemsOf(ListSet(list, index, item)) = [s EXCEPT ![index + 1] = item]
    BY <1>1, <2>2, SetReplaces
  <2>4. ItemsOf(list') = IF Abstract!At(index) = NoItem THEN s
                         ELSE [s EXCEPT ![index + 1] = item]
    BY <1>1, <2>1, <2>2, <2>3
  <2> QED
    BY <2>1, <2>4 DEF Abstract!Replace, Idle
<1>5. ASSUME NEW index \in 0 .. ListLen(list), NEW item \in Item,
             Edits(ListInsert(list, index, item))
      PROVE  Abstract!Insert(index, item)
  <2>1. Idle /\ list' = ListInsert(list, index, item) /\ UNCHANGED <<walk, answer>>
    BY <1>5 DEF Edits
  <2>2. ItemsOf(list') = InsertAt(s, index + 1, item)
    BY <1>1, <2>1, InsertInserts
  <2> QED
    BY <1>1, <2>1, <2>2, SameOperators DEF Abstract!Insert, Idle
<1>6. ASSUME NEW index \in 0 .. ListLen(list), CallRemove(index)
      PROVE  Abstract!Delete(index)
  <2>1. /\ Idle /\ list' = ListRemove(list, index) /\ walk' = walk
        /\ answer' = ListGet(list, index)
    BY <1>6 DEF CallRemove
  <2>2. /\ index \in Nat /\ (Abstract!At(index) = NoItem <=> index >= ListLen(list))
        /\ Abstract!At(index) = ListGet(list, index)
    BY <1>1, AbstractAt
  <2>3. /\ index >= ListLen(list) => ListRemove(list, index) = list
        /\ index < ListLen(list) =>
              ItemsOf(ListRemove(list, index)) = RemoveAt(s, index + 1)
    BY <1>1, <2>2, RemoveRemoves
  <2>4. ItemsOf(list') = IF Abstract!At(index) = NoItem THEN s ELSE RemoveAt(s, index + 1)
    BY <1>1, <2>1, <2>2, <2>3
  <2> QED
    BY <2>1, <2>2, <2>4, SameOperators DEF Abstract!Delete, Idle
<1>7. \A index \in 0 .. ListLen(list) : index \in 0 .. Len(s)
  BY <1>1
<1>8. CASE CallFirst
  <2>1. 0 \in 0 .. ListLen(list) /\ ListFirst(list) = ListGet(list, 0)
    BY <1>1, AnswersAreItems
  <2> QED
    BY <1>3, <1>8, <2>1 DEF CallFirst, Abstract!Step
<1>9. CASE CallLast
  <2>1. \E index \in 0 .. ListLen(list) : ListLast(list) = ListGet(list, index)
    <3>1. CASE list.some /\ \E item \in Item : TRUE
      <4>1. /\ ListLen(list) - 1 \in 0 .. ListLen(list)
            /\ ListLast(list) = ListGet(list, ListLen(list) - 1)
        BY <1>1, <3>1, LastIsAtTheEnd
      <4> QED
        BY <4>1
    <3>2. CASE ~list.some
      <4>1. ListLast(list) = ListGet(list, 0) /\ 0 \in 0 .. ListLen(list)
        BY <1>1, <3>2 DEF ListLast, ListGet
      <4> QED
        BY <4>1
    <3> QED
      BY <1>1, <3>1, <3>2, ListParts
  <2> QED
    BY <1>3, <1>9, <2>1 DEF CallLast, Abstract!Step
<1>10. ASSUME NEW index \in 0 .. ListLen(list), CallGet(index) \/ CallRemove(index)
       PROVE  Abstract!Step
  BY <1>3, <1>6, <1>7, <1>10 DEF CallGet, Abstract!Step
<1>11. ASSUME NEW index \in 0 .. ListLen(list), NEW item \in Item,
              CallGetMut(index, item) \/ CallInsert(index, item)
       PROVE  Abstract!Step
  BY <1>4, <1>5, <1>7, <1>11 DEF CallGetMut, CallInsert, Abstract!Step
<1>12. ASSUME NEW item \in Item, CallLastMut(item)
       PROVE  [Abstract!Step]_(Abstract!vars)
  <2>1. CASE list.some
    <3>1. /\ ListLen(list) - 1 \in 0 .. ListLen(list)
          /\ ListSetLast(list, item) = ListSet(list, ListLen(list) - 1, item)
      BY <1>1, <2>1, LastIsAtTheEnd
    <3>2. Edits(ListSet(list, ListLen(list) - 1, item))
      BY <1>12, <3>1 DEF CallLastMut
    <3>3. Abstract!Replace(ListLen(list) - 1, item)
      BY <1>4, <3>1, <3>2
    <3> QED
      BY <1>7, <3>1, <3>3 DEF Abstract!Step
  <2>2. CASE ~list.some
    <3>1. UNCHANGED <<list, walk, answer>>
      BY <1>1, <1>12, <2>2, LastIsAtTheEnd DEF CallLastMut, Edits
    <3> QED
      BY <3>1 DEF Abstract!vars, Idle
  <2> QED
    BY <1>1, <2>1, <2>2, ListParts
<1>13. ASSUME NEW item \in Item, CallPush(item)
       PROVE  Abstract!Step
  <2>1. ListLen(list) \in 0 .. ListLen(list)
    BY <1>1
  <2>2. Edits(ListInsert(list, ListLen(list), item))
    BY <1>1, <1>13, PushInserts DEF CallPush
  <2>3. Abstract!Insert(ListLen(list), item)
    BY <1>5, <2>1, <2>2
  <2> QED
    BY <1>7, <2>1, <2>3 DEF Abstract!Step
<1>14. CASE CallRetainMut \/ CallViewIterMut
  <2>1. Idle /\ walk'.idx = 0 /\ walk'.kind # "none" /\ UNCHANGED <<list, answer>>
    BY <1>14 DEF CallRetainMut, CallViewIterMut, Starts
  <2>2. ~Idle'
    BY <2>1 DEF Idle, NoWalk
  <2> QED
    BY <2>1, <2>2 DEF Abstract!Step, Abstract!StartWalk, Idle
<1>15. ASSUME ~Idle, walk.idx < ListLen(list), NEW item \in Item, answer' = answer,
              \/ /\ list' = ListSet(list, walk.idx, item)
                 /\ walk' = [walk EXCEPT !.idx = walk.idx + 1]
              \/ /\ list' = ListRemove(ListSet(list, walk.idx, item), walk.idx)
                 /\ walk' = walk
       PROVE  Abstract!Step
  <2> DEFINE k == walk.idx
             u == ListSet(list, k, item)
  <2>1. k \in Nat /\ k < ListLen(list) /\ k \in 0 .. Len(s) - 1 /\ s \in Seq(Item)
    BY <1>1, <1>2, <1>15, ItemsAreGot
  <2> HIDE DEF s, k
  <2>2. u \in Lists /\ ListLen(u) = ListLen(list) /\ ItemsOf(u) = [s EXCEPT ![k + 1] = item]
    BY <1>1, <2>1, SetReplaces DEF s
  <2> HIDE DEF u
  <2>3. CASE list' = u /\ walk' = [walk EXCEPT !.idx = k + 1]
    <3>1. walk'.idx = k + 1 /\ walk'.kind = walk.kind
      BY <1>2, <2>3
    <3>2. ~Idle'
      BY <1>2, <1>15, <3>1 DEF Idle, NoWalk, IInv, TypeOK, WalkInside
    <3>3. Abstract!Visit(item, TRUE)
      BY <1>15, <2>1, <2>2, <2>3, <3>1, <3>2 DEF Abstract!Visit, k, s
    <3> QED
      BY <3>3 DEF Abstract!Step
  <2>4. CASE list' = ListRemove(u, k) /\ walk' = walk
    <3>1. ItemsOf(ListRemove(u, k)) = RemoveAt(ItemsOf(u), k + 1)
      <4>1. u \in Lists /\ k \in Nat /\ k < ListLen(u)
        BY <2>1, <2>2
      <4> QED
        BY <4>1, RemoveRemoves
    <3>2. RemoveAt([s EXCEPT ![k + 1] = item], k + 1) = RemoveAt(s, k + 1)
      BY <2>1, RemoveReached
    <3>3. ItemsOf(list') = RemoveAt(s, k + 1)
      BY <2>2, <2>4, <3>1, <3>2
    <3>4. ~Idle'
      BY <1>15, <2>4 DEF Idle
    <3>5. Abstract!Visit(item, FALSE)
      BY <1>15, <2>1, <2>4, <3>3, <3>4, SameOperators DEF Abstract!Visit, k, s
    <3> QED
      BY <3>5 DEF Abstract!Step
  <2> QED
    BY <1>15, <2>3, <2>4 DEF u, k
<1>16. ASSUME NEW item \in Item, NEW keep \in BOOLEAN, RetainItem(item, keep)
       PROVE  Abstract!Step
  <2>1. ~Idle
    BY <1>16 DEF RetainItem, Retaining, Idle, NoWalk
  <2> QED
    BY <1>15, <1>16, <2>1 DEF RetainItem
<1>17. ASSUME NEW item \in Item, IterItem(item)
       PROVE  Abstract!Step
  <2>1. ~Idle /\ walk.idx < ListLen(list)
    BY <1>17 DEF IterItem, Iterating, Idle, NoWalk, IInv, TypeOK, WalkInside
  <2> QED
    BY <1>15, <1>17, <2>1 DEF IterItem
<1>18. ASSUME NEW index \in 0 .. MaxLen, NEW item \in Item, EditYielded(index, item)
       PROVE  Abstract!Step
  <2>1. /\ Iterating /\ index < walk.idx
        /\ list' = ListSet(list, index, item) /\ UNCHANGED <<walk, answer>>
    BY <1>18 DEF EditYielded
  <2>2. ~Idle /\ index \in Nat /\ index < ListLen(list)
    BY <1>1, <1>2, <2>1, MaxLenAssumption DEF Iterating, Idle, NoWalk
  <2>3. ItemsOf(list') = [s EXCEPT ![index + 1] = item]
    BY <1>1, <2>1, <2>2, SetReplaces
  <2>4. Abstract!EditPassed(index, item)
    BY <1>2, <2>1, <2>2, <2>3 DEF Abstract!EditPassed, Idle
  <2>5. index \in 0 .. Len(s)
    BY <1>1, <2>2
  <2> QED
    BY <2>4, <2>5 DEF Abstract!Step
<1>19. CASE RetainReturns \/ GiveUp
  <2>1. ~Idle /\ Idle' /\ UNCHANGED <<list, answer>>
    BY <1>19 DEF RetainReturns, GiveUp, Ends, Idle, Iterating, Retaining, NoWalk
  <2>2. walk.idx # -1
    BY <1>2
  <2> QED
    BY <2>1, <2>2 DEF Abstract!EndWalk, Abstract!Step
<1>20. CASE UNCHANGED vars
  BY <1>20 DEF vars, Abstract!vars, Idle
<1> QED
  BY <1>8, <1>9, <1>10, <1>11, <1>12, <1>13, <1>14, <1>16, <1>17, <1>18, <1>19, <1>20
     DEF Step

\* With its first item stored apart, the list is the sequence that SeqView
\* promises, for every length and in the middle of a walk.
THEOREM RefinesSequenceView == Spec => ImplementsSequenceView
BY Invariance, AbstractInit, AbstractNext, PTL DEF Spec, Abstract!Spec, ImplementsSequenceView
-----------------------------------------------------------------------------
(* The punctuations. *)

\* The punctuation in front of the i-th item, if that is not the first.
PunctBefore(l, i) == PunctsOf(l)[i - 1]

\* What PunctsStay says of a step from l to m.
Keeps(l, m) ==
    \A i \in 2 .. Len(ItemsOf(l)), j \in 2 .. Len(ItemsOf(m)) :
        Once(ItemsOf(l), ItemsOf(l)[i], i) /\ Once(ItemsOf(m), ItemsOf(l)[i], j) =>
            PunctBefore(l, i) = PunctBefore(m, j)

\* Whatever occurs once is found in one place.
LEMMA OnceIsUnique ==
    ASSUME NEW S, NEW s \in Seq(S), NEW item, NEW i, Once(s, item, i)
    PROVE  /\ i \in 1 .. Len(s) /\ s[i] = item
           /\ \A j \in 1 .. Len(s) : s[j] = item => j = i
<1>1. DOMAIN s = 1 .. Len(s)
  BY LenProperties
<1>2. {j \in DOMAIN s : s[j] = item} = {i}
  BY DEF Once
<1> QED
  BY <1>1, <1>2

\* Writing over an item and leaving the punctuations alone keeps them in front.
LEMMA KeepsIfSet ==
    ASSUME NEW l \in Lists, NEW m \in Lists, NEW k \in 1 .. ListLen(l), NEW item \in Item,
           ItemsOf(m) = [ItemsOf(l) EXCEPT ![k] = item],
           \A i \in 2 .. ListLen(l) : PunctBefore(m, i) = PunctBefore(l, i)
    PROVE  Keeps(l, m)
<1> DEFINE s == ItemsOf(l)
           t == ItemsOf(m)
<1>1. /\ s \in Seq(Item) /\ Len(s) \in Nat /\ Len(s) = ListLen(l)
      /\ t \in Seq(Item) /\ Len(t) \in Nat
  BY ItemsAreGot
<1>2. Len(t) = Len(s) /\ \A i \in 1 .. Len(s) : i # k => t[i] = s[i]
  <2>1. t = [s EXCEPT ![k] = item]
    OBVIOUS
  <2>2. k \in 1 .. Len(s)
    BY <1>1
  <2> HIDE DEF s, t
  <2> QED
    BY <1>1, <2>1, <2>2, ExceptSeq
<1> SUFFICES ASSUME NEW i \in 2 .. Len(s), NEW j \in 2 .. Len(t),
                    Once(s, s[i], i), Once(t, s[i], j)
             PROVE  PunctBefore(l, i) = PunctBefore(m, j)
  BY DEF Keeps
<1> HIDE DEF s, t
<1>3. /\ \A p \in 1 .. Len(s) : s[p] = s[i] => p = i
      /\ j \in 1 .. Len(t) /\ t[j] = s[i]
      /\ \A p \in 1 .. Len(t) : t[p] = s[i] => p = j
  BY <1>1, OnceIsUnique
<1>4. i = j
  <2>1. CASE j = k
    BY <1>1, <1>2, <1>3, <2>1
  <2>2. CASE j # k
    BY <1>1, <1>2, <1>3, <2>2
  <2> QED
    BY <2>1, <2>2
<1> QED
  BY <1>1, <1>4

\* Making room for an item keeps the punctuations in front of the others.
LEMMA KeepsIfInserted ==
    ASSUME NEW l \in Lists, NEW m \in Lists, NEW k \in 1 .. ListLen(l) + 1, NEW item \in Item,
           ItemsOf(m) = InsertAt(ItemsOf(l), k, item),
           \A i \in 2 .. ListLen(l) : PunctBefore(m, IF i < k THEN i ELSE i + 1) = PunctBefore(l, i)
    PROVE  Keeps(l, m)
<1> DEFINE s == ItemsOf(l)
           t == ItemsOf(m)
<1>1. /\ s \in Seq(Item) /\ Len(s) \in Nat /\ Len(s) = ListLen(l)
      /\ t \in Seq(Item) /\ Len(t) \in Nat
  BY ItemsAreGot
<1>2. /\ Len(t) = Len(s) + 1
      /\ \A i \in 1 .. k - 1 : t[i] = s[i]
      /\ \A i \in k .. Len(s) : t[i + 1] = s[i]
  <2> DEFINE u == InsertAt(s, k, item)
  <2>1. t = u
    OBVIOUS
  <2>2. s \in Seq(Item) /\ k \in 1 .. Len(s) + 1
    BY <1>1
  <2> HIDE DEF s, t
  <2>3. /\ Len(u) = Len(s) + 1
        /\ \A i \in 1 .. k - 1 : u[i] = s[i]
        /\ \A i \in k .. Len(s) : u[i + 1] = s[i]
    BY ONLY <2>2, item \in Item, InsertAtItems
  <2> QED
    BY <2>1, <2>3
<1> SUFFICES ASSUME NEW i \in 2 .. Len(s), NEW j \in 2 .. Len(t),
                    Once(s, s[i], i), Once(t, s[i], j)
             PROVE  PunctBefore(l, i) = PunctBefore(m, j)
  BY DEF Keeps
<1> HIDE DEF s, t
<1>3. \A p \in 1 .. Len(t) : t[p] = s[i] => p = j
  BY <1>1, OnceIsUnique
<1>4. j = IF i < k THEN i ELSE i + 1
  <2>1. CASE i < k
    BY <1>1, <1>2, <1>3, <2>1
  <2>2. CASE i >= k
    BY <1>1, <1>2, <1>3, <2>2
  <2> QED
    BY <1>1, <2>1, <2>2
<1> QED
  BY <1>1, <1>4

\* Dropping an item keeps the punctuations in front of the others.
LEMMA KeepsIfRemoved ==
    ASSUME NEW l \in Lists, NEW m \in Lists, NEW k \in 1 .. ListLen(l),
           ItemsOf(m) = RemoveAt(ItemsOf(l), k),
           \A j \in 2 .. ListLen(l) - 1 : PunctBefore(m, j) = PunctBefore(l, IF j < k THEN j ELSE j + 1)
    PROVE  Keeps(l, m)
<1> DEFINE s == ItemsOf(l)
           t == ItemsOf(m)
<1>1. /\ s \in Seq(Item) /\ Len(s) \in Nat /\ Len(s) = ListLen(l)
      /\ t \in Seq(Item) /\ Len(t) \in Nat
  BY ItemsAreGot
<1>2. /\ Len(t) = Len(s) - 1
      /\ \A i \in 1 .. k - 1 : t[i] = s[i]
      /\ \A i \in k .. Len(s) - 1 : t[i] = s[i + 1]
  <2>1. t = RemoveAt(s, k)
    OBVIOUS
  <2>2. k \in 1 .. Len(s)
    BY <1>1
  <2> HIDE DEF s, t
  <2> QED
    BY <1>1, <2>1, <2>2, RemoveAtItems
<1> SUFFICES ASSUME NEW i \in 2 .. Len(s), NEW j \in 2 .. Len(t),
                    Once(s, s[i], i), Once(t, s[i], j)
             PROVE  PunctBefore(l, i) = PunctBefore(m, j)
  BY DEF Keeps
<1> HIDE DEF s, t
<1>3. /\ t[j] = s[i]
      /\ \A p \in 1 .. Len(s) : s[p] = s[i] => p = i
  BY <1>1, OnceIsUnique
<1>4. i = IF j < k THEN j ELSE j + 1
  <2>1. CASE j < k
    BY <1>1, <1>2, <1>3, <2>1
  <2>2. CASE j >= k
    <3>1. j + 1 \in 1 .. Len(s) /\ s[j + 1] = s[i]
      BY <1>1, <1>2, <1>3, <2>2
    <3> QED
      BY <1>3, <2>2, <3>1
  <2> QED
    BY <2>1, <2>2
<1> QED
  BY <1>1, <1>2, <1>4
\* Nothing changes in front of anything as long as the list stays the same.
LEMMA KeepsItself ==
    ASSUME NEW l \in Lists
    PROVE  Keeps(l, l)
<1> DEFINE s == ItemsOf(l)
<1>1. s \in Seq(Item) /\ Len(s) \in Nat
  BY ItemsAreGot
<1> SUFFICES ASSUME NEW i \in 2 .. Len(s), NEW j \in 2 .. Len(s), Once(s, s[i], j)
             PROVE  PunctBefore(l, i) = PunctBefore(l, j)
  BY DEF Keeps
<1> HIDE DEF s
<1>2. i = j
  BY <1>1, OnceIsUnique
<1> QED
  BY <1>2

\* The punctuations are those of the pairs.
LEMMA PunctsOfPairs ==
    ASSUME NEW first, NEW rest \in Seq(Pair), NEW i \in 2 .. Len(rest) + 1
    PROVE  PunctBefore(Some(first, rest), i) = rest[i - 1].punct
<1>1. Len(rest) \in Nat /\ i - 1 \in 1 .. Len(rest)
  BY LenProperties
<1>2. PunctsOf(Some(first, rest)) = [j \in 1 .. Len(rest) |-> rest[j].punct]
  BY DEF PunctsOf, Some
<1> QED
  BY <1>1, <1>2 DEF PunctBefore

\* get_mut lets an item be written over, not the punctuation before it.
LEMMA SetKeeps ==
    ASSUME NEW l \in Lists, NEW index \in Nat, NEW item \in Item
    PROVE  /\ Keeps(l, ListSet(l, index, item))
           /\ index < ListLen(l) =>
                 \A i \in 2 .. ListLen(l) :
                     PunctBefore(ListSet(l, index, item), i) = PunctBefore(l, i)
<1> DEFINE m == ListSet(l, index, item)
<1>1. CASE index >= ListLen(l)
  <2>1. m = l /\ ListLen(l) \in Nat
    BY <1>1, SetReplaces, ItemsAreGot
  <2> QED
    BY <1>1, <2>1, KeepsItself
<1>2. CASE index < ListLen(l)
  <2> DEFINE k == index + 1
  <2>1. /\ l.some /\ l = Some(l.first, l.rest) /\ l.rest \in Seq(Pair)
        /\ Len(l.rest) \in Nat /\ ListLen(l) = 1 + Len(l.rest)
    BY <1>2, ListParts DEF ListLen
  <2>2. m \in Lists /\ ItemsOf(m) = [ItemsOf(l) EXCEPT ![k] = item] /\ k \in 1 .. ListLen(l)
    BY <1>2, <2>1, SetReplaces
  <2>3. ASSUME NEW i \in 2 .. ListLen(l)
        PROVE  PunctBefore(m, i) = PunctBefore(l, i)
    <3>1. i \in 2 .. Len(l.rest) + 1 /\ i - 1 \in 1 .. Len(l.rest)
      BY <2>1
    <3>2. PunctBefore(l, i) = l.rest[i - 1].punct
      BY <2>1, <3>1, PunctsOfPairs
    <3>3. CASE index = 0
      <4>1. m = Some(item, l.rest)
        BY <2>1, <3>3 DEF ListSet
      <4> QED
        BY <2>1, <3>1, <3>2, <4>1, PunctsOfPairs
    <3>4. CASE index # 0
      <4> DEFINE r == SetItem(l.rest, index, item)
      <4>1. index \in 1 .. Len(l.rest)
        BY <1>2, <2>1, <3>4
      <4>2. m = Some(l.first, r)
        BY <2>1, <3>4, <4>1 DEF ListSet, SetItem
      <4>3. r \in Seq(Pair) /\ Len(r) = Len(l.rest)
        BY <2>1, <4>1, ListParts, SetInRest
      <4>4. r[i - 1].punct = l.rest[i - 1].punct
        <5>1. l.rest[i - 1] \in Pair
          BY <2>1, <3>1, ElementOfSeq
        <5>2. DOMAIN l.rest = 1 .. Len(l.rest)
          BY <2>1, LenProperties
        <5> QED
          BY <3>1, <4>1, <5>1, <5>2 DEF SetItem, Pair
      <4> HIDE DEF r, m
      <4> QED
        BY <3>1, <3>2, <4>2, <4>3, <4>4, PunctsOfPairs
    <3> QED
      BY <3>3, <3>4
  <2> HIDE DEF m, k
  <2>4. Keeps(l, m)
    BY <2>2, <2>3, KeepsIfSet
  <2> QED
    BY <1>2, <2>3, <2>4 DEF m
<1>3. ListLen(l) \in Nat
  BY ItemsAreGot
<1> QED
  BY <1>1, <1>2, <1>3

\* insert gives the new item a punctuation of its own.
LEMMA InsertKeeps ==
    ASSUME NEW l \in Lists, NEW index \in 0 .. ListLen(l), NEW item \in Item
    PROVE  Keeps(l, ListInsert(l, index, item))
<1> DEFINE m == ListInsert(l, index, item)
           k == index + 1
<1>1. /\ m \in Lists /\ ItemsOf(m) = InsertAt(ItemsOf(l), k, item)
      /\ k \in 1 .. ListLen(l) + 1 /\ ListLen(l) \in Nat
  BY InsertInserts, ItemsAreGot
<1>2. ASSUME NEW i \in 2 .. ListLen(l)
      PROVE  PunctBefore(m, IF i < k THEN i ELSE i + 1) = PunctBefore(l, i)
  <2>1. /\ l.some /\ l = Some(l.first, l.rest) /\ l.rest \in Seq(Pair) /\ l.first \in Item
        /\ Len(l.rest) \in Nat /\ ListLen(l) = 1 + Len(l.rest)
    BY <1>1, ListParts DEF ListLen
  <2> DEFINE rest == l.rest
  <2>2. i \in 2 .. Len(rest) + 1 /\ i - 1 \in 1 .. Len(rest)
    BY <2>1
  <2>3. PunctBefore(l, i) = rest[i - 1].punct
    BY <2>1, <2>2, PunctsOfPairs
  <2>4. CASE index = 0
    <3> DEFINE p == [punct |-> DefaultPunct, item |-> l.first]
               r == InsertAt(rest, 1, p)
    <3>1. m = Some(item, r)
      BY <2>1, <2>4 DEF ListInsert
    <3>2. p \in Pair /\ rest \in Seq(Pair) /\ 1 \in 1 .. Len(rest) + 1
      BY <2>1, DefaultPunctAssumption DEF Pair
    <3> HIDE DEF m, rest, p
    <3>3. /\ r \in Seq(Pair) /\ Len(r) = Len(rest) + 1
          /\ \A j \in 1 .. Len(rest) : r[j + 1] = rest[j]
      BY ONLY <3>2, InsertAtItems
    <3> HIDE DEF r
    <3>4. r[(i - 1) + 1] = rest[i - 1]
      BY <2>2, <3>3
    <3>5. i + 1 \in 2 .. Len(r) + 1 /\ (i - 1) + 1 = (i + 1) - 1
      BY <2>1, <2>2, <3>3 DEF rest
    <3>6. PunctBefore(m, i + 1) = r[(i + 1) - 1].punct
      BY <3>1, <3>3, <3>5, PunctsOfPairs
    <3> QED
      BY <2>3, <2>4, <3>4, <3>5, <3>6
  <2>5. CASE index # 0
    <3> DEFINE p == [punct |-> DefaultPunct, item |-> item]
               q == index
               r == InsertAt(rest, q, p)
    <3>1. m = Some(l.first, r)
      BY <2>1, <2>5 DEF ListInsert
    <3>2. p \in Pair /\ rest \in Seq(Pair) /\ q \in 1 .. Len(rest) + 1
      BY <1>1, <2>1, <2>5, DefaultPunctAssumption DEF Pair
    <3>0. k = q + 1 /\ q \in Nat
      BY <1>1
    <3> HIDE DEF m, rest, p, q, k
    <3>3. /\ r \in Seq(Pair) /\ Len(r) = Len(rest) + 1
          /\ \A j \in 1 .. q - 1 : r[j] = rest[j]
          /\ r[q] = p
          /\ \A j \in q .. Len(rest) : r[j + 1] = rest[j]
      <4>1. r \in Seq(Pair) /\ Len(r) = Len(rest) + 1 /\ r[q] = p
        BY ONLY <3>2, InsertAtItems
      <4>2. \A j \in 1 .. q - 1 : r[j] = rest[j]
        BY ONLY <3>2, InsertAtItems
      <4>3. \A j \in q .. Len(rest) : r[j + 1] = rest[j]
        BY ONLY <3>2, InsertAtItems
      <4> QED
        BY <4>1, <4>2, <4>3
    <3> HIDE DEF r
    <3>4. Len(rest) \in Nat
      BY <2>1 DEF rest
    <3>5. CASE i < k
      <4>1. i - 1 \in 1 .. q - 1
        BY <2>2, <3>0, <3>2, <3>5
      <4>2. r[i - 1] = rest[i - 1] /\ i \in 2 .. Len(r) + 1
        BY <2>2, <3>3, <3>4, <4>1
      <4>3. PunctBefore(m, i) = r[i - 1].punct
        BY <3>1, <3>3, <4>2, PunctsOfPairs
      <4> QED
        BY <2>3, <3>5, <4>2, <4>3
    <3>6. CASE ~(i < k)
      <4>1. i - 1 \in q .. Len(rest)
        BY <2>2, <3>0, <3>2, <3>4, <3>6
      <4>2. r[(i - 1) + 1] = rest[i - 1] /\ i + 1 \in 2 .. Len(r) + 1 /\ (i - 1) + 1 = (i + 1) - 1
        BY <2>2, <3>3, <3>4, <4>1
      <4>3. PunctBefore(m, i + 1) = r[(i + 1) - 1].punct
        BY <3>1, <3>3, <4>2, PunctsOfPairs
      <4> QED
        BY <2>3, <3>6, <4>2, <4>3
    <3> QED
      BY <3>5, <3>6
  <2> QED
    BY <2>4, <2>5
<1> HIDE DEF m, k
<1>3. Keeps(l, m)
  BY <1>1, <1>2, KeepsIfInserted
<1> QED
  BY <1>3 DEF m
\* remove takes the punctuation in front of the item away with it, or that
\* behind the first.
LEMMA RemoveKeepsPuncts ==
    ASSUME NEW l \in Lists, NEW index \in Nat, index < ListLen(l),
           NEW j \in 2 .. ListLen(l) - 1
    PROVE  PunctBefore(ListRemove(l, index), j) =
               PunctBefore(l, IF j < index + 1 THEN j ELSE j + 1)
<1> DEFINE m == ListRemove(l, index)
           rest == l.rest
<1>1. /\ l.some /\ l = Some(l.first, rest) /\ rest \in Seq(Pair)
      /\ Len(rest) \in Nat /\ ListLen(l) = 1 + Len(rest)
      /\ rest = <<>> <=> Len(rest) = 0
  BY ListParts DEF ListLen
<1>2. j \in 2 .. Len(rest)
  BY <1>1
<1>3. CASE index = 0
  <2> DEFINE r == RemoveAt(rest, 1)
             second == rest[1].item
  <2>1. rest \in Seq(Pair) /\ 1 \in 1 .. Len(rest) /\ rest # <<>>
    BY <1>1, <1>2
  <2>2. m = Some(second, r)
    BY <1>1, <1>3, <2>1 DEF ListRemove
  <2> HIDE DEF m, rest, second
  <2>3. /\ r \in Seq(Pair) /\ Len(r) = Len(rest) - 1
        /\ \A i \in 1 .. Len(rest) - 1 : r[i] = rest[i + 1]
    BY <2>1, RemoveAtItems
  <2> HIDE DEF r
  <2>4. j \in 2 .. Len(r) + 1 /\ j + 1 \in 2 .. Len(rest) + 1 /\ j - 1 \in 1 .. Len(rest) - 1
    BY <1>1, <1>2, <2>3
  <2>5. PunctBefore(m, j) = r[j - 1].punct
    BY <2>2, <2>3, <2>4, PunctsOfPairs
  <2>6. PunctBefore(l, j + 1) = rest[(j + 1) - 1].punct
    BY <1>1, <2>4, PunctsOfPairs
  <2>7. (j + 1) - 1 = (j - 1) + 1
    BY <1>2
  <2> QED
    BY <1>3, <2>3, <2>4, <2>5, <2>6, <2>7 DEF m
<1>4. CASE index # 0
  <2> DEFINE q == index
             r == RemoveAt(rest, q)
  <2>1. rest \in Seq(Pair) /\ q \in 1 .. Len(rest)
    BY <1>1, <1>4
  <2>2. m = Some(l.first, r)
    BY <1>1, <1>4, <2>1 DEF ListRemove
  <2> HIDE DEF m, rest, q
  <2>3. /\ r \in Seq(Pair) /\ Len(r) = Len(rest) - 1
        /\ \A i \in 1 .. q - 1 : r[i] = rest[i]
        /\ \A i \in q .. Len(rest) - 1 : r[i] = rest[i + 1]
    BY <2>1, RemoveAtItems
  <2> HIDE DEF r
  <2>4. j \in 2 .. Len(r) + 1 /\ j \in 2 .. Len(rest) + 1 /\ j + 1 \in 2 .. Len(rest) + 1
    BY <1>1, <1>2, <2>3
  <2>5. PunctBefore(m, j) = r[j - 1].punct
    BY <2>2, <2>3, <2>4, PunctsOfPairs
  <2>6. CASE j < q + 1
    <3>1. j - 1 \in 1 .. q - 1
      BY <1>2, <2>1, <2>6
    <3>2. PunctBefore(l, j) = rest[j - 1].punct
      BY <1>1, <2>4, PunctsOfPairs
    <3> QED
      BY <2>3, <2>5, <2>6, <3>1, <3>2 DEF m, q
  <2>7. CASE ~(j < q + 1)
    <3>1. j - 1 \in q .. Len(rest) - 1 /\ (j - 1) + 1 = (j + 1) - 1
      BY <1>2, <2>1, <2>7
    <3>2. PunctBefore(l, j + 1) = rest[(j + 1) - 1].punct
      BY <1>1, <2>4, PunctsOfPairs
    <3> QED
      BY <2>3, <2>5, <2>7, <3>1, <3>2 DEF m, q
  <2> QED
    BY <2>6, <2>7
<1> QED
  BY <1>3, <1>4

\* The others keep theirs.
LEMMA RemoveKeeps ==
    ASSUME NEW l \in Lists, NEW index \in Nat
    PROVE  Keeps(l, ListRemove(l, index))
<1> DEFINE m == ListRemove(l, index)
           k == index + 1
<1>1. ListLen(l) \in Nat
  BY ItemsAreGot
<1>2. CASE index >= ListLen(l)
  BY <1>2, RemoveRemoves, KeepsItself
<1>3. CASE index < ListLen(l)
  <2>1. m \in Lists /\ ItemsOf(m) = RemoveAt(ItemsOf(l), k) /\ k \in 1 .. ListLen(l)
    BY <1>1, <1>3, RemoveRemoves
  <2>2. \A j \in 2 .. ListLen(l) - 1 :
           PunctBefore(m, j) = PunctBefore(l, IF j < k THEN j ELSE j + 1)
    BY <1>3, RemoveKeepsPuncts
  <2> HIDE DEF m, k
  <2>3. Keeps(l, m)
    BY <2>1, <2>2, KeepsIfRemoved
  <2> QED
    BY <2>3 DEF m
<1> QED
  BY <1>1, <1>2, <1>3

\* An item that retain_mut drops may have been written over before.
LEMMA RetainKeeps ==
    ASSUME NEW l \in Lists, NEW index \in Nat, index < ListLen(l), NEW item \in Item
    PROVE  Keeps(l, ListRemove(ListSet(l, index, item), index))
<1> DEFINE u == ListSet(l, index, item)
           m == ListRemove(u, index)
           k == index + 1
           s == ItemsOf(l)
<1>1. /\ ListLen(l) \in Nat /\ k \in 1 .. ListLen(l) /\ index \in 0 .. Len(s) - 1
      /\ s \in Seq(Item) /\ Len(s) = ListLen(l)
  BY ItemsAreGot
<1>2. u \in Lists /\ ListLen(u) = ListLen(l) /\ ItemsOf(u) = [s EXCEPT ![index + 1] = item]
  BY SetReplaces
<1>3. m \in Lists /\ ItemsOf(m) = RemoveAt(ItemsOf(u), index + 1)
  BY <1>2, RemoveRemoves
<1>4. \A i \in 2 .. ListLen(l) : PunctBefore(u, i) = PunctBefore(l, i)
  BY SetKeeps
<1> HIDE DEF u, s
<1>5. RemoveAt([s EXCEPT ![index + 1] = item], index + 1) = RemoveAt(s, index + 1)
  <2> DEFINE q == index
  <2>1. s \in Seq(Item) /\ q \in 0 .. Len(s) - 1
    BY <1>1
  <2> HIDE DEF q, m, k
  <2>2. /\ RemoveAt([s EXCEPT ![q + 1] = item], q + 1) = RemoveAt(s, q + 1)
        /\ Ahead(RemoveAt(s, q + 1), q) = Ahead(s, q + 1)
    BY <2>1, RemoveReached
  <2> QED
    BY <2>2 DEF q
<1>6. ItemsOf(m) = RemoveAt(s, k)
  BY <1>2, <1>3, <1>5
<1>7. ASSUME NEW j \in 2 .. ListLen(l) - 1
      PROVE  PunctBefore(m, j) = PunctBefore(l, IF j < k THEN j ELSE j + 1)
  <2>1. PunctBefore(m, j) = PunctBefore(u, IF j < k THEN j ELSE j + 1)
    BY <1>2, RemoveKeepsPuncts
  <2>2. (IF j < k THEN j ELSE j + 1) \in 2 .. ListLen(l)
    BY <1>1
  <2> QED
    BY <1>4, <2>1, <2>2
<1> HIDE DEF m, k
<1>8. Keeps(l, m)
  BY <1>1, <1>3, <1>6, <1>7, KeepsIfRemoved DEF s
<1> QED
  BY <1>8 DEF m, u

\* Every step keeps the punctuations in front of the items.
LEMMA StepKeepsPuncts ==
    ASSUME IInv, Step
    PROVE  Keeps(list, list')
<1>1. list \in Lists /\ ListLen(list) \in Nat /\ walk.idx \in Nat /\ walk.idx <= ListLen(list)
  BY ItemsAreGot DEF IInv, TypeOK, WalkInside
<1>2. ASSUME list' = list
      PROVE  Keeps(list, list')
  BY <1>1, <1>2, KeepsItself
<1>3. CASE CallFirst \/ CallLast \/ \E index \in 0 .. ListLen(list) : CallGet(index)
  BY <1>2, <1>3 DEF CallFirst, CallLast, CallGet, Answers
<1>4. ASSUME NEW index \in 0 .. ListLen(list), CallRemove(index)
      PROVE  Keeps(list, list')
  <2>1. index \in Nat
    BY <1>1
  <2>2. list' = ListRemove(list, index)
    BY <1>4 DEF CallRemove
  <2> QED
    BY <1>1, <2>1, <2>2, RemoveKeeps
<1>5. ASSUME NEW index \in 0 .. ListLen(list), NEW item \in Item, CallGetMut(index, item)
      PROVE  Keeps(list, list')
  <2>1. index \in Nat
    BY <1>1
  <2>2. list' = ListSet(list, index, item)
    BY <1>5 DEF CallGetMut, Edits
  <2> QED
    BY <1>1, <2>1, <2>2, SetKeeps
<1>6. ASSUME NEW index \in 0 .. ListLen(list), NEW item \in Item, CallInsert(index, item)
      PROVE  Keeps(list, list')
  <2>1. list' = ListInsert(list, index, item)
    BY <1>6 DEF CallInsert, Edits
  <2> QED
    BY <1>1, <2>1, InsertKeeps
<1>7. ASSUME NEW item \in Item, CallLastMut(item)
      PROVE  Keeps(list, list')
  <2>1. list' = ListSetLast(list, item)
    BY <1>7 DEF CallLastMut, Edits
  <2>2. CASE ~list.some
    BY <1>1, <1>2, <2>1, <2>2, LastIsAtTheEnd
  <2>3. CASE list.some
    <3>1. ListLen(list) - 1 \in Nat /\ list' = ListSet(list, ListLen(list) - 1, item)
      BY <1>1, <2>1, <2>3, LastIsAtTheEnd
    <3> QED
      BY <1>1, <3>1, SetKeeps
  <2> QED
    BY <2>2, <2>3
<1>8. ASSUME NEW item \in Item, CallPush(item)
      PROVE  Keeps(list, list')
  <2>1. list' = ListInsert(list, ListLen(list), item)
    BY <1>1, <1>8, PushInserts DEF CallPush, Edits
  <2>2. ListLen(list) \in 0 .. ListLen(list)
    BY <1>1
  <2> QED
    BY <1>1, <2>1, <2>2, InsertKeeps
<1>9. ASSUME NEW item \in Item, NEW keep \in BOOLEAN, RetainItem(item, keep)
      PROVE  Keeps(list, list')
  <2>1. walk.idx < ListLen(list)
    BY <1>9 DEF RetainItem
  <2>2. CASE keep
    <3>1. list' = ListSet(list, walk.idx, item)
      BY <1>9, <2>2 DEF RetainItem
    <3> QED
      BY <1>1, <3>1, SetKeeps
  <2>3. CASE ~keep
    <3>1. list' = ListRemove(ListSet(list, walk.idx, item), walk.idx)
      BY <1>9, <2>3 DEF RetainItem
    <3> QED
      BY <1>1, <2>1, <3>1, RetainKeeps
  <2> QED
    BY <2>2, <2>3
<1>10. ASSUME NEW item \in Item, IterItem(item)
       PROVE  Keeps(list, list')
  <2>1. list' = ListSet(list, walk.idx, item)
    BY <1>10 DEF IterItem
  <2> QED
    BY <1>1, <2>1, SetKeeps
<1>11. ASSUME NEW index \in 0 .. MaxLen, NEW item \in Item, EditYielded(index, item)
       PROVE  Keeps(list, list')
  <2>1. index \in Nat /\ list' = ListSet(list, index, item)
    BY <1>11, MaxLenAssumption DEF EditYielded
  <2> QED
    BY <1>1, <2>1, SetKeeps
<1>12. CASE CallRetainMut \/ CallViewIterMut \/ RetainReturns \/ GiveUp
  BY <1>2, <1>12 DEF CallRetainMut, CallViewIterMut, Starts, RetainReturns, GiveUp, Ends
<1> QED
  BY <1>3, <1>4, <1>5, <1>6, <1>7, <1>8, <1>9, <1>10, <1>11, <1>12 DEF Step

\* Whatever a visitor does around it, an item that is behind another before and
\* after a step keeps the punctuation in front of it.
THEOREM PunctsAreKept == Spec => PunctsStayInFront
<1>1. ASSUME IInv, [Step]_vars
      PROVE  [PunctsStay]_vars
  <2>1. CASE Step
    <3>1. Keeps(list, list')
      BY <1>1, <2>1, StepKeepsPuncts
    <3> QED
      BY <3>1 DEF Keeps, PunctBefore, PunctsStay
  <2>2. CASE UNCHANGED vars
    BY <2>2
  <2> QED
    BY <1>1, <2>1, <2>2
<1> QED
  BY <1>1, Invariance, PTL DEF Spec, PunctsStayInFront
=============================================================================
