-------------------------- MODULE DiscoveryProofs ---------------------------
(***************************************************************************)
(* Proofs about VisitorDiscovery, for any types and definitions: nothing is*)
(* fetched twice, what is generated is closed, and the exchange of macro   *)
(* calls implements TypeClosure.  What was met is one sequence, `done`,    *)
(* then `fetching`, then `rest`: a step moves the borders or appends to it.*)
(***************************************************************************)
EXTENDS VisitorDiscovery, SequenceTheorems, TLAPS

\* --- sequences ---

\* The elements of a concatenation are those of its parts.
LEMMA RangeOfConcat ==
    ASSUME NEW S, NEW s \in Seq(S), NEW t \in Seq(S)
    PROVE  /\ s \o t \in Seq(S)
           /\ Range(s \o t) = Range(s) \cup Range(t)
<1>1. s \o t \in Seq(S)
    BY ConcatProperties
<1>2. ASSUME NEW x \in Range(s \o t) PROVE x \in Range(s) \cup Range(t)
    BY <1>2 DEF Range
<1>3. ASSUME NEW x \in Range(s) PROVE x \in Range(s \o t)
    <2>1. PICK i \in 1..Len(s) : s[i] = x
        BY <1>3 DEF Range
    <2>2. i \in DOMAIN (s \o t) /\ (s \o t)[i] = x
        BY <2>1
    <2> QED
        BY <2>2 DEF Range
<1>4. ASSUME NEW x \in Range(t) PROVE x \in Range(s \o t)
    <2>1. PICK i \in 1..Len(t) : t[i] = x
        BY <1>4 DEF Range
    <2>2. Len(s) + i \in DOMAIN (s \o t) /\ (s \o t)[Len(s) + i] = x
        BY <2>1
    <2> QED
        BY <2>2 DEF Range
<1> QED
    BY <1>1, <1>2, <1>3, <1>4

\* A sequence is its head followed by its tail.
LEMMA HeadThenTail ==
    ASSUME NEW S, NEW s \in Seq(S), s # <<>>
    PROVE  /\ Head(s) \in S /\ Tail(s) \in Seq(S) /\ <<Head(s)>> \in Seq(S)
           /\ <<Head(s)>> \o Tail(s) = s
<1> DEFINE one == <<Head(s)>>
           others == Tail(s)
<1>1. /\ Head(s) \in S /\ others \in Seq(S) /\ one \in Seq(S)
      /\ Head(s) = s[1]
  BY HeadTailProperties
<1>2. /\ Len(one) = 1 /\ one[1] = s[1] /\ Len(s) \in Nat /\ Len(others) = Len(s) - 1
      /\ \A i \in 1 .. Len(s) - 1 : others[i] = s[i + 1]
  BY <1>1, HeadTailProperties, LenProperties
<1> HIDE DEF one, others
<1>3. /\ one \o others \in Seq(S) /\ Len(one \o others) = Len(one) + Len(others)
      /\ \A i \in 1 .. Len(one) + Len(others) :
            (one \o others)[i] = IF i <= Len(one) THEN one[i] ELSE others[i - Len(one)]
  BY <1>1, ConcatProperties
<1>4. ASSUME NEW i \in 1 .. Len(s)
      PROVE  (one \o others)[i] = s[i]
  <2>1. (one \o others)[i] = IF i <= 1 THEN one[i] ELSE others[i - 1]
    BY <1>2, <1>3
  <2>2. i > 1 => i - 1 \in 1 .. Len(s) - 1 /\ (i - 1) + 1 = i
    BY <1>2
  <2> QED
    BY <1>2, <2>1, <2>2
<1>5. one \o others = s
  BY <1>2, <1>3, <1>4, SeqEqual
<1> QED
  BY <1>1, <1>5 DEF one, others

\* Moving the head of a sequence to the one before it changes nothing of the whole.
LEMMA HeadMoves ==
    ASSUME NEW S, NEW s \in Seq(S), NEW t \in Seq(S), t # <<>>
    PROVE  (s \o <<Head(t)>>) \o Tail(t) = s \o t
<1>1. /\ Head(t) \in S /\ Tail(t) \in Seq(S) /\ <<Head(t)>> \in Seq(S)
    BY HeadThenTail
<1>2. <<Head(t)>> \o Tail(t) = t
    BY HeadThenTail
<1> QED
    BY <1>1, <1>2, ConcatAssociative

\* The elements of a sequence are its head and those of its tail.
LEMMA RangeOfTail ==
    ASSUME NEW S, NEW s \in Seq(S), s # <<>>
    PROVE  /\ Head(s) \in S /\ Tail(s) \in Seq(S)
           /\ Range(s) = {Head(s)} \cup Range(Tail(s))
<1>1. Head(s) \in S /\ Tail(s) \in Seq(S) /\ <<Head(s)>> \in Seq(S)
    BY HeadThenTail
<1>2. <<Head(s)>> \o Tail(s) = s
    BY HeadThenTail
<1>3. Range(<<Head(s)>>) = {Head(s)}
    BY DEF Range
<1>4. Range(<<Head(s)>> \o Tail(s)) = Range(<<Head(s)>>) \cup Range(Tail(s))
    <2> DEFINE one == <<Head(s)>>
               others == Tail(s)
    <2>1. one \in Seq(S) /\ others \in Seq(S)
        BY <1>1
    <2> HIDE DEF one, others
    <2>2. Range(one \o others) = Range(one) \cup Range(others)
        BY ONLY <2>1, RangeOfConcat
    <2> QED
        BY <2>2 DEF one, others
<1> QED
    BY <1>1, <1>2, <1>3, <1>4

\* The one element of a sequence of one.
LEMMA RangeOfOne ==
    ASSUME NEW S, NEW x \in S
    PROVE  <<x>> \in Seq(S) /\ Range(<<x>>) = {x}
    BY DEF Range
\* What a sequence is with one element more.
LEMMA AppendOne ==
    ASSUME NEW S, NEW s \in Seq(S), NEW x \in S
    PROVE  Append(s, x) = s \o <<x>>
<1> DEFINE xs == <<x>>
<1>1. xs \in Seq(S) /\ Append(s, x) \in Seq(S)
    BY RangeOfOne
<1>2. s \o xs \in Seq(S)
    BY <1>1, ConcatProperties
<1>3. Len(Append(s, x)) = Len(s \o xs) /\ \A i \in 1..Len(Append(s, x)) : Append(s, x)[i] = (s \o xs)[i]
    OBVIOUS
<1> QED
    BY <1>1, <1>2, <1>3, SeqEqual

\* Its elements.
LEMMA Appended ==
    ASSUME NEW S, NEW s \in Seq(S), NEW x \in S
    PROVE  Range(Append(s, x)) = Range(s) \cup {x}
<1> DEFINE xs == <<x>>
<1>1. xs \in Seq(S) /\ Range(xs) = {x}
    BY RangeOfOne
<1>2. Append(s, x) = s \o xs
    BY AppendOne
<1> HIDE DEF xs
<1>3. s \o xs \in Seq(S) /\ Range(s \o xs) = Range(s) \cup Range(xs)
    BY <1>1, RangeOfConcat
<1> QED
    BY <1>1, <1>2, <1>3

\* An element appended to the last of three sequences is appended to all of them.
LEMMA QueueGrows ==
    ASSUME NEW S, NEW s \in Seq(S), NEW t \in Seq(S), NEW x \in S
    PROVE  s \o Append(t, x) = Append(s \o t, x)
<1>1. <<x>> \in Seq(S) /\ s \o t \in Seq(S)
    BY RangeOfOne, RangeOfConcat
<1>2. Append(t, x) = t \o <<x>>
    BY AppendOne
<1>3. (s \o t) \o <<x>> = s \o (t \o <<x>>)
    BY <1>1, ConcatAssociative
<1> DEFINE st == s \o t
<1>4. st \in Seq(S)
    BY <1>1
<1> HIDE DEF st
<1>5. Append(st, x) = st \o <<x>>
    BY <1>4, AppendOne
<1> QED
    BY <1>2, <1>3, <1>5 DEF st

\* --- the inductive invariant ---

Known == (done \o fetching) \o rest

\* Once the base has answered, the methods are those of the listed and the inherited types.
Inherits == phase \notin {"entry", "base"} => inherited = request.heads

Distinct == \A i, j \in DOMAIN Known : Key(Known[i]) = Key(Known[j]) => i = j

Leading(paths) == UNION {Range(Followed(p, Methods)) : p \in paths}

\* Nothing that has to be found is forgotten, and what is being looked at is the rest of what
\* the fetched type leads to.
Pending ==
    /\ phase # "entry" => Range(request.types) \subseteq Range(Known)
    /\ Leading(Range(done)) \subseteq Range(Known)
    /\ phase = "look" =>
          /\ Range(looking) \subseteq Leading(Range(fetching))
          /\ Leading(Range(fetching)) \subseteq Range(Known) \cup Range(looking)

\* Nothing is found that nobody leads to.
Met ==
    LET met == Range(request.types) \cup Leading(Range(done))
    IN  /\ Range(fetching) \subseteq met
        /\ Range(rest) \subseteq IF phase = "look" THEN met \cup Leading(Range(fetching)) ELSE met

Started ==
    /\ phase \in {"entry", "base"} => done = <<>> /\ fetching = <<>>
    /\ phase = "entry" => rest = <<>>
Finished == phase = "generate" => rest = <<>> /\ fetching = <<>>

IInv == TypeOK /\ request \in Requests /\ Inherits /\ Started /\ Finished /\ Distinct /\ Pending /\ Met

\* What is known is the recorded, the fetched and the queued types.
LEMMA KnownRange ==
    ASSUME NEW d \in Seq(Paths), NEW f \in Seq(Paths), NEW r \in Seq(Paths)
    PROVE  /\ (d \o f) \o r \in Seq(Paths)
           /\ Range((d \o f) \o r) = Range(d) \cup Range(f) \cup Range(r)
<1>1. d \o f \in Seq(Paths) /\ Range(d \o f) = Range(d) \cup Range(f)
    BY RangeOfConcat
<1> DEFINE df == d \o f
<1>2. df \in Seq(Paths) /\ Range(df) = Range(d) \cup Range(f)
    BY <1>1
<1> HIDE DEF df
<1>3. df \o r \in Seq(Paths) /\ Range(df \o r) = Range(df) \cup Range(r)
    BY <1>2, RangeOfConcat
<1> QED
    BY <1>2, <1>3 DEF df

\* What is fetched is a sequence of at most one type.
LEMMA FetchingSeq ==
    /\ Nothing \in Seq(Paths) /\ Range(Nothing) = {}
    /\ \A p \in Paths : <<p>> \in Seq(Paths) /\ <<p>> # Nothing /\ Range(<<p>>) = {p}
<1>1. Nothing \in Seq(Paths) /\ Range(Nothing) = {}
    BY DEF Nothing, Range
<1>2. ASSUME NEW p \in Paths PROVE <<p>> \in Seq(Paths) /\ <<p>> # Nothing /\ Range(<<p>>) = {p}
    BY RangeOfOne DEF Nothing
<1> QED
    BY <1>1, <1>2

\* The same of a state.
LEMMA KnownParts ==
    ASSUME TypeOK
    PROVE  Range(Known) = Range(done) \cup Range(fetching) \cup Range(rest)
<1>1. fetching \in Seq(Paths)
    BY FetchingSeq DEF TypeOK
<1>2. done \in Seq(Paths) /\ rest \in Seq(Paths)
    BY DEF TypeOK
<1> QED
    BY <1>1, <1>2, KnownRange DEF Known

\* Before visitor! is entered nothing is known.
LEMMA InitIInv ==
    ASSUME Init
    PROVE  IInv
<1>1. request \in Requests /\ request.types \in Seq(Paths) /\ request.based \in BOOLEAN
    BY Requested DEF Init
<1>2. TypeOK
    BY <1>1, FetchingSeq DEF Init, TypeOK, Nothing
<1>3. Known = <<>> /\ Range(Known) = {} /\ Range(done) = {} /\ Range(fetching) = {} /\ Range(rest) = {}
    <2>1. Known = <<>>
        BY DEF Init, Known, Nothing
    <2> QED
        BY <2>1 DEF Init, Range, Nothing
<1>4. Distinct
    BY <1>3 DEF Distinct
<1>5. Pending /\ Met
    BY <1>3 DEF Init, Pending, Met, Leading
<1> QED
    BY <1>1, <1>2, <1>4, <1>5 DEF Init, IInv, Inherits, Started, Finished, Nothing

\* A visitor is entered: what it lists is queued, the first of it fetched at once or not.
LEMMA EntryIInv ==
    ASSUME IInv, EntryWithBase \/ EntryWithoutBase
    PROVE  IInv'
<1> DEFINE types == request.types
<1>1. /\ request \in Requests /\ types \in Seq(Paths) /\ types # <<>> /\ request.based \in BOOLEAN
      /\ \A i, j \in DOMAIN types : Key(types[i]) = Key(types[j]) => i = j
      /\ ~request.based => request.heads = {}
    BY Requested DEF IInv
<1>2. request' = request /\ inherited' = inherited /\ done' = done /\ looking' = looking /\ done = <<>>
    BY DEF IInv, Started, EntryWithBase, EntryWithoutBase
<1>3. Head(types) \in Paths /\ Tail(types) \in Seq(Paths)
    BY <1>1, RangeOfTail
<1>4. TypeOK' /\ fetching' \in Seq(Paths)
    <2>1. fetching = Nothing /\ TypeOK
        BY DEF IInv, Started, TypeOK, EntryWithBase, EntryWithoutBase, Nothing
    <2> QED
        BY <2>1, <1>1, <1>2, <1>3, FetchingSeq DEF TypeOK, EntryWithBase, EntryWithoutBase
<1>5. Known' = types
    <2>1. CASE EntryWithBase
        BY <2>1, <1>1, <1>2, ConcatEmptySeq DEF EntryWithBase, IInv, Started, Known
    <2>2. CASE EntryWithoutBase
        <3>1. Known' = (<<>> \o <<Head(types)>>) \o Tail(types)
            BY <2>2, <1>2 DEF EntryWithoutBase, Known
        <3>2. (<<>> \o <<Head(types)>>) \o Tail(types) = <<>> \o types
            BY <1>1, HeadMoves, EmptySeq
        <3> QED
            BY <3>1, <3>2, <1>1, ConcatEmptySeq
    <2> QED
        BY <2>1, <2>2
<1>6. Range(done) = {} /\ Range(done') = {}
    BY <1>2 DEF Range
<1>7. Range(types) = Range(fetching') \cup Range(rest')
    <2>1. Range(Known') = Range(done') \cup Range(fetching') \cup Range(rest')
        BY <1>4, KnownRange DEF TypeOK, Known
    <2> QED
        BY <2>1, <1>5, <1>6
<1>8. Inherits'
    BY <1>1, <1>2 DEF IInv, TypeOK, Inherits, EntryWithBase, EntryWithoutBase
<1>9. Distinct'
    BY <1>1, <1>5 DEF Distinct
<1>10. Pending' /\ Met'
    BY <1>2, <1>5, <1>6, <1>7 DEF Pending, Met, Leading, EntryWithBase, EntryWithoutBase
<1>11. Started' /\ Finished'
    BY <1>2 DEF Started, Finished, EntryWithBase, EntryWithoutBase, IInv
<1> QED
    BY <1>1, <1>2, <1>4, <1>8, <1>9, <1>10, <1>11 DEF IInv

\* After the base was asked, Known and the methods do not depend on it any more.
LEMMA Settled ==
    ASSUME IInv, phase \notin {"entry", "base"}
    PROVE  /\ Methods = MethodsOf(request.types, request.heads)
           /\ request \in Requests
           /\ \A p \in Paths : Followed(p, Methods) \in Seq(Paths)
    BY FollowedExists DEF IInv, Inherits, Methods

\* The base answers with what it visits: nothing is known yet.
LEMMA BaseIInv ==
    ASSUME IInv, BaseAnswers
    PROVE  IInv'
<1>1. done = <<>> /\ fetching = <<>> /\ Range(done) = {} /\ Range(fetching) = {}
    BY DEF IInv, Started, BaseAnswers, Range
<1>2. /\ request' = request /\ done' = done /\ rest' = rest /\ looking' = looking
      /\ fetching' = fetching /\ inherited' = request.heads /\ phase = "base" /\ phase' = "next"
    BY DEF BaseAnswers
<1>3. TypeOK'
    BY <1>1, <1>2 DEF IInv, TypeOK, Nothing
<1>4. Known' = Known
    BY <1>2 DEF Known
<1>5. Pending'
    BY <1>1, <1>2, <1>4 DEF IInv, Pending, Leading
<1>6. Met'
    BY <1>1, <1>2 DEF IInv, Met, Leading
<1>7. Distinct'
    BY <1>4 DEF IInv, Distinct
<1> QED
    BY <1>1, <1>2, <1>3, <1>5, <1>6, <1>7 DEF IInv, Inherits, Started, Finished

\* The definition arrives: what it leads to is still to be looked at.
LEMMA TypeIInv ==
    ASSUME IInv, TypeAnswers
    PROVE  IInv'
<1>1. /\ request' = request /\ done' = done /\ rest' = rest /\ inherited' = inherited
      /\ fetching' = fetching /\ phase = "ast" /\ phase' = "look"
    BY DEF TypeAnswers
<1>2. PICK p \in Paths : fetching = <<p>>
    BY <1>1 DEF IInv, TypeOK
<1>3. looking' = Followed(p, Methods) /\ looking' \in Seq(Paths)
    BY <1>1, <1>2, Settled DEF TypeAnswers
<1>4. Methods' = Methods /\ Known' = Known
    BY <1>1 DEF Methods, Known
<1>5. Range(fetching) = {p} /\ Leading(Range(fetching)) = Range(looking')
    BY <1>2, <1>3, FetchingSeq DEF Leading
<1>6. \A paths : Leading(paths)' = Leading(paths)
    BY <1>4 DEF Leading
<1>7. TypeOK'
    BY <1>1, <1>3 DEF IInv, TypeOK
<1>8. Pending'
    BY <1>1, <1>4, <1>5, <1>6 DEF IInv, Pending, Leading
<1>9. Met'
    BY <1>1, <1>4 DEF IInv, Met, Leading
<1>10. Distinct'
    BY <1>4 DEF IInv, Distinct
<1> QED
    BY <1>1, <1>7, <1>8, <1>9, <1>10 DEF IInv, Inherits, Started, Finished

\* A type that is led to is looked at: it is known already, or queued.
LEMMA LookIInv ==
    ASSUME LeadsElsewhere, KeysTell, IInv, Look
    PROVE  IInv'
<1> DEFINE x == Head(looking)
<1>1. /\ request' = request /\ done' = done /\ inherited' = inherited /\ fetching' = fetching
      /\ phase = "look" /\ phase' = "look" /\ looking # <<>> /\ looking' = Tail(looking)
    BY DEF Look
<1>2. PICK p \in Paths : fetching = <<p>>
    BY <1>1 DEF IInv, TypeOK
<1>3. /\ x \in Paths /\ looking' \in Seq(Paths)
      /\ Range(looking) = {x} \cup Range(looking')
    BY <1>1, RangeOfTail DEF IInv, TypeOK
<1>4. Methods' = Methods /\ (\A paths : Leading(paths)' = Leading(paths))
    BY <1>1 DEF Methods, Leading
<1>5. Range(fetching) = {p} /\ Leading(Range(fetching)) = Range(Followed(p, Methods))
    BY <1>2, FetchingSeq DEF Leading
<1>6. x \in Leading(Range(fetching)) /\ Key(x) # Key(p)
    <2>1. x \in Range(Followed(p, Methods))
        BY <1>1, <1>3, <1>5 DEF IInv, Pending
    <2>2. Methods = MethodsOf(request.types, request.heads) /\ request \in Requests
        BY <1>1, Settled
    <2> HIDE DEF x
    <2> QED
        BY <2>1, <2>2, <1>5 DEF LeadsElsewhere
<1>7. /\ Known \in Seq(Paths) /\ fetching \in Seq(Paths) /\ rest \in Seq(Paths) /\ done \in Seq(Paths)
      /\ Range(Known) = Range(done) \cup {p} \cup Range(rest)
    <2>1. fetching \in Seq(Paths) /\ rest \in Seq(Paths) /\ done \in Seq(Paths)
        BY <1>2, FetchingSeq DEF IInv, TypeOK
    <2> QED
        BY <2>1, <1>5, KnownRange DEF Known
<1>8. Leading(Range(done))' = Leading(Range(done)) /\ Leading(Range(fetching))' = Leading(Range(fetching))
    BY <1>1 DEF Leading, Methods
<1>9. CASE Key(x) \in KeysIn(done) \cup KeysIn(rest)
    <2>1. rest' = rest /\ Known' = Known
        BY <1>1, <1>9 DEF Look, Known
    <2>2. x \in Range(Known)
        <3>1. PICK y \in Range(done) \cup Range(rest) : Key(y) = Key(x)
            BY <1>9 DEF KeysIn, Range
        <3>2. y \in Paths
            BY <1>7 DEF Range
        <3> QED
            BY <3>1, <3>2, <1>3, <1>7 DEF KeysTell
    <2>3. TypeOK'
        BY <1>1, <1>3, <2>1 DEF IInv, TypeOK
    <2>4. Pending' /\ Met'
        BY <1>1, <1>3, <1>8, <2>1, <2>2 DEF IInv, Pending, Met
    <2>5. Distinct'
        BY <2>1 DEF IInv, Distinct
    <2> QED
        BY <1>1, <2>3, <2>4, <2>5 DEF IInv, Inherits, Started, Finished
<1>10. CASE Key(x) \notin KeysIn(done) \cup KeysIn(rest)
    <2>1. rest' = Append(rest, x) /\ rest' \in Seq(Paths) /\ Range(rest') = Range(rest) \cup {x}
        <3>1. rest' = Append(rest, x)
            BY <1>1, <1>10 DEF Look
        <3> HIDE DEF x
        <3>2. rest \in Seq(Paths) /\ x \in Paths
            BY <1>3, <1>7
        <3>3. Range(Append(rest, x)) = Range(rest) \cup {x}
            BY <3>2, Appended
        <3> QED
            BY <3>1, <3>2, <3>3
    <2>2. Known' = Append(Known, x) /\ Range(Known') = Range(Known) \cup {x}
        <3> HIDE DEF x
        <3>1. done \o fetching \in Seq(Paths)
            BY <1>7, RangeOfConcat
        <3>2. (done \o fetching) \o Append(rest, x) = Append((done \o fetching) \o rest, x)
            BY <3>1, <1>3, <1>7, QueueGrows
        <3>3. Known' = Append(Known, x)
            BY <3>2, <2>1, <1>1 DEF Known
        <3>4. Known \in Seq(Paths) /\ x \in Paths
            BY <1>3, <1>7
        <3>5. Range(Append(Known, x)) = Range(Known) \cup {x}
            BY <3>4, Appended
        <3> QED
            BY <3>3, <3>5
    <2>3. TypeOK'
        BY <1>1, <1>3, <2>1 DEF IInv, TypeOK
    <2>4. Pending' /\ Met'
        BY <1>1, <1>3, <1>6, <1>8, <2>1, <2>2 DEF IInv, Pending, Met
    <2>5. \A y \in Range(Known) : Key(y) # Key(x)
        BY <1>6, <1>7, <1>10 DEF KeysIn, Range
    <2>6. Distinct'
        <3> DEFINE known == Known
        <3>1. \A i, j \in 1..Len(known) : Key(known[i]) = Key(known[j]) => i = j
            BY <1>7 DEF IInv, Distinct
        <3>2. \A i \in 1..Len(known) : Key(known[i]) # Key(x)
            BY <1>7, <2>5 DEF Range
        <3>3. known \in Seq(Paths)
            BY <1>7
        <3> HIDE DEF known, x
        <3>4. ASSUME NEW i \in 1..(Len(known) + 1), NEW j \in 1..(Len(known) + 1),
                     Key(Append(known, x)[i]) = Key(Append(known, x)[j])
              PROVE  i = j
            <4>1. \A k \in 1..(Len(known) + 1) :
                     Append(known, x)[k] = IF k = Len(known) + 1 THEN x ELSE known[k]
                BY <3>3
            <4> QED
                BY <4>1, <3>1, <3>2, <3>4, <3>3
        <3>5. DOMAIN Append(known, x) = 1..(Len(known) + 1)
            BY <3>3
        <3> QED
            BY <3>4, <3>5, <2>2 DEF Distinct, known
    <2> QED
        BY <1>1, <2>3, <2>4, <2>6 DEF IInv, Inherits, Started, Finished
<1> QED
    BY <1>9, <1>10

\* All that the fetched type leads to was looked at: it is recorded.
LEMMA RecordIInv ==
    ASSUME IInv, Record
    PROVE  IInv'
<1>1. /\ request' = request /\ done' = Append(done, fetching[1]) /\ inherited' = inherited
      /\ fetching' = Nothing /\ rest' = rest /\ looking' = looking
      /\ phase = "look" /\ phase' = "next" /\ looking = <<>>
    BY DEF Record
<1>2. PICK p \in Paths : fetching = <<p>>
    BY <1>1 DEF IInv, TypeOK
<1>3. done \in Seq(Paths) /\ rest \in Seq(Paths) /\ fetching \in Seq(Paths) /\ Range(fetching) = {p}
    BY <1>2, FetchingSeq DEF IInv, TypeOK
<1>4. done' = done \o fetching /\ done' \in Seq(Paths) /\ Range(done') = Range(done) \cup Range(fetching)
    <2>1. done' = done \o fetching
        <3>1. done' = Append(done, p)
            BY <1>1, <1>2
        <3> QED
            BY <3>1, <1>2, <1>3, AppendOne
    <2> QED
        BY <2>1, <1>3, RangeOfConcat
<1>5. Known' = Known /\ Range(fetching') = {}
    BY <1>1, <1>4, ConcatEmptySeq, FetchingSeq DEF Known, Nothing
<1>6. /\ Leading(Range(done))' = Leading(Range(done)) \cup Leading(Range(fetching))
      /\ Leading(Range(fetching))' = {}
    BY <1>1, <1>4, <1>5 DEF Leading, Methods
<1>7. TypeOK'
    BY <1>1, <1>4, FetchingSeq DEF IInv, TypeOK
<1>8. Range(looking) = {}
    BY <1>1 DEF Range
<1>9. Pending' /\ Met'
    BY <1>1, <1>4, <1>5, <1>6, <1>8 DEF IInv, Pending, Met
<1>10. Distinct'
    BY <1>5 DEF IInv, Distinct
<1> QED
    BY <1>1, <1>7, <1>9, <1>10 DEF IInv, Inherits, Started, Finished

\* The next type is fetched.
LEMMA FetchIInv ==
    ASSUME IInv, FetchNext
    PROVE  IInv'
<1>1. /\ request' = request /\ done' = done /\ inherited' = inherited /\ looking' = looking
      /\ fetching' = <<Head(rest)>> /\ rest' = Tail(rest) /\ rest # <<>>
      /\ phase = "next" /\ phase' = "ast"
    BY DEF FetchNext
<1>2. fetching = Nothing /\ done \in Seq(Paths) /\ rest \in Seq(Paths)
    BY <1>1 DEF IInv, TypeOK
<1>3. Head(rest) \in Paths /\ rest' \in Seq(Paths) /\ Range(rest) = {Head(rest)} \cup Range(rest')
    BY <1>1, <1>2, RangeOfTail
<1>4. Range(fetching') = {Head(rest)} /\ Range(fetching) = {}
    BY <1>1, <1>2, <1>3, FetchingSeq
<1>5. Known' = Known
    <2>1. Known = done \o rest
        BY <1>2, ConcatEmptySeq DEF Known, Nothing
    <2>2. Known' = (done \o <<Head(rest)>>) \o Tail(rest)
        BY <1>1 DEF Known
    <2> QED
        BY <2>1, <2>2, <1>1, <1>2, HeadMoves
<1>6. Leading(Range(done))' = Leading(Range(done))
    BY <1>1 DEF Leading, Methods
<1>7. TypeOK'
    BY <1>1, <1>3, FetchingSeq DEF IInv, TypeOK
<1>8. Pending' /\ Met'
    BY <1>1, <1>3, <1>4, <1>5, <1>6 DEF IInv, Pending, Met
<1>9. Distinct'
    BY <1>5 DEF IInv, Distinct
<1> QED
    BY <1>1, <1>7, <1>8, <1>9 DEF IInv, Inherits, Started, Finished

\* Nothing is left to fetch, or nothing happens.
LEMMA StillIInv ==
    ASSUME IInv, Generate \/ UNCHANGED vars
    PROVE  IInv'
<1>1. /\ request' = request /\ done' = done /\ inherited' = inherited /\ looking' = looking
      /\ fetching' = fetching /\ rest' = rest
      /\ phase' = phase \/ (phase = "next" /\ phase' = "generate" /\ rest = <<>>)
    BY DEF Generate, vars
<1>2. Methods' = Methods /\ Known' = Known
    BY <1>1 DEF Methods, Known
<1>3. TypeOK'
    BY <1>1 DEF IInv, TypeOK
<1>4. Pending' /\ Met'
    BY <1>1, <1>2 DEF IInv, Pending, Met, Leading
<1>5. Distinct'
    BY <1>2 DEF IInv, Distinct
<1>6. Inherits' /\ Started' /\ Finished'
    BY <1>1 DEF IInv, TypeOK, Nothing, Inherits, Started, Finished
<1> QED
    BY <1>1, <1>3, <1>4, <1>5, <1>6 DEF IInv

\* Every step preserves the invariant.
LEMMA StepIInv ==
    ASSUME LeadsElsewhere, KeysTell, IInv, [Next]_vars
    PROVE  IInv'
    BY EntryIInv, BaseIInv, TypeIInv, LookIInv, RecordIInv, FetchIInv, StillIInv DEF Next, Stopped

THEOREM Inductive ==
    ASSUME KeysTell, LeadsElsewhere
    PROVE  Spec => []IInv
<1>1. Init => IInv
    BY InitIInv
<1>2. IInv /\ [Next]_vars => IInv'
    BY StepIInv
<1> QED
    BY <1>1, <1>2, PTL DEF Spec

\* --- what follows from it ---

\* The state of the exchange is well typed, and a type is being fetched exactly while its
\* definition is on the way (@fetching, build_input.rs).
THEOREM TypeCorrect ==
    ASSUME KeysTell, LeadsElsewhere
    PROVE  Spec => []TypeOK
<1>1. IInv => TypeOK
    BY DEF IInv
<1> QED
    BY <1>1, Inductive, PTL

\* The part of what is known that is recorded.
LEMMA DoneIsKnown ==
    ASSUME IInv
    PROVE  /\ DOMAIN done \subseteq DOMAIN Known
           /\ \A i \in DOMAIN done : Known[i] = done[i]
<1>1. TypeOK
    BY DEF IInv
<1>2. fetching \in Seq(Paths) /\ done \in Seq(Paths) /\ rest \in Seq(Paths)
    BY <1>1, FetchingSeq DEF TypeOK
<1> DEFINE df == done \o fetching
<1>3. /\ df \in Seq(Paths) /\ Len(df) = Len(done) + Len(fetching)
      /\ \A i \in 1..Len(done) : df[i] = done[i]
    BY <1>2
<1>4. Known = df \o rest
    BY DEF Known
<1> HIDE DEF df
<1>5. Known \in Seq(Paths) /\ Len(Known) = Len(df) + Len(rest)
    BY <1>2, <1>3, <1>4
<1>6. \A i \in 1..Len(df) : Known[i] = df[i]
    BY <1>2, <1>3, <1>4
<1>7. DOMAIN Known = 1..Len(Known)
    BY <1>5
<1>8. DOMAIN done = 1..Len(done) /\ Len(done) \in Nat /\ Len(fetching) \in Nat /\ Len(rest) \in Nat
    BY <1>2
<1>9. \A i \in 1..Len(done) : i \in 1..Len(df) /\ i \in 1..Len(Known)
    BY <1>3, <1>5, <1>8
<1> QED
    BY <1>3, <1>6, <1>7, <1>8, <1>9

\* No definition is fetched and recorded twice (the `seen` set of build_input.rs).
THEOREM OnceEach ==
    ASSUME KeysTell, LeadsElsewhere
    PROVE  Spec => []FetchedOnce
<1>1. IInv => FetchedOnce
    <2> SUFFICES ASSUME IInv, NEW i \in DOMAIN done, NEW j \in DOMAIN done, Key(done[i]) = Key(done[j])
                 PROVE  i = j
        BY DEF FetchedOnce
    <2>1. i \in DOMAIN Known /\ j \in DOMAIN Known /\ Known[i] = done[i] /\ Known[j] = done[j]
        BY DoneIsKnown
    <2> QED
        BY <2>1 DEF IInv, Distinct
<1> QED
    BY <1>1, Inductive, PTL

\* Before a base has answered nothing is recorded; then the methods are what they will be.
LEMMA AllFound ==
    ASSUME IInv, phase = "next" \/ phase = "generate", rest = <<>>
    PROVE  /\ Range(request.types) \subseteq Range(done)
           /\ Leading(Range(done)) \subseteq Range(done)
<1>1. fetching = Nothing /\ done \in Seq(Paths) /\ rest \in Seq(Paths)
    BY DEF IInv, TypeOK
<1>2. fetching \in Seq(Paths) /\ Range(fetching) = {} /\ Range(rest) = {}
    BY <1>1, FetchingSeq DEF Range
<1>3. Range(Known) = Range(done)
    BY <1>2, KnownParts DEF IInv
<1> QED
    BY <1>3 DEF IInv, Pending

\* What the generator is handed is closed under "leads to" (followed_intermediates).
THEOREM ClosedWhenGenerated ==
    ASSUME KeysTell, LeadsElsewhere
    PROVE  Spec => []Closed
<1>1. IInv => Closed
    <2> SUFFICES ASSUME IInv, phase = "generate", NEW i \in DOMAIN done
                 PROVE  Range(Followed(done[i], Methods)) \subseteq Range(done)
        BY DEF Closed
    <2>1. rest = <<>>
        BY DEF IInv, Finished
    <2>2. Leading(Range(done)) \subseteq Range(done)
        BY <2>1, AllFound
    <2>3. done[i] \in Range(done)
        BY DEF Range
    <2> QED
        BY <2>2, <2>3 DEF Leading
<1> QED
    BY <1>1, Inductive, PTL

\* --- the refinement ---

\* What the abstract specification was asked for does not change.
LEMMA AskedStays ==
    ASSUME request' = request
    PROVE  Asked' = Asked
    BY DEF Asked, MethodsOf

LEMMA InitClosure ==
    ASSUME Init
    PROVE  Closure!Init
    BY DEF Init, Closure!Init, Range

\* Recording a type finds it.
LEMMA RecordFinds ==
    ASSUME IInv, Record
    PROVE  Closure!Find
<1>1. /\ request' = request /\ done' = Append(done, fetching[1])
      /\ phase = "look" /\ phase' = "next"
    BY DEF Record
<1>2. PICK p \in Paths : fetching = <<p>>
    BY <1>1 DEF IInv, TypeOK
<1>3. done \in Seq(Paths) /\ rest \in Seq(Paths) /\ fetching \in Seq(Paths) /\ Range(fetching) = {p}
    BY <1>2, FetchingSeq DEF IInv, TypeOK
<1>4. Range(done') = Range(done) \cup {p}
    <2>1. done' = Append(done, p)
        BY <1>1, <1>2
    <2>2. Range(Append(done, p)) = Range(done) \cup {p}
        BY <1>3, Appended
    <2> QED
        BY <2>1, <2>2
<1>5. Asked.types = Paths /\ Asked.listed = Range(request.types) /\ Asked.methods = Methods
    BY <1>1, Settled DEF Asked
<1>6. p \notin Range(done)
    <2> SUFFICES ASSUME NEW i \in 1..Len(done), done[i] = p PROVE FALSE
        BY <1>3 DEF Range
    <2> DEFINE df == done \o fetching
               at == Len(done) + 1
    <2>1. df \in Seq(Paths) /\ Len(df) = at /\ df[at] = p /\ df[i] = p
        BY <1>2, <1>3
    <2>2. Known = df \o rest
        BY DEF Known
    <2>3. i \in 1..at /\ at \in 1..at /\ i # at
        BY <1>3
    <2> HIDE DEF df, at
    <2>4. i \in DOMAIN Known /\ at \in DOMAIN Known /\ Known[i] = p /\ Known[at] = p
        BY <2>1, <2>2, <2>3, <1>3
    <2> QED
        BY <2>3, <2>4 DEF IInv, Distinct
<1>7. p \in Range(request.types) \/ \E q \in Range(done) : p \in Range(Followed(q, Methods))
    BY <1>3 DEF IInv, Met, Leading
<1>8. Closure!Wanted(p)
    BY <1>5, <1>7 DEF Closure!Wanted, Leads
<1> QED
    BY <1>1, <1>4, <1>5, <1>6, <1>8, AskedStays DEF Closure!Find

\* The generator is handed what was found when all that is wanted is.
LEMMA GenerateFinishes ==
    ASSUME IInv, Generate
    PROVE  Closure!Finish
<1>1. /\ request' = request /\ done' = done /\ rest = <<>>
      /\ phase = "next" /\ phase' = "generate"
    BY DEF Generate
<1>2. Asked.types = Paths /\ Asked.listed = Range(request.types) /\ Asked.methods = Methods
    BY <1>1, Settled DEF Asked
<1>3. Range(request.types) \subseteq Range(done) /\ Leading(Range(done)) \subseteq Range(done)
    BY <1>1, AllFound
<1>4. ASSUME NEW t \in Asked.types, Closure!Wanted(t) PROVE t \in Range(done)
    BY <1>2, <1>3, <1>4 DEF Closure!Wanted, Leads, Leading
<1> QED
    BY <1>1, <1>4, AskedStays DEF Closure!Finish

\* No other step shows.
LEMMA OtherStepsStutter ==
    ASSUME IInv, [Next]_vars, ~Record, ~Generate
    PROVE  UNCHANGED <<Asked, Range(done), phase = "generate">>
<1>1. request' = request /\ done' = done /\ ((phase' = "generate") <=> (phase = "generate"))
    BY DEF Next, EntryWithBase, EntryWithoutBase, BaseAnswers, TypeAnswers, Look, FetchNext, Stopped, vars
<1> QED
    BY <1>1, AskedStays

\* The exchange of macro calls hands the generator the closure of what was listed, no type less
\* and no type more.
THEOREM Implements ==
    ASSUME KeysTell, LeadsElsewhere
    PROVE  Spec => ImplementsTypeClosure
<1>1. Init => Closure!Init
    BY InitClosure
<1>2. IInv /\ [Next]_vars => [Closure!Next]_<<Asked, Range(done), phase = "generate">>
    BY RecordFinds, GenerateFinishes, OtherStepsStutter DEF Closure!Next
<1> QED
    BY <1>1, <1>2, Inductive, PTL DEF Spec, ImplementsTypeClosure, Closure!Spec

=============================================================================
