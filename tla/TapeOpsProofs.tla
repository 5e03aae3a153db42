--------------------------- MODULE TapeOpsProofs ---------------------------
(***************************************************************************)
(* Every operation of the tape preserves its invariant, one lemma per      *)
(* operation, and does to what is upcoming and to what the open            *)
(* checkpoints rewind to what RewindableStream says of it.  Nothing here   *)
(* depends on who calls the operations: TapeProofs uses these lemmas for   *)
(* one tape under any client, ParserProofs for those of a parse.           *)
(***************************************************************************)
EXTENDS TapeOps, SequenceTheorems, TLAPS

\* The invariant of a tape between two operations of its client.
TapeInv(t) ==
    /\ t \in Tapes
    /\ CursorsInOrder(t)
    /\ OnlyScopedRetention(t)
    /\ EndKnown(t)

\* What an operation establishes before its closing release: with no scope open
\* the cursor may have moved off the start of buf.
UnreleasedInv(t) ==
    /\ t \in Tapes
    /\ CursorsInOrder(t)
    /\ t.saves # <<>> => t.saves[1].pos = 0
    /\ EndKnown(t)

-----------------------------------------------------------------------------
\* The fields of a tape and of the snapshots it keeps.
LEMMA FieldTypes ==
    ASSUME NEW t \in Tapes
    PROVE  /\ t.iter \in Iterator /\ t.done \in BOOLEAN
           /\ t.buf \in Seq(Atom) /\ Len(t.buf) \in Nat
           /\ t.extra \in Seq(Atom) /\ Len(t.extra) \in Nat
           /\ t.pos \in Nat
           /\ t.saves \in Seq(Save) /\ Depth(t) \in Nat
           /\ Depth(t) = 0 <=> t.saves = <<>>
           /\ \A i \in 1 .. Depth(t) :
                 /\ t.saves[i].pos \in Nat
                 /\ t.saves[i].extra \in Seq(Atom)
<1>1. /\ t.iter \in Iterator /\ t.done \in BOOLEAN /\ t.buf \in Seq(Atom)
      /\ t.extra \in Seq(Atom) /\ t.pos \in Nat /\ t.saves \in Seq(Save)
  BY DEF Tapes
<1>2. \A i \in 1 .. Len(t.saves) : t.saves[i] \in Save
  BY <1>1, ElementOfSeq
<1>3. \A i \in 1 .. Len(t.saves) :
         t.saves[i].pos \in Nat /\ t.saves[i].extra \in Seq(Atom)
  BY <1>2 DEF Save
<1> QED
  BY <1>1, <1>3, EmptySeq, LenProperties DEF Depth

\* release turns the weaker invariant into the full one.
LEMMA ReleaseEstablishesInv ==
    ASSUME NEW t, UnreleasedInv(t)
    PROVE  TapeInv(TapeRelease(t)) /\ TapeRelease(t).iter = t.iter
<1>1. CASE t.saves = <<>> /\ t.pos > 0
  <2> DEFINE r == [t EXCEPT !.buf = SubSeq(t.buf, t.pos + 1, Len(t.buf)),
                            !.pos = 0]
  <2>1. TapeRelease(t) = r
    BY <1>1 DEF TapeRelease
  <2>2. SubSeq(t.buf, t.pos + 1, Len(t.buf)) \in Seq(Atom)
    <3>1. t.buf \in Seq(Atom) /\ t.pos \in Nat
      BY DEF UnreleasedInv, Tapes
    <3>2. t.pos + 1 \in Int /\ Len(t.buf) \in Int
      BY <3>1
    <3>3. \A i \in t.pos + 1 .. Len(t.buf) : t.buf[i] \in Atom
      BY <3>1, ElementOfSeq
    <3> QED
      BY <3>2, <3>3, SubSeqProperties
  <2>3. r \in Tapes /\ r.saves = <<>> /\ r.pos = 0 /\ r.iter = t.iter /\ r.done = t.done
    BY <1>1, <2>2 DEF UnreleasedInv, Tapes
  <2>4. Len(r.buf) \in Nat /\ Depth(r) = 0
    BY <2>3, EmptySeq DEF Tapes, Depth
  <2> HIDE DEF r
  <2>5. TapeInv(r)
    BY <2>3, <2>4
    DEF TapeInv, UnreleasedInv, CursorsInOrder, OnlyScopedRetention, EndKnown
  <2> QED
    BY <2>1, <2>3, <2>5
<1>2. CASE ~(t.saves = <<>> /\ t.pos > 0)
  BY <1>2 DEF TapeRelease, TapeInv, UnreleasedInv, OnlyScopedRetention, Tapes
<1> QED
  BY <1>1, <1>2

\* One poll of an iterator that has not ended.
LEMMA IterNextType ==
    ASSUME NEW it \in Iterator, ~it.ended
    PROVE  /\ IterNext(it).iter \in Iterator
           /\ IterNext(it).atom \in Answer
           /\ IterNext(it).iter.ended <=> IterNext(it).atom = NoAtom
<1>1. CASE it.left # <<>>
  BY <1>1, NoAtomAssumption, HeadTailProperties DEF IterNext, Iterator, Answer
<1>2. CASE it.left = <<>>
  BY <1>2 DEF IterNext, Iterator, Answer
<1> QED
  BY <1>1, <1>2

\* Pulling parks one more atom at the end of buf, or remembers the end.
LEMMA PullPreservesInv ==
    ASSUME NEW t, TapeInv(t), ~t.done
    PROVE  /\ TapeInv(TapePull(t))
           /\ IterNext(t.iter).atom # NoAtom =>
                 TapePull(t) = [t EXCEPT !.iter = IterNext(t.iter).iter,
                                         !.buf  = Append(t.buf, IterNext(t.iter).atom)]
<1> DEFINE pulled == IterNext(t.iter)
<1>1. /\ pulled.iter \in Iterator
      /\ pulled.atom \in Answer
      /\ pulled.iter.ended <=> pulled.atom = NoAtom
  BY IterNextType DEF TapeInv, EndKnown, Tapes
<1> HIDE DEF pulled
<1>2. CASE pulled.atom = NoAtom
  <2>1. TapePull(t) = [t EXCEPT !.iter = pulled.iter, !.done = TRUE]
    BY <1>2 DEF TapePull, pulled
  <2> QED
    BY <1>1, <1>2, <2>1
    DEF TapeInv, Tapes, CursorsInOrder, OnlyScopedRetention, EndKnown, Depth, pulled
<1>3. CASE pulled.atom # NoAtom
  <2>1. TapePull(t) = [t EXCEPT !.iter = pulled.iter, !.buf = Append(t.buf, pulled.atom)]
    BY <1>3 DEF TapePull, pulled
  <2>2. pulled.atom \in Atom /\ t.buf \in Seq(Atom)
    BY <1>1, <1>3 DEF Answer, TapeInv, Tapes
  <2>3. Append(t.buf, pulled.atom) \in Seq(Atom) /\ Len(Append(t.buf, pulled.atom)) = Len(t.buf) + 1
    BY <2>2
  <2>4. TapePull(t) \in Tapes
    BY <1>1, <2>1, <2>3 DEF TapeInv, Tapes
  <2>5. Len(t.buf) \in Nat /\ t.pos \in Nat
    BY <2>2 DEF TapeInv, Tapes
  <2> QED
    BY <1>1, <1>3, <2>1, <2>3, <2>4, <2>5
    DEF TapeInv, Tapes, CursorsInOrder, OnlyScopedRetention, EndKnown, Depth, pulled
<1> QED
  BY <1>2, <1>3

-----------------------------------------------------------------------------
\* peek keeps the invariant, answers an atom or None, and leaves an iterator
\* that has ended alone.
LEMMA PeekPreservesInv ==
    ASSUME NEW t, TapeInv(t)
    PROVE  /\ TapeInv(TapePeek(t).tape)
           /\ TapePeek(t).atom \in Answer
           /\ t.iter.ended => TapePeek(t).tape.iter = t.iter
<1>1. CASE t.extra # <<>>
  <2>1. t.extra \in Seq(Atom) /\ Len(t.extra) \in 1 .. Len(t.extra)
    BY <1>1, EmptySeq DEF TapeInv, Tapes
  <2> QED
    BY <1>1, <2>1, ElementOfSeq DEF TapePeek, Answer
<1>2. CASE t.extra = <<>>
  <2> DEFINE looked == IF t.pos = Len(t.buf) /\ ~t.done THEN TapePull(t) ELSE t
  <2>1. TapePeek(t) = [tape |-> looked, atom |-> Ahead(looked)]
    BY <1>2 DEF TapePeek
  <2>2. TapeInv(looked)
    BY PullPreservesInv
  <2>3. t.iter.ended => looked = t
    BY DEF TapeInv, EndKnown
  <2> HIDE DEF looked
  <2>4. Ahead(looked) \in Answer
    BY <2>2, ElementOfSeq DEF Ahead, Answer, TapeInv, Tapes
  <2> QED
    BY <2>1, <2>2, <2>3, <2>4
<1> QED
  BY <1>1, <1>2

\* push only touches extra.
LEMMA PushPreservesInv ==
    ASSUME NEW t, TapeInv(t), NEW a \in Atom
    PROVE  TapeInv(TapePush(t, a)) /\ TapePush(t, a).iter = t.iter
<1> DEFINE longer == Append(t.extra, a)
<1>1. longer \in Seq(Atom)
  BY AppendProperties DEF TapeInv, Tapes
<1>2. TapePush(t, a) = [t EXCEPT !.extra = longer]
  BY DEF TapePush
<1> HIDE DEF longer
<1> QED
  BY <1>1, <1>2
  DEF TapeInv, Tapes, CursorsInOrder, OnlyScopedRetention, EndKnown, Depth

\* checkpoint remembers the cursor, which no earlier scope lies ahead of.
LEMMA CheckpointPreservesInv ==
    ASSUME NEW t, TapeInv(t)
    PROVE  TapeInv(TapeCheckpoint(t)) /\ TapeCheckpoint(t).iter = t.iter
<1> DEFINE save == [pos |-> t.pos, extra |-> t.extra]
           saves == Append(t.saves, save)
           c == TapeCheckpoint(t)
<1>1. t \in Tapes /\ save \in Save /\ save.pos = t.pos /\ t.saves \in Seq(Save)
  BY DEF TapeInv, Tapes, Save
<1>2. c = [t EXCEPT !.saves = saves]
  BY DEF TapeCheckpoint
<1> HIDE DEF save
<1>a. /\ saves \in Seq(Save)
      /\ Len(saves) = Len(t.saves) + 1
      /\ \A i \in 1 .. Len(t.saves) : saves[i] = t.saves[i]
      /\ saves[Len(saves)] = save
  BY <1>1, AppendProperties
<1> HIDE DEF saves, c
<1>3. /\ c \in Tapes
      /\ c.saves = saves
      /\ c.pos = t.pos /\ c.buf = t.buf /\ c.iter = t.iter /\ c.done = t.done
  BY <1>1, <1>2, <1>a DEF Tapes
<1>4. /\ Depth(c) = Depth(t) + 1 /\ Depth(t) \in Nat
      /\ \A i \in 1 .. Depth(t) : c.saves[i] = t.saves[i]
      /\ c.saves[Depth(c)].pos = t.pos
  BY <1>1, <1>3, <1>a, FieldTypes DEF Depth
<1>5. \A i \in 1 .. Depth(t) : t.saves[i].pos \in Nat
  BY <1>1, FieldTypes
<1>6. t.pos \in Nat /\ Len(t.buf) \in Nat
  BY <1>1, FieldTypes
<1>7. CursorsInOrder(c)
  <2>1. c.pos <= Len(c.buf)
    BY <1>3 DEF TapeInv, CursorsInOrder
  <2>2. ASSUME NEW i \in 1 .. Depth(c)
        PROVE  c.saves[i].pos <= c.pos
    <3>1. CASE i = Depth(c)
      BY <3>1, <1>3, <1>4, <1>6
    <3>2. CASE i # Depth(c)
      <4>1. i \in 1 .. Depth(t)
        BY <3>2, <1>4
      <4> QED
        BY <4>1, <1>3, <1>4 DEF TapeInv, CursorsInOrder
    <3> QED
      BY <3>1, <3>2
  <2>3. ASSUME NEW i \in 1 .. Depth(c), NEW j \in i .. Depth(c)
        PROVE  c.saves[i].pos <= c.saves[j].pos
    <3>1. CASE j = Depth(c)
      BY <3>1, <2>2, <1>3, <1>4
    <3>2. CASE j # Depth(c)
      <4>1. i \in 1 .. Depth(t) /\ j \in i .. Depth(t)
        BY <3>2, <1>4
      <4> QED
        BY <4>1, <1>4 DEF TapeInv, CursorsInOrder
    <3> QED
      BY <3>1, <3>2
  <2> QED
    BY <2>1, <2>2, <2>3 DEF CursorsInOrder
<1>8. OnlyScopedRetention(c)
  <2>1. c.saves # <<>>
    BY <1>3, <1>4, EmptySeq DEF Depth
  <2>2. CASE t.saves = <<>>
    BY <2>1, <2>2, <1>3, <1>4, EmptySeq DEF TapeInv, OnlyScopedRetention, Depth
  <2>3. CASE t.saves # <<>>
    <3>1. 1 \in 1 .. Depth(t)
      BY <2>3, <1>1, EmptySeq DEF Depth
    <3> QED
      BY <3>1, <2>1, <2>3, <1>4 DEF TapeInv, OnlyScopedRetention
  <2> QED
    BY <2>2, <2>3
<1> QED
  BY <1>3, <1>7, <1>8 DEF TapeInv, EndKnown, c

-----------------------------------------------------------------------------
\* next, when it has to ask the iterator.
LEMMA NextFromIterPreservesInv ==
    ASSUME NEW t, TapeInv(t), t.pos = Len(t.buf)
    PROVE  /\ TapeInv(TapeNextFromIter(t).tape)
           /\ TapeNextFromIter(t).atom \in Answer
           /\ t.iter.ended => TapeNextFromIter(t).tape.iter = t.iter
<1> DEFINE pulled == IterNext(t.iter)
<1>1. CASE t.done
  BY <1>1 DEF TapeNextFromIter, Answer
<1>2. CASE ~t.done
  <2>1. /\ pulled.iter \in Iterator
        /\ pulled.atom \in Answer
        /\ pulled.iter.ended <=> pulled.atom = NoAtom
        /\ ~t.iter.ended
    BY <1>2, IterNextType DEF TapeInv, EndKnown, Tapes
  <2> HIDE DEF pulled
  <2>2. TapeInv(TapePull(t))
    BY <1>2, PullPreservesInv
  <2>3. CASE pulled.atom = NoAtom
    <3>1. TapeNextFromIter(t) = [tape |-> TapePull(t), atom |-> pulled.atom]
      BY <1>2, <2>3 DEF TapeNextFromIter, pulled
    <3> QED
      BY <2>1, <2>2, <3>1
  <2>4. CASE pulled.atom # NoAtom /\ t.saves = <<>>
    <3> DEFINE served == [t EXCEPT !.iter = pulled.iter]
    <3>1. TapeNextFromIter(t) = [tape |-> served, atom |-> pulled.atom]
      BY <1>2, <2>4 DEF TapeNextFromIter, pulled
    <3>2. TapeInv(served)
      BY <2>1, <2>4, <1>2
      DEF TapeInv, Tapes, CursorsInOrder, OnlyScopedRetention, EndKnown, Depth
    <3> QED
      BY <2>1, <3>1, <3>2
  <2>5. CASE pulled.atom # NoAtom /\ t.saves # <<>>
    <3> DEFINE p == TapePull(t)
               served == [p EXCEPT !.pos = t.pos + 1]
    <3>1. TapeNextFromIter(t) = [tape |-> served, atom |-> pulled.atom]
      BY <1>2, <2>5 DEF TapeNextFromIter, pulled
    <3>2. /\ p = [t EXCEPT !.iter = pulled.iter,
                           !.buf  = Append(t.buf, pulled.atom)]
          /\ pulled.atom \in Atom /\ t.buf \in Seq(Atom) /\ t.pos \in Nat
      BY <1>2, <2>1, <2>5, PullPreservesInv DEF pulled, Answer, TapeInv, Tapes
    <3> HIDE DEF p
    <3>3. p.pos = t.pos /\ p.saves = t.saves /\ p.buf = Append(t.buf, pulled.atom)
      BY <3>2 DEF TapeInv, Tapes
    <3>4. /\ served \in Tapes
          /\ served.pos = t.pos + 1 /\ served.saves = t.saves
          /\ served.buf = p.buf /\ served.iter = p.iter /\ served.done = p.done
      <4>1. p \in Tapes /\ t.pos + 1 \in Nat
        BY <2>2, <3>2 DEF TapeInv, p
      <4> QED
        BY <4>1, <3>3 DEF Tapes
    <3>5. Len(p.buf) = t.pos + 1
      BY <3>2, <3>3, AppendProperties
    <3>6. \A i \in 1 .. Depth(t) : t.saves[i].pos \in Nat
      BY FieldTypes DEF TapeInv
    <3> HIDE DEF served
    <3>7. CursorsInOrder(served)
      BY <3>2, <3>4, <3>5, <3>6 DEF TapeInv, CursorsInOrder, Depth
    <3>8. TapeInv(served)
      BY <2>2, <2>5, <3>3, <3>4, <3>7
      DEF TapeInv, OnlyScopedRetention, EndKnown, p
    <3> QED
      BY <2>1, <3>1, <3>8 DEF served
  <2> QED
    BY <2>3, <2>4, <2>5
<1> QED
  BY <1>1, <1>2

\* next keeps the invariant, answers an atom or None, and leaves an iterator
\* that has ended alone.
LEMMA NextPreservesInv ==
    ASSUME NEW t, TapeInv(t)
    PROVE  /\ TapeInv(TapeNext(t).tape)
           /\ TapeNext(t).atom \in Answer
           /\ t.iter.ended => TapeNext(t).tape.iter = t.iter
<1>0. /\ t.extra \in Seq(Atom) /\ t.buf \in Seq(Atom)
      /\ t.pos \in Nat /\ Len(t.buf) \in Nat /\ t.saves \in Seq(Save)
  BY DEF TapeInv, Tapes
<1>1. CASE t.extra # <<>>
  <2> DEFINE shorter == SubSeq(t.extra, 1, Len(t.extra) - 1)
             popped == [t EXCEPT !.extra = shorter]
  <2>1. TapeNext(t) = [tape |-> popped, atom |-> t.extra[Len(t.extra)]]
    BY <1>1 DEF TapeNext
  <2>2. Len(t.extra) \in 1 .. Len(t.extra)
    BY <1>0, <1>1, EmptySeq
  <2>3. shorter \in Seq(Atom)
    <3>1. \A i \in 1 .. Len(t.extra) - 1 : t.extra[i] \in Atom
      BY <1>0, ElementOfSeq
    <3>2. 1 \in Int /\ Len(t.extra) - 1 \in Int
      BY <1>0
    <3> QED
      BY <3>1, <3>2, SubSeqProperties
  <2> HIDE DEF shorter
  <2>4. TapeInv(popped) /\ popped.iter = t.iter
    BY <2>3 DEF TapeInv, Tapes, CursorsInOrder, OnlyScopedRetention, EndKnown, Depth
  <2>5. t.extra[Len(t.extra)] \in Atom
    BY <1>0, <2>2, ElementOfSeq
  <2> HIDE DEF popped
  <2> QED
    BY <2>1, <2>4, <2>5 DEF Answer
<1>2. CASE t.extra = <<>> /\ t.pos < Len(t.buf)
  <2> DEFINE moved == [t EXCEPT !.pos = t.pos + 1]
  <2>1. TapeNext(t) = [tape |-> TapeRelease(moved), atom |-> t.buf[t.pos + 1]]
    BY <1>2 DEF TapeNext
  <2>2. t.buf[t.pos + 1] \in Answer
    <3>1. t.pos + 1 \in 1 .. Len(t.buf)
      BY <1>0, <1>2
    <3> QED
      BY <1>0, <3>1, ElementOfSeq DEF Answer
  <2>3. \A i \in 1 .. Depth(t) : t.saves[i].pos \in Nat
    BY FieldTypes DEF TapeInv
  <2>4. /\ moved \in Tapes
        /\ moved.pos = t.pos + 1 /\ moved.buf = t.buf /\ moved.saves = t.saves
        /\ moved.iter = t.iter /\ moved.done = t.done
    <3>1. t \in Tapes /\ t.pos + 1 \in Nat
      BY <1>0 DEF TapeInv
    <3> QED
      BY <3>1 DEF Tapes
  <2> HIDE DEF moved
  <2>5. CursorsInOrder(moved)
    BY <1>0, <1>2, <2>3, <2>4 DEF TapeInv, CursorsInOrder, Depth
  <2>6. UnreleasedInv(moved)
    BY <2>4, <2>5 DEF TapeInv, UnreleasedInv, OnlyScopedRetention, EndKnown
  <2> QED
    BY <2>1, <2>2, <2>4, <2>6, ReleaseEstablishesInv
<1>3. CASE t.extra = <<>> /\ ~(t.pos < Len(t.buf))
  <2>1. t.pos = Len(t.buf)
    BY <1>0, <1>3 DEF TapeInv, CursorsInOrder
  <2>2. TapeRelease(t) = t
    BY DEF TapeInv, OnlyScopedRetention, TapeRelease
  <2>3. TapeNext(t) = TapeNextFromIter(t)
    BY <1>3, <2>2 DEF TapeNext
  <2> QED
    BY <2>1, <2>3, NextFromIterPreservesInv
<1> QED
  BY <1>1, <1>2, <1>3

-----------------------------------------------------------------------------
\* rollback, before its closing release.
Rewound(t, raw) ==
    [t EXCEPT !.pos   = t.saves[raw + 1].pos,
              !.extra = t.saves[raw + 1].extra,
              !.saves = SubSeq(t.saves, 1, raw)]

\* rollback restores a cursor that the scopes still open do not lie ahead of.
LEMMA RewoundIsUnreleased ==
    ASSUME NEW t, TapeInv(t), NEW raw, RawIsOpen(t, raw)
    PROVE  /\ UnreleasedInv(Rewound(t, raw))
           /\ Rewound(t, raw).pos = t.saves[raw + 1].pos
           /\ Rewound(t, raw).extra = t.saves[raw + 1].extra
           /\ Rewound(t, raw).saves = SubSeq(t.saves, 1, raw)
           /\ Rewound(t, raw).buf = t.buf
           /\ Rewound(t, raw).iter = t.iter
           /\ Rewound(t, raw).done = t.done
<1> DEFINE saves == SubSeq(t.saves, 1, raw)
           back == Rewound(t, raw)
<1>1. t \in Tapes /\ Depth(t) \in Nat /\ raw \in Nat /\ raw + 1 \in 1 .. Depth(t)
  BY FieldTypes DEF TapeInv, RawIsOpen
<1>2. t.saves[raw + 1].pos \in Nat /\ t.saves[raw + 1].extra \in Seq(Atom)
  BY <1>1, FieldTypes
<1>3. /\ saves \in Seq(Save)
      /\ Len(saves) = raw
      /\ \A i \in 1 .. raw : saves[i] = t.saves[i]
  <2>1. \A i \in 1 .. raw : t.saves[i] \in Save
    BY <1>1, ElementOfSeq DEF Tapes, Depth
  <2> QED
    BY <1>1, <2>1, SubSeqProperties
<1> HIDE DEF saves
<1>5. back = [t EXCEPT !.pos = t.saves[raw + 1].pos,
                       !.extra = t.saves[raw + 1].extra,
                       !.saves = saves]
  BY DEF Rewound, saves
<1> HIDE DEF back
<1>4. /\ back \in Tapes
      /\ back.pos = t.saves[raw + 1].pos /\ back.saves = saves
      /\ back.extra = t.saves[raw + 1].extra
      /\ back.buf = t.buf /\ back.iter = t.iter /\ back.done = t.done
  BY <1>1, <1>2, <1>3, <1>5 DEF Tapes
<1>6. Depth(back) = raw
  BY <1>3, <1>4 DEF Depth
<1>7. CursorsInOrder(back)
  <2>1. back.pos <= Len(back.buf)
    <3>1. t.saves[raw + 1].pos <= t.pos /\ t.pos <= Len(t.buf)
      BY <1>1 DEF TapeInv, CursorsInOrder
    <3> QED
      BY <1>1, <1>2, <1>4, <3>1, FieldTypes
  <2>2. ASSUME NEW i \in 1 .. raw
        PROVE  back.saves[i].pos <= back.pos
    <3>1. i \in 1 .. Depth(t) /\ raw + 1 \in i .. Depth(t)
      BY <1>1
    <3> QED
      BY <1>3, <1>4, <3>1 DEF TapeInv, CursorsInOrder
  <2>3. ASSUME NEW i \in 1 .. raw, NEW j \in i .. raw
        PROVE  back.saves[i].pos <= back.saves[j].pos
    <3>1. i \in 1 .. Depth(t) /\ j \in i .. Depth(t) /\ j \in 1 .. raw
      BY <1>1
    <3> QED
      BY <1>3, <1>4, <3>1 DEF TapeInv, CursorsInOrder
  <2> QED
    BY <1>6, <2>1, <2>2, <2>3 DEF CursorsInOrder
<1>8. back.saves # <<>> => back.saves[1].pos = 0
  <2> SUFFICES ASSUME back.saves # <<>>
               PROVE  back.saves[1].pos = 0
    OBVIOUS
  <2>1. raw # 0
    BY <1>4, <1>6, FieldTypes
  <2>2. 1 \in 1 .. raw /\ t.saves # <<>>
    BY <1>1, <2>1, FieldTypes
  <2> QED
    BY <1>3, <1>4, <2>2 DEF TapeInv, OnlyScopedRetention
<1>9. UnreleasedInv(back)
  BY <1>4, <1>7, <1>8 DEF UnreleasedInv, TapeInv, EndKnown
<1> QED
  BY <1>4, <1>9 DEF back, saves

LEMMA RollbackPreservesInv ==
    ASSUME NEW t, TapeInv(t), NEW raw, RawIsOpen(t, raw)
    PROVE  TapeInv(TapeRollback(t, raw)) /\ TapeRollback(t, raw).iter = t.iter
<1>1. TapeRollback(t, raw) = TapeRelease(Rewound(t, raw))
  BY DEF TapeRollback, Rewound
<1> QED
  BY <1>1, RewoundIsUnreleased, ReleaseEstablishesInv

\* commit, before its closing release.
Closed(t, raw) == [t EXCEPT !.saves = SubSeq(t.saves, 1, raw)]

\* commit keeps the cursor and forgets the scopes from raw on.
LEMMA ClosedIsUnreleased ==
    ASSUME NEW t, TapeInv(t), NEW raw, RawIsOpen(t, raw)
    PROVE  /\ UnreleasedInv(Closed(t, raw))
           /\ Closed(t, raw).saves = SubSeq(t.saves, 1, raw)
           /\ Closed(t, raw).pos = t.pos /\ Closed(t, raw).extra = t.extra
           /\ Closed(t, raw).buf = t.buf
           /\ Closed(t, raw).iter = t.iter /\ Closed(t, raw).done = t.done
<1> DEFINE saves == SubSeq(t.saves, 1, raw)
           kept == Closed(t, raw)
<1>1. t \in Tapes /\ Depth(t) \in Nat /\ raw \in Nat /\ raw + 1 \in 1 .. Depth(t)
  BY FieldTypes DEF TapeInv, RawIsOpen
<1>2. /\ saves \in Seq(Save)
      /\ Len(saves) = raw
      /\ \A i \in 1 .. raw : saves[i] = t.saves[i]
  <2>1. \A i \in 1 .. raw : t.saves[i] \in Save
    BY <1>1, ElementOfSeq DEF Tapes, Depth
  <2> QED
    BY <1>1, <2>1, SubSeqProperties
<1> HIDE DEF saves
<1>4. kept = [t EXCEPT !.saves = saves]
  BY DEF Closed, saves
<1> HIDE DEF kept
<1>3. /\ kept \in Tapes /\ kept.pos = t.pos /\ kept.saves = saves
      /\ kept.buf = t.buf /\ kept.iter = t.iter /\ kept.done = t.done
      /\ kept.extra = t.extra
  BY <1>1, <1>2, <1>4 DEF Tapes
<1>5. Depth(kept) = raw
  BY <1>2, <1>3 DEF Depth
<1>6. CursorsInOrder(kept)
  <2>1. ASSUME NEW i \in 1 .. raw
        PROVE  /\ kept.saves[i].pos <= kept.pos
               /\ \A j \in i .. raw : kept.saves[i].pos <= kept.saves[j].pos
    <3>1. i \in 1 .. Depth(t) /\ i .. raw \subseteq i .. Depth(t)
      BY <1>1
    <3>2. i .. raw \subseteq 1 .. raw
      BY <1>1
    <3> QED
      BY <1>2, <1>3, <3>1, <3>2 DEF TapeInv, CursorsInOrder
  <2> QED
    BY <1>3, <1>5, <2>1 DEF TapeInv, CursorsInOrder
<1>7. kept.saves # <<>> => kept.saves[1].pos = 0
  <2> SUFFICES ASSUME kept.saves # <<>>
               PROVE  kept.saves[1].pos = 0
    OBVIOUS
  <2>1. raw # 0
    BY <1>3, <1>5, FieldTypes
  <2>2. 1 \in 1 .. raw /\ t.saves # <<>>
    BY <1>1, <2>1, FieldTypes
  <2> QED
    BY <1>2, <1>3, <2>2 DEF TapeInv, OnlyScopedRetention
<1>8. UnreleasedInv(kept)
  BY <1>3, <1>6, <1>7 DEF UnreleasedInv, TapeInv, EndKnown
<1> QED
  BY <1>3, <1>8 DEF kept, saves

LEMMA CommitPreservesInv ==
    ASSUME NEW t, TapeInv(t), NEW raw, RawIsOpen(t, raw)
    PROVE  TapeInv(TapeCommit(t, raw)) /\ TapeCommit(t, raw).iter = t.iter
<1>1. TapeCommit(t, raw) = TapeRelease(Closed(t, raw))
  BY DEF TapeCommit, Closed
<1> QED
  BY <1>1, ClosedIsUnreleased, ReleaseEstablishesInv

-----------------------------------------------------------------------------
(* Facts about sequences. *)

\* A function on an initial segment of the naturals is a sequence.
LEMMA FunctionIsSeq ==
    ASSUME NEW S, NEW n \in Nat, NEW f \in [1 .. n -> S]
    PROVE  f \in Seq(S) /\ Len(f) = n
<1>1. f \in Seq(S)
  BY SeqDef
<1> QED
  BY <1>1, LenProperties

\* Reversing keeps the length and mirrors the positions.
LEMMA ReverseProperties ==
    ASSUME NEW S, NEW s \in Seq(S)
    PROVE  /\ Reverse(s) \in Seq(S)
           /\ Len(Reverse(s)) = Len(s)
           /\ \A i \in 1 .. Len(s) : Reverse(s)[i] = s[(Len(s) - i) + 1]
<1>1. Len(s) \in Nat
  BY LenProperties
<1>2. \A i \in 1 .. Len(s) : s[(Len(s) - i) + 1] \in S
  BY <1>1, ElementOfSeq
<1>3. Reverse(s) \in [1 .. Len(s) -> S]
  BY <1>2 DEF Reverse
<1>4. Reverse(s) \in Seq(S)
  BY <1>1, <1>3, SeqDef
<1> QED
  BY <1>1, <1>3, <1>4, LenProperties DEF Reverse

\* What a push does to what is pushed back: "push prepends".
LEMMA ReverseAppend ==
    ASSUME NEW S, NEW s \in Seq(S), NEW a \in S
    PROVE  Reverse(Append(s, a)) = <<a>> \o Reverse(s)
<1> DEFINE longer == Append(s, a)
           r == Reverse(s)
<1>1. /\ longer \in Seq(S) /\ Len(longer) = Len(s) + 1 /\ longer[Len(s) + 1] = a
      /\ \A i \in 1 .. Len(s) : longer[i] = s[i]
  BY AppendProperties
<1>2. Len(s) \in Nat /\ r \in Seq(S) /\ Len(r) = Len(s)
  BY ReverseProperties, LenProperties
<1>a. \A i \in 1 .. Len(s) : r[i] = s[(Len(s) - i) + 1]
  BY ReverseProperties
<1> HIDE DEF longer, r
<1>3. /\ Reverse(longer) \in Seq(S) /\ Len(Reverse(longer)) = Len(s) + 1
      /\ \A i \in 1 .. Len(s) + 1 : Reverse(longer)[i] = longer[(Len(longer) - i) + 1]
  BY <1>1, ReverseProperties
<1>4. /\ <<a>> \o r \in Seq(S) /\ Len(<<a>> \o r) = Len(s) + 1
      /\ \A i \in 1 .. Len(s) + 1 : (<<a>> \o r)[i] = IF i <= 1 THEN a ELSE r[i - 1]
  BY <1>2, ConcatProperties
<1>5. ASSUME NEW i \in 1 .. Len(s) + 1
      PROVE  Reverse(longer)[i] = (<<a>> \o r)[i]
  <2>1. CASE i = 1
    BY <2>1, <1>1, <1>2, <1>3, <1>4
  <2>2. CASE i # 1
    <3>1. i - 1 \in 1 .. Len(s) /\ (Len(s) + 1 - i) + 1 \in 1 .. Len(s)
      BY <2>2, <1>2
    <3>2. (Len(s) - (i - 1)) + 1 = (Len(s) + 1 - i) + 1
      BY <1>2
    <3>3. Reverse(longer)[i] = s[(Len(s) + 1 - i) + 1]
      <4>1. Reverse(longer)[i] = longer[(Len(longer) - i) + 1]
        BY <1>3
      <4>2. (Len(longer) - i) + 1 = (Len(s) + 1 - i) + 1
        BY <1>1, <1>2
      <4>3. longer[(Len(s) + 1 - i) + 1] = s[(Len(s) + 1 - i) + 1]
        BY <1>1, <3>1
      <4> QED
        BY <4>1, <4>2, <4>3
    <3>4. (<<a>> \o r)[i] = r[i - 1]
      BY <2>2, <1>2, <1>4
    <3>5. r[i - 1] = s[(Len(s) - (i - 1)) + 1]
      BY <3>1, <1>a
    <3> QED
      BY <3>2, <3>3, <3>4, <3>5
  <2> QED
    BY <2>1, <2>2
<1>6. Reverse(longer) = <<a>> \o r
  BY <1>3, <1>4, <1>5, SeqEqual
<1> QED
  BY <1>6 DEF longer, r

\* An element at the end of one sequence is one before the sequence after it.
LEMMA AppendThenConcat ==
    ASSUME NEW S, NEW s \in Seq(S), NEW a \in S, NEW u \in Seq(S)
    PROVE  Append(s, a) \o u = s \o (<<a>> \o u)
<1> DEFINE one == <<a>>
<1>1. one \in Seq(S) /\ Append(s, a) = s \o one
  BY AppendIsConcat
<1> HIDE DEF one
<1>2. (s \o one) \o u = s \o (one \o u)
  BY <1>1, ConcatAssociative
<1> QED
  BY <1>1, <1>2 DEF one

\* A sequence without its first n elements, when it goes on with another.
LEMMA DropOfConcat ==
    ASSUME NEW S, NEW s \in Seq(S), NEW u \in Seq(S), NEW n \in 0 .. Len(s)
    PROVE  SubSeq(s \o u, n + 1, Len(s \o u)) = SubSeq(s, n + 1, Len(s)) \o u
<1> DEFINE all == s \o u
           kept == SubSeq(s, n + 1, Len(s))
<1>1. /\ all \in Seq(S) /\ Len(all) = Len(s) + Len(u)
      /\ \A i \in 1 .. Len(s) + Len(u) :
            all[i] = IF i <= Len(s) THEN s[i] ELSE u[i - Len(s)]
  BY ConcatProperties
<1>2. Len(s) \in Nat /\ Len(u) \in Nat
  BY LenProperties
<1>3. kept \in Seq(S) /\ Len(kept) = Len(s) - n /\ \A i \in 1 .. Len(s) - n : kept[i] = s[n + i]
  <2>1. \A i \in n + 1 .. Len(s) : s[i] \in S
    BY <1>2, ElementOfSeq
  <2>2. n + 1 \in Int /\ Len(s) \in Int
    BY <1>2
  <2> QED
    BY <2>1, <2>2, SubSeqProperties
<1> HIDE DEF all, kept
<1>4. /\ SubSeq(all, n + 1, Len(all)) \in Seq(S)
      /\ Len(SubSeq(all, n + 1, Len(all))) = Len(s) + Len(u) - n
      /\ \A i \in 1 .. Len(s) + Len(u) - n :
            SubSeq(all, n + 1, Len(all))[i] = all[n + i]
  <2>1. \A i \in n + 1 .. Len(all) : all[i] \in S
    BY <1>1, <1>2, ElementOfSeq
  <2>2. n + 1 \in Int /\ Len(all) \in Int
    BY <1>1, <1>2
  <2> QED
    BY <1>1, <1>2, <2>1, <2>2, SubSeqProperties
<1>5. /\ kept \o u \in Seq(S) /\ Len(kept \o u) = Len(s) - n + Len(u)
      /\ \A i \in 1 .. Len(s) - n + Len(u) :
            (kept \o u)[i] = IF i <= Len(s) - n THEN kept[i] ELSE u[i - (Len(s) - n)]
  <2>1. /\ kept \o u \in Seq(S) /\ Len(kept \o u) = Len(kept) + Len(u)
        /\ \A i \in 1 .. Len(kept) + Len(u) :
              (kept \o u)[i] = IF i <= Len(kept) THEN kept[i] ELSE u[i - Len(kept)]
    BY <1>3, ConcatProperties
  <2>2. Len(kept) = Len(s) - n
    BY <1>3
  <2> QED
    BY <2>1, <2>2
<1>6. ASSUME NEW i \in 1 .. Len(s) + Len(u) - n
      PROVE  SubSeq(all, n + 1, Len(all))[i] = (kept \o u)[i]
  <2>1. n + i \in 1 .. Len(s) + Len(u) /\ (n + i <= Len(s) <=> i <= Len(s) - n)
    BY <1>2
  <2>2. n + i - Len(s) = i - (Len(s) - n)
    BY <1>2
  <2>3. SubSeq(all, n + 1, Len(all))[i] = IF n + i <= Len(s) THEN s[n + i] ELSE u[n + i - Len(s)]
    BY <1>1, <1>4, <2>1
  <2>4. i \in 1 .. Len(s) - n + Len(u)
    BY <1>2
  <2>5. (kept \o u)[i] = IF i <= Len(s) - n THEN kept[i] ELSE u[i - (Len(s) - n)]
    BY <1>5, <2>4
  <2>6. i <= Len(s) - n => kept[i] = s[n + i]
    BY <1>2, <1>3
  <2> QED
    BY <2>1, <2>2, <2>3, <2>5, <2>6
<1>7. SubSeq(all, n + 1, Len(all)) = kept \o u
  <2>1. Len(s) + Len(u) - n = Len(s) - n + Len(u)
    BY <1>2
  <2> QED
    BY <1>4, <1>5, <1>6, <2>1, SeqEqual
<1> QED
  BY <1>7 DEF all, kept

\* A sequence with an element put before it.
LEMMA ConsParts ==
    ASSUME NEW S, NEW a \in S, NEW s \in Seq(S)
    PROVE  /\ <<a>> \o s \in Seq(S) /\ <<a>> \o s # <<>>
           /\ Head(<<a>> \o s) = a /\ Tail(<<a>> \o s) = s
<1> DEFINE c == <<a>> \o s
<1>1. /\ c \in Seq(S) /\ Len(c) = Len(s) + 1 /\ Len(s) \in Nat /\ c[1] = a
      /\ \A i \in 1 .. Len(s) : c[i + 1] = s[i]
  <2>1. Len(s) \in Nat /\ <<a>> \in Seq(S) /\ Len(<<a>>) = 1
    BY LenProperties
  <2>2. /\ c \in Seq(S) /\ Len(c) = 1 + Len(s)
        /\ \A i \in 1 .. 1 + Len(s) : c[i] = IF i <= 1 THEN <<a>>[i] ELSE s[i - 1]
    BY <2>1, ConcatProperties
  <2> QED
    BY <2>1, <2>2
<1> HIDE DEF c
<1>2. c # <<>>
  BY <1>1, EmptySeq
<1>3. Head(c) = a /\ Tail(c) \in Seq(S) /\ Len(Tail(c)) = Len(s)
      /\ \A i \in 1 .. Len(s) : Tail(c)[i] = s[i]
  BY <1>1, <1>2, HeadTailProperties
<1>4. Tail(c) = s
  BY <1>3, SeqEqual
<1> QED
  BY <1>1, <1>2, <1>3, <1>4 DEF c

-----------------------------------------------------------------------------
(* What is upcoming, and what the marks are, before and after each call. *)

\* What next and peek answer of the atoms u that are upcoming, and what is left
\* after next.
FirstOf(u) == IF u = <<>> THEN NoAtom ELSE Head(u)
AfterFirst(u) == IF u = <<>> THEN <<>> ELSE Tail(u)

LEMMA HeadThenTail ==
    ASSUME NEW S, NEW s \in Seq(S), s # <<>>
    PROVE  s = <<Head(s)>> \o Tail(s)
<1>1. Len(s) \in Nat \ {0}
  BY EmptySeq
<1>2. s = SubSeq(s, 1, Len(s)) /\ Tail(s) = SubSeq(s, 2, Len(s))
  BY SubSeqFull, TailIsSubSeq
<1>3. SubSeq(s, 1, Len(s)) = <<s[1]>> \o SubSeq(s, 1 + 1, Len(s))
  BY <1>1, SubSeqRecursiveFirst
<1> QED
  BY <1>1, <1>2, <1>3

\* What is upcoming and every mark is a sequence of atoms.
LEMMA ViewType ==
    ASSUME NEW t \in Tapes
    PROVE  /\ Held(t) \in Seq(Atom) /\ Len(Held(t)) \in Nat
           /\ Len(t.buf) <= Len(Held(t))
           /\ \A i \in 1 .. Len(t.buf) : Held(t)[i] = t.buf[i]
           /\ \A pos \in Nat, extra \in Seq(Atom) :
                 /\ SubSeq(Held(t), pos + 1, Len(Held(t))) \in Seq(Atom)
                 /\ UpcomingFrom(t, pos, extra) \in Seq(Atom)
           /\ Upcoming(t) \in Seq(Atom)
           /\ Marks(t) \in Seq(Seq(Atom)) /\ Len(Marks(t)) = Depth(t)
<1> DEFINE left == IF t.done THEN <<>> ELSE t.iter.left
<1>1. /\ left \in Seq(Atom) /\ t.buf \in Seq(Atom) /\ t.pos \in Nat
      /\ t.extra \in Seq(Atom) /\ Depth(t) \in Nat
      /\ \A i \in 1 .. Depth(t) : t.saves[i].pos \in Nat /\ t.saves[i].extra \in Seq(Atom)
  BY FieldTypes, EmptySeq DEF Iterator
<1>2. Held(t) = t.buf \o left
  BY DEF Held
<1> HIDE DEF left
<1>3. /\ Held(t) \in Seq(Atom) /\ Len(Held(t)) = Len(t.buf) + Len(left)
      /\ \A i \in 1 .. Len(t.buf) + Len(left) :
            Held(t)[i] = IF i <= Len(t.buf) THEN t.buf[i] ELSE left[i - Len(t.buf)]
  BY <1>1, <1>2, ConcatProperties
<1>4. Len(t.buf) \in Nat /\ Len(left) \in Nat
  BY <1>1, LenProperties
<1>5. /\ Len(Held(t)) \in Nat /\ Len(t.buf) <= Len(Held(t))
      /\ \A i \in 1 .. Len(t.buf) : Held(t)[i] = t.buf[i]
  BY <1>3, <1>4
<1>6. ASSUME NEW pos \in Nat, NEW extra \in Seq(Atom)
      PROVE  /\ SubSeq(Held(t), pos + 1, Len(Held(t))) \in Seq(Atom)
             /\ UpcomingFrom(t, pos, extra) \in Seq(Atom)
  <2>1. \A i \in pos + 1 .. Len(Held(t)) : Held(t)[i] \in Atom
    BY <1>3, <1>5, ElementOfSeq
  <2>2. pos + 1 \in Int /\ Len(Held(t)) \in Int
    BY <1>5
  <2>3. SubSeq(Held(t), pos + 1, Len(Held(t))) \in Seq(Atom)
    BY <2>1, <2>2, SubSeqProperties
  <2> QED
    BY <2>3, ReverseProperties, ConcatProperties DEF UpcomingFrom
<1>7. Marks(t) \in [1 .. Depth(t) -> Seq(Atom)]
  BY <1>1, <1>6 DEF Marks
<1>8. Marks(t) \in Seq(Seq(Atom)) /\ Len(Marks(t)) = Depth(t)
  BY <1>1, <1>7, FunctionIsSeq
<1> QED
  BY <1>1, <1>3, <1>5, <1>6, <1>8 DEF Upcoming

\* A mark is what was upcoming at its cursor.
LEMMA MarkAt ==
    ASSUME NEW t, NEW i \in 1 .. Depth(t)
    PROVE  Marks(t)[i] = UpcomingFrom(t, t.saves[i].pos, t.saves[i].extra)
BY DEF Marks

\* What is served does not depend on how much of it buf already retains.
LEMMA SameView ==
    ASSUME NEW t, NEW u, Held(u) = Held(t), u.saves = t.saves
    PROVE  /\ Marks(u) = Marks(t)
           /\ u.pos = t.pos /\ u.extra = t.extra => Upcoming(u) = Upcoming(t)
BY DEF Marks, Upcoming, UpcomingFrom, Depth

\* The first of what is upcoming is the last atom pushed back ..
LEMMA PushedBackIsFirst ==
    ASSUME NEW t \in Tapes, t.extra # <<>>
    PROVE  /\ t.extra[Len(t.extra)] \in Atom
           /\ SubSeq(t.extra, 1, Len(t.extra) - 1) \in Seq(Atom)
           /\ Upcoming(t) = <<t.extra[Len(t.extra)]>>
                            \o UpcomingFrom(t, t.pos, SubSeq(t.extra, 1, Len(t.extra) - 1))
<1> DEFINE last == t.extra[Len(t.extra)]
           others == SubSeq(t.extra, 1, Len(t.extra) - 1)
           held == SubSeq(Held(t), t.pos + 1, Len(Held(t)))
<1>1. t.extra \in Seq(Atom) /\ Len(t.extra) \in Nat \ {0} /\ t.pos \in Nat
  BY FieldTypes, EmptySeq
<1>2. last \in Atom /\ held \in Seq(Atom)
  BY <1>1, ElementOfSeq, ViewType
<1>3. others \in Seq(Atom)
  <2>1. \A i \in 1 .. Len(t.extra) - 1 : t.extra[i] \in Atom
    BY <1>1, ElementOfSeq
  <2>2. 1 \in Int /\ Len(t.extra) - 1 \in Int
    BY <1>1
  <2> QED
    BY <2>1, <2>2, SubSeqProperties
<1>4. t.extra = Append(others, last)
  <2>1. SubSeq(t.extra, 1, Len(t.extra)) = others \o <<last>>
    <3>1. 1 \in 1 .. Len(t.extra) /\ Len(t.extra) \in 1 .. Len(t.extra)
      BY <1>1
    <3> QED
      BY <1>1, <3>1, SubSeqRecursiveSecond
  <2> QED
    BY <2>1, <1>1, <1>2, <1>3, SubSeqFull, AppendIsConcat
<1>5. Upcoming(t) = Reverse(t.extra) \o held
  BY DEF Upcoming, UpcomingFrom
<1>6. UpcomingFrom(t, t.pos, others) = Reverse(others) \o held
  BY DEF UpcomingFrom
<1> HIDE DEF last, others, held
<1>7. Reverse(t.extra) = <<last>> \o Reverse(others)
  BY <1>2, <1>3, <1>4, ReverseAppend
<1>8. (<<last>> \o Reverse(others)) \o held = <<last>> \o (Reverse(others) \o held)
  <2>1. <<last>> \in Seq(Atom) /\ Reverse(others) \in Seq(Atom)
    BY <1>2, <1>3, ReverseProperties
  <2> QED
    BY <1>2, <2>1, ConcatAssociative
<1>9. Upcoming(t) = <<last>> \o UpcomingFrom(t, t.pos, others)
  BY <1>5, <1>6, <1>7, <1>8
<1> QED
  BY <1>2, <1>3, <1>9 DEF last, others

\* .. and when there is none, the atom at the cursor.
LEMMA HeldIsFirst ==
    ASSUME NEW t \in Tapes, t.extra = <<>>
    PROVE  /\ Upcoming(t) = SubSeq(Held(t), t.pos + 1, Len(Held(t)))
           /\ t.pos < Len(Held(t)) =>
                 /\ Held(t)[t.pos + 1] \in Atom
                 /\ Upcoming(t) = <<Held(t)[t.pos + 1]>> \o UpcomingFrom(t, t.pos + 1, <<>>)
           /\ t.pos >= Len(Held(t)) => Upcoming(t) = <<>>
<1>1. t.pos \in Nat /\ Held(t) \in Seq(Atom) /\ Len(Held(t)) \in Nat
  BY FieldTypes, ViewType
<1>2. \A pos \in Nat : UpcomingFrom(t, pos, <<>>) = SubSeq(Held(t), pos + 1, Len(Held(t)))
  <2> TAKE pos \in Nat
  <2>1. Reverse(<<>>) = <<>>
    BY EmptySeq, ReverseProperties
  <2>2. SubSeq(Held(t), pos + 1, Len(Held(t))) \in Seq(Atom)
    BY EmptySeq, ViewType
  <2> QED
    BY <2>1, <2>2, ConcatEmptySeq DEF UpcomingFrom
<1>3. Upcoming(t) = SubSeq(Held(t), t.pos + 1, Len(Held(t)))
  BY <1>1, <1>2 DEF Upcoming
<1>4. ASSUME t.pos < Len(Held(t))
      PROVE  /\ Held(t)[t.pos + 1] \in Atom
             /\ Upcoming(t) = <<Held(t)[t.pos + 1]>> \o UpcomingFrom(t, t.pos + 1, <<>>)
  <2>1. t.pos + 1 \in 1 .. Len(Held(t)) /\ Len(Held(t)) \in t.pos + 1 .. Len(Held(t))
    BY <1>1, <1>4
  <2>2. SubSeq(Held(t), t.pos + 1, Len(Held(t)))
           = <<Held(t)[t.pos + 1]>> \o SubSeq(Held(t), (t.pos + 1) + 1, Len(Held(t)))
    BY <1>1, <2>1, SubSeqRecursiveFirst
  <2>3. Held(t)[t.pos + 1] \in Atom
    BY <1>1, <2>1, ElementOfSeq
  <2>4. t.pos + 1 \in Nat
    BY <1>1
  <2>5. UpcomingFrom(t, t.pos + 1, <<>>) = SubSeq(Held(t), (t.pos + 1) + 1, Len(Held(t)))
    BY <1>2, <2>4
  <2> QED
    BY <1>3, <2>2, <2>3, <2>5
<1>5. ASSUME t.pos >= Len(Held(t))
      PROVE  Upcoming(t) = <<>>
  BY <1>1, <1>3, <1>5, SubSeqEmpty
<1> QED
  BY <1>3, <1>4, <1>5

\* Pulling parks what was the next atom of the iterator, so that the same is
\* held; an iterator that answers None had nothing left.
LEMMA PullKeepsHeld ==
    ASSUME NEW t, TapeInv(t), ~t.done
    PROVE  /\ Held(TapePull(t)) = Held(t)
           /\ TapePull(t).saves = t.saves /\ TapePull(t).pos = t.pos
           /\ TapePull(t).extra = t.extra
           /\ IF IterNext(t.iter).atom = NoAtom
              THEN t.iter.left = <<>> /\ TapePull(t).done /\ TapePull(t).buf = t.buf
              ELSE /\ IterNext(t.iter).atom \in Atom
                   /\ t.iter.left # <<>>
                   /\ IterNext(t.iter).atom = Head(t.iter.left)
                   /\ IterNext(t.iter).iter.left = Tail(t.iter.left)
                   /\ TapePull(t).buf = Append(t.buf, IterNext(t.iter).atom)
<1>1. t \in Tapes /\ t.buf \in Seq(Atom) /\ t.iter.left \in Seq(Atom) /\ t.iter \in Iterator
  BY FieldTypes DEF TapeInv, Iterator
<1>2. CASE t.iter.left = <<>>
  <2>1. IterNext(t.iter).atom = NoAtom
    BY <1>2 DEF IterNext
  <2>2. TapePull(t) = [t EXCEPT !.iter = IterNext(t.iter).iter, !.done = TRUE]
    BY <2>1 DEF TapePull
  <2>3. /\ TapePull(t).saves = t.saves /\ TapePull(t).pos = t.pos
        /\ TapePull(t).extra = t.extra /\ TapePull(t).done /\ TapePull(t).buf = t.buf
    BY <1>1, <2>2 DEF Tapes
  <2> QED
    BY <1>2, <2>1, <2>3 DEF Held
<1>3. CASE t.iter.left # <<>>
  <2> DEFINE h == Head(t.iter.left)
             rest == Tail(t.iter.left)
  <2>1. IterNext(t.iter).atom = h /\ IterNext(t.iter).iter.left = rest
    BY <1>1, <1>3 DEF IterNext, Iterator
  <2>2. h \in Atom /\ rest \in Seq(Atom) /\ t.iter.left = <<h>> \o rest
    BY <1>1, <1>3, HeadTailProperties, HeadThenTail
  <2> HIDE DEF h, rest
  <2>3. h # NoAtom
    BY <2>2, NoAtomAssumption
  <2>4. TapePull(t) = [t EXCEPT !.iter = IterNext(t.iter).iter, !.buf = Append(t.buf, h)]
    BY <2>1, <2>3 DEF TapePull
  <2>5. /\ TapePull(t).saves = t.saves /\ TapePull(t).pos = t.pos
        /\ TapePull(t).extra = t.extra /\ TapePull(t).done = t.done
        /\ TapePull(t).buf = Append(t.buf, h) /\ TapePull(t).iter = IterNext(t.iter).iter
    BY <1>1, <2>4 DEF Tapes
  <2>6. Held(TapePull(t)) = Append(t.buf, h) \o rest /\ Held(t) = t.buf \o t.iter.left
    BY <2>1, <2>5 DEF Held
  <2>7. Append(t.buf, h) \o rest = t.buf \o (<<h>> \o rest)
    <3>1. t.buf \in Seq(Atom) /\ h \in Atom /\ rest \in Seq(Atom)
      BY <1>1, <2>2
    <3>2. \A s, u \in Seq(Atom) : \A a \in Atom : Append(s, a) \o u = s \o (<<a>> \o u)
      BY AppendThenConcat
    <3>3. \A u \in Seq(Atom) : \A a \in Atom : Append(t.buf, a) \o u = t.buf \o (<<a>> \o u)
      BY <3>1, <3>2
    <3> QED
      BY <3>1, <3>3
  <2> QED
    BY <1>3, <2>1, <2>2, <2>3, <2>5, <2>6, <2>7 DEF h, rest
<1> QED
  BY <1>2, <1>3

\* release drops what has been served and nothing else.
LEMMA ReleaseKeepsView ==
    ASSUME NEW t, UnreleasedInv(t)
    PROVE  /\ Upcoming(TapeRelease(t)) = Upcoming(t)
           /\ Marks(TapeRelease(t)) = Marks(t)
<1>1. CASE t.saves = <<>> /\ t.pos > 0
  <2> DEFINE r == [t EXCEPT !.buf = SubSeq(t.buf, t.pos + 1, Len(t.buf)), !.pos = 0]
             left == IF t.done THEN <<>> ELSE t.iter.left
  <2>1. /\ t \in Tapes /\ t.buf \in Seq(Atom) /\ left \in Seq(Atom)
        /\ t.pos \in 0 .. Len(t.buf) /\ Len(t.buf) \in Nat
    BY FieldTypes, EmptySeq DEF UnreleasedInv, CursorsInOrder, Iterator
  <2>2. /\ TapeRelease(t) = r /\ r.pos = 0 /\ r.saves = <<>> /\ r.extra = t.extra
        /\ r.buf = SubSeq(t.buf, t.pos + 1, Len(t.buf))
        /\ r.iter = t.iter /\ r.done = t.done
    BY <1>1, <2>1 DEF TapeRelease, Tapes
  <2> HIDE DEF r
  <2>3. Held(r) = SubSeq(t.buf, t.pos + 1, Len(t.buf)) \o left /\ Held(t) = t.buf \o left
    BY <2>2 DEF Held
  <2> HIDE DEF left
  <2>4. Held(r) = SubSeq(Held(t), t.pos + 1, Len(Held(t)))
    BY <2>1, <2>3, DropOfConcat
  <2>5. SubSeq(Held(r), 0 + 1, Len(Held(r))) = Held(r)
    <3>1. Held(r) \in Seq(Atom)
      BY <2>1, <2>4, ViewType
    <3> QED
      BY <3>1, SubSeqFull
  <2>6. Upcoming(r) = Upcoming(t)
    BY <2>2, <2>4, <2>5 DEF Upcoming, UpcomingFrom
  <2>7. Depth(r) = 0 /\ Depth(t) = 0 /\ 1 .. 0 = {}
    BY <1>1, <2>2, EmptySeq DEF Depth
  <2>8. Marks(r) = Marks(t)
    BY <2>7 DEF Marks
  <2> QED
    BY <2>2, <2>6, <2>8
<1>2. CASE ~(t.saves = <<>> /\ t.pos > 0)
  BY <1>2 DEF TapeRelease
<1> QED
  BY <1>1, <1>2

\* peek answers the first of what is upcoming, and what is upcoming stays.
LEMMA PeekView ==
    ASSUME NEW t, TapeInv(t)
    PROVE  /\ TapePeek(t).atom = FirstOf(Upcoming(t))
           /\ Upcoming(TapePeek(t).tape) = Upcoming(t)
           /\ Marks(TapePeek(t).tape) = Marks(t)
<1>1. t \in Tapes /\ t.pos \in Nat /\ Len(t.buf) \in Nat /\ t.pos <= Len(t.buf)
  BY FieldTypes DEF TapeInv, CursorsInOrder
<1>2. CASE t.extra # <<>>
  <2> DEFINE last == t.extra[Len(t.extra)]
             others == UpcomingFrom(t, t.pos, SubSeq(t.extra, 1, Len(t.extra) - 1))
  <2>1. last \in Atom /\ others \in Seq(Atom) /\ Upcoming(t) = <<last>> \o others
    BY <1>1, <1>2, PushedBackIsFirst, ViewType
  <2>2. TapePeek(t) = [tape |-> t, atom |-> last]
    BY <1>2 DEF TapePeek
  <2> HIDE DEF last, others
  <2>3. FirstOf(Upcoming(t)) = last
    BY <2>1, ConsParts DEF FirstOf
  <2> QED
    BY <2>2, <2>3
<1>3. CASE t.extra = <<>>
  <2> DEFINE looked == IF t.pos = Len(t.buf) /\ ~t.done THEN TapePull(t) ELSE t
  <2>1. TapePeek(t) = [tape |-> looked, atom |-> Ahead(looked)]
    BY <1>3 DEF TapePeek
  <2>2. TapeInv(looked)
    BY PullPreservesInv
  <2>3. /\ Held(looked) = Held(t) /\ looked.saves = t.saves /\ looked.pos = t.pos
        /\ looked.extra = t.extra
    BY PullKeepsHeld
  <2>4. looked.pos = Len(looked.buf) => looked.done
    <3>1. CASE t.pos = Len(t.buf) /\ ~t.done
      <4>1. CASE IterNext(t.iter).atom = NoAtom
        BY <3>1, <4>1, PullKeepsHeld
      <4>2. CASE IterNext(t.iter).atom # NoAtom
        <5>1. looked.buf = Append(t.buf, IterNext(t.iter).atom) /\ t.buf \in Seq(Atom)
          BY <1>1, <3>1, <4>2, PullKeepsHeld, FieldTypes
        <5>2. IterNext(t.iter).atom \in Atom
          BY <3>1, <4>2, PullKeepsHeld
        <5>3. Len(looked.buf) = Len(t.buf) + 1
          BY <5>1, <5>2, AppendProperties
        <5> QED
          BY <1>1, <2>3, <3>1, <5>3
      <4> QED
        BY <4>1, <4>2
    <3>2. CASE ~(t.pos = Len(t.buf) /\ ~t.done)
      BY <3>2
    <3> QED
      BY <3>1, <3>2
  <2> HIDE DEF looked
  <2>5. Upcoming(looked) = Upcoming(t) /\ Marks(looked) = Marks(t)
    BY <2>3, SameView
  <2>6. /\ looked \in Tapes /\ looked.buf \in Seq(Atom) /\ Len(looked.buf) \in Nat
        /\ looked.pos \in Nat /\ looked.pos <= Len(looked.buf) /\ looked.extra = <<>>
    BY <1>3, <2>2, <2>3, FieldTypes DEF TapeInv, CursorsInOrder
  <2>7. Ahead(looked) = FirstOf(Upcoming(looked))
    <3>1. CASE looked.pos < Len(looked.buf)
      <4>1. /\ Held(looked)[looked.pos + 1] = looked.buf[looked.pos + 1]
            /\ looked.pos < Len(Held(looked))
        <5>1. looked.pos + 1 \in 1 .. Len(looked.buf)
          BY <2>6, <3>1
        <5> QED
          BY <2>6, <3>1, <5>1, ViewType
      <4> DEFINE first == Held(looked)[looked.pos + 1]
                 others == UpcomingFrom(looked, looked.pos + 1, <<>>)
      <4>2. others \in Seq(Atom)
        <5>1. looked.pos + 1 \in Nat /\ <<>> \in Seq(Atom)
          BY <2>6, EmptySeq
        <5> QED
          BY <2>6, <5>1, ViewType
      <4>a. first \in Atom /\ Upcoming(looked) = <<first>> \o others
        BY <2>6, <4>1, HeldIsFirst
      <4> HIDE DEF first, others
      <4>b. FirstOf(Upcoming(looked)) = first
        BY <4>2, <4>a, ConsParts DEF FirstOf
      <4>3. FirstOf(Upcoming(looked)) = Held(looked)[looked.pos + 1]
        BY <4>b DEF first
      <4> QED
        BY <3>1, <4>1, <4>3 DEF Ahead
    <3>2. CASE ~(looked.pos < Len(looked.buf))
      <4>1. looked.pos = Len(looked.buf) /\ looked.done
        BY <2>4, <2>6, <3>2
      <4>2. Held(looked) = looked.buf
        BY <2>6, <4>1, ConcatEmptySeq DEF Held
      <4>3. Upcoming(looked) = <<>>
        BY <2>6, <4>1, <4>2, HeldIsFirst
      <4> QED
        BY <3>2, <4>3 DEF Ahead, FirstOf
    <3> QED
      BY <3>1, <3>2
  <2> QED
    BY <2>1, <2>5, <2>7
<1> QED
  BY <1>2, <1>3

\* push puts the atom before everything that is upcoming: "push prepends".
LEMMA PushView ==
    ASSUME NEW t, TapeInv(t), NEW a \in Atom
    PROVE  /\ Upcoming(TapePush(t, a)) = <<a>> \o Upcoming(t)
           /\ Marks(TapePush(t, a)) = Marks(t)
<1> DEFINE p == TapePush(t, a)
           longer == Append(t.extra, a)
           held == SubSeq(Held(t), t.pos + 1, Len(Held(t)))
<1>1. t \in Tapes /\ t.pos \in Nat /\ t.extra \in Seq(Atom) /\ held \in Seq(Atom)
  BY FieldTypes, ViewType DEF TapeInv
<1>2. p = [t EXCEPT !.extra = longer]
  BY DEF TapePush
<1>3. Reverse(longer) = <<a>> \o Reverse(t.extra) /\ Reverse(t.extra) \in Seq(Atom)
  BY <1>1, ReverseAppend, ReverseProperties
<1> HIDE DEF longer, p
<1>4. /\ p.extra = longer /\ p.pos = t.pos /\ p.saves = t.saves
      /\ p.buf = t.buf /\ p.iter = t.iter /\ p.done = t.done
  BY <1>1, <1>2 DEF Tapes
<1>5. Held(p) = Held(t)
  BY <1>4 DEF Held
<1>6. Upcoming(p) = Reverse(longer) \o held /\ Upcoming(t) = Reverse(t.extra) \o held
  BY <1>4, <1>5 DEF Upcoming, UpcomingFrom
<1> HIDE DEF held
<1>7. (<<a>> \o Reverse(t.extra)) \o held = <<a>> \o (Reverse(t.extra) \o held)
  <2>1. <<a>> \in Seq(Atom)
    OBVIOUS
  <2> QED
    BY <1>1, <1>3, <2>1, ConcatAssociative
<1>8. Marks(p) = Marks(t)
  BY <1>4, <1>5, SameView
<1> QED
  BY <1>3, <1>6, <1>7, <1>8 DEF p

\* checkpoint remembers what is upcoming.
LEMMA CheckpointView ==
    ASSUME NEW t, TapeInv(t)
    PROVE  /\ Upcoming(TapeCheckpoint(t)) = Upcoming(t)
           /\ Marks(TapeCheckpoint(t)) = Append(Marks(t), Upcoming(t))
<1> DEFINE save == [pos |-> t.pos, extra |-> t.extra]
           saves == Append(t.saves, save)
           c == TapeCheckpoint(t)
           longer == Append(Marks(t), Upcoming(t))
<1>1. t \in Tapes /\ save \in Save /\ t.saves \in Seq(Save) /\ Depth(t) \in Nat
  BY FieldTypes DEF TapeInv, Save
<1>2. c = [t EXCEPT !.saves = saves]
  BY DEF TapeCheckpoint
<1>3. save.pos = t.pos /\ save.extra = t.extra
  OBVIOUS
<1> HIDE DEF save
<1>4. /\ Len(saves) = Depth(t) + 1 /\ saves[Depth(t) + 1] = save
      /\ \A i \in 1 .. Depth(t) : saves[i] = t.saves[i]
  BY <1>1, AppendProperties DEF Depth
<1> HIDE DEF saves, c
<1>5. /\ c.saves = saves /\ c.pos = t.pos /\ c.extra = t.extra
      /\ c.buf = t.buf /\ c.iter = t.iter /\ c.done = t.done
  BY <1>1, <1>2 DEF Tapes
<1>6. Held(c) = Held(t) /\ Depth(c) = Depth(t) + 1
  BY <1>4, <1>5 DEF Held, Depth
<1>7. \A pos, extra : UpcomingFrom(c, pos, extra) = UpcomingFrom(t, pos, extra)
  BY <1>6 DEF UpcomingFrom
<1>8. Upcoming(c) = Upcoming(t)
  BY <1>5, <1>7 DEF Upcoming
<1>9. /\ Marks(t) \in Seq(Seq(Atom)) /\ Len(Marks(t)) = Depth(t) /\ Upcoming(t) \in Seq(Atom)
  BY <1>1, ViewType
<1>10. /\ longer \in Seq(Seq(Atom)) /\ Len(longer) = Depth(t) + 1
       /\ longer[Depth(t) + 1] = Upcoming(t)
       /\ \A i \in 1 .. Depth(t) : longer[i] = Marks(t)[i]
  BY <1>9, AppendProperties
<1>11. c \in Tapes
  BY CheckpointPreservesInv DEF c, TapeInv
<1>12. Marks(c) \in Seq(Seq(Atom)) /\ Len(Marks(c)) = Depth(t) + 1
  BY <1>6, <1>11, ViewType
<1> HIDE DEF longer
<1>13. ASSUME NEW i \in 1 .. Depth(t) + 1
       PROVE  Marks(c)[i] = longer[i]
  <2>1. Marks(c)[i] = UpcomingFrom(t, c.saves[i].pos, c.saves[i].extra)
    BY <1>6, <1>7, MarkAt
  <2>2. CASE i = Depth(t) + 1
    BY <2>1, <2>2, <1>3, <1>4, <1>5, <1>10 DEF Upcoming
  <2>3. CASE i # Depth(t) + 1
    <3>1. i \in 1 .. Depth(t)
      BY <1>1, <2>3
    <3> QED
      BY <2>1, <3>1, <1>4, <1>5, <1>10, MarkAt
  <2> QED
    BY <2>2, <2>3
<1>14. Marks(c) = longer
  BY <1>10, <1>12, <1>13, SeqEqual
<1> QED
  BY <1>8, <1>14 DEF c, longer

\* next, when it has to ask the iterator: nothing but what the iterator yields
\* is upcoming.
LEMMA NextFromIterView ==
    ASSUME NEW t, TapeInv(t), t.extra = <<>>, t.pos = Len(t.buf)
    PROVE  /\ TapeNextFromIter(t).atom = FirstOf(Upcoming(t))
           /\ Upcoming(TapeNextFromIter(t).tape) = AfterFirst(Upcoming(t))
           /\ Marks(TapeNextFromIter(t).tape) = Marks(t)
<1> DEFINE left == t.iter.left
           pulled == IterNext(t.iter)
           n == Len(t.buf)
<1>1. /\ t \in Tapes /\ t.buf \in Seq(Atom) /\ left \in Seq(Atom) /\ t.pos = n
      /\ n \in Nat
  BY FieldTypes DEF TapeInv, Iterator
<1>2. \A u \in Seq(Atom) : SubSeq(t.buf \o u, n + 1, Len(t.buf \o u)) = u
  <2> TAKE u \in Seq(Atom)
  <2>1. n \in 0 .. Len(t.buf) /\ n + 1 \in Int /\ n \in Int /\ n < n + 1
    BY <1>1
  <2>2. SubSeq(t.buf \o u, n + 1, Len(t.buf \o u)) = SubSeq(t.buf, n + 1, Len(t.buf)) \o u
    BY <1>1, <2>1, DropOfConcat
  <2>3. SubSeq(t.buf, n + 1, n) = <<>>
    BY <2>1, SubSeqEmpty
  <2> QED
    BY <2>2, <2>3, ConcatEmptySeq
<1>3. Upcoming(t) = SubSeq(Held(t), n + 1, Len(Held(t)))
  BY <1>1, HeldIsFirst
<1>4. CASE t.done
  <2>1. Held(t) = t.buf
    BY <1>1, <1>4, ConcatEmptySeq DEF Held
  <2>2. Upcoming(t) = <<>>
    <3>1. t.pos >= Len(Held(t))
      BY <1>1, <2>1
    <3> QED
      BY <1>1, <3>1, HeldIsFirst
  <2>3. TapeNextFromIter(t) = [tape |-> t, atom |-> NoAtom]
    BY <1>4 DEF TapeNextFromIter
  <2> QED
    BY <2>2, <2>3 DEF FirstOf, AfterFirst
<1>5. CASE ~t.done
  <2>1. Held(t) = t.buf \o left
    BY <1>5 DEF Held
  <2>2. Upcoming(t) = left
    BY <1>1, <1>2, <1>3, <2>1
  <2>3. CASE pulled.atom = NoAtom
    <3>1. left = <<>> /\ Held(TapePull(t)) = Held(t) /\ TapePull(t).saves = t.saves
          /\ TapePull(t).pos = t.pos /\ TapePull(t).extra = t.extra
      BY <1>5, <2>3, PullKeepsHeld
    <3>2. TapeNextFromIter(t) = [tape |-> TapePull(t), atom |-> NoAtom]
      BY <1>5, <2>3 DEF TapeNextFromIter
    <3>3. Upcoming(TapePull(t)) = Upcoming(t) /\ Marks(TapePull(t)) = Marks(t)
      BY <3>1, SameView
    <3> QED
      BY <2>2, <3>1, <3>2, <3>3 DEF FirstOf, AfterFirst
  <2>4. CASE pulled.atom # NoAtom
    <3>1. /\ pulled.atom \in Atom /\ left # <<>> /\ pulled.atom = Head(left)
          /\ pulled.iter.left = Tail(left) /\ Held(TapePull(t)) = Held(t)
          /\ TapePull(t).saves = t.saves /\ TapePull(t).extra = t.extra
      BY <1>5, <2>4, PullKeepsHeld
    <3>2. Tail(left) \in Seq(Atom)
      BY <1>1, <3>1, HeadTailProperties
    <3>3. TapePull(t) \in Tapes
      BY <1>5, PullPreservesInv DEF TapeInv
    <3>4. CASE t.saves = <<>>
      <4> DEFINE served == [t EXCEPT !.iter = pulled.iter]
      <4>1. TapeNextFromIter(t) = [tape |-> served, atom |-> pulled.atom]
        BY <1>5, <2>4, <3>4 DEF TapeNextFromIter
      <4>2. /\ served.iter = pulled.iter /\ served.buf = t.buf /\ served.pos = n
            /\ served.extra = <<>> /\ served.saves = t.saves /\ ~served.done
        BY <1>1, <1>5 DEF Tapes
      <4> HIDE DEF served
      <4>3. Held(served) = t.buf \o Tail(left)
        BY <3>1, <4>2 DEF Held
      <4>4. Upcoming(served) = Tail(left)
        <5>1. Reverse(<<>>) = <<>>
          BY EmptySeq, ReverseProperties
        <5>2. SubSeq(Held(served), n + 1, Len(Held(served))) = Tail(left)
          BY <1>2, <3>2, <4>3
        <5>3. Upcoming(served) = <<>> \o Tail(left)
          BY <4>2, <5>1, <5>2 DEF Upcoming, UpcomingFrom
        <5> QED
          BY <3>2, <5>3, ConcatEmptySeq
      <4>5. Marks(served) = Marks(t)
        <5>1. Depth(served) = 0 /\ Depth(t) = 0 /\ 1 .. 0 = {}
          BY <3>4, <4>2, EmptySeq DEF Depth
        <5> QED
          BY <5>1 DEF Marks
      <4> QED
        BY <2>2, <3>1, <4>1, <4>4, <4>5 DEF FirstOf, AfterFirst
    <3>5. CASE t.saves # <<>>
      <4> DEFINE p == TapePull(t)
                 served == [p EXCEPT !.pos = t.pos + 1]
      <4>1. TapeNextFromIter(t) = [tape |-> served, atom |-> pulled.atom]
        BY <1>5, <2>4, <3>5 DEF TapeNextFromIter
      <4>2. /\ served.iter = p.iter /\ served.buf = p.buf /\ served.pos = n + 1
            /\ served.extra = <<>> /\ served.saves = t.saves /\ served.done = p.done
        BY <1>1, <3>1, <3>3 DEF Tapes
      <4>a. Held(p) = Held(t)
        BY <3>1
      <4> HIDE DEF served, p
      <4>3. Held(served) = Held(t)
        BY <4>a, <4>2 DEF Held
      <4>4. Upcoming(served) = UpcomingFrom(t, n + 1, <<>>)
        BY <4>2, <4>3 DEF Upcoming, UpcomingFrom
      <4>5. UpcomingFrom(t, n + 1, <<>>) \in Seq(Atom)
        <5>1. n + 1 \in Nat /\ <<>> \in Seq(Atom)
          BY <1>1, EmptySeq
        <5> QED
          BY <1>1, <5>1, ViewType
      <4>6. n < Len(Held(t))
        <5>1. Upcoming(t) # <<>>
          BY <2>2, <3>1
        <5>2. ~(t.pos >= Len(Held(t)))
          BY <1>1, <5>1, HeldIsFirst
        <5>3. Len(Held(t)) \in Nat
          BY <1>1, ViewType
        <5> QED
          BY <1>1, <5>2, <5>3
      <4>7. /\ Held(t)[n + 1] \in Atom
            /\ Upcoming(t) = <<Held(t)[n + 1]>> \o UpcomingFrom(t, n + 1, <<>>)
        BY <1>1, <4>6, HeldIsFirst
      <4> DEFINE first == Held(t)[n + 1]
                 others == UpcomingFrom(t, n + 1, <<>>)
      <4>8. first \in Atom /\ others \in Seq(Atom) /\ left = <<first>> \o others
        BY <2>2, <4>5, <4>7
      <4> HIDE DEF first, others
      <4>9. Tail(left) = others
        BY <4>8, ConsParts
      <4>10. Marks(served) = Marks(t)
        BY <4>2, <4>3, SameView
      <4>11. Upcoming(served) = Tail(left)
        BY <4>4, <4>9 DEF others
      <4>12. FirstOf(left) = pulled.atom /\ AfterFirst(left) = Tail(left)
        BY <3>1 DEF FirstOf, AfterFirst
      <4> HIDE DEF left, pulled
      <4> QED
        BY <2>2, <4>1, <4>10, <4>11, <4>12
    <3> QED
      BY <3>4, <3>5
  <2> QED
    BY <2>3, <2>4
<1> QED
  BY <1>4, <1>5

\* next answers the first of what is upcoming and leaves the others.
LEMMA NextView ==
    ASSUME NEW t, TapeInv(t)
    PROVE  /\ TapeNext(t).atom = FirstOf(Upcoming(t))
           /\ Upcoming(TapeNext(t).tape) = AfterFirst(Upcoming(t))
           /\ Marks(TapeNext(t).tape) = Marks(t)
<1>0. /\ t \in Tapes /\ t.pos \in Nat /\ Len(t.buf) \in Nat /\ t.buf \in Seq(Atom)
      /\ t.pos <= Len(t.buf) /\ Depth(t) \in Nat
  BY FieldTypes DEF TapeInv, CursorsInOrder
<1>1. CASE t.extra # <<>>
  <2> DEFINE shorter == SubSeq(t.extra, 1, Len(t.extra) - 1)
             last == t.extra[Len(t.extra)]
             popped == [t EXCEPT !.extra = shorter]
             others == UpcomingFrom(t, t.pos, shorter)
  <2>1. TapeNext(t) = [tape |-> popped, atom |-> last]
    BY <1>1 DEF TapeNext
  <2>2. last \in Atom /\ shorter \in Seq(Atom) /\ Upcoming(t) = <<last>> \o others
    BY <1>0, <1>1, PushedBackIsFirst
  <2> HIDE DEF shorter, last
  <2>3. others \in Seq(Atom)
    BY <1>0, <2>2, ViewType
  <2>4. /\ popped.extra = shorter /\ popped.pos = t.pos /\ popped.saves = t.saves
        /\ popped.buf = t.buf /\ popped.iter = t.iter /\ popped.done = t.done
    BY <1>0 DEF Tapes
  <2> HIDE DEF popped
  <2>5. Held(popped) = Held(t)
    BY <2>4 DEF Held
  <2>6. Upcoming(popped) = others
    BY <2>4, <2>5 DEF Upcoming, UpcomingFrom
  <2>7. Marks(popped) = Marks(t)
    BY <2>4, <2>5, SameView
  <2> HIDE DEF others
  <2>8. FirstOf(Upcoming(t)) = last /\ AfterFirst(Upcoming(t)) = others
    BY <2>2, <2>3, ConsParts DEF FirstOf, AfterFirst
  <2> QED
    BY <2>1, <2>6, <2>7, <2>8
<1>2. CASE t.extra = <<>> /\ t.pos < Len(t.buf)
  <2> DEFINE moved == [t EXCEPT !.pos = t.pos + 1]
             first == t.buf[t.pos + 1]
             others == UpcomingFrom(t, t.pos + 1, <<>>)
  <2>1. TapeNext(t) = [tape |-> TapeRelease(moved), atom |-> first]
    BY <1>2 DEF TapeNext
  <2>2. /\ moved.pos = t.pos + 1 /\ moved.buf = t.buf /\ moved.saves = t.saves
        /\ moved.extra = <<>> /\ moved.iter = t.iter /\ moved.done = t.done
        /\ moved \in Tapes
    <3>1. t.pos + 1 \in Nat
      BY <1>0
    <3> QED
      BY <1>0, <1>2, <3>1 DEF Tapes
  <2> HIDE DEF moved
  <2>3. UnreleasedInv(moved)
    <3>1. \A i \in 1 .. Depth(t) : t.saves[i].pos \in Nat
      BY <1>0, FieldTypes
    <3>2. CursorsInOrder(moved)
      BY <1>0, <1>2, <2>2, <3>1 DEF TapeInv, CursorsInOrder, Depth
    <3> QED
      BY <2>2, <3>2 DEF TapeInv, UnreleasedInv, OnlyScopedRetention, EndKnown
  <2>4. Held(moved) = Held(t)
    BY <2>2 DEF Held
  <2>5. Upcoming(moved) = others
    BY <2>2, <2>4 DEF Upcoming, UpcomingFrom
  <2>6. Marks(moved) = Marks(t)
    BY <2>2, <2>4, SameView
  <2>7. others \in Seq(Atom)
    <3>1. t.pos + 1 \in Nat /\ <<>> \in Seq(Atom)
      BY <1>0, EmptySeq
    <3> QED
      BY <1>0, <3>1, ViewType
  <2>8. first \in Atom /\ Upcoming(t) = <<first>> \o others
    <3>1. t.pos + 1 \in 1 .. Len(t.buf)
      BY <1>0, <1>2
    <3>2. Held(t)[t.pos + 1] = first /\ t.pos < Len(Held(t))
      BY <1>0, <1>2, <3>1, ViewType
    <3> QED
      BY <1>0, <1>2, <3>2, HeldIsFirst
  <2> HIDE DEF first, others
  <2>9. FirstOf(Upcoming(t)) = first /\ AfterFirst(Upcoming(t)) = others
    BY <2>7, <2>8, ConsParts DEF FirstOf, AfterFirst
  <2> QED
    BY <2>1, <2>3, <2>5, <2>6, <2>9, ReleaseKeepsView
<1>3. CASE t.extra = <<>> /\ ~(t.pos < Len(t.buf))
  <2>1. t.pos = Len(t.buf)
    BY <1>0, <1>3
  <2>2. TapeRelease(t) = t
    BY DEF TapeInv, OnlyScopedRetention, TapeRelease
  <2>3. TapeNext(t) = TapeNextFromIter(t)
    BY <1>3, <2>2 DEF TapeNext
  <2> QED
    BY <1>3, <2>1, <2>3, NextFromIterView
<1> QED
  BY <1>1, <1>2, <1>3

\* Closing scopes down to raw keeps the marks of those around it.
LEMMA OuterMarks ==
    ASSUME NEW t \in Tapes, NEW u \in Tapes, NEW raw, RawIsOpen(t, raw),
           Held(u) = Held(t), u.saves = SubSeq(t.saves, 1, raw)
    PROVE  Marks(u) = SubSeq(Marks(t), 1, raw)
<1> DEFINE outer == SubSeq(Marks(t), 1, raw)
<1>1. Depth(t) \in Nat /\ raw \in Nat /\ raw < Depth(t) /\ t.saves \in Seq(Save)
  BY FieldTypes DEF RawIsOpen
<1>2. /\ Len(u.saves) = raw
      /\ \A i \in 1 .. raw : u.saves[i] = t.saves[i]
  <2>1. \A i \in 1 .. raw : t.saves[i] \in Save
    BY <1>1, ElementOfSeq DEF Depth
  <2> QED
    BY <1>1, <2>1, SubSeqProperties
<1>3. Depth(u) = raw
  BY <1>2 DEF Depth
<1>4. Marks(t) \in Seq(Seq(Atom)) /\ Len(Marks(t)) = Depth(t)
  BY ViewType
<1>5. /\ outer \in Seq(Seq(Atom)) /\ Len(outer) = raw
      /\ \A i \in 1 .. raw : outer[i] = Marks(t)[i]
  <2>1. \A i \in 1 .. raw : Marks(t)[i] \in Seq(Atom)
    BY <1>1, <1>4, ElementOfSeq
  <2> QED
    BY <1>1, <2>1, SubSeqProperties
<1>6. Marks(u) \in Seq(Seq(Atom)) /\ Len(Marks(u)) = raw
  BY <1>3, ViewType
<1> HIDE DEF outer
<1>7. ASSUME NEW i \in 1 .. raw
      PROVE  Marks(u)[i] = outer[i]
  <2>1. i \in 1 .. Depth(t) /\ i \in 1 .. Depth(u)
    BY <1>1, <1>3
  <2>2. Marks(u)[i] = UpcomingFrom(u, u.saves[i].pos, u.saves[i].extra)
    BY <2>1, MarkAt
  <2>3. Marks(t)[i] = UpcomingFrom(t, t.saves[i].pos, t.saves[i].extra)
    BY <2>1, MarkAt
  <2> QED
    BY <1>2, <1>5, <2>2, <2>3 DEF UpcomingFrom
<1>8. Marks(u) = outer
  BY <1>5, <1>6, <1>7, SeqEqual
<1> QED
  BY <1>8 DEF outer

\* rollback goes back to the mark and closes its scope.
LEMMA RollbackView ==
    ASSUME NEW t, TapeInv(t), NEW raw, RawIsOpen(t, raw)
    PROVE  /\ Upcoming(TapeRollback(t, raw)) = Marks(t)[raw + 1]
           /\ Marks(TapeRollback(t, raw)) = SubSeq(Marks(t), 1, raw)
<1> DEFINE back == Rewound(t, raw)
<1>1. /\ UnreleasedInv(back)
      /\ back.pos = t.saves[raw + 1].pos /\ back.extra = t.saves[raw + 1].extra
      /\ back.saves = SubSeq(t.saves, 1, raw)
      /\ back.buf = t.buf /\ back.iter = t.iter /\ back.done = t.done
  BY RewoundIsUnreleased
<1>2. TapeRollback(t, raw) = TapeRelease(back)
  BY DEF TapeRollback, Rewound
<1> HIDE DEF back
<1>3. Held(back) = Held(t) /\ t \in Tapes /\ back \in Tapes
  BY <1>1 DEF Held, TapeInv, UnreleasedInv
<1>4. Marks(back) = SubSeq(Marks(t), 1, raw)
  BY <1>1, <1>3, OuterMarks
<1>5. raw + 1 \in 1 .. Depth(t)
  BY <1>3, FieldTypes DEF RawIsOpen
<1>6. Upcoming(back) = Marks(t)[raw + 1]
  BY <1>1, <1>3, <1>5, MarkAt DEF Upcoming, UpcomingFrom
<1> QED
  BY <1>1, <1>2, <1>4, <1>6, ReleaseKeepsView

\* commit keeps what is upcoming and closes the scope.
LEMMA CommitView ==
    ASSUME NEW t, TapeInv(t), NEW raw, RawIsOpen(t, raw)
    PROVE  /\ Upcoming(TapeCommit(t, raw)) = Upcoming(t)
           /\ Marks(TapeCommit(t, raw)) = SubSeq(Marks(t), 1, raw)
<1> DEFINE kept == Closed(t, raw)
<1>1. /\ UnreleasedInv(kept)
      /\ kept.pos = t.pos /\ kept.extra = t.extra
      /\ kept.saves = SubSeq(t.saves, 1, raw)
      /\ kept.buf = t.buf /\ kept.iter = t.iter /\ kept.done = t.done
  BY ClosedIsUnreleased
<1>2. TapeCommit(t, raw) = TapeRelease(kept)
  BY DEF TapeCommit, Closed
<1> HIDE DEF kept
<1>3. Held(kept) = Held(t) /\ t \in Tapes /\ kept \in Tapes
  BY <1>1 DEF Held, TapeInv, UnreleasedInv
<1>4. Marks(kept) = SubSeq(Marks(t), 1, raw)
  BY <1>1, <1>3, OuterMarks
<1>5. Upcoming(kept) = Upcoming(t)
  BY <1>1, <1>3 DEF Upcoming, UpcomingFrom
<1> QED
  BY <1>1, <1>2, <1>4, <1>5, ReleaseKeepsView

=============================================================================
