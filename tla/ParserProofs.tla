---------------------------- MODULE ParserProofs ----------------------------
(***************************************************************************)
(* For every grammar, every call and every source: the scopes of a parse   *)
(* nest, what a stream still serves is a suffix of what it was made from,  *)
(* and, as long as no type catches an error without rewinding, the flag of *)
(* the token source is right whenever spacing is asked for.                *)
(***************************************************************************)
EXTENDS Parser, ParserLemmas, FiniteSetTheorems

\* Sequences whose elements have no type worth naming.
IsSeq(s) == s \in Seq({s[i] : i \in DOMAIN s})

\* The kinds of frame that run the parse_stream of a combinator.
NodeKinds == {"leaf", "integer", "option", "result", "attempt", "many",
              "punctuated", "unordered", "enum"}

\* A frame and the code it runs.
FrameInv(f) ==
    \/ /\ f.kind = "items" /\ DOMAIN f = {"kind", "items", "pc", "acc", "peeked"}
       /\ f.items \in Seq(ItemType) /\ f.pc \in Nat \ {0}
    \/ f.kind = "skip" /\ DOMAIN f = {"kind", "found"}
    \/ f.kind = "dup" /\ DOMAIN f = {"kind", "raw", "level"}
    \/ f.kind = "spanned" /\ "kind" \in DOMAIN f
    \/ /\ f.kind \in NodeKinds /\ DOMAIN f = {"kind", "node", "step", "acc"}
       /\ f.node \in NodeId /\ Rules[f.node].kind = f.kind /\ f.step \in Nat
    \/ /\ f.kind = "suffix" /\ DOMAIN f = {"kind", "node", "value", "acc"}
       /\ f.node \in NodeId /\ Rules[f.node].kind = "integer"
    \/ /\ f.kind = "variants"
       /\ DOMAIN f = {"kind", "node", "step", "acc", "errors"}
       /\ f.node \in EnumNodes /\ f.step \in Nat

\* The callee of f reads a stream of its own, the contents of a group.
Inside(f) == f.kind = "items" /\ f.items[f.pc].op = "group"

\* Whatever f does about a failure of its callee, the callee has rewound.
RewindsFirst(f) ==
    \/ f.kind \in {"option", "many", "punctuated"}
    \/ f.kind = "unordered" /\ f.step = 1
    \/ f.kind = "variants" /\ f.step > 0

\* A frame and its callee.
MayCall(f, g) ==
    /\ g.kind = "skip" => ~Inside(f)
    /\ RewindsFirst(f) => g.kind = "dup"

\* The stream that the i-th frame reads, counted from the outermost one.
LevelAt(fs, i) == 1 + Cardinality({j \in 1 .. i - 1 : Inside(fs[j])})

FramesInv(fs) ==
    /\ IsSeq(fs)
    /\ \A i \in 1 .. Len(fs) : FrameInv(fs[i])
    /\ \A i \in 1 .. Len(fs) - 1 : MayCall(fs[i], fs[i + 1])
    /\ \A i \in 1 .. Len(fs) : fs[i].kind = "dup" => fs[i].level = LevelAt(fs, i)

\* What a scan has taken is what precedes the rest that the stream serves.
ScanInv(f, s) ==
    f.kind \in {"integer", "suffix"} =>
        f.acc \in Seq(Atom) /\ IsRest(f.acc \o Unread(s), s.source)

\* A frame that is about to run.
Starts(f, s) ==
    /\ f.kind = "spanned" => f.node \in NodeId /\ Rules[f.node].kind = "spanned"
    /\ ScanInv(f, s)

\* What runs next, and on which stream.
ControlInv ==
    IF ret = Running
    THEN /\ frames # <<>>
         /\ Len(streams) = LevelAt(frames, Len(frames))
         /\ Starts(Top, Current)
    ELSE /\ Len(streams) = LevelAt(frames, Len(frames) + 1)
         /\ frames # <<>> /\ ret.tag = "sep" => ~Inside(Top)

StreamsInv ==
    /\ streams \in Seq(Stream) /\ streams # <<>>
    /\ \A level \in 1 .. Len(streams) : StreamInv(streams[level])

\* A failure is on its way to the transaction that rewinds it.
Failing == ret.tag = "err" /\ (frames # <<>> => ~RewindsFirst(Top))

\* Result<T, E> is the one type that catches an error without rewinding.
NoneCatches == \A n \in NodeId : Rules[n].kind # "result"

FlagsInv ==
    TokenSource /\ NoneCatches =>
        \A level \in 1 .. Len(streams) :
            /\ SavedFlagsRight(streams[level])
            /\ level < Len(streams) \/ ~Failing => FlagRight(streams[level])

IInv ==
    FramesInv(frames) /\ ControlInv /\ StreamsInv /\ ScopesNest /\ FlagsInv

-----------------------------------------------------------------------------
(* Sequences of frames. *)

LEMMA SeqFacts ==
    ASSUME NEW s, IsSeq(s)
    PROVE  /\ Len(s) \in Nat /\ DOMAIN s = 1 .. Len(s)
           /\ s = <<>> <=> Len(s) = 0
<1> DEFINE S == {s[i] : i \in DOMAIN s}
<1>1. s \in Seq(S)
  BY DEF IsSeq
<1> HIDE DEF S
<1> QED
  BY <1>1, LenProperties, EmptySeq

LEMMA FunctionIsSeqOfFrames ==
    ASSUME NEW n \in Nat, NEW f, f = [i \in 1 .. n |-> f[i]]
    PROVE  IsSeq(f) /\ Len(f) = n
<1> DEFINE S == {f[i] : i \in DOMAIN f}
<1>1. DOMAIN f = 1 .. n
  OBVIOUS
<1>2. f \in [1 .. n -> S]
  BY <1>1
<1> HIDE DEF S
<1>3. f \in Seq(S) /\ Len(f) = n
  BY <1>2, FunctionIsSeq
<1> QED
  BY <1>3 DEF IsSeq, S

LEMMA SeqIsSeqOfFrames ==
    ASSUME NEW S, NEW s \in Seq(S)
    PROVE  IsSeq(s)
<1>1. Len(s) \in Nat /\ s = [i \in 1 .. Len(s) |-> s[i]]
  BY LenProperties
<1> QED
  BY <1>1, FunctionIsSeqOfFrames

LEMMA ShortSeqs ==
    /\ IsSeq(<<>>) /\ Len(<<>>) = 0
    /\ \A a : IsSeq(<<a>>) /\ Len(<<a>>) = 1
    /\ \A a, b : IsSeq(<<a, b>>) /\ Len(<<a, b>>) = 2
    /\ \A a, b, c : IsSeq(<<a, b, c>>) /\ Len(<<a, b, c>>) = 3
<1>1. <<>> \in Seq({}) /\ Len(<<>>) = 0
  BY EmptySeq
<1>2. \A a : <<a>> \in Seq({a}) /\ Len(<<a>>) = 1
  OBVIOUS
<1>3. \A a, b : <<a, b>> \in Seq({a, b}) /\ Len(<<a, b>>) = 2
  OBVIOUS
<1>4. \A a, b, c : <<a, b, c>> \in Seq({a, b, c}) /\ Len(<<a, b, c>>) = 3
  OBVIOUS
<1> QED
  BY <1>1, <1>2, <1>3, <1>4, SeqIsSeqOfFrames

\* A call stack without its last frame.
LEMMA FrontOfSeq ==
    ASSUME NEW s, IsSeq(s), s # <<>>
    PROVE  /\ IsSeq(Front(s)) /\ Len(Front(s)) = Len(s) - 1
           /\ \A i \in 1 .. Len(s) - 1 : Front(s)[i] = s[i]
           /\ Front(s) \o <<>> = Front(s)
<1> DEFINE S == {s[i] : i \in DOMAIN s}
<1>1. s \in Seq(S) /\ Len(s) \in Nat /\ Len(s) # 0
  BY SeqFacts DEF IsSeq
<1> HIDE DEF S
<1>2. \A i \in 1 .. Len(s) - 1 : i \in 1 .. Len(s)
  BY <1>1
<1>3. \A i \in 1 .. Len(s) - 1 : s[i] \in S
  BY <1>1, <1>2, ElementOfSeq
<1>4. /\ Front(s) \in Seq(S)
      /\ Len(Front(s)) = IF 1 <= Len(s) - 1 THEN (Len(s) - 1) - 1 + 1 ELSE 0
      /\ \A i \in 1 .. (Len(s) - 1) - 1 + 1 : Front(s)[i] = s[1 + i - 1]
  <2>1. Len(s) - 1 \in Int /\ 1 \in Int
    BY <1>1
  <2> QED
    BY <1>3, <2>1, SubSeqProperties DEF Front
<1>5. Len(Front(s)) = Len(s) - 1
  <2>1. \A n, m \in Nat :
           n # 0 /\ m = (IF 1 <= n - 1 THEN (n - 1) - 1 + 1 ELSE 0) => m = n - 1
    OBVIOUS
  <2>2. Len(Front(s)) \in Nat
    BY <1>4, LenProperties
  <2> QED
    BY <1>1, <1>4, <2>1, <2>2
<1>6. \A i \in 1 .. Len(s) - 1 : Front(s)[i] = s[i]
  BY <1>1, <1>4
<1> QED
  BY <1>4, <1>5, <1>6, SeqIsSeqOfFrames, ConcatEmptySeq

LEMMA ConcatSeqs ==
    ASSUME NEW s, IsSeq(s), NEW t, IsSeq(t)
    PROVE  /\ IsSeq(s \o t) /\ Len(s \o t) = Len(s) + Len(t)
           /\ \A i \in 1 .. Len(s) : (s \o t)[i] = s[i]
           /\ \A i \in 1 .. Len(t) : (s \o t)[Len(s) + i] = t[i]
<1> DEFINE S == {s[i] : i \in DOMAIN s} \cup {t[i] : i \in DOMAIN t}
<1>1. s \in Seq(S) /\ t \in Seq(S)
  <2>1. s \in Seq({s[i] : i \in DOMAIN s}) /\ t \in Seq({t[i] : i \in DOMAIN t})
    BY DEF IsSeq
  <2> QED
    BY <2>1, SeqMonotonic
<1> HIDE DEF S
<1>2. Len(s) \in Nat /\ Len(t) \in Nat
  BY SeqFacts
<1>3. /\ s \o t \in Seq(S) /\ Len(s \o t) = Len(s) + Len(t)
      /\ \A i \in 1 .. Len(s) + Len(t) :
            (s \o t)[i] = IF i <= Len(s) THEN s[i] ELSE t[i - Len(s)]
  BY <1>1, ConcatProperties
<1>4. \A i \in 1 .. Len(s) : (s \o t)[i] = s[i]
  BY <1>2, <1>3
<1>5. \A i \in 1 .. Len(t) : (s \o t)[Len(s) + i] = t[i]
  <2> TAKE i \in 1 .. Len(t)
  <2>1. /\ Len(s) + i \in 1 .. Len(s) + Len(t) /\ ~(Len(s) + i <= Len(s))
        /\ (Len(s) + i) - Len(s) = i
    BY <1>2
  <2> QED
    BY <1>3, <2>1
<1> QED
  BY <1>3, <1>4, <1>5, SeqIsSeqOfFrames

-----------------------------------------------------------------------------
(* What a step does to the call stack. *)

\* A caller after a step of its callee: the accumulator of a WithSpan may have
\* widened.
Alike(g, f) ==
    /\ g.kind = f.kind
    /\ IF f.kind = "spanned" THEN "kind" \in DOMAIN g ELSE g = f

\* The frame on top has become those of new.
Replaced(new) ==
    /\ IsSeq(frames') /\ Len(frames') = Len(frames) - 1 + Len(new)
    /\ \A i \in 1 .. Len(frames) - 1 : Alike(frames'[i], frames[i])
    /\ \A i \in 1 .. Len(new) : frames'[Len(frames) - 1 + i] = new[i]

LEMMA StackReplaced ==
    ASSUME FramesInv(frames), frames # <<>>, NEW new, IsSeq(new),
           \/ frames' = Front(frames) \o new
           \/ frames' = Witnessed(Front(frames)) \o new
    PROVE  Replaced(new)
<1> DEFINE base == Front(frames)
           n == Len(frames) - 1
           seen == Witnessed(base)
<1>1. IsSeq(frames) /\ Len(frames) \in Nat /\ Len(frames) # 0 /\ n \in Nat
  <2>1. IsSeq(frames)
    BY DEF FramesInv
  <2> QED
    BY <2>1, SeqFacts
<1>2. /\ IsSeq(base) /\ Len(base) = n
      /\ \A i \in 1 .. n : base[i] = frames[i]
  BY <1>1, FrontOfSeq, SeqFacts
<1>3. \A i \in 1 .. n : FrameInv(frames[i])
  BY <1>1 DEF FramesInv
<1>4. \A i \in 1 .. n : "kind" \in DOMAIN frames[i]
  BY <1>3 DEF FrameInv
<1> HIDE DEF base
<1>5. DOMAIN base = 1 .. n
  BY <1>2, SeqFacts
<1>6. /\ IsSeq(seen) /\ Len(seen) = n
      /\ \A i \in 1 .. n : Alike(seen[i], frames[i])
  <2>1. seen = [i \in 1 .. n |-> seen[i]]
    BY <1>5 DEF Witnessed
  <2>2. ASSUME NEW i \in 1 .. n
        PROVE  Alike(seen[i], frames[i])
    <3> DEFINE f == frames[i]
               g == [f EXCEPT !.acc = Widened(f.acc, NextSpan(Current))]
    <3>1. \/ seen[i] = f
          \/ f.kind = "spanned" /\ seen[i] = g
      BY <1>2, <1>5 DEF Witnessed
    <3>2. "kind" \in DOMAIN f
      BY <1>4
    <3>3. g.kind = f.kind /\ "kind" \in DOMAIN g
      <4> HIDE DEF f
      <4> QED
        BY <3>2
    <3> HIDE DEF g
    <3> QED
      BY <3>1, <3>2, <3>3 DEF Alike
  <2> HIDE DEF seen
  <2> QED
    BY <1>1, <2>1, <2>2, FunctionIsSeqOfFrames
<1>7. \A i \in 1 .. n : Alike(base[i], frames[i])
  BY <1>2, <1>4 DEF Alike
<1> HIDE DEF seen, n
<1>8. PICK kept : /\ frames' = kept \o new
                  /\ IsSeq(kept) /\ Len(kept) = n
                  /\ \A i \in 1 .. n : Alike(kept[i], frames[i])
  BY <1>2, <1>6, <1>7 DEF base, seen
<1>9. /\ IsSeq(frames') /\ Len(frames') = n + Len(new)
      /\ \A i \in 1 .. n : frames'[i] = kept[i]
      /\ \A i \in 1 .. Len(new) : frames'[n + i] = new[i]
  <2> DEFINE all == kept \o new
  <2>1. IsSeq(kept) /\ IsSeq(new)
    BY <1>8
  <2>2. /\ IsSeq(all) /\ Len(all) = Len(kept) + Len(new)
        /\ \A i \in 1 .. Len(kept) : all[i] = kept[i]
        /\ \A i \in 1 .. Len(new) : all[Len(kept) + i] = new[i]
    BY ONLY <2>1, ConcatSeqs
  <2> HIDE DEF all
  <2> QED
    BY <1>8, <2>2 DEF all
<1> QED
  BY <1>8, <1>9 DEF Replaced, n

-----------------------------------------------------------------------------
(* The stream that each frame reads. *)

LEMMA LevelFacts ==
    ASSUME NEW fs
    PROVE  /\ \A i \in Nat : LevelAt(fs, i) \in Nat \ {0}
           /\ LevelAt(fs, 1) = 1
           /\ \A i \in Nat \ {0} :
                 LevelAt(fs, i + 1) = LevelAt(fs, i) + IF Inside(fs[i]) THEN 1 ELSE 0
<1> DEFINE Groups(i) == {j \in 1 .. i - 1 : Inside(fs[j])}
<1>1. ASSUME NEW i \in Nat
      PROVE  IsFiniteSet(Groups(i)) /\ Cardinality(Groups(i)) \in Nat
  <2>1. IsFiniteSet(1 .. i - 1)
    BY FS_Interval
  <2>2. Groups(i) \subseteq 1 .. i - 1
    OBVIOUS
  <2>3. IsFiniteSet(Groups(i))
    BY <2>1, <2>2, FS_Subset
  <2> QED
    BY <2>3, FS_CardinalityType
<1>2. \A i \in Nat : LevelAt(fs, i) = 1 + Cardinality(Groups(i))
  BY DEF LevelAt
<1>3. Groups(1) = {}
  OBVIOUS
<1>4. ASSUME NEW i \in Nat \ {0}
      PROVE  Cardinality(Groups(i + 1))
                = Cardinality(Groups(i)) + IF Inside(fs[i]) THEN 1 ELSE 0
  <2>1. CASE Inside(fs[i])
    <3>1. Groups(i + 1) = Groups(i) \cup {i}
      BY <2>1
    <3>2. i \notin Groups(i)
      OBVIOUS
    <3> HIDE DEF Groups
    <3>3. IsFiniteSet(Groups(i))
      BY <1>1
    <3>4. Cardinality(Groups(i) \cup {i}) = Cardinality(Groups(i)) + 1
      BY <3>2, <3>3, FS_AddElement
    <3> QED
      BY <2>1, <3>1, <3>4
  <2>2. CASE ~Inside(fs[i])
    <3>1. Groups(i + 1) = Groups(i)
      <4>1. \A j : j \in 1 .. (i + 1) - 1 <=> j \in 1 .. i - 1 \/ j = i
        OBVIOUS
      <4> QED
        BY <2>2, <4>1
    <3> HIDE DEF Groups
    <3>2. Cardinality(Groups(i)) \in Nat
      BY <1>1
    <3> QED
      BY <2>2, <3>1, <3>2
  <2> QED
    BY <2>1, <2>2
<1>5. Cardinality(Groups(1)) = 0
  BY <1>3, FS_EmptySet
<1> HIDE DEF Groups
<1>6. \A i \in Nat : Cardinality(Groups(i)) \in Nat
  BY <1>1
<1>7. \A i \in Nat \ {0} : i \in Nat /\ i + 1 \in Nat
  OBVIOUS
<1>8. ASSUME NEW i \in Nat \ {0}
      PROVE  LevelAt(fs, i + 1) = LevelAt(fs, i) + IF Inside(fs[i]) THEN 1 ELSE 0
  <2>1. /\ LevelAt(fs, i) = 1 + Cardinality(Groups(i))
        /\ LevelAt(fs, i + 1) = 1 + Cardinality(Groups(i + 1))
        /\ Cardinality(Groups(i)) \in Nat
    BY <1>2, <1>6, <1>7
  <2> QED
    BY <1>4, <2>1
<1> QED
  BY <1>2, <1>5, <1>6, <1>8

\* Levels only depend on the callers, and a widened accumulator is no group.
LEMMA SameLevels ==
    ASSUME NEW fs, NEW gs, NEW n \in Nat,
           \A i \in 1 .. n : Alike(gs[i], fs[i])
    PROVE  \A i \in 1 .. n + 1 : LevelAt(gs, i) = LevelAt(fs, i)
<1>1. \A i \in 1 .. n : Inside(gs[i]) <=> Inside(fs[i])
  BY DEF Alike, Inside
<1> TAKE i \in 1 .. n + 1
<1>2. \A j \in 1 .. i - 1 : j \in 1 .. n
  OBVIOUS
<1>3. {j \in 1 .. i - 1 : Inside(gs[j])} = {j \in 1 .. i - 1 : Inside(fs[j])}
  BY <1>1, <1>2
<1> QED
  BY <1>3 DEF LevelAt

\* No frame reads a stream beyond that of a later one.
LEMMA LevelsGrow ==
    ASSUME NEW fs, NEW n \in Nat \ {0}
    PROVE  \A i \in 1 .. n : LevelAt(fs, i) <= LevelAt(fs, n)
<1> TAKE i \in 1 .. n
<1> DEFINE Lower == {j \in 1 .. i - 1 : Inside(fs[j])}
           Upper == {j \in 1 .. n - 1 : Inside(fs[j])}
<1>1. Lower \subseteq Upper
  OBVIOUS
<1>2. IsFiniteSet(Upper)
  <2>1. IsFiniteSet(1 .. n - 1)
    BY FS_Interval
  <2>2. Upper \subseteq 1 .. n - 1
    OBVIOUS
  <2> QED
    BY <2>1, <2>2, FS_Subset
<1> HIDE DEF Lower, Upper
<1>3. IsFiniteSet(Lower) /\ Cardinality(Lower) <= Cardinality(Upper)
  BY <1>1, <1>2, FS_Subset
<1>4. Cardinality(Lower) \in Nat /\ Cardinality(Upper) \in Nat
  BY <1>2, <1>3, FS_CardinalityType
<1>5. 1 + Cardinality(Lower) <= 1 + Cardinality(Upper)
  BY <1>3, <1>4
<1> QED
  BY <1>5 DEF LevelAt, Lower, Upper

\* The frames that replace the one on top are well-formed with their callers.
LEMMA FramesStep ==
    ASSUME FramesInv(frames), frames # <<>>, NEW new, IsSeq(new), Replaced(new),
           \A i \in 1 .. Len(new) : FrameInv(new[i]),
           \A i \in 1 .. Len(new) - 1 : MayCall(new[i], new[i + 1]),
           new # <<>> => Top.kind # "dup" /\ (new[1].kind = "skip" => Top.kind = "skip"),
           \A i \in 1 .. Len(new) : new[i].kind = "dup" =>
               /\ new[i].level = LevelAt(frames, Len(frames))
               /\ \A j \in 1 .. i - 1 : ~Inside(new[j])
    PROVE  /\ FramesInv(frames')
           /\ LevelAt(frames', Len(frames)) = LevelAt(frames, Len(frames))
           /\ new # <<>> => frames' # <<>> /\ frames'[Len(frames')] = new[Len(new)]
<1> DEFINE n == Len(frames) - 1
           m == Len(new)
           base == LevelAt(frames, Len(frames))
<1>1. /\ n \in Nat /\ m \in Nat /\ Len(frames) = n + 1
      /\ IsSeq(frames) /\ IsSeq(frames') /\ Len(frames') = n + m
      /\ new # <<>> => m # 0
  <2>1. IsSeq(frames) /\ IsSeq(frames')
    BY DEF FramesInv, Replaced
  <2> QED
    BY <2>1, SeqFacts DEF Replaced
<1>2. /\ \A i \in 1 .. n : Alike(frames'[i], frames[i])
      /\ \A i \in 1 .. m : frames'[n + i] = new[i]
  BY DEF Replaced
<1>3. \A i \in 1 .. n : FrameInv(frames[i])
  BY <1>1 DEF FramesInv
<1>4. \A i \in 1 .. n + m :
         i \in 1 .. n \/ (i - n \in 1 .. m /\ frames'[i] = new[i - n])
  <2> TAKE i \in 1 .. n + m
  <2>1. i \in 1 .. n \/ (i - n \in 1 .. m /\ n + (i - n) = i)
    BY <1>1
  <2> QED
    BY <1>2, <2>1
<1>5. ASSUME NEW i \in 1 .. n + m
      PROVE  FrameInv(frames'[i])
  <2>1. CASE i \in 1 .. n
    BY <1>2, <1>3, <2>1 DEF Alike, FrameInv
  <2>2. CASE i - n \in 1 .. m /\ frames'[i] = new[i - n]
    BY <2>2
  <2> QED
    BY <1>4, <2>1, <2>2
<1>6. ASSUME NEW i \in 1 .. n + m - 1
      PROVE  MayCall(frames'[i], frames'[i + 1])
  <2>1. CASE i + 1 \in 1 .. n
    <3>1. i \in 1 .. n /\ MayCall(frames[i], frames[i + 1])
      BY <1>1, <2>1 DEF FramesInv
    <3>2. Alike(frames'[i], frames[i]) /\ Alike(frames'[i + 1], frames[i + 1])
      BY <1>2, <2>1, <3>1
    <3> QED
      BY <3>1, <3>2 DEF Alike, MayCall, Inside, RewindsFirst
  <2>2. CASE i = n
    <3>1. MayCall(frames[n], Top) /\ Top.kind # "dup" /\ m # 0 /\ n \in 1 .. n
      <4>1. MayCall(frames[n], frames[n + 1])
        BY <1>1, <2>2 DEF FramesInv
      <4>2. new # <<>>
        BY <1>1, <2>2, ShortSeqs
      <4> QED
        BY <1>1, <2>2, <4>1, <4>2 DEF Last, Top
    <3>2. frames'[n + 1] = new[1]
      BY <1>1, <1>2, <3>1
    <3>3. new[1].kind = "skip" => Top.kind = "skip"
      BY <1>1, <3>1, ShortSeqs
    <3>4. Alike(frames'[n], frames[n])
      BY <1>2, <3>1
    <3> QED
      BY <2>2, <3>1, <3>2, <3>3, <3>4 DEF Alike, MayCall, Inside, RewindsFirst
  <2>3. CASE i \in n + 1 .. n + m - 1
    <3>1. i - n \in 1 .. m - 1
      BY <1>1, <2>3
    <3>2. i - n \in 1 .. m /\ (i - n) + 1 \in 1 .. m
          /\ n + (i - n) = i /\ n + ((i - n) + 1) = i + 1
      BY <1>1, <3>1
    <3>3. frames'[i] = new[i - n] /\ frames'[i + 1] = new[(i - n) + 1]
      BY <1>2, <3>2
    <3> QED
      BY <3>1, <3>3
  <2>4. i + 1 \in 1 .. n \/ i = n \/ i \in n + 1 .. n + m - 1
    <3> HIDE DEF n, m
    <3> QED
      BY <1>1
  <2> QED
    BY <2>1, <2>2, <2>3, <2>4
<1>7. \A i \in 1 .. n + 1 : LevelAt(frames', i) = LevelAt(frames, i)
  BY <1>1, <1>2, SameLevels
<1>8. ASSUME NEW i \in 1 .. n + m, frames'[i].kind = "dup"
      PROVE  frames'[i].level = LevelAt(frames', i)
  <2>1. CASE i \in 1 .. n
    <3>1. frames'[i] = frames[i] /\ frames[i].kind = "dup"
      BY <1>2, <1>8, <2>1 DEF Alike
    <3>2. i \in 1 .. Len(frames) /\ i \in 1 .. n + 1
      BY <1>1, <2>1
    <3>3. frames[i].level = LevelAt(frames, i)
      BY <3>1, <3>2 DEF FramesInv
    <3> QED
      BY <1>7, <3>1, <3>2, <3>3
  <2>2. CASE i - n \in 1 .. m /\ frames'[i] = new[i - n]
    <3> DEFINE k == i - n
    <3>1. /\ k \in 1 .. m /\ frames'[i] = new[k] /\ i = n + k
          /\ new[k].level = base /\ \A j \in 1 .. k - 1 : ~Inside(new[j])
      BY <1>1, <1>8, <2>2
    <3>2. {j \in 1 .. i - 1 : Inside(frames'[j])} = {j \in 1 .. n : Inside(frames'[j])}
      <4>1. ASSUME NEW j \in 1 .. i - 1, j \notin 1 .. n
            PROVE  ~Inside(frames'[j])
        <5>1. j - n \in 1 .. k - 1 /\ j - n \in 1 .. m /\ n + (j - n) = j
          BY <1>1, <3>1, <4>1
        <5>2. frames'[j] = new[j - n]
          BY <1>2, <5>1
        <5> QED
          BY <3>1, <5>1, <5>2
      <4>2. \A j \in 1 .. n : j \in 1 .. i - 1
        BY <1>1, <3>1
      <4> QED
        BY <4>1, <4>2
    <3>3. LevelAt(frames', i) = LevelAt(frames', n + 1)
      <4>1. (n + 1) - 1 = n
        BY <1>1
      <4> QED
        BY <3>2, <4>1 DEF LevelAt
    <3>4. LevelAt(frames', n + 1) = base
      BY <1>1, <1>7
    <3> QED
      BY <3>1, <3>3, <3>4
  <2> QED
    BY <1>4, <2>1, <2>2
<1>9. FramesInv(frames')
  BY <1>1, <1>5, <1>6, <1>8 DEF FramesInv
<1>10. LevelAt(frames', Len(frames)) = base
  BY <1>1, <1>7
<1>11. ASSUME new # <<>>
       PROVE  frames' # <<>> /\ frames'[Len(frames')] = new[Len(new)]
  <2>1. m \in 1 .. m /\ n + m # 0
    BY <1>1, <1>11
  <2>2. frames' # <<>>
    BY <1>1, <2>1, ShortSeqs
  <2> QED
    BY <1>1, <1>2, <2>1, <2>2
<1> QED
  BY <1>9, <1>10, <1>11

-----------------------------------------------------------------------------
(* The stack of streams. *)

LEMMA StreamsFacts ==
    ASSUME StreamsInv
    PROVE  /\ Len(streams) \in Nat \ {0} /\ DOMAIN streams = 1 .. Len(streams)
           /\ Current = streams[Len(streams)] /\ StreamInv(Current) /\ Current \in Stream
           /\ Append(Front(streams), Current) = streams
           /\ Front(streams) \in Seq(Stream) /\ Len(Front(streams)) = Len(streams) - 1
           /\ \A level \in 1 .. Len(streams) - 1 : Front(streams)[level] = streams[level]
<1>1. streams \in Seq(Stream) /\ streams # <<>>
  BY DEF StreamsInv
<1>2. Len(streams) \in Nat \ {0} /\ DOMAIN streams = 1 .. Len(streams)
  BY <1>1, LenProperties, EmptySeq
<1>3. Current = streams[Len(streams)] /\ StreamInv(Current) /\ Current \in Stream
  <2>1. Len(streams) \in 1 .. Len(streams)
    BY <1>2
  <2> QED
    BY <2>1 DEF Current, Last, StreamsInv, StreamInv
<1>4. /\ Front(streams) \in Seq(Stream) /\ Len(Front(streams)) = Len(streams) - 1
      /\ \A level \in 1 .. Len(streams) - 1 : Front(streams)[level] = streams[level]
  <2>1. \A i \in 1 .. Len(streams) - 1 : i \in 1 .. Len(streams)
    BY <1>2
  <2>2. \A i \in 1 .. Len(streams) - 1 : streams[i] \in Stream
    BY <1>1, <2>1, ElementOfSeq
  <2>3. Len(streams) - 1 \in Int /\ 1 \in Int
    BY <1>2
  <2>4. Front(streams) \in Seq(Stream)
    BY <2>2, <2>3, SubSeqProperties DEF Front
  <2>5. IsSeq(streams)
    BY <1>1, SeqIsSeqOfFrames
  <2> QED
    BY <1>1, <2>4, <2>5, FrontOfSeq
<1>5. Append(Front(streams), Current) = streams
  <2>1. /\ Append(Front(streams), Current) \in Seq(Stream)
        /\ Len(Append(Front(streams), Current)) = Len(Front(streams)) + 1
        /\ \A i \in 1 .. Len(Front(streams)) :
              Append(Front(streams), Current)[i] = Front(streams)[i]
        /\ Append(Front(streams), Current)[Len(Front(streams)) + 1] = Current
    BY <1>3, <1>4, AppendProperties
  <2>2. Len(Front(streams)) + 1 = Len(streams)
    BY <1>2, <1>4
  <2>3. ASSUME NEW i \in 1 .. Len(streams)
        PROVE  Append(Front(streams), Current)[i] = streams[i]
    <3>1. i \in 1 .. Len(Front(streams)) \/ i = Len(streams)
      <4>1. Len(Front(streams)) = Len(streams) - 1 /\ Len(streams) \in Nat
        BY <1>2, <1>4
      <4> QED
        BY <4>1
    <3> QED
      BY <1>3, <1>4, <2>1, <2>2, <3>1
  <2> QED
    BY <1>1, <2>1, <2>2, <2>3, SeqEqual
<1> QED
  BY <1>2, <1>3, <1>4, <1>5

\* A step on the current stream.
LEMMA StreamSet ==
    ASSUME StreamsInv, NEW s, StreamInv(s), SetStream(s)
    PROVE  /\ StreamsInv' /\ Len(streams') = Len(streams)
           /\ Current' = s /\ streams'[Len(streams)] = s
           /\ \A level \in 1 .. Len(streams) - 1 : streams'[level] = streams[level]
<1>1. streams' = Append(Front(streams), s) /\ s \in Stream
  BY DEF SetStream, StreamInv
<1>2. /\ Len(streams) \in Nat \ {0} /\ Front(streams) \in Seq(Stream)
      /\ Len(Front(streams)) = Len(streams) - 1
      /\ \A level \in 1 .. Len(streams) - 1 : Front(streams)[level] = streams[level]
  BY StreamsFacts
<1>3. /\ streams' \in Seq(Stream) /\ Len(streams') = Len(Front(streams)) + 1
      /\ \A i \in 1 .. Len(Front(streams)) : streams'[i] = Front(streams)[i]
      /\ streams'[Len(Front(streams)) + 1] = s
  BY <1>1, <1>2, AppendProperties
<1>4. /\ Len(streams') = Len(streams) /\ streams'[Len(streams)] = s
      /\ \A level \in 1 .. Len(streams) - 1 : streams'[level] = streams[level]
  BY <1>2, <1>3
<1>5. streams' # <<>>
  BY <1>2, <1>4, EmptySeq
<1>6. ASSUME NEW level \in 1 .. Len(streams')
      PROVE  StreamInv(streams'[level])
  <2>1. level \in 1 .. Len(streams) /\ (level \in 1 .. Len(streams) - 1 \/ level = Len(streams))
    BY <1>2, <1>4
  <2>2. StreamInv(streams[level])
    BY <2>1 DEF StreamsInv
  <2> QED
    BY <1>4, <2>1, <2>2
<1>7. Current' = s
  BY <1>4 DEF Current, Last
<1> QED
  BY <1>3, <1>4, <1>5, <1>6, <1>7 DEF StreamsInv

\* The contents of a group are a stream on top of the one the group was in.
LEMMA StreamEntered ==
    ASSUME StreamsInv, NEW s, StreamInv(s), NEW inner, StreamInv(inner),
           streams' = Front(streams) \o <<s, inner>>
    PROVE  /\ StreamsInv' /\ Len(streams') = Len(streams) + 1
           /\ Current' = inner /\ streams'[Len(streams)] = s
           /\ streams'[Len(streams) + 1] = inner
           /\ \A level \in 1 .. Len(streams) - 1 : streams'[level] = streams[level]
<1>1. s \in Stream /\ inner \in Stream
  BY DEF StreamInv
<1>2. /\ Len(streams) \in Nat \ {0} /\ Front(streams) \in Seq(Stream)
      /\ Len(Front(streams)) = Len(streams) - 1
      /\ \A level \in 1 .. Len(streams) - 1 : Front(streams)[level] = streams[level]
  BY StreamsFacts
<1> DEFINE both == <<s, inner>>
<1>3. both \in Seq(Stream) /\ Len(both) = 2 /\ both[1] = s /\ both[2] = inner
  BY <1>1
<1> HIDE DEF both
<1>4. streams' \in Seq(Stream)
  BY <1>2, <1>3, ConcatProperties DEF both
<1>5. IsSeq(Front(streams)) /\ IsSeq(both)
  BY <1>2, <1>3, SeqIsSeqOfFrames
<1>6. /\ Len(streams') = Len(Front(streams)) + Len(both)
      /\ \A i \in 1 .. Len(Front(streams)) : streams'[i] = Front(streams)[i]
      /\ \A i \in 1 .. Len(both) : streams'[Len(Front(streams)) + i] = both[i]
  BY <1>5, ConcatSeqs DEF both
<1>7. streams'[Len(Front(streams)) + 1] = s /\ streams'[Len(Front(streams)) + 2] = inner
  <2>1. 1 \in 1 .. Len(both) /\ 2 \in 1 .. Len(both)
    BY <1>3
  <2> QED
    BY <1>3, <1>6, <2>1
<1>8. /\ Len(streams') = Len(streams) + 1
      /\ Len(Front(streams)) + 1 = Len(streams)
      /\ Len(Front(streams)) + 2 = Len(streams) + 1
  BY <1>2, <1>3, <1>6
<1>9. /\ streams'[Len(streams)] = s /\ streams'[Len(streams) + 1] = inner
      /\ \A level \in 1 .. Len(streams) - 1 : streams'[level] = streams[level]
  BY <1>2, <1>6, <1>7, <1>8
<1>10. streams' # <<>>
  BY <1>2, <1>8, EmptySeq
<1>11. ASSUME NEW level \in 1 .. Len(streams')
       PROVE  StreamInv(streams'[level])
  <2>1. \/ level \in 1 .. Len(streams) - 1
        \/ level = Len(streams)
        \/ level = Len(streams) + 1
    BY <1>2, <1>8
  <2>2. level \in 1 .. Len(streams) - 1 => StreamInv(streams[level])
    BY <1>2 DEF StreamsInv
  <2> QED
    BY <1>9, <2>1, <2>2
<1>12. Current' = inner
  BY <1>8, <1>9 DEF Current, Last
<1> QED
  BY <1>4, <1>8, <1>9, <1>10, <1>11, <1>12 DEF StreamsInv

\* The stream of a group goes away, and the one the group was in is current.
LEMMA StreamLeft ==
    ASSUME StreamsInv, Len(streams) > 1, streams' = Front(streams)
    PROVE  /\ StreamsInv' /\ Len(streams') = Len(streams) - 1
           /\ \A level \in 1 .. Len(streams) - 1 : streams'[level] = streams[level]
<1>1. /\ Len(streams) \in Nat \ {0} /\ Front(streams) \in Seq(Stream)
      /\ Len(Front(streams)) = Len(streams) - 1
      /\ \A level \in 1 .. Len(streams) - 1 : Front(streams)[level] = streams[level]
  BY StreamsFacts
<1>2. streams' # <<>>
  BY <1>1, EmptySeq
<1>3. \A level \in 1 .. Len(streams) - 1 : StreamInv(streams[level])
  BY <1>1 DEF StreamsInv
<1> QED
  BY <1>1, <1>2, <1>3 DEF StreamsInv

-----------------------------------------------------------------------------
(* The scopes. *)

\* The running calls of dup on a stream: all of a call stack, and those of the
\* current one below the frame on top.
DupsOf(fs, level) == {i \in DOMAIN fs : fs[i].kind = "dup" /\ fs[i].level = level}
OuterScopes(level) ==
    {i \in 1 .. Len(frames) - 1 : frames[i].kind = "dup" /\ frames[i].level = level}

\* The dups at places are the scopes of stream s.
Nested(fs, places, s) ==
    /\ {fs[i].raw : i \in places} = 0 .. StreamDepth(s) - 1
    /\ \A i, j \in places : i < j => fs[i].raw < fs[j].raw
    /\ TokenSource => Len(s.jointSaves) = StreamDepth(s)

LEMMA ScopesNestPerStream ==
    ScopesNest <=> \A level \in DOMAIN streams :
                       Nested(frames, DupsOf(frames, level), streams[level])
BY DEF ScopesNest, ScopesOn, DupsOf, Nested

LEMMA ScopesNestNext ==
    ASSUME \A level \in DOMAIN streams' :
               Nested(frames', DupsOf(frames', level), streams'[level])
    PROVE  ScopesNest'
BY DEF ScopesNest, ScopesOn, DupsOf, Nested

LEMMA ScopesOfStack ==
    ASSUME FramesInv(frames), frames # <<>>, NEW new, IsSeq(new), Replaced(new)
    PROVE  \A level :
                 /\ DupsOf(frames, level)
                      = OuterScopes(level) \cup
                        (IF Top.kind = "dup" /\ Top.level = level
                         THEN {Len(frames)} ELSE {})
                 /\ DupsOf(frames', level)
                      = OuterScopes(level) \cup
                        {Len(frames) - 1 + k : k \in
                           {k \in 1 .. Len(new) :
                               new[k].kind = "dup" /\ new[k].level = level}}
                 /\ \A i \in OuterScopes(level) :
                       /\ frames'[i] = frames[i]
                       /\ i \in Nat /\ i < Len(frames)
<1> DEFINE n == Len(frames) - 1
<1>1. /\ n \in Nat /\ Len(frames) = n + 1 /\ DOMAIN frames = 1 .. n + 1
      /\ Len(new) \in Nat /\ DOMAIN frames' = 1 .. n + Len(new)
      /\ Top = frames[n + 1]
  <2>1. IsSeq(frames) /\ IsSeq(frames') /\ Len(frames') = n + Len(new)
    BY DEF FramesInv, Replaced
  <2> QED
    BY <2>1, SeqFacts DEF Top, Last
<1>2. /\ \A i \in 1 .. n : Alike(frames'[i], frames[i])
      /\ \A i \in 1 .. Len(new) : frames'[n + i] = new[i]
  BY DEF Replaced
<1>3. \A i \in 1 .. n : /\ frames'[i].kind = "dup" <=> frames[i].kind = "dup"
                        /\ frames[i].kind = "dup" => frames'[i] = frames[i]
  BY <1>2 DEF Alike
<1> TAKE level
<1>4. DupsOf(frames, level) = OuterScopes(level) \cup
                        (IF Top.kind = "dup" /\ Top.level = level
                         THEN {Len(frames)} ELSE {})
  <2>1. \A i : i \in 1 .. n + 1 <=> i \in 1 .. n \/ i = n + 1
    BY <1>1
  <2> QED
    BY <1>1, <2>1 DEF DupsOf, OuterScopes
<1>5. DupsOf(frames', level)
         = OuterScopes(level) \cup
           {n + k : k \in {k \in 1 .. Len(new) :
                              new[k].kind = "dup" /\ new[k].level = level}}
  <2> DEFINE New == {k \in 1 .. Len(new) : new[k].kind = "dup" /\ new[k].level = level}
  <2>1. DupsOf(frames', level) = {i \in 1 .. n + Len(new) :
                              frames'[i].kind = "dup" /\ frames'[i].level = level}
    BY <1>1 DEF DupsOf
  <2>2. ASSUME NEW i \in 1 .. n + Len(new), frames'[i].kind = "dup", frames'[i].level = level
        PROVE  i \in OuterScopes(level) \/ \E k \in New : i = n + k
    <3>1. CASE i \in 1 .. n
      BY <1>3, <2>2, <3>1 DEF OuterScopes
    <3>2. CASE i \notin 1 .. n
      <4>1. i - n \in 1 .. Len(new) /\ i = n + (i - n)
        BY <1>1, <3>2
      <4>2. frames'[i] = new[i - n]
        BY <1>2, <4>1
      <4> QED
        BY <2>2, <4>1, <4>2
    <3> QED
      BY <3>1, <3>2
  <2>3. ASSUME NEW i \in OuterScopes(level)
        PROVE  i \in DupsOf(frames', level)
    <3>1. i \in 1 .. n /\ frames[i].kind = "dup" /\ frames[i].level = level
      BY DEF OuterScopes
    <3>2. i \in 1 .. n + Len(new)
      BY <1>1, <3>1
    <3> QED
      BY <1>3, <2>1, <3>1, <3>2
  <2>4. ASSUME NEW k \in New
        PROVE  n + k \in DupsOf(frames', level)
    <3>1. n + k \in 1 .. n + Len(new) /\ frames'[n + k] = new[k]
      BY <1>1, <1>2
    <3> QED
      BY <2>1, <3>1
  <2> HIDE DEF New
  <2>5. DupsOf(frames', level) = OuterScopes(level) \cup {n + k : k \in New}
    BY <2>1, <2>2, <2>3, <2>4
  <2> QED
    BY <2>5 DEF New
<1>6. \A i \in OuterScopes(level) : frames'[i] = frames[i] /\ i \in Nat /\ i < Len(frames)
  BY <1>1, <1>3 DEF OuterScopes
<1> QED
  BY <1>1, <1>4, <1>5, <1>6

\* The scopes of a stream that no step opened or closed any on ..
LEMMA NestedKept ==
    ASSUME NEW fs, NEW gs, NEW places, NEW s, NEW t,
           Nested(fs, places, s), \A i \in places : gs[i] = fs[i],
           StreamDepth(t) = StreamDepth(s),
           TokenSource => Len(t.jointSaves) = Len(s.jointSaves)
    PROVE  Nested(gs, places, t)
<1>1. {gs[i].raw : i \in places} = {fs[i].raw : i \in places}
  OBVIOUS
<1> QED
  BY <1>1 DEF Nested

\* .. of one on which dup opened a scope ..
LEMMA NestedOpened ==
    ASSUME NEW fs, NEW gs, NEW places, NEW s, NEW t, NEW k,
           Nested(fs, places, s), StreamDepth(s) \in Nat,
           \A i \in places : gs[i] = fs[i] /\ i \in Nat /\ i < k, k \in Nat,
           gs[k].raw = StreamDepth(s), StreamDepth(t) = StreamDepth(s) + 1,
           TokenSource => Len(t.jointSaves) = StreamDepth(t)
    PROVE  Nested(gs, places \cup {k}, t)
<1> DEFINE d == StreamDepth(s)
<1>1. /\ {fs[i].raw : i \in places} = 0 .. d - 1 /\ d \in Nat
      /\ \A i, j \in places : i < j => fs[i].raw < fs[j].raw
  BY DEF Nested
<1>2. {gs[i].raw : i \in places \cup {k}} = {fs[i].raw : i \in places} \cup {d}
  OBVIOUS
<1> HIDE DEF d
<1>3. (0 .. d - 1) \cup {d} = 0 .. (d + 1) - 1
  BY <1>1
<1>4. ASSUME NEW i \in places \cup {k}, NEW j \in places \cup {k}, i < j
      PROVE  gs[i].raw < gs[j].raw
  <2>1. i \in places
    BY <1>4
  <2>2. gs[i].raw = fs[i].raw /\ fs[i].raw \in 0 .. d - 1
    BY <1>1, <2>1
  <2>3. CASE j \in places
    BY <1>1, <1>4, <2>1, <2>3
  <2>4. CASE j = k
    BY <1>1, <2>2, <2>4 DEF d
  <2> QED
    BY <2>3, <2>4
<1> QED
  BY <1>1, <1>2, <1>3, <1>4 DEF Nested, d

\* .. and of one whose innermost scope dup closes, which is open ..
LEMMA ScopeIsOpen ==
    ASSUME NEW fs, NEW places, NEW s, NEW k, k \in places, Nested(fs, places, s)
    PROVE  fs[k].raw \in 0 .. StreamDepth(s) - 1
BY DEF Nested

\* .. and within no other.
LEMMA NestedClosed ==
    ASSUME NEW fs, NEW gs, NEW places, NEW s, NEW t, NEW k,
           Nested(fs, places \cup {k}, s), StreamDepth(s) \in Nat,
           \A i \in places : gs[i] = fs[i] /\ i \in Nat /\ i < k, k \in Nat,
           StreamDepth(t) = fs[k].raw,
           TokenSource => Len(t.jointSaves) = StreamDepth(t)
    PROVE  Nested(gs, places, t)
<1> DEFINE d == StreamDepth(s)
           raw == fs[k].raw
<1>1. /\ {fs[i].raw : i \in places \cup {k}} = 0 .. d - 1 /\ d \in Nat
      /\ \A i, j \in places \cup {k} : i < j => fs[i].raw < fs[j].raw
  BY DEF Nested
<1>2. raw \in 0 .. d - 1
  BY <1>1
<1>3. \A i \in places : fs[i].raw \in 0 .. d - 1 /\ fs[i].raw < raw
  BY <1>1
<1>4. {fs[i].raw : i \in places} = 0 .. raw - 1
  <2>1. ASSUME NEW r \in 0 .. raw - 1
        PROVE  \E i \in places : fs[i].raw = r
    <3>1. r \in 0 .. d - 1 /\ r # raw
      BY <1>1, <1>2
    <3> QED
      BY <1>1, <3>1
  <2>2. \A i \in places : fs[i].raw \in 0 .. raw - 1
    BY <1>2, <1>3
  <2> QED
    BY <2>1, <2>2
<1>5. {gs[i].raw : i \in places} = {fs[i].raw : i \in places}
  OBVIOUS
<1>6. \A i, j \in places : i < j => gs[i].raw < gs[j].raw
  BY <1>1
<1> QED
  BY <1>4, <1>5, <1>6 DEF Nested

-----------------------------------------------------------------------------
(* The kinds of step. *)

\* The stream that the frame on top reads is the current one.
LEMMA BaseLevel ==
    ASSUME FramesInv(frames), ControlInv, StreamsInv, frames # <<>>
    PROVE  /\ Len(frames) \in Nat \ {0} /\ Top = frames[Len(frames)]
           /\ LevelAt(frames, Len(frames)) \in Nat \ {0}
           /\ ret = Running \/ ~Inside(Top) =>
                 LevelAt(frames, Len(frames)) = Len(streams)
           /\ ret # Running /\ Inside(Top) =>
                 Len(streams) = LevelAt(frames, Len(frames)) + 1
           /\ \A i \in 1 .. Len(frames) : frames[i].kind = "dup" =>
                 /\ frames[i].level = LevelAt(frames, i)
                 /\ frames[i].level \in Nat
                 /\ frames[i].level <= LevelAt(frames, Len(frames))
<1>1. Len(frames) \in Nat \ {0} /\ Top = frames[Len(frames)]
  <2>1. IsSeq(frames)
    BY DEF FramesInv
  <2> QED
    BY <2>1, SeqFacts DEF Top, Last
<1>2. LevelAt(frames, Len(frames)) \in Nat \ {0}
  BY <1>1, LevelFacts
<1>3. ret = Running => Len(streams) = LevelAt(frames, Len(frames))
  BY DEF ControlInv
<1>4. ret # Running =>
         Len(streams) = LevelAt(frames, Len(frames)) + IF Inside(Top) THEN 1 ELSE 0
  <2>1. ret # Running => Len(streams) = LevelAt(frames, Len(frames) + 1)
    BY DEF ControlInv
  <2> QED
    BY <1>1, <2>1, LevelFacts
<1>5. ASSUME NEW i \in 1 .. Len(frames), frames[i].kind = "dup"
      PROVE  /\ frames[i].level = LevelAt(frames, i)
             /\ frames[i].level \in Nat
             /\ frames[i].level <= LevelAt(frames, Len(frames))
  <2>1. frames[i].level = LevelAt(frames, i)
    BY <1>5 DEF FramesInv
  <2>2. LevelAt(frames, i) <= LevelAt(frames, Len(frames))
    BY <1>1, LevelsGrow
  <2>3. LevelAt(frames, i) \in Nat
    BY LevelFacts
  <2> QED
    BY <2>1, <2>2, <2>3
<1>6. ret # Running /\ ~Inside(Top) => Len(streams) = LevelAt(frames, Len(frames))
  BY <1>2, <1>4
<1>7. ret # Running /\ Inside(Top) => Len(streams) = LevelAt(frames, Len(frames)) + 1
  BY <1>4
<1> QED
  BY <1>1, <1>2, <1>3, <1>5, <1>6, <1>7

\* The function on top has returned: its caller is on top.
LEMMA CallerOnTop ==
    ASSUME FramesInv(frames), frames # <<>>, Replaced(<<>>), FramesInv(frames'),
           frames' # <<>>
    PROVE  /\ MayCall(Top', Top)
           /\ Len(frames') = Len(frames) - 1
<1>1. /\ IsSeq(frames) /\ IsSeq(frames') /\ Len(frames') = Len(frames) - 1 + Len(<<>>)
  BY DEF FramesInv, Replaced
<1>2. /\ Len(frames) \in Nat \ {0} /\ Len(frames') = Len(frames) - 1
      /\ Len(frames') \in Nat \ {0}
  BY <1>1, SeqFacts, ShortSeqs
<1> DEFINE n == Len(frames) - 1
<1>3. n \in 1 .. n /\ n \in 1 .. Len(frames) - 1 /\ n + 1 = Len(frames)
  BY <1>2
<1>4. MayCall(frames[n], frames[n + 1])
  BY <1>3 DEF FramesInv
<1>5. Alike(frames'[n], frames[n])
  BY <1>3 DEF Replaced
<1>6. Top = frames[n + 1] /\ Top' = frames'[n]
  BY <1>2, <1>3 DEF Top, Last
<1>7. MayCall(Top', Top)
  BY <1>4, <1>5, <1>6 DEF Alike, MayCall, Inside, RewindsFirst
<1> QED
  BY <1>2, <1>7

\* The flags after a step on the current stream.
LEMMA FlagsNext ==
    ASSUME StreamsInv, FlagsInv, NEW s, StreamInv(s), SetStream(s),
           TokenSource /\ NoneCatches =>
               SavedFlagsRight(s) /\ (FlagRight(s) \/ Failing')
    PROVE  FlagsInv'
<1>1. /\ Len(streams') = Len(streams) /\ streams'[Len(streams)] = s
      /\ \A level \in 1 .. Len(streams) - 1 : streams'[level] = streams[level]
  BY StreamSet
<1>2. Len(streams) \in Nat \ {0}
  BY StreamsFacts
<1>3. ASSUME TokenSource, NoneCatches, NEW level \in 1 .. Len(streams')
      PROVE  /\ SavedFlagsRight(streams'[level])
             /\ level < Len(streams') \/ ~Failing' => FlagRight(streams'[level])
  <2>1. CASE level = Len(streams)
    BY <1>1, <1>2, <1>3, <2>1
  <2>2. CASE level \in 1 .. Len(streams) - 1
    <3>1. level \in 1 .. Len(streams) /\ level < Len(streams)
      BY <1>2, <2>2
    <3>2. SavedFlagsRight(streams[level]) /\ FlagRight(streams[level])
      BY <1>3, <3>1 DEF FlagsInv
    <3> QED
      BY <1>1, <2>2, <3>2
  <2> QED
    BY <1>1, <1>2, <2>1, <2>2
<1> QED
  BY <1>3 DEF FlagsInv, NoneCatches

LEMMA CurrentFlags ==
    ASSUME IInv, TokenSource, NoneCatches
    PROVE  SavedFlagsRight(Current) /\ (~Failing => FlagRight(Current))
<1>1. Len(streams) \in 1 .. Len(streams) /\ Current = streams[Len(streams)]
  BY StreamsFacts DEF IInv
<1> QED
  BY <1>1 DEF IInv, FlagsInv

LEMMA SameStream ==
    ASSUME StreamsInv, streams' = streams
    PROVE  /\ SetStream(Current) /\ StreamInv(Current) /\ SameScopes(Current, Current)
BY StreamsFacts DEF SetStream, SameScopes

\* The scopes after a step that opens and closes none.
LEMMA ScopesKept ==
    ASSUME FramesInv(frames), StreamsInv, ScopesNest, frames # <<>>,
           NEW new, IsSeq(new), Replaced(new),
           Top.kind # "dup", \A i \in 1 .. Len(new) : new[i].kind # "dup",
           NEW s, StreamInv(s), SameScopes(s, Current), SetStream(s)
    PROVE  ScopesNest'
<1>1. /\ Len(streams') = Len(streams) /\ streams'[Len(streams)] = s
      /\ \A level \in 1 .. Len(streams) - 1 : streams'[level] = streams[level]
      /\ StreamsInv'
  BY StreamSet
<1>2. /\ Len(streams) \in Nat \ {0} /\ DOMAIN streams = 1 .. Len(streams)
      /\ Current = streams[Len(streams)]
  BY StreamsFacts
<1>3. DOMAIN streams' = 1 .. Len(streams)
  <2>1. streams' \in Seq(Stream)
    BY <1>1 DEF StreamsInv
  <2> QED
    BY <1>1, <2>1, LenProperties
<1>4. ASSUME NEW level \in 1 .. Len(streams)
      PROVE  Nested(frames', DupsOf(frames', level), streams'[level])
  <2>1. Nested(frames, DupsOf(frames, level), streams[level])
    BY <1>2, ScopesNestPerStream
  <2>2. DupsOf(frames', level) = DupsOf(frames, level)
    <3>1. {k \in 1 .. Len(new) : new[k].kind = "dup" /\ new[k].level = level} = {}
      OBVIOUS
    <3>2. {Len(frames) - 1 + k : k \in
             {k \in 1 .. Len(new) : new[k].kind = "dup" /\ new[k].level = level}} = {}
      BY <3>1
    <3>3. DupsOf(frames, level) = OuterScopes(level) \cup {}
      BY ScopesOfStack
    <3>4. DupsOf(frames', level)
             = OuterScopes(level) \cup
               {Len(frames) - 1 + k : k \in
                  {k \in 1 .. Len(new) : new[k].kind = "dup" /\ new[k].level = level}}
      BY ScopesOfStack
    <3> QED
      BY <3>2, <3>3, <3>4
  <2>3. \A i \in DupsOf(frames, level) : frames'[i] = frames[i]
    BY ScopesOfStack
  <2>4. /\ StreamDepth(streams'[level]) = StreamDepth(streams[level])
        /\ streams'[level].jointSaves = streams[level].jointSaves
    <3>1. CASE level = Len(streams)
      BY <1>1, <1>2, <3>1 DEF SameScopes
    <3>2. CASE level \in 1 .. Len(streams) - 1
      BY <1>1, <3>2
    <3>3. level \in 1 .. Len(streams) - 1 \/ level = Len(streams)
      <4>1. Len(streams) \in Nat
        BY <1>2
      <4> QED
        BY <4>1
    <3> QED
      BY <3>1, <3>2, <3>3
  <2> QED
    BY <2>1, <2>2, <2>3, <2>4, NestedKept
<1> QED
  BY <1>3, <1>4, ScopesNestNext

\* A step that opens and closes no scope and enters and leaves no group.
LEMMA CalmStep ==
    ASSUME IInv, frames # <<>>,
           NEW new, IsSeq(new), Len(new) \in 0 .. 2, Replaced(new),
           NEW s, StreamInv(s), SameScopes(s, Current), SetStream(s),
           ret = Running \/ ~Inside(Top), Top.kind # "dup",
           \A i \in 1 .. Len(new) : FrameInv(new[i]) /\ new[i].kind # "dup",
           Len(new) = 2 => ~Inside(new[1]) /\ MayCall(new[1], new[2]),
           new = <<>> => ret' # Running /\ (ret'.tag = "sep" => Top.kind = "skip"),
           new # <<>> => /\ ret' = Running
                         /\ new[1].kind = "skip" => Top.kind = "skip"
                         /\ Starts(new[Len(new)], s),
           TokenSource /\ NoneCatches =>
               SavedFlagsRight(s) /\ (FlagRight(s) \/ (new = <<>> /\ ret'.tag = "err"))
    PROVE  IInv'
<1>0. FramesInv(frames) /\ ControlInv /\ StreamsInv /\ ScopesNest /\ FlagsInv
  BY DEF IInv
<1>1. /\ Len(frames) \in Nat \ {0}
      /\ LevelAt(frames, Len(frames)) = Len(streams)
  BY <1>0, BaseLevel
<1>2. /\ FramesInv(frames')
      /\ LevelAt(frames', Len(frames)) = Len(streams)
      /\ new # <<>> => frames' # <<>> /\ frames'[Len(frames')] = new[Len(new)]
  <2>1. \A i \in 1 .. Len(new) - 1 : MayCall(new[i], new[i + 1])
    <3> TAKE i \in 1 .. Len(new) - 1
    <3>1. Len(new) = 2 /\ i = 1
      OBVIOUS
    <3> QED
      BY <3>1
  <2> QED
    BY <1>0, <1>1, <2>1, FramesStep
<1>3. /\ StreamsInv' /\ Len(streams') = Len(streams) /\ Current' = s
  BY <1>0, StreamSet
<1>4. Len(frames') = Len(frames) - 1 + Len(new)
  BY DEF Replaced
<1>5. ScopesNest'
  BY <1>0, ScopesKept
<1>6. ASSUME new = <<>>
      PROVE  /\ Len(new) = 0
             /\ frames' # <<>> => MayCall(Top', Top)
  <2>1. Replaced(<<>>)
    BY <1>6
  <2> QED
    BY <1>0, <1>2, <1>6, <2>1, CallerOnTop, ShortSeqs
<1>7. FlagsInv'
  <2>1. ASSUME new = <<>>, ret'.tag = "err"
        PROVE  Failing'
    BY <1>6, <2>1 DEF Failing, MayCall
  <2> QED
    BY <1>0, <2>1, FlagsNext
<1>8. ControlInv'
  <2>1. CASE new = <<>>
    <3>1. Len(frames') + 1 = Len(frames)
      BY <1>1, <1>4, <1>6, <2>1
    <3>2. frames' # <<>> /\ ret'.tag = "sep" => ~Inside(Top')
      BY <1>6, <2>1 DEF MayCall
    <3> QED
      BY <1>2, <1>3, <2>1, <3>1, <3>2 DEF ControlInv, Running
  <2>2. CASE new # <<>>
    <3>1. Len(new) \in {1, 2}
      BY <2>2, SeqFacts
    <3>2. frames' # <<>> /\ Top' = new[Len(new)]
      BY <1>2, <2>2 DEF Top, Last
    <3>3. LevelAt(frames', Len(frames')) = Len(streams)
      <4>1. CASE Len(new) = 1
        <5>1. Len(frames') = Len(frames)
          BY <1>1, <1>4, <4>1
        <5> QED
          BY <1>2, <5>1
      <4>2. CASE Len(new) = 2
        <5>1. Len(frames') = Len(frames) + 1
          BY <1>1, <1>4, <4>2
        <5>2. frames'[Len(frames)] = new[1]
          <6>1. 1 \in 1 .. Len(new) /\ Len(frames) - 1 + 1 = Len(frames)
            BY <1>1, <4>2
          <6>2. frames'[Len(frames) - 1 + 1] = new[1]
            BY <6>1 DEF Replaced
          <6> QED
            BY <6>1, <6>2
        <5>3. LevelAt(frames', Len(frames) + 1) = LevelAt(frames', Len(frames)) + 0
          BY <1>1, <4>2, <5>2, LevelFacts
        <5>4. Len(streams) \in Nat
          BY <1>0, StreamsFacts
        <5> QED
          BY <1>2, <5>1, <5>3, <5>4
      <4> QED
        BY <3>1, <4>1, <4>2
    <3> QED
      BY <1>3, <2>2, <3>2, <3>3 DEF ControlInv, Running
  <2> QED
    BY <2>1, <2>2
<1> QED
  BY <1>2, <1>3, <1>5, <1>7, <1>8 DEF IInv

\* s is what a step made of the current stream without touching its scopes, and
\* the flag is right there.
Calm(s) ==
    /\ StreamInv(s) /\ SameScopes(s, Current) /\ SetStream(s)
    /\ TokenSource /\ NoneCatches => SavedFlagsRight(s)
Flagged(s) == TokenSource /\ NoneCatches => FlagRight(s)

LEMMA KeptCalm ==
    ASSUME IInv, streams' = streams
    PROVE  Calm(Current) /\ (~Failing => Flagged(Current))
<1>1. StreamsInv
  BY DEF IInv
<1> QED
  BY <1>1, SameStream, CurrentFlags DEF Calm, Flagged

LEMMA NextCalm ==
    ASSUME IInv, SetStream(StreamNext(Current).stream)
    PROVE  /\ Calm(StreamNext(Current).stream)
           /\ ~Failing => Flagged(StreamNext(Current).stream)
<1>1. StreamInv(Current)
  BY StreamsFacts DEF IInv
<1> QED
  BY <1>1, NextStream, CurrentFlags DEF Calm, Flagged

LEMMA PeekCalm ==
    ASSUME IInv, SetStream(StreamPeek(Current).stream)
    PROVE  /\ Calm(StreamPeek(Current).stream)
           /\ ~Failing => Flagged(StreamPeek(Current).stream)
<1>1. StreamInv(Current)
  BY StreamsFacts DEF IInv
<1> QED
  BY <1>1, PeekStream, CurrentFlags DEF Calm, Flagged

LEMMA BackCalm ==
    ASSUME IInv, NEW a, a = StreamNext(Current).atom, a \in Atom,
           SetStream(StreamPush(StreamNext(Current).stream, a))
    PROVE  Calm(StreamPush(StreamNext(Current).stream, a))
<1>1. StreamInv(Current)
  BY StreamsFacts DEF IInv
<1> QED
  BY <1>1, HandedBackStream, CurrentFlags DEF Calm, Flagged

\* The three ways in which a calm step changes the call stack.
LEMMA ReturnStep ==
    ASSUME IInv, frames # <<>>, Top.kind # "dup", ret = Running \/ ~Inside(Top),
           NEW r, Returns(r) \/ ReturnsHavingRead(r),
           r # Running, r.tag = "sep" => Top.kind = "skip",
           NEW s, Calm(s), Flagged(s) \/ r.tag = "err"
    PROVE  IInv'
<1>1. FramesInv(frames) /\ IsSeq(<<>>) /\ Len(<<>>) = 0
  BY ShortSeqs DEF IInv
<1>2. ret' = r /\ frames' \in {Front(frames) \o <<>>, Witnessed(Front(frames)) \o <<>>}
  <2>1. IsSeq(frames) /\ Front(frames) \o <<>> = Front(frames)
    BY <1>1, FrontOfSeq DEF FramesInv
  <2>2. Witnessed(Front(frames)) \o <<>> = Witnessed(Front(frames))
    <3>1. IsSeq(Front(frames)) /\ Len(Front(frames)) \in Nat
      BY <2>1, FrontOfSeq, SeqFacts
    <3>2. DOMAIN Front(frames) = 1 .. Len(Front(frames))
      BY <3>1, SeqFacts
    <3>3. IsSeq(Witnessed(Front(frames)))
      <4> DEFINE seen == Witnessed(Front(frames))
      <4>1. seen = [i \in 1 .. Len(Front(frames)) |-> seen[i]]
        BY <3>2 DEF Witnessed
      <4> HIDE DEF seen
      <4>2. IsSeq(seen)
        BY <3>1, <4>1, FunctionIsSeqOfFrames
      <4> QED
        BY <4>2 DEF seen
    <3> QED
      BY <3>3, ConcatEmptySeq DEF IsSeq
  <2> QED
    BY <2>1, <2>2 DEF Returns, ReturnsHavingRead
<1>3. Replaced(<<>>)
  BY <1>1, <1>2, StackReplaced
<1>4. TokenSource /\ NoneCatches => SavedFlagsRight(s) /\ (FlagRight(s) \/ r.tag = "err")
  BY DEF Calm, Flagged
<1> DEFINE new == <<>>
<1>5. /\ IsSeq(new) /\ Len(new) \in 0 .. 2 /\ Replaced(new) /\ Len(new) # 2
      /\ 1 .. Len(new) = {} /\ new = <<>>
  BY <1>1, <1>3
<1> HIDE DEF new
<1> QED
  BY <1>2, <1>4, <1>5, CalmStep DEF Calm

LEMMA StayStep ==
    ASSUME IInv, frames # <<>>, Top.kind # "dup", ret = Running \/ ~Inside(Top),
           NEW f, Becomes(<<f>>) \/ BecomesHavingRead(<<f>>),
           FrameInv(f), f.kind # "dup", f.kind = "skip" => Top.kind = "skip",
           NEW s, Calm(s), Flagged(s), Starts(f, s)
    PROVE  IInv'
<1> DEFINE new == <<f>>
<1>1. IsSeq(new) /\ Len(new) = 1 /\ new[1] = f
  BY ShortSeqs
<1>2. new # <<>>
  OBVIOUS
<1>3. ret' = Running /\ frames' \in {Front(frames) \o new, Witnessed(Front(frames)) \o new}
  BY DEF Becomes, BecomesHavingRead
<1> HIDE DEF new
<1>4. FramesInv(frames)
  BY DEF IInv
<1>5. Replaced(new)
  BY <1>1, <1>3, <1>4, StackReplaced
<1>6. \A i \in 1 .. Len(new) : new[i] = f
  BY <1>1
<1>7. Len(new) \in 0 .. 2 /\ Len(new) # 2 /\ new[Len(new)] = f
  BY <1>1
<1> QED
  BY <1>1, <1>2, <1>3, <1>5, <1>6, <1>7, CalmStep DEF Calm, Flagged

LEMMA CallStep ==
    ASSUME IInv, frames # <<>>, Top.kind \notin {"dup", "skip"}, ret = Running \/ ~Inside(Top),
           NEW f, NEW g, Becomes(<<f, g>>),
           FrameInv(f), f.kind \notin {"dup", "skip"}, ~Inside(f), ~RewindsFirst(f),
           FrameInv(g), g.kind # "dup",
           NEW s, Calm(s), Flagged(s), Starts(g, s)
    PROVE  IInv'
<1> DEFINE new == <<f, g>>
<1>1. IsSeq(new) /\ Len(new) = 2 /\ new[1] = f /\ new[2] = g
  BY ShortSeqs
<1>2. new # <<>>
  OBVIOUS
<1>3. ret' = Running /\ frames' = Front(frames) \o new
  BY DEF Becomes
<1> HIDE DEF new
<1>4. FramesInv(frames)
  BY DEF IInv
<1>5. Replaced(new)
  BY <1>1, <1>3, <1>4, StackReplaced
<1>6. \A i \in 1 .. Len(new) : new[i] = f \/ new[i] = g
  <2>1. \A i \in 1 .. 2 : i = 1 \/ i = 2
    OBVIOUS
  <2> QED
    BY <1>1, <2>1
<1>7. Len(new) \in 0 .. 2 /\ new[Len(new)] = g
  BY <1>1
<1>8. MayCall(new[1], new[2])
  BY <1>1 DEF MayCall
<1> QED
  BY <1>1, <1>2, <1>3, <1>5, <1>6, <1>7, <1>8, CalmStep DEF Calm, Flagged

-----------------------------------------------------------------------------
(* The frames that the code makes. *)

\* The types that a type is made of, and the kinds of node there are.
LEMMA RuleFacts ==
    ASSUME NEW n \in NodeId
    PROVE  /\ Rules[n].kind \in NodeKinds \cup ItemKinds \cup {"spanned"}
           /\ Rules[n].kind \in {"option", "result", "spanned", "attempt",
                                 "many", "punctuated"} => Rules[n].of \in NodeId
           /\ Rules[n].kind = "punctuated" => Rules[n].punct \in NodeId
           /\ Rules[n].kind = "unordered" => Rules[n].t \in NodeId /\ Rules[n].u \in NodeId
           /\ Rules[n].kind = "integer" =>
                 /\ ~TokenSource /\ Rules[n].alphanumerics \subseteq Atom
                 /\ Rules[n].digits \subseteq Atom /\ Rules[n].fillers \subseteq Atom
           /\ Rules[n].kind = "enum" => Rules[n].variants \in Seq(Seq(FieldType))
<1>1. IsNode(Rules[n])
  BY GrammarAssumption
<1>2. Rules[n].kind \in {"option", "result", "spanned", "attempt", "many"}
         => Rules[n].of \in NodeId
  BY <1>1 DEF IsNode
<1> QED
  BY <1>1, <1>2 DEF IsNode, NodeKinds, ItemKinds

\* The frame of a call is well-formed and ready to run.
LEMMA EnterFacts ==
    ASSUME NEW n \in NodeId, NEW s, StreamInv(s)
    PROVE  /\ FrameInv(Enter(n)) /\ Enter(n).kind \notin {"dup", "skip"}
           /\ Starts(Enter(n), s)
<1>1. CASE n \in ItemNodes
  <2>1. Enter(n) = [kind |-> "items", items |-> TypeItems[n], pc |-> 1, acc |-> <<>>,
                    peeked |-> DefaultSpan]
    BY <1>1 DEF Enter, ItemsFrame
  <2>2. TypeItems[n] \in Seq(ItemType)
    BY <1>1, GrammarCode
  <2> QED
    BY <2>1, <2>2 DEF FrameInv, Starts, ScanInv
<1>2. CASE n \notin ItemNodes
  <2>1. Enter(n) = [kind |-> Rules[n].kind, node |-> n, step |-> 0, acc |-> <<>>]
    BY <1>2 DEF Enter
  <2>2. Rules[n].kind \in NodeKinds \cup {"spanned"}
    BY <1>2, RuleFacts DEF ItemNodes
  <2>3. FrameInv(Enter(n)) /\ Enter(n).kind \notin {"dup", "skip"}
    BY <2>1, <2>2 DEF FrameInv, NodeKinds
  <2>4. IsRest(Enter(n).acc \o Unread(s), s.source) /\ Enter(n).acc \in Seq(Atom)
    <3>1. Unread(s) \in Seq(Atom) /\ IsRest(Unread(s), s.source)
      BY StreamFields DEF StreamInv
    <3>2. <<>> \o Unread(s) = Unread(s)
      BY <3>1, ConcatEmptySeq
    <3> QED
      BY <2>1, <3>1, <3>2
  <2> QED
    BY <2>1, <2>3, <2>4 DEF Starts, ScanInv
<1> QED
  BY <1>1, <1>2

LEMMA ItemsFrameFacts ==
    ASSUME NEW items \in Seq(ItemType)
    PROVE  /\ FrameInv(ItemsFrame(items)) /\ ItemsFrame(items).kind = "items"
           /\ \A s : Starts(ItemsFrame(items), s)
BY DEF ItemsFrame, FrameInv, Starts, ScanInv

LEMMA SkipFrameFacts ==
    /\ FrameInv(SkipFrame) /\ SkipFrame.kind = "skip"
    /\ \A s : Starts(SkipFrame, s)
BY DEF SkipFrame, FrameInv, Starts, ScanInv

\* A frame of a combinator that went on is one still.
LEMMA NodeFrameFacts ==
    ASSUME NEW f, FrameInv(f), f.kind \in NodeKinds
    PROVE  /\ f.node \in NodeId /\ Rules[f.node].kind = f.kind /\ f.step \in Nat
           /\ ~Inside(f)
           /\ \A step \in Nat : LET g == [f EXCEPT !.step = step]
                                IN  FrameInv(g) /\ g.kind = f.kind /\ g.step = step
           /\ \A acc : LET g == [f EXCEPT !.acc = acc]
                       IN  /\ FrameInv(g) /\ g.kind = f.kind /\ g.node = f.node
                           /\ g.acc = acc
<1>1. /\ DOMAIN f = {"kind", "node", "step", "acc"}
      /\ f.node \in NodeId /\ Rules[f.node].kind = f.kind /\ f.step \in Nat
  BY DEF FrameInv, NodeKinds
<1>2. ~Inside(f)
  BY DEF Inside, NodeKinds
<1>3. ASSUME NEW step \in Nat
      PROVE  LET g == [f EXCEPT !.step = step]
             IN  FrameInv(g) /\ g.kind = f.kind /\ g.step = step
  <2> DEFINE g == [f EXCEPT !.step = step]
  <2>1. /\ DOMAIN g = {"kind", "node", "step", "acc"} /\ g.kind = f.kind
        /\ g.node = f.node /\ g.step = step
    BY <1>1
  <2> HIDE DEF g
  <2>2. FrameInv(g)
    BY <1>1, <2>1 DEF FrameInv
  <2> QED
    BY <2>1, <2>2 DEF g
<1>4. ASSUME NEW acc
      PROVE  LET g == [f EXCEPT !.acc = acc]
             IN  FrameInv(g) /\ g.kind = f.kind /\ g.node = f.node /\ g.acc = acc
  <2> DEFINE g == [f EXCEPT !.acc = acc]
  <2>1. /\ DOMAIN g = {"kind", "node", "step", "acc"} /\ g.kind = f.kind
        /\ g.node = f.node /\ g.step = f.step /\ g.acc = acc
    BY <1>1
  <2> HIDE DEF g
  <2>2. FrameInv(g)
    BY <1>1, <2>1 DEF FrameInv
  <2> QED
    BY <2>1, <2>2 DEF g
<1> QED
  BY <1>1, <1>2, <1>3, <1>4

\* The frame on top is well-formed.
LEMMA TopFacts ==
    ASSUME IInv, frames # <<>>
    PROVE  /\ FrameInv(Top) /\ StreamInv(Current)
           /\ ret = Running => Starts(Top, Current)
<1>1. Len(frames) \in 1 .. Len(frames) /\ Top = frames[Len(frames)]
  BY BaseLevel DEF IInv
<1>2. FrameInv(Top)
  BY <1>1 DEF IInv, FramesInv
<1>3. StreamInv(Current)
  BY StreamsFacts DEF IInv
<1>4. ret = Running => Starts(Top, Current)
  BY DEF IInv, ControlInv
<1> QED
  BY <1>2, <1>3, <1>4

-----------------------------------------------------------------------------
(* The steps, one by one. *)

LEMMA ParseLeafStep ==
    ASSUME IInv, ParseLeaf
    PROVE  IInv'
<1> DEFINE served == StreamNext(Current)
<1>1. frames # <<>> /\ Top.kind = "leaf" /\ ret = Running /\ ~Failing
  BY DEF ParseLeaf, Runs, Failing, Running
<1>2. CASE /\ served.atom \in Rule.accepts
           /\ SetStream(served.stream)
           /\ ReturnsHavingRead(Ok(<<"atom", served.atom, NextPlace(Current)>>))
  <2>1. Calm(served.stream) /\ Flagged(served.stream)
    BY <1>1, <1>2, NextCalm
  <2>2. \A v : Ok(v) # Running /\ Ok(v).tag # "sep"
    BY DEF Ok, Running
  <2> QED
    BY <1>1, <1>2, <2>1, <2>2, ReturnStep
<1>3. CASE /\ served.atom \in Atom \ Rule.accepts
           /\ SetStream(StreamPush(served.stream, served.atom))
           /\ ReturnsHavingRead(Err(NextSpan(Current)))
  <2>1. Calm(StreamPush(served.stream, served.atom))
    BY <1>3, BackCalm
  <2>2. \A p : Err(p) # Running /\ Err(p).tag = "err"
    BY DEF Err, Running
  <2> QED
    BY <1>1, <1>3, <2>1, <2>2, ReturnStep
<1>4. CASE /\ served.atom = NoAtom
           /\ SetStream(served.stream)
           /\ Returns(Err(DefaultSpan))
  <2>1. Calm(served.stream) /\ Flagged(served.stream)
    BY <1>1, <1>4, NextCalm
  <2>2. \A p : Err(p) # Running /\ Err(p).tag = "err"
    BY DEF Err, Running
  <2> QED
    BY <1>1, <1>4, <2>1, <2>2, ReturnStep
<1> QED
  BY <1>2, <1>3, <1>4 DEF ParseLeaf

LEMMA ResultFacts ==
    /\ \A v : Ok(v) # Running /\ Ok(v).tag = "ok"
    /\ \A p : Err(p) # Running /\ Err(p).tag = "err"
    /\ \A b : Sep(b) # Running /\ Sep(b).tag = "sep"
    /\ Running.tag = "run"
BY DEF Ok, Err, Sep, Running

\* A function that runs has not failed, and neither has one that returned what
\* its caller, on top, makes do with.
LEMMA NotFailing ==
    /\ ret = Running => ~Failing
    /\ ret.tag # "err" => ~Failing
    /\ frames # <<>> /\ RewindsFirst(Top) => ~Failing
BY ResultFacts DEF Failing

LEMMA RunSkipSepStep ==
    ASSUME IInv, RunSkipSep
    PROVE  IInv'
<1> DEFINE looked == StreamPeek(Current)
<1>1. frames # <<>> /\ Top.kind = "skip" /\ ret = Running /\ ~Failing
  BY NotFailing DEF RunSkipSep, Runs
<1>2. CASE TokenSource /\ Returns(Sep(~Current.isJoint)) /\ UNCHANGED streams
  <2>1. Calm(Current) /\ Flagged(Current)
    BY <1>1, <1>2, KeptCalm
  <2> QED
    BY <1>1, <1>2, <2>1, ReturnStep, ResultFacts
<1>3. CASE /\ SetStream(StreamNext(looked.stream).stream)
           /\ Becomes(<<[Top EXCEPT !.found = TRUE]>>)
           /\ ~TokenSource
  <2> DEFINE t == StreamNext(looked.stream).stream
             f == [Top EXCEPT !.found = TRUE]
  <2>1. StreamInv(Current) /\ FrameInv(Top)
    BY <1>1, TopFacts
  <2>2. StreamInv(t) /\ SameScopes(t, looked.stream) /\ SameScopes(looked.stream, Current)
    BY <2>1, PeekStream, NextStream
  <2>3. Calm(t) /\ Flagged(t)
    BY <1>3, <2>2 DEF Calm, Flagged, SameScopes
  <2>4. DOMAIN Top = {"kind", "found"}
    BY <1>1, <2>1 DEF FrameInv, NodeKinds
  <2>5. f.kind = "skip" /\ DOMAIN f = {"kind", "found"}
    BY <1>1, <2>4
  <2>6. Becomes(<<f>>)
    BY <1>3
  <2> HIDE DEF f, t
  <2>7. FrameInv(f) /\ Starts(f, t)
    BY <2>5 DEF FrameInv, Starts, ScanInv
  <2> QED
    BY <1>1, <2>3, <2>5, <2>6, <2>7, StayStep
<1>4. CASE SetStream(looked.stream) /\ Returns(Sep(Top.found))
  <2>1. Calm(looked.stream) /\ Flagged(looked.stream)
    BY <1>1, <1>4, PeekCalm
  <2> QED
    BY <1>1, <1>4, <2>1, ReturnStep, ResultFacts
<1> QED
  BY <1>2, <1>3, <1>4 DEF RunSkipSep

LEMMA ItemsFacts ==
    ASSUME NEW f, FrameInv(f), f.kind = "items"
    PROVE  /\ f.items \in Seq(ItemType) /\ f.pc \in Nat \ {0}
           /\ f.pc <= Len(f.items) => f.items[f.pc] \in ItemType
           /\ \A v : LET g == [f EXCEPT !.pc = f.pc + 1, !.acc = f.acc \o v]
                     IN  /\ FrameInv(g) /\ g.kind = "items"
                         /\ \A s : Starts(g, s)
           /\ \A p : LET g == [f EXCEPT !.peeked = p]
                     IN  /\ FrameInv(g) /\ g.kind = "items"
                         /\ Inside(g) <=> Inside(f)
<1>1. /\ DOMAIN f = {"kind", "items", "pc", "acc", "peeked"}
      /\ f.items \in Seq(ItemType) /\ f.pc \in Nat \ {0}
  BY DEF FrameInv, NodeKinds
<1>2. f.pc <= Len(f.items) => f.items[f.pc] \in ItemType
  <2>1. Len(f.items) \in Nat
    BY <1>1, LenProperties
  <2>2. f.pc <= Len(f.items) => f.pc \in 1 .. Len(f.items)
    BY <1>1, <2>1
  <2> QED
    BY <1>1, <2>2, ElementOfSeq
<1>3. ASSUME NEW v
      PROVE  LET g == [f EXCEPT !.pc = f.pc + 1, !.acc = f.acc \o v]
             IN  FrameInv(g) /\ g.kind = "items" /\ \A s : Starts(g, s)
  <2> DEFINE g == [f EXCEPT !.pc = f.pc + 1, !.acc = f.acc \o v]
  <2>1. /\ DOMAIN g = {"kind", "items", "pc", "acc", "peeked"} /\ g.kind = "items"
        /\ g.items = f.items /\ g.pc = f.pc + 1
    BY <1>1
  <2> HIDE DEF g
  <2>2. FrameInv(g) /\ \A s : Starts(g, s)
    BY <1>1, <2>1 DEF FrameInv, Starts, ScanInv
  <2> QED
    BY <2>1, <2>2 DEF g
<1>4. ASSUME NEW p
      PROVE  LET g == [f EXCEPT !.peeked = p]
             IN  FrameInv(g) /\ g.kind = "items" /\ (Inside(g) <=> Inside(f))
  <2> DEFINE g == [f EXCEPT !.peeked = p]
  <2>1. /\ DOMAIN g = {"kind", "items", "pc", "acc", "peeked"} /\ g.kind = "items"
        /\ g.items = f.items /\ g.pc = f.pc
    BY <1>1
  <2> HIDE DEF g
  <2>2. FrameInv(g) /\ (Inside(g) <=> Inside(f))
    BY <1>1, <2>1 DEF FrameInv, Inside
  <2> QED
    BY <2>1, <2>2 DEF g
<1> QED
  BY <1>1, <1>2, <1>3, <1>4

LEMMA RunItemStep ==
    ASSUME IInv, RunItem
    PROVE  IInv'
<1>1. /\ frames # <<>> /\ Top.kind = "items" /\ ret = Running /\ ~Failing
      /\ FrameInv(Top) /\ Item \in ItemType /\ StreamInv(Current)
      /\ ~RewindsFirst(Top)
  <2>1. frames # <<>> /\ Top.kind = "items" /\ ret = Running /\ Top.pc <= Len(Top.items)
    BY DEF RunItem, Runs
  <2> QED
    BY <2>1, TopFacts, ItemsFacts, NotFailing DEF Item, RewindsFirst
<1>2. CASE /\ Item.op \in {"skip", "together"}
           /\ Becomes(<<Top, SkipFrame>>) /\ UNCHANGED streams
  <2>1. Calm(Current) /\ Flagged(Current)
    BY <1>1, <1>2, KeptCalm
  <2>2. ~Inside(Top)
    BY <1>2 DEF Inside, Item
  <2> QED
    BY <1>1, <1>2, <2>1, <2>2, CallStep, SkipFrameFacts
<1>3. CASE /\ Item.op = "spacing" /\ SetStream(StreamPeek(Current).stream)
           /\ Becomes(<<[Top EXCEPT !.peeked = NextSpan(Current)], SkipFrame>>)
  <2> DEFINE f == [Top EXCEPT !.peeked = NextSpan(Current)]
             t == StreamPeek(Current).stream
  <2>1. Calm(t) /\ Flagged(t)
    BY <1>1, <1>3, PeekCalm
  <2>2. ~Inside(Top)
    BY <1>3 DEF Inside, Item
  <2>3. FrameInv(f) /\ f.kind = "items" /\ ~Inside(f)
    BY <1>1, <2>2, ItemsFacts
  <2>4. Becomes(<<f, SkipFrame>>)
    BY <1>3
  <2> HIDE DEF f, t
  <2>5. ~RewindsFirst(f)
    BY <2>3 DEF RewindsFirst
  <2> QED
    BY <1>1, <2>1, <2>3, <2>4, <2>5, CallStep, SkipFrameFacts
<1>4. CASE /\ Becomes(<<Stepped(<<<<"default">>>>)>>) /\ UNCHANGED streams
  <2>1. Calm(Current) /\ Flagged(Current)
    BY <1>1, <1>4, KeptCalm
  <2> DEFINE f == Stepped(<<<<"default">>>>)
  <2>2. FrameInv(f) /\ f.kind = "items" /\ Starts(f, Current)
    BY <1>1, ItemsFacts DEF Stepped
  <2>3. Becomes(<<f>>)
    BY <1>4
  <2> HIDE DEF f
  <2> QED
    BY <1>1, <2>1, <2>2, <2>3, StayStep
<1>5. CASE /\ Item.op = "parse" /\ Becomes(<<Top, Enter(Item.node)>>)
           /\ UNCHANGED streams
  <2>1. Calm(Current) /\ Flagged(Current)
    BY <1>1, <1>5, KeptCalm
  <2>2. ~Inside(Top)
    BY <1>5 DEF Inside, Item
  <2>3. Item.node \in NodeId
    BY <1>1, <1>5, ItemFacts
  <2> QED
    BY <1>1, <1>5, <2>1, <2>2, <2>3, CallStep, EnterFacts
<1> QED
  BY <1>2, <1>3, <1>4, <1>5 DEF RunItem

LEMMA SepReturnedStep ==
    ASSUME IInv, SepReturned
    PROVE  IInv'
<1>1. /\ frames # <<>> /\ Top.kind = "items" /\ ret.tag = "sep" /\ ~Failing
      /\ FrameInv(Top) /\ ~Inside(Top)
  <2>1. frames # <<>> /\ Top.kind = "items" /\ ret.tag = "sep"
    BY DEF SepReturned
  <2>2. ret # Running
    BY <2>1, ResultFacts
  <2> QED
    BY <2>1, <2>2, TopFacts, NotFailing DEF IInv, ControlInv
<1>2. ASSUME NEW p, Returns(Err(p)), SetStream(StreamPeek(Current).stream)
      PROVE  IInv'
  <2>1. Calm(StreamPeek(Current).stream) /\ Flagged(StreamPeek(Current).stream)
    BY <1>1, <1>2, PeekCalm
  <2> QED
    BY <1>1, <1>2, <2>1, ReturnStep, ResultFacts
<1>3. CASE Becomes(<<Stepped(<<>>)>>) /\ UNCHANGED streams
  <2>1. Calm(Current) /\ Flagged(Current)
    BY <1>1, <1>3, KeptCalm
  <2> DEFINE f == Stepped(<<>>)
  <2>2. FrameInv(f) /\ f.kind = "items" /\ Starts(f, Current)
    BY <1>1, ItemsFacts DEF Stepped
  <2>3. Becomes(<<f>>)
    BY <1>3
  <2> HIDE DEF f
  <2> QED
    BY <1>1, <2>1, <2>2, <2>3, StayStep
<1> QED
  BY <1>2, <1>3 DEF SepReturned

LEMMA ItemsDoneStep ==
    ASSUME IInv, ItemsDone
    PROVE  IInv'
<1>1. frames # <<>> /\ Top.kind = "items" /\ ret = Running /\ ~Failing
  BY NotFailing DEF ItemsDone, Runs
<1>2. Calm(Current) /\ Flagged(Current)
  BY <1>1, KeptCalm DEF ItemsDone
<1> QED
  BY <1>1, <1>2, ReturnStep, ResultFacts DEF ItemsDone

-----------------------------------------------------------------------------
(* The steps that open or close a scope, or enter or leave a group. *)

\* dup opens a scope on the current stream and runs g, above f if it is to
\* go on afterwards.
LEMMA DupStep ==
    ASSUME IInv, frames # <<>>, ret = Running, Top.kind \notin {"dup", "skip"},
           NEW fs, \/ fs = <<>>
                   \/ \E f : /\ fs = <<f>> /\ FrameInv(f)
                             /\ f.kind \notin {"dup", "skip"} /\ ~Inside(f),
           NEW g, FrameInv(g), g.kind \notin {"dup", "skip"},
           \A s : StreamInv(s) => Starts(g, s), Dups(fs, g)
    PROVE  IInv'
<1> DEFINE t == StreamCheckpoint(Current)
           d == DupFrame(StreamDepth(Current))
           new == fs \o <<d, g>>
           L == Len(streams)
           n == Len(frames)
           m == Len(fs)
<1>0. FramesInv(frames) /\ ControlInv /\ StreamsInv /\ ScopesNest /\ FlagsInv
  BY DEF IInv
<1>1. /\ n \in Nat \ {0} /\ LevelAt(frames, n) = L /\ ~Failing
      /\ L \in Nat \ {0} /\ Current = streams[L] /\ StreamInv(Current)
      /\ DOMAIN streams = 1 .. L
  BY <1>0, BaseLevel, StreamsFacts, NotFailing
<1>2. /\ d.kind = "dup" /\ d.level = L /\ d.raw = StreamDepth(Current) /\ FrameInv(d)
  BY DEF DupFrame, FrameInv
<1>3. /\ IsSeq(fs) /\ m \in {0, 1}
      /\ m = 1 => /\ FrameInv(fs[1]) /\ fs[1].kind \notin {"dup", "skip"}
                  /\ ~Inside(fs[1])
  BY ShortSeqs
<1>4. SetStream(t) /\ frames' = Front(frames) \o new /\ ret' = Running
  BY DEF Dups, Becomes
<1> HIDE DEF d, t
<1>5. /\ IsSeq(new) /\ Len(new) = m + 2 /\ new[m + 1] = d /\ new[m + 2] = g
      /\ m = 1 => new[1] = fs[1]
  <2> DEFINE both == <<d, g>>
  <2>1. IsSeq(both) /\ Len(both) = 2 /\ both[1] = d /\ both[2] = g
    BY ShortSeqs
  <2> HIDE DEF both
  <2>2. /\ IsSeq(fs \o both) /\ Len(fs \o both) = m + Len(both)
        /\ \A i \in 1 .. m : (fs \o both)[i] = fs[i]
        /\ \A i \in 1 .. Len(both) : (fs \o both)[m + i] = both[i]
    <3>1. IsSeq(fs) /\ IsSeq(both)
      BY <1>3, <2>1
    <3> HIDE DEF m
    <3>2. /\ IsSeq(fs \o both) /\ Len(fs \o both) = Len(fs) + Len(both)
          /\ \A i \in 1 .. Len(fs) : (fs \o both)[i] = fs[i]
          /\ \A i \in 1 .. Len(both) : (fs \o both)[Len(fs) + i] = both[i]
      BY ONLY <3>1, ConcatSeqs
    <3> QED
      BY <3>2 DEF m
  <2>3. (fs \o both)[m + 1] = d /\ (fs \o both)[m + 2] = g
    <3>1. 1 \in 1 .. Len(both) /\ 2 \in 1 .. Len(both)
      BY <2>1
    <3> QED
      BY <2>1, <2>2, <3>1
  <2>4. m = 1 => (fs \o both)[1] = fs[1]
    BY <2>2
  <2> QED
    BY <2>1, <2>2, <2>3, <2>4 DEF both
<1> HIDE DEF new, m
<1>6. new # <<>> /\ Len(new) \in {2, 3}
  BY <1>3, <1>5, ShortSeqs
<1>7. Replaced(new)
  BY <1>0, <1>4, <1>5, StackReplaced
<1>8. \A i \in 1 .. Len(new) :
         \/ m = 1 /\ i = 1 /\ new[i] = fs[1]
         \/ i = m + 1 /\ new[i] = d
         \/ i = m + 2 /\ new[i] = g
  <2>1. \A i \in 1 .. m + 2 : (m = 1 /\ i = 1) \/ i = m + 1 \/ i = m + 2
    BY <1>3
  <2> QED
    BY <1>5, <2>1
<1>9. ~Inside(d) /\ ~RewindsFirst(d)
  BY <1>2 DEF Inside, RewindsFirst
<1>10. /\ FramesInv(frames') /\ LevelAt(frames', n) = L
       /\ frames' # <<>> /\ Top' = g
  <2>1. \A i \in 1 .. Len(new) : FrameInv(new[i])
    BY <1>2, <1>3, <1>8
  <2>2. \A i \in 1 .. Len(new) - 1 : MayCall(new[i], new[i + 1])
    <3> TAKE i \in 1 .. Len(new) - 1
    <3>1. (i = m + 1 /\ i + 1 = m + 2) \/ (m = 1 /\ i = 1 /\ i + 1 = m + 1)
      BY <1>3, <1>5
    <3>2. MayCall(d, g)
      BY <1>9 DEF MayCall
    <3>3. m = 1 => MayCall(fs[1], d)
      BY <1>2, <1>3 DEF MayCall
    <3> QED
      BY <1>5, <3>1, <3>2, <3>3
  <2>3. new[1].kind # "skip"
    BY <1>2, <1>3, <1>5
  <2>4. \A i \in 1 .. Len(new) : new[i].kind = "dup" =>
            /\ new[i].level = LevelAt(frames, n)
            /\ \A j \in 1 .. i - 1 : ~Inside(new[j])
    <3> SUFFICES ASSUME NEW i \in 1 .. Len(new), new[i].kind = "dup"
                 PROVE  /\ new[i].level = LevelAt(frames, n)
                        /\ \A j \in 1 .. i - 1 : ~Inside(new[j])
      OBVIOUS
    <3>1. i = m + 1 /\ new[i] = d
      BY <1>3, <1>8
    <3>2. \A j \in 1 .. i - 1 : m = 1 /\ j = 1
      BY <1>3, <3>1
    <3> QED
      BY <1>1, <1>2, <1>3, <1>5, <3>1, <3>2
  <2>5. /\ FramesInv(frames') /\ LevelAt(frames', n) = LevelAt(frames, n)
        /\ frames' # <<>> /\ frames'[Len(frames')] = new[Len(new)]
    BY <1>0, <1>5, <1>6, <1>7, <2>1, <2>2, <2>3, <2>4, FramesStep
  <2> QED
    BY <1>1, <1>5, <2>5 DEF Top, Last
<1>11. /\ StreamInv(t) /\ StreamDepth(t) = StreamDepth(Current) + 1
       /\ FlagRight(Current) => FlagRight(t)
       /\ TokenSource /\ FlagRight(Current) /\ SavedFlagsRight(Current) => SavedFlagsRight(t)
  BY <1>1, CheckpointStream DEF t
<1>12. /\ StreamsInv' /\ Len(streams') = L /\ Current' = t /\ streams'[L] = t
       /\ \A level \in 1 .. L - 1 : streams'[level] = streams[level]
  BY <1>0, <1>4, <1>11, StreamSet
<1>13. LevelAt(frames', Len(frames')) = L
  <2>1. Len(frames') = n - 1 + (m + 2)
    BY <1>5, <1>7 DEF Replaced
  <2>2. \A i \in 1 .. m + 1 : ~Inside(frames'[n - 1 + i])
    <3> TAKE i \in 1 .. m + 1
    <3>1. i \in 1 .. Len(new) /\ i # m + 2
      BY <1>3, <1>5
    <3>2. frames'[n - 1 + i] = new[i]
      BY <1>7, <3>1 DEF Replaced
    <3> QED
      BY <1>3, <1>8, <1>9, <3>1, <3>2
  <2> HIDE DEF L, n
  <2>3. LevelAt(frames', n + 1) = L
    <3>1. n - 1 + 1 = n /\ 1 \in 1 .. m + 1
      BY <1>1, <1>3
    <3>2. ~Inside(frames'[n])
      BY <2>2, <3>1
    <3> QED
      BY <1>1, <1>10, <3>2, LevelFacts
  <2>4. m = 1 => LevelAt(frames', n + 2) = L
    <3>1. n - 1 + 2 = n + 1 /\ (m = 1 => 2 \in 1 .. m + 1) /\ (n + 1) + 1 = n + 2
          /\ n + 1 \in Nat \ {0}
      BY <1>1
    <3>2. m = 1 => ~Inside(frames'[n + 1])
      BY <2>2, <3>1
    <3> QED
      BY <1>1, <2>3, <3>1, <3>2, LevelFacts
  <2>5. Len(frames') = IF m = 1 THEN n + 2 ELSE n + 1
    BY <1>1, <1>3, <2>1
  <2> QED
    BY <2>3, <2>4, <2>5
<1>14. ControlInv'
  BY <1>4, <1>10, <1>11, <1>12, <1>13 DEF ControlInv, Running
<1>15. ScopesNest'
  <2>1. ASSUME NEW level \in 1 .. L
        PROVE  Nested(frames', DupsOf(frames', level), streams'[level])
    <3> DEFINE New == {k \in 1 .. Len(new) : new[k].kind = "dup" /\ new[k].level = level}
    <3>1. /\ DupsOf(frames, level) = OuterScopes(level)
          /\ DupsOf(frames', level) = OuterScopes(level) \cup {n - 1 + k : k \in New}
          /\ \A i \in OuterScopes(level) : frames'[i] = frames[i] /\ i \in Nat /\ i < n
      <4>1. DupsOf(frames, level) = OuterScopes(level) \cup {}
        BY <1>0, <1>5, <1>7, ScopesOfStack
      <4>2. DupsOf(frames', level) = OuterScopes(level) \cup {n - 1 + k : k \in New}
        BY <1>0, <1>5, <1>7, ScopesOfStack
      <4>3. \A i \in OuterScopes(level) : frames'[i] = frames[i] /\ i \in Nat /\ i < n
        BY <1>0, <1>5, <1>7, ScopesOfStack
      <4> HIDE DEF New
      <4> QED
        BY <4>1, <4>2, <4>3
    <3>2. Nested(frames, OuterScopes(level), streams[level])
      BY <1>0, <1>1, <3>1, ScopesNestPerStream
    <3>3. CASE level \in 1 .. L - 1
      <4>1. New = {}
        <5>1. L # level
          BY <1>1, <3>3
        <5> QED
          BY <1>2, <1>3, <1>8, <5>1
      <4>2. DupsOf(frames', level) = OuterScopes(level)
        BY <3>1, <4>1
      <4>3. streams'[level] = streams[level]
        BY <1>12, <3>3
      <4>4. \A i \in OuterScopes(level) : frames'[i] = frames[i]
        BY <3>1
      <4>5. Nested(frames', OuterScopes(level), streams'[level])
        BY <3>2, <4>3, <4>4, NestedKept
      <4> QED
        BY <4>2, <4>5
    <3>4. CASE level = L
      <4> DEFINE k == n - 1 + (m + 1)
      <4>1. New = {m + 1}
        <5>1. m + 1 \in 1 .. Len(new)
          BY <1>3, <1>5
        <5> QED
          BY <1>2, <1>3, <1>5, <1>8, <3>4, <5>1
      <4>2. DupsOf(frames', level) = OuterScopes(level) \cup {k}
        BY <3>1, <4>1
      <4>3. frames'[k] = d
        <5>1. m + 1 \in 1 .. Len(new)
          BY <1>3, <1>5
        <5> QED
          BY <1>5, <1>7, <5>1 DEF Replaced
      <4>4. k \in Nat /\ \A i \in OuterScopes(level) : i < k
        BY <1>1, <1>3, <3>1
      <4> HIDE DEF k
      <4>5. StreamDepth(streams[level]) \in Nat
        BY <1>1, <3>4, StreamFields
      <4>6. TokenSource => Len(t.jointSaves) = StreamDepth(t)
        BY <1>11 DEF StreamInv
      <4>7. frames'[k].raw = StreamDepth(streams[level])
            /\ StreamDepth(t) = StreamDepth(streams[level]) + 1
        BY <1>1, <1>2, <1>11, <3>4, <4>3
      <4>8. Nested(frames', OuterScopes(level) \cup {k}, t)
        BY <3>1, <3>2, <4>4, <4>5, <4>6, <4>7, NestedOpened
      <4> QED
        BY <1>12, <3>4, <4>2, <4>8
    <3>5. level \in 1 .. L - 1 \/ level = L
      BY <1>1
    <3> QED
      BY <3>3, <3>4, <3>5
  <2>2. DOMAIN streams' = 1 .. L
    <3>1. streams' \in Seq(Stream)
      BY <1>12 DEF StreamsInv
    <3> QED
      BY <1>12, <3>1, LenProperties
  <2> QED
    BY <2>1, <2>2, ScopesNestNext
<1>16. FlagsInv'
  BY <1>0, <1>1, <1>4, <1>11, CurrentFlags, FlagsNext
<1> QED
  BY <1>10, <1>12, <1>14, <1>15, <1>16 DEF IInv

LEMMA CloseDupStep ==
    ASSUME IInv, CloseDup
    PROVE  IInv'
<1> DEFINE t == IF ret.tag = "ok" THEN StreamCommit(Current, Top.raw)
                ELSE StreamRollback(Current, Top.raw)
           L == Len(streams)
           n == Len(frames)
<1>0. FramesInv(frames) /\ ControlInv /\ StreamsInv /\ ScopesNest /\ FlagsInv
  BY DEF IInv
<1>1. /\ frames # <<>> /\ Top.kind = "dup" /\ ret.tag \in {"ok", "err"}
      /\ SetStream(t) /\ Returns(ret)
  BY DEF CloseDup, Resumes
<1>2. /\ n \in Nat \ {0} /\ Top = frames[n] /\ LevelAt(frames, n) = L
      /\ Top.level = L /\ L \in Nat \ {0}
      /\ Current = streams[L] /\ StreamInv(Current) /\ DOMAIN streams = 1 .. L
  <2>1. ~Inside(Top)
    BY <1>1 DEF Inside
  <2>2. n \in Nat \ {0} /\ Top = frames[n] /\ LevelAt(frames, n) = L
    BY <1>0, <1>1, <2>1, BaseLevel
  <2>3. n \in 1 .. n
    BY <2>2
  <2>4. Top.level = L
    BY <1>0, <1>1, <2>2, <2>3 DEF FramesInv
  <2> QED
    BY <1>0, <2>2, <2>4, StreamsFacts
<1>3. Replaced(<<>>) /\ ret' = ret /\ IsSeq(<<>>) /\ Len(<<>>) = 0
  <2>1. frames' = Front(frames) \o <<>>
    BY <1>0, <1>1, FrontOfSeq DEF FramesInv, Returns
  <2> QED
    BY <1>0, <1>1, <2>1, StackReplaced, ShortSeqs DEF Returns
<1> HIDE DEF t
<1>4. FramesInv(frames') /\ LevelAt(frames', n) = L
  <2> DEFINE new == <<>>
  <2>1. IsSeq(new) /\ Replaced(new) /\ new = <<>> /\ 1 .. Len(new) = {}
        /\ 1 .. Len(new) - 1 = {}
    BY <1>3
  <2> HIDE DEF new
  <2> QED
    BY <1>0, <1>1, <1>2, <2>1, FramesStep
<1>5. frames' # <<>> => MayCall(Top', Top)
  BY <1>0, <1>1, <1>3, <1>4, CallerOnTop
<1>6. \A level : /\ DupsOf(frames, level)
                      = OuterScopes(level) \cup (IF Top.level = level THEN {n} ELSE {})
                 /\ DupsOf(frames', level) = OuterScopes(level)
                 /\ \A i \in OuterScopes(level) :
                       frames'[i] = frames[i] /\ i \in Nat /\ i < n
  <2> DEFINE new == <<>>
  <2>1. IsSeq(new) /\ Replaced(new) /\ 1 .. Len(new) = {}
    BY <1>3
  <2> HIDE DEF new
  <2> TAKE level
  <2>2. DupsOf(frames, level)
           = OuterScopes(level) \cup
             (IF Top.kind = "dup" /\ Top.level = level THEN {Len(frames)} ELSE {})
    BY <1>0, <1>1, <2>1, ScopesOfStack
  <2>3. DupsOf(frames', level)
           = OuterScopes(level) \cup
             {Len(frames) - 1 + k : k \in
                {k \in 1 .. Len(new) : new[k].kind = "dup" /\ new[k].level = level}}
    BY <1>0, <1>1, <2>1, ScopesOfStack
  <2>4. \A i \in OuterScopes(level) : frames'[i] = frames[i] /\ i \in Nat /\ i < Len(frames)
    BY <1>0, <1>1, <2>1, ScopesOfStack
  <2>5. {Len(frames) - 1 + k : k \in
           {k \in 1 .. Len(new) : new[k].kind = "dup" /\ new[k].level = level}} = {}
    <3>1. {k \in 1 .. Len(new) : new[k].kind = "dup" /\ new[k].level = level} = {}
      BY <2>1
    <3> QED
      BY <3>1
  <2> QED
    BY <1>1, <2>2, <2>3, <2>4, <2>5
<1>7. /\ Nested(frames, OuterScopes(L) \cup {n}, Current)
      /\ Top.raw \in 0 .. StreamDepth(Current) - 1
  <2>1. L \in DOMAIN streams
    BY <1>2
  <2>2. Nested(frames, DupsOf(frames, L), Current)
    BY <1>0, <1>2, <2>1, ScopesNestPerStream
  <2>3. DupsOf(frames, L) = OuterScopes(L) \cup {n}
    BY <1>2, <1>6
  <2>4. n \in DupsOf(frames, L)
    BY <2>3
  <2> QED
    BY <1>2, <2>2, <2>3, <2>4, ScopeIsOpen
<1>8. /\ StreamInv(t) /\ StreamDepth(t) = Top.raw
      /\ TokenSource /\ SavedFlagsRight(Current) =>
            /\ SavedFlagsRight(t)
            /\ ret.tag # "ok" \/ FlagRight(Current) => FlagRight(t)
  <2>1. CASE ret.tag = "ok"
    BY <1>2, <1>7, <2>1, CommitStream DEF t
  <2>2. CASE ret.tag # "ok"
    BY <1>2, <1>7, <2>2, RollbackStream DEF t
  <2> QED
    BY <2>1, <2>2
<1>9. /\ StreamsInv' /\ Len(streams') = L /\ Current' = t /\ streams'[L] = t
      /\ \A level \in 1 .. L - 1 : streams'[level] = streams[level]
  BY <1>0, <1>1, <1>8, StreamSet
<1>10. ControlInv'
  <2>1. Len(frames') + 1 = n
    <3>1. Len(frames') = n - 1 + 0
      BY <1>3 DEF Replaced
    <3> QED
      BY <1>2, <3>1
  <2>2. ret' # Running /\ ret'.tag # "sep"
    BY <1>1, <1>3, ResultFacts
  <2> QED
    BY <1>4, <1>9, <2>1, <2>2 DEF ControlInv, Running
<1>11. ScopesNest'
  <2>1. ASSUME NEW level \in 1 .. L
        PROVE  Nested(frames', DupsOf(frames', level), streams'[level])
    <3>1. CASE level \in 1 .. L - 1
      <4>1. L # level
        BY <1>2, <3>1
      <4>2. Top.level # level
        BY <1>2, <4>1
      <4>3. Nested(frames, OuterScopes(level), streams[level])
        <5>1. DupsOf(frames, level) = OuterScopes(level) \cup {}
          BY <1>6, <4>2
        <5>2. OuterScopes(level) \cup {} = OuterScopes(level)
          OBVIOUS
        <5>3. level \in DOMAIN streams
          BY <1>2
        <5>4. Nested(frames, DupsOf(frames, level), streams[level])
          BY <1>0, <5>3, ScopesNestPerStream
        <5> QED
          BY <5>1, <5>2, <5>4
      <4>4. streams'[level] = streams[level]
        BY <1>9, <3>1
      <4>5. \A i \in OuterScopes(level) : frames'[i] = frames[i]
        BY <1>6
      <4>6. Nested(frames', OuterScopes(level), streams'[level])
        BY <4>3, <4>4, <4>5, NestedKept
      <4> QED
        BY <1>6, <4>6
    <3>2. CASE level = L
      <4>1. TokenSource => Len(t.jointSaves) = StreamDepth(t)
        BY <1>8 DEF StreamInv
      <4>2. /\ StreamDepth(Current) \in Nat /\ n \in Nat
            /\ StreamDepth(t) = frames[n].raw
        BY <1>2, <1>8, StreamFields
      <4>3. \A i \in OuterScopes(L) : frames'[i] = frames[i] /\ i \in Nat /\ i < n
        BY <1>6
      <4> HIDE DEF L, n
      <4>4. Nested(frames', OuterScopes(L), t)
        BY <1>7, <4>1, <4>2, <4>3, NestedClosed
      <4> QED
        BY <1>6, <1>9, <3>2, <4>4
    <3>3. level \in 1 .. L - 1 \/ level = L
      BY <1>2
    <3> QED
      BY <3>1, <3>2, <3>3
  <2>2. DOMAIN streams' = 1 .. L
    <3>1. streams' \in Seq(Stream)
      BY <1>9 DEF StreamsInv
    <3> QED
      BY <1>9, <3>1, LenProperties
  <2> QED
    BY <2>1, <2>2, ScopesNestNext
<1>12. FlagsInv'
  <2>1. ret.tag = "ok" => ~Failing
    BY NotFailing
  <2> QED
    BY <1>0, <1>1, <1>8, <2>1, CurrentFlags, FlagsNext
<1> QED
  BY <1>4, <1>9, <1>10, <1>11, <1>12 DEF IInv

\* The scopes of the streams below a level, after a step that opens and closes
\* none on them.
LEMMA ScopesBelow ==
    ASSUME FramesInv(frames), StreamsInv, ScopesNest, frames # <<>>,
           NEW new, IsSeq(new), Replaced(new),
           Top.kind # "dup", \A i \in 1 .. Len(new) : new[i].kind # "dup",
           NEW level \in 1 .. Len(streams), NEW s, SameScopes(s, streams[level])
    PROVE  Nested(frames', DupsOf(frames', level), s)
<1>1. Nested(frames, DupsOf(frames, level), streams[level])
  BY StreamsFacts, ScopesNestPerStream
<1>2. DupsOf(frames', level) = DupsOf(frames, level)
  <2>1. {k \in 1 .. Len(new) : new[k].kind = "dup" /\ new[k].level = level} = {}
    OBVIOUS
  <2>2. {Len(frames) - 1 + k : k \in
           {k \in 1 .. Len(new) : new[k].kind = "dup" /\ new[k].level = level}} = {}
    BY <2>1
  <2>3. DupsOf(frames, level) = OuterScopes(level) \cup {}
    BY ScopesOfStack
  <2>4. DupsOf(frames', level)
           = OuterScopes(level) \cup
             {Len(frames) - 1 + k : k \in
                {k \in 1 .. Len(new) : new[k].kind = "dup" /\ new[k].level = level}}
    BY ScopesOfStack
  <2> QED
    BY <2>2, <2>3, <2>4
<1>3. \A i \in DupsOf(frames, level) : frames'[i] = frames[i]
  BY ScopesOfStack
<1> QED
  BY <1>1, <1>2, <1>3, NestedKept DEF SameScopes

LEMMA EnterGroupStep ==
    ASSUME IInv, EnterGroup
    PROVE  IInv'
<1> DEFINE served == StreamNext(Current)
           inner == StreamNew(Content[served.atom], NextPlace(Current))
           L == Len(streams)
           n == Len(frames)
           g == ItemsFrame(Item.body)
           new == <<Top, g>>
<1>0. FramesInv(frames) /\ ControlInv /\ StreamsInv /\ ScopesNest /\ FlagsInv
  BY DEF IInv
<1>1. /\ frames # <<>> /\ Top.kind = "items" /\ ret = Running /\ ~Failing
      /\ FrameInv(Top) /\ Item \in ItemType /\ Item.op = "group" /\ StreamInv(Current)
      /\ Inside(Top)
  <2>1. /\ frames # <<>> /\ Top.kind = "items" /\ ret = Running
        /\ Top.pc <= Len(Top.items) /\ Item.op = "group"
    BY DEF EnterGroup, Runs
  <2> QED
    BY <2>1, TopFacts, ItemsFacts, NotFailing DEF Item, Inside
<1>2. CASE /\ served.atom \in Item.groups
           /\ streams' = Front(streams) \o <<served.stream, inner>>
           /\ BecomesHavingRead(new)
  <2>1. served.atom \in DOMAIN Content /\ g.kind = "items" /\ FrameInv(g)
        /\ \A s : Starts(g, s)
    <3>1. Item.groups \subseteq DOMAIN Content /\ Item.body \in Seq(FlatItem)
      BY <1>1, ItemFacts
    <3>2. Item.body \in Seq(ItemType)
      BY <3>1, SeqMonotonic DEF ItemType
    <3> QED
      BY <1>2, <3>1, <3>2, ItemsFrameFacts
  <2>2. /\ StreamInv(inner) /\ StreamDepth(inner) = 0
        /\ FlagRight(inner) /\ SavedFlagsRight(inner)
    <3>1. Content[served.atom] \in Seq(Atom)
      BY <2>1, SourceAssumption
    <3>2. NextPlace(Current) \in Seq(Nat)
      <4>1. Current.origin \in Seq(Nat) /\ Position(Current) \in Nat
        BY <1>1, StreamFields
      <4> QED
        BY <4>1, AppendProperties DEF NextPlace
    <3> QED
      BY <3>1, <3>2, NewStream
  <2>3. /\ StreamInv(served.stream) /\ SameScopes(served.stream, Current)
        /\ TokenSource /\ FlagRight(Current) => FlagRight(served.stream)
        /\ SavedFlagsRight(Current) => SavedFlagsRight(served.stream)
    BY <1>1, NextStream
  <2>4. /\ n \in Nat \ {0} /\ Top = frames[n] /\ LevelAt(frames, n) = L
        /\ L \in Nat \ {0} /\ Current = streams[L] /\ DOMAIN streams = 1 .. L
        /\ \A i \in 1 .. n : frames[i].kind = "dup" =>
              frames[i].level \in Nat /\ frames[i].level <= L
    BY <1>0, <1>1, BaseLevel, StreamsFacts
  <2>5. /\ IsSeq(new) /\ Len(new) = 2 /\ new[1] = Top /\ new[2] = g /\ new # <<>>
    BY ShortSeqs
  <2>6. frames' = Witnessed(Front(frames)) \o new /\ ret' = Running
    BY <1>2 DEF BecomesHavingRead
  <2> HIDE DEF inner, served, g, new
  <2>7. Replaced(new)
    BY <1>0, <1>1, <2>5, <2>6, StackReplaced
  <2>8. \A i \in 1 .. Len(new) : /\ FrameInv(new[i]) /\ new[i].kind = "items"
    <3>1. \A i \in 1 .. 2 : i = 1 \/ i = 2
      OBVIOUS
    <3> QED
      BY <1>1, <2>1, <2>5, <3>1
  <2>9. /\ FramesInv(frames') /\ LevelAt(frames', n) = L
        /\ frames' # <<>> /\ Top' = g
    <3>1. \A i \in 1 .. Len(new) - 1 : MayCall(new[i], new[i + 1])
      <4>1. MayCall(Top, g)
        BY <1>1, <2>1 DEF MayCall, RewindsFirst
      <4>2. \A i \in 1 .. 2 - 1 : i = 1 /\ i + 1 = 2
        OBVIOUS
      <4> QED
        BY <2>5, <4>1, <4>2
    <3>2. new[1].kind # "skip" /\ Top.kind # "dup"
      BY <1>1, <2>5
    <3>3. /\ FramesInv(frames') /\ LevelAt(frames', n) = LevelAt(frames, n)
          /\ frames' # <<>> /\ frames'[Len(frames')] = new[Len(new)]
      BY <1>0, <1>1, <2>5, <2>7, <2>8, <3>1, <3>2, FramesStep
    <3> QED
      BY <2>4, <2>5, <3>3 DEF Top, Last
  <2>10. /\ StreamsInv' /\ Len(streams') = L + 1 /\ Current' = inner
         /\ streams'[L] = served.stream /\ streams'[L + 1] = inner
         /\ \A level \in 1 .. L - 1 : streams'[level] = streams[level]
    BY <1>0, <1>2, <2>2, <2>3, StreamEntered
  <2>11. ControlInv'
    <3>1. Len(frames') = n + 1 /\ frames'[n] = Top
      <4>1. Len(frames') = n - 1 + 2 /\ 1 \in 1 .. Len(new)
        BY <2>5, <2>7 DEF Replaced
      <4>2. frames'[n - 1 + 1] = new[1]
        BY <2>7, <4>1 DEF Replaced
      <4>3. n - 1 + 1 = n
        BY <2>4
      <4> QED
        BY <2>4, <2>5, <4>1, <4>2, <4>3
    <3>2. LevelAt(frames', n + 1) = L + 1
      BY <1>1, <2>4, <2>9, <3>1, LevelFacts
    <3> QED
      BY <2>1, <2>6, <2>9, <2>10, <3>1, <3>2 DEF ControlInv, Running
  <2>12. ScopesNest'
    <3>1. ASSUME NEW level \in 1 .. L
          PROVE  Nested(frames', DupsOf(frames', level), streams'[level])
      <4>1. level = L \/ level \in 1 .. L - 1
        BY <2>4
      <4>2. SameScopes(streams'[level], streams[level])
        <5>1. CASE level = L
          BY <2>3, <2>4, <2>10, <5>1
        <5>2. CASE level \in 1 .. L - 1
          BY <2>10, <5>2 DEF SameScopes
        <5> QED
          BY <4>1, <5>1, <5>2
      <4>3. Top.kind # "dup" /\ \A i \in 1 .. Len(new) : new[i].kind # "dup"
        BY <1>1, <2>8
      <4> QED
        BY <1>0, <1>1, <2>5, <2>7, <4>2, <4>3, ScopesBelow
    <3>2. Nested(frames', DupsOf(frames', L + 1), inner)
      <4>1. DupsOf(frames', L + 1) = {}
        <5>1. OuterScopes(L + 1) = {}
          <6>1. \A i \in 1 .. n - 1 : i \in 1 .. n
            BY <2>4
          <6>2. \A i \in 1 .. n - 1 : frames[i].kind = "dup" => frames[i].level # L + 1
            BY <2>4, <6>1
          <6> QED
            BY <6>2 DEF OuterScopes
        <5>2. {k \in 1 .. Len(new) : new[k].kind = "dup" /\ new[k].level = L + 1} = {}
          BY <2>8
        <5>3. {n - 1 + k : k \in
                 {k \in 1 .. Len(new) : new[k].kind = "dup" /\ new[k].level = L + 1}} = {}
          BY <5>2
        <5>4. ASSUME NEW level
              PROVE  DupsOf(frames', level)
                        = OuterScopes(level) \cup
                          {Len(frames) - 1 + k : k \in
                             {k \in 1 .. Len(new) :
                                 new[k].kind = "dup" /\ new[k].level = level}}
          <6>1. FramesInv(frames) /\ frames # <<>> /\ IsSeq(new) /\ Replaced(new)
            BY <1>0, <1>1, <2>5, <2>7
          <6> QED
            BY ONLY <6>1, ScopesOfStack
        <5> HIDE DEF L
        <5> QED
          BY <5>1, <5>3, <5>4
      <4>2. TokenSource => Len(inner.jointSaves) = StreamDepth(inner)
        BY <2>2 DEF StreamInv
      <4>3. 0 .. 0 - 1 = {}
        OBVIOUS
      <4> QED
        BY <2>2, <4>1, <4>2, <4>3 DEF Nested
    <3>3. DOMAIN streams' = 1 .. L + 1
      <4>1. streams' \in Seq(Stream)
        BY <2>10 DEF StreamsInv
      <4> QED
        BY <2>10, <4>1, LenProperties
    <3>4. \A level \in 1 .. L + 1 : level \in 1 .. L \/ level = L + 1
      BY <2>4
    <3>5. \A level \in DOMAIN streams' :
             Nested(frames', DupsOf(frames', level), streams'[level])
      BY <2>10, <3>1, <3>2, <3>3, <3>4
    <3> QED
      BY <3>5, ScopesNestNext
  <2>13. FlagsInv'
    <3>1. ASSUME TokenSource, NoneCatches, NEW level \in 1 .. L + 1
          PROVE  SavedFlagsRight(streams'[level]) /\ FlagRight(streams'[level])
      <4>1. level \in 1 .. L - 1 \/ level = L \/ level = L + 1
        BY <2>4
      <4>2. SavedFlagsRight(Current) /\ FlagRight(Current)
        BY <1>1, <3>1, CurrentFlags
      <4>3. CASE level \in 1 .. L - 1
        <5>1. level \in 1 .. L /\ level < L
          BY <2>4, <4>3
        <5>2. SavedFlagsRight(streams[level]) /\ FlagRight(streams[level])
          BY <1>0, <3>1, <5>1 DEF FlagsInv
        <5> QED
          BY <2>10, <4>3, <5>2
      <4> QED
        BY <2>2, <2>3, <2>10, <3>1, <4>1, <4>2, <4>3
    <3> QED
      BY <2>10, <3>1 DEF FlagsInv, NoneCatches
  <2> QED
    BY <2>9, <2>10, <2>11, <2>12, <2>13 DEF IInv
<1>3. CASE /\ served.atom \in Atom \ Item.groups
           /\ SetStream(StreamPush(served.stream, served.atom))
           /\ ReturnsHavingRead(Err(NextSpan(Current)))
  <2>1. Calm(StreamPush(served.stream, served.atom))
    BY <1>3, BackCalm
  <2> QED
    BY <1>1, <1>3, <2>1, ReturnStep, ResultFacts
<1>4. CASE /\ served.atom = NoAtom
           /\ SetStream(served.stream)
           /\ Returns(Err(DefaultSpan))
  <2>1. Calm(served.stream) /\ Flagged(served.stream)
    BY <1>1, <1>4, NextCalm
  <2> QED
    BY <1>1, <1>4, <2>1, ReturnStep, ResultFacts
<1> QED
  BY <1>2, <1>3, <1>4 DEF EnterGroup

LEMMA ItemReturnedStep ==
    ASSUME IInv, ItemReturned
    PROVE  IInv'
<1> DEFINE L == Len(streams)
           n == Len(frames)
           value == IF Item.op = "group"
                    THEN <<"group", Delimiters(Current.origin, Current.source), ret.val>>
                    ELSE ret.val
           f == Stepped(<<value>>)
<1>0. FramesInv(frames) /\ ControlInv /\ StreamsInv /\ ScopesNest /\ FlagsInv
  BY DEF IInv
<1>1. /\ frames # <<>> /\ Top.kind = "items" /\ ret.tag \in {"ok", "err"}
      /\ ret # Running /\ FrameInv(Top)
      /\ Inside(Top) <=> Item.op = "group"
  <2>1. frames # <<>> /\ Top.kind = "items" /\ ret.tag \in {"ok", "err"}
    BY DEF ItemReturned, Resumes
  <2> QED
    BY <2>1, TopFacts, ResultFacts DEF Inside, Item
<1>2. \/ ret.tag = "ok" /\ Becomes(<<f>>)
      \/ ret.tag = "err" /\ Returns(ret)
  BY DEF ItemReturned
<1> HIDE DEF value
<1>3. /\ FrameInv(f) /\ f.kind = "items" /\ \A s : Starts(f, s)
  BY <1>1, ItemsFacts DEF Stepped
<1> HIDE DEF f
<1>4. CASE ~Inside(Top)
  <2>1. streams' = streams
    BY <1>1, <1>4 DEF ItemReturned
  <2>2. Calm(Current) /\ (ret.tag = "ok" => Flagged(Current))
    BY <2>1, KeptCalm, NotFailing
  <2>3. CASE ret.tag = "ok" /\ Becomes(<<f>>)
    BY <1>1, <1>3, <1>4, <2>2, <2>3, StayStep
  <2>4. CASE ret.tag = "err" /\ Returns(ret)
    BY <1>1, <1>4, <2>2, <2>4, ReturnStep
  <2> QED
    BY <1>2, <2>3, <2>4
<1>5. CASE Inside(Top)
  <2>1. /\ n \in Nat \ {0} /\ Top = frames[n] /\ LevelAt(frames, n) \in Nat \ {0}
        /\ L = LevelAt(frames, n) + 1 /\ DOMAIN streams = 1 .. L
    BY <1>0, <1>1, <1>5, BaseLevel, StreamsFacts
  <2>2. streams' = Front(streams)
    BY <1>1, <1>5 DEF ItemReturned
  <2>3. /\ StreamsInv' /\ Len(streams') = L - 1 /\ L - 1 = LevelAt(frames, n)
        /\ \A level \in 1 .. L - 1 : streams'[level] = streams[level]
    BY <1>0, <2>1, <2>2, StreamLeft
  <2>4. PICK new : /\ IsSeq(new) /\ Replaced(new)
                   /\ \/ new = <<f>> /\ Len(new) = 1 /\ new[1] = f /\ ret' = Running
                      \/ new = <<>> /\ Len(new) = 0 /\ ret' = ret /\ ret.tag = "err"
    <3>1. CASE ret.tag = "ok" /\ Becomes(<<f>>)
      <4>1. frames' = Front(frames) \o <<f>> /\ ret' = Running
        BY <3>1 DEF Becomes
      <4> DEFINE new == <<f>>
      <4>2. IsSeq(new) /\ Len(new) = 1 /\ new[1] = f
        BY ShortSeqs
      <4>3. frames' = Front(frames) \o new
        BY <4>1
      <4> HIDE DEF new
      <4>4. Replaced(new)
        BY <1>0, <1>1, <4>2, <4>3, StackReplaced
      <4> QED
        BY <4>1, <4>2, <4>4 DEF new
    <3>2. CASE ret.tag = "err" /\ Returns(ret)
      <4>1. frames' = Front(frames) \o <<>> /\ ret' = ret
        BY <1>0, <1>1, <3>2, FrontOfSeq DEF FramesInv, Returns
      <4> DEFINE new == <<>>
      <4>2. IsSeq(new) /\ Len(new) = 0
        BY ShortSeqs
      <4>3. frames' = Front(frames) \o new
        BY <4>1
      <4> HIDE DEF new
      <4>4. Replaced(new)
        BY <1>0, <1>1, <4>2, <4>3, StackReplaced
      <4> QED
        BY <3>2, <4>1, <4>2, <4>4 DEF new
    <3> QED
      BY <1>2, <3>1, <3>2
  <2>5. \A i \in 1 .. Len(new) : i = 1 /\ Len(new) = 1 /\ new[i] = f
    BY <2>4
  <2>6. /\ FramesInv(frames') /\ LevelAt(frames', n) = L - 1
        /\ new # <<>> => frames' # <<>> /\ frames'[Len(frames')] = new[Len(new)]
    <3>1. \A i \in 1 .. Len(new) - 1 : MayCall(new[i], new[i + 1])
      BY <2>4
    <3>2. new # <<>> => Top.kind # "dup" /\ new[1].kind # "skip"
      BY <1>1, <1>3, <2>4
    <3>3. \A i \in 1 .. Len(new) : FrameInv(new[i]) /\ new[i].kind # "dup"
      BY <1>3, <2>5
    <3> QED
      BY <1>0, <1>1, <2>3, <2>4, <3>1, <3>2, <3>3, FramesStep
  <2>7. ControlInv'
    <3>1. Len(frames') = n - 1 + Len(new)
      BY <2>4 DEF Replaced
    <3>2. CASE new = <<f>> /\ Len(new) = 1 /\ new[1] = f /\ ret' = Running
      <4>1. Len(frames') = n /\ frames' # <<>> /\ Top' = f
        <5>1. new # <<>>
          BY <3>2
        <5> QED
          BY <2>1, <2>6, <3>1, <3>2, <5>1 DEF Top, Last
      <4> QED
        BY <1>3, <2>3, <2>6, <3>2, <4>1 DEF ControlInv, Running
    <3>3. CASE new = <<>> /\ Len(new) = 0 /\ ret' = ret /\ ret.tag = "err"
      <4>1. Len(frames') + 1 = n
        BY <2>1, <3>1, <3>3
      <4> QED
        BY <1>1, <2>3, <2>6, <3>3, <4>1 DEF ControlInv, Running
    <3> QED
      BY <2>4, <3>2, <3>3
  <2>8. ScopesNest'
    <3>1. ASSUME NEW level \in 1 .. L - 1
          PROVE  Nested(frames', DupsOf(frames', level), streams'[level])
      <4>1. level \in 1 .. L /\ SameScopes(streams'[level], streams[level])
        BY <2>1, <2>3 DEF SameScopes
      <4>2. Top.kind # "dup" /\ \A i \in 1 .. Len(new) : new[i].kind # "dup"
        BY <1>1, <1>3, <2>5
      <4>3. IsSeq(new) /\ Replaced(new)
        BY <2>4
      <4> QED
        BY <1>0, <1>1, <4>1, <4>2, <4>3, ScopesBelow
    <3>2. DOMAIN streams' = 1 .. L - 1
      <4>1. streams' \in Seq(Stream)
        BY <2>3 DEF StreamsInv
      <4> QED
        BY <2>3, <4>1, LenProperties
    <3> QED
      BY <3>1, <3>2, ScopesNestNext
  <2>9. FlagsInv'
    <3>1. ASSUME TokenSource, NoneCatches, NEW level \in 1 .. L - 1
          PROVE  SavedFlagsRight(streams'[level]) /\ FlagRight(streams'[level])
      <4>1. level \in 1 .. L /\ level < L
        BY <2>1
      <4> QED
        BY <1>0, <2>3, <3>1, <4>1 DEF FlagsInv
    <3> QED
      BY <2>3, <3>1 DEF FlagsInv, NoneCatches
  <2> QED
    BY <2>3, <2>6, <2>7, <2>8, <2>9 DEF IInv
<1> QED
  BY <1>4, <1>5

-----------------------------------------------------------------------------
(* The scans of a number. *)

\* Handing the atoms of t back from the last to the first puts t in front.
LEMMA ReverseOntoReverse ==
    ASSUME NEW S, NEW s \in Seq(S), NEW t \in Seq(S)
    PROVE  /\ s \o Reverse(t) \in Seq(S)
           /\ Reverse(s \o Reverse(t)) = t \o Reverse(s)
<1> DEFINE rt == Reverse(t)
           rs == Reverse(s)
           both == s \o rt
           back == t \o rs
<1>1. /\ rt \in Seq(S) /\ Len(rt) = Len(t) /\ rs \in Seq(S) /\ Len(rs) = Len(s)
      /\ \A i \in 1 .. Len(t) : rt[i] = t[(Len(t) - i) + 1]
      /\ \A i \in 1 .. Len(s) : rs[i] = s[(Len(s) - i) + 1]
      /\ Len(s) \in Nat /\ Len(t) \in Nat
  BY ReverseProperties, LenProperties
<1> HIDE DEF rt, rs
<1>2. /\ both \in Seq(S) /\ Len(both) = Len(s) + Len(t)
      /\ \A i \in 1 .. Len(s) + Len(t) :
            both[i] = IF i <= Len(s) THEN s[i] ELSE rt[i - Len(s)]
  <2>1. /\ both \in Seq(S) /\ Len(both) = Len(s) + Len(rt)
        /\ \A i \in 1 .. Len(s) + Len(rt) :
              both[i] = IF i <= Len(s) THEN s[i] ELSE rt[i - Len(s)]
    <3>1. s \in Seq(S) /\ rt \in Seq(S)
      BY <1>1
    <3> QED
      BY ONLY <3>1, ConcatProperties DEF both
  <2>2. Len(rt) = Len(t)
    BY <1>1
  <2> HIDE DEF both
  <2> QED
    BY <2>1, <2>2
<1>3. /\ back \in Seq(S) /\ Len(back) = Len(t) + Len(s)
      /\ \A i \in 1 .. Len(t) + Len(s) :
            back[i] = IF i <= Len(t) THEN t[i] ELSE rs[i - Len(t)]
  <2>1. /\ back \in Seq(S) /\ Len(back) = Len(t) + Len(rs)
        /\ \A i \in 1 .. Len(t) + Len(rs) :
              back[i] = IF i <= Len(t) THEN t[i] ELSE rs[i - Len(t)]
    <3>1. t \in Seq(S) /\ rs \in Seq(S)
      BY <1>1
    <3> QED
      BY ONLY <3>1, ConcatProperties DEF back
  <2>2. Len(rs) = Len(s)
    BY <1>1
  <2> HIDE DEF back
  <2> QED
    BY <2>1, <2>2
<1> HIDE DEF both, back
<1>4. /\ Reverse(both) \in Seq(S) /\ Len(Reverse(both)) = Len(both)
      /\ \A i \in 1 .. Len(both) : Reverse(both)[i] = both[(Len(both) - i) + 1]
  BY <1>2, ReverseProperties
<1>5. ASSUME NEW i \in 1 .. Len(t) + Len(s)
      PROVE  Reverse(both)[i] = back[i]
  <2> DEFINE j == (Len(s) + Len(t) - i) + 1
  <2>1. j \in 1 .. Len(s) + Len(t) /\ i \in 1 .. Len(both)
        /\ (Len(both) - i) + 1 = j
    BY <1>1, <1>2
  <2>2. Reverse(both)[i] = both[j]
    BY <1>4, <2>1
  <2>3. CASE i <= Len(t)
    <3>1. ~(j <= Len(s)) /\ j - Len(s) \in 1 .. Len(t) /\ (Len(t) - (j - Len(s))) + 1 = i
      BY <1>1, <2>3
    <3>2. both[j] = rt[j - Len(s)]
      BY <1>2, <2>1, <3>1
    <3> HIDE DEF j
    <3>3. rt[j - Len(s)] = t[i]
      BY <1>1, <3>1
    <3> QED
      BY <1>3, <2>2, <2>3, <3>2, <3>3
  <2>4. CASE ~(i <= Len(t))
    <3>1. j <= Len(s) /\ i - Len(t) \in 1 .. Len(s) /\ (Len(s) - (i - Len(t))) + 1 = j
      BY <1>1, <2>4
    <3>2. both[j] = s[j]
      BY <1>2, <2>1, <3>1
    <3> HIDE DEF j
    <3>3. rs[i - Len(t)] = s[j]
      BY <1>1, <3>1
    <3> QED
      BY <1>3, <2>2, <2>4, <3>2, <3>3
  <2> QED
    BY <2>3, <2>4
<1>6. Len(Reverse(both)) = Len(t) + Len(s)
  BY <1>1, <1>2, <1>4
<1>7. Reverse(both) = back
  BY <1>3, <1>4, <1>5, <1>6, SeqEqual
<1> QED
  BY <1>2, <1>7 DEF both, back, rt, rs

\* A scan that gives up serves again what it took.
LEMMA PushBackStream ==
    ASSUME NEW s, StreamInv(s), NEW atoms \in Seq(Atom),
           IsRest(atoms \o Unread(s), s.source)
    PROVE  LET t == PushBack(s, atoms)
           IN  /\ StreamInv(t) /\ SameScopes(t, s)
               /\ Unread(t) = atoms \o Unread(s)
<1> DEFINE longer == s.tape.extra \o Reverse(atoms)
           tape == [s.tape EXCEPT !.extra = longer]
           t == [s EXCEPT !.tape = tape]
           held == SubSeq(Held(s.tape), s.tape.pos + 1, Len(Held(s.tape)))
<1>1. /\ s.tape \in Tapes /\ TapeInv(s.tape) /\ s \in Stream
      /\ Unread(s) = Upcoming(s.tape)
  BY StreamFields DEF StreamInv
<1>2. /\ s.tape.extra \in Seq(Atom) /\ s.tape.pos \in Nat /\ held \in Seq(Atom)
  BY <1>1, FieldTypes, ViewType
<1>3. longer \in Seq(Atom) /\ Reverse(longer) = atoms \o Reverse(s.tape.extra)
  BY <1>2, ReverseOntoReverse
<1>4. PushBack(s, atoms) = t
  BY <1>1 DEF PushBack, Stream
<1> HIDE DEF longer
<1>5. /\ tape \in Tapes /\ tape.extra = longer /\ tape.pos = s.tape.pos
      /\ tape.saves = s.tape.saves /\ tape.buf = s.tape.buf /\ tape.iter = s.tape.iter
      /\ tape.done = s.tape.done
  BY <1>1, <1>3 DEF Tapes
<1> HIDE DEF tape
<1>6. TapeInv(tape)
  BY <1>1, <1>5 DEF TapeInv, CursorsInOrder, OnlyScopedRetention, EndKnown, Depth
<1>7. Held(tape) = Held(s.tape)
  BY <1>5 DEF Held
<1>8. Marks(tape) = Marks(s.tape)
  BY <1>5, <1>7, SameView
<1>9. Upcoming(tape) = atoms \o Upcoming(s.tape)
  <2>1. /\ Upcoming(tape) = Reverse(longer) \o held
        /\ Upcoming(s.tape) = Reverse(s.tape.extra) \o held
    BY <1>5, <1>7 DEF Upcoming, UpcomingFrom
  <2>2. Reverse(s.tape.extra) \in Seq(Atom)
    BY <1>2, ReverseProperties
  <2> DEFINE back == Reverse(s.tape.extra)
  <2> HIDE DEF held
  <2>3. (atoms \o back) \o held = atoms \o (back \o held)
    <3>1. back \in Seq(Atom) /\ held \in Seq(Atom) /\ atoms \in Seq(Atom)
      BY <1>2, <2>2
    <3> HIDE DEF back
    <3> QED
      BY ONLY <3>1, ConcatAssociative
  <2> QED
    BY <1>3, <2>1, <2>3
<1>10. /\ t.tape = tape /\ t.isJoint = s.isJoint /\ t.jointSaves = s.jointSaves
       /\ t.source = s.source /\ t.origin = s.origin /\ t \in Stream
  BY <1>1, <1>5 DEF Stream
<1> HIDE DEF t
<1>11. Unread(t) = atoms \o Unread(s)
  BY <1>1, <1>9, <1>10 DEF Unread
<1>12. SameScopes(t, s)
  BY <1>5, <1>8, <1>10 DEF SameScopes, StreamDepth, Depth
<1>13. StreamInv(t)
  BY <1>6, <1>10, <1>11, <1>12, SameScopesInv
<1> QED
  BY <1>4, <1>11, <1>12, <1>13

\* One turn of a scan.
LEMMA ScannedStream ==
    ASSUME NEW s, StreamInv(s), NEW acc \in Seq(Atom),
           IsRest(acc \o Unread(s), s.source), StreamPeek(s).atom \in Atom
    PROVE  LET looked == StreamPeek(s)
               t == StreamNext(looked.stream).stream
           IN  /\ StreamInv(t) /\ SameScopes(t, s)
               /\ Append(acc, looked.atom) \in Seq(Atom)
               /\ IsRest(Append(acc, looked.atom) \o Unread(t), t.source)
<1> DEFINE looked == StreamPeek(s)
           t == StreamNext(looked.stream).stream
           a == looked.atom
           u == Unread(s)
<1>1. /\ StreamInv(looked.stream) /\ SameScopes(looked.stream, s)
      /\ a = FirstOf(u) /\ Unread(looked.stream) = u
  BY PeekStream
<1>2. /\ StreamInv(t) /\ SameScopes(t, looked.stream) /\ Unread(t) = AfterFirst(u)
  BY <1>1, NextStream
<1>3. u \in Seq(Atom) /\ u # <<>> /\ a = Head(u) /\ Unread(t) = Tail(u)
  BY <1>1, <1>2, StreamFields, NoAtomAssumption DEF FirstOf, AfterFirst
<1>4. u = <<a>> \o Unread(t) /\ Unread(t) \in Seq(Atom)
  BY <1>2, <1>3, HeadThenTail, StreamFields
<1>5. SameScopes(t, s)
  BY <1>1, <1>2 DEF SameScopes
<1> HIDE DEF a, u, t, looked
<1>6. a \in Atom
  BY DEF a, looked
<1>7. Append(acc, a) \o Unread(t) = acc \o u
  BY <1>4, <1>6, AppendThenConcat
<1>8. Append(acc, a) \in Seq(Atom)
  BY <1>6, AppendProperties
<1>9. IsRest(Append(acc, a) \o Unread(t), t.source)
  BY <1>5, <1>7 DEF SameScopes, u
<1> QED
  BY <1>2, <1>5, <1>8, <1>9 DEF a, t, looked

\* What a running scan is given.
LEMMA ScanFacts ==
    ASSUME IInv, frames # <<>>, ret = Running, Top.kind \in {"integer", "suffix"}
    PROVE  /\ FrameInv(Top) /\ Top.node \in NodeId /\ ~TokenSource /\ ~Failing
           /\ StreamInv(Current)
           /\ Rule.digits \cup Rule.fillers \subseteq Atom
           /\ Rule.alphanumerics \subseteq Atom
           /\ Top.acc \in Seq(Atom) /\ IsRest(Top.acc \o Unread(Current), Current.source)
           /\ \A acc : LET f == [Top EXCEPT !.acc = acc]
                       IN  FrameInv(f) /\ f.kind = Top.kind /\ f.acc = acc
<1>1. /\ FrameInv(Top) /\ StreamInv(Current) /\ Starts(Top, Current) /\ ~Failing
  BY TopFacts, NotFailing
<1>2. Top.node \in NodeId /\ Rules[Top.node].kind = "integer" /\ "acc" \in DOMAIN Top
  BY <1>1 DEF FrameInv, NodeKinds
<1>3. /\ ~TokenSource /\ Rule.digits \cup Rule.fillers \subseteq Atom
      /\ Rule.alphanumerics \subseteq Atom
  BY <1>2, RuleFacts DEF Rule
<1>4. ASSUME NEW acc
      PROVE  LET f == [Top EXCEPT !.acc = acc]
             IN  FrameInv(f) /\ f.kind = Top.kind /\ f.acc = acc
  <2>1. CASE Top.kind = "integer"
    BY <1>1, <2>1, NodeFrameFacts DEF NodeKinds
  <2>2. CASE Top.kind = "suffix"
    <3> DEFINE f == [Top EXCEPT !.acc = acc]
    <3>1. DOMAIN Top = {"kind", "node", "value", "acc"}
      BY <1>1, <2>2 DEF FrameInv, NodeKinds
    <3>2. /\ DOMAIN f = {"kind", "node", "value", "acc"} /\ f.kind = "suffix"
          /\ f.node = Top.node /\ f.acc = acc
      BY <2>2, <3>1
    <3> HIDE DEF f
    <3>3. FrameInv(f)
      BY <1>2, <3>2 DEF FrameInv
    <3> QED
      BY <2>2, <3>2, <3>3 DEF f
  <2> QED
    BY <2>1, <2>2
<1> QED
  BY <1>1, <1>2, <1>3, <1>4 DEF Starts, ScanInv

\* A turn of either scan that takes an atom.
LEMMA ScanTurn ==
    ASSUME IInv, frames # <<>>, ret = Running, Top.kind \in {"integer", "suffix"},
           NEW a, a = StreamPeek(Current).atom, a \in Atom,
           SetStream(StreamNext(StreamPeek(Current).stream).stream),
           BecomesHavingRead(<<[Top EXCEPT !.acc = Append(Top.acc, a)]>>)
    PROVE  IInv'
<1> DEFINE t == StreamNext(StreamPeek(Current).stream).stream
           acc == Append(Top.acc, a)
           f == [Top EXCEPT !.acc = acc]
<1>1. /\ ~TokenSource /\ StreamInv(Current) /\ Top.acc \in Seq(Atom)
      /\ IsRest(Top.acc \o Unread(Current), Current.source)
  BY ScanFacts
<1>2. /\ StreamInv(t) /\ SameScopes(t, Current) /\ acc \in Seq(Atom)
      /\ IsRest(acc \o Unread(t), t.source)
  BY <1>1, ScannedStream
<1> HIDE DEF acc
<1>3. FrameInv(f) /\ f.kind = Top.kind /\ f.acc = acc
  BY ScanFacts
<1>4. SetStream(t) /\ BecomesHavingRead(<<f>>)
  BY DEF acc
<1> HIDE DEF f, t
<1>5. Calm(t) /\ Flagged(t)
  BY <1>1, <1>2, <1>4 DEF Calm, Flagged
<1>6. Starts(f, t)
  BY <1>2, <1>3 DEF Starts, ScanInv
<1> QED
  BY <1>3, <1>4, <1>5, <1>6, StayStep

\* A scan that gives up hands back what it took.
LEMMA ScanGivesBack ==
    ASSUME IInv, frames # <<>>, ret = Running, Top.kind \in {"integer", "suffix"},
           NEW s, s = PushBack(StreamPeek(Current).stream, Top.acc), SetStream(s)
    PROVE  Calm(s) /\ Flagged(s)
<1> DEFINE looked == StreamPeek(Current).stream
<1>1. /\ ~TokenSource /\ StreamInv(Current) /\ Top.acc \in Seq(Atom)
      /\ IsRest(Top.acc \o Unread(Current), Current.source)
  BY ScanFacts
<1>2. /\ StreamInv(looked) /\ SameScopes(looked, Current)
      /\ Unread(looked) = Unread(Current)
  BY <1>1, PeekStream
<1>3. IsRest(Top.acc \o Unread(looked), looked.source)
  BY <1>1, <1>2 DEF SameScopes
<1>4. StreamInv(s) /\ SameScopes(s, looked)
  BY <1>1, <1>2, <1>3, PushBackStream
<1> HIDE DEF looked
<1> QED
  BY <1>1, <1>2, <1>4 DEF Calm, Flagged, SameScopes

LEMMA ScanDigitsStep ==
    ASSUME IInv, ScanDigits
    PROVE  IInv'
<1> DEFINE looked == StreamPeek(Current)
<1>1. frames # <<>> /\ Top.kind = "integer" /\ ret = Running
  BY DEF ScanDigits, Runs
<1>2. /\ FrameInv(Top) /\ Top.node \in NodeId /\ ~TokenSource /\ ~Failing
      /\ StreamInv(Current) /\ Rule.digits \cup Rule.fillers \subseteq Atom
  BY <1>1, ScanFacts
<1>3. CASE /\ looked.atom \in Rule.digits \cup Rule.fillers
           /\ SetStream(StreamNext(looked.stream).stream)
           /\ BecomesHavingRead(<<[Top EXCEPT !.acc = Append(Top.acc, looked.atom)]>>)
  BY <1>1, <1>2, <1>3, ScanTurn
<1>4. CASE /\ SetStream(looked.stream)
           /\ Becomes(<<[kind |-> "suffix", node |-> Top.node,
                         value |-> Top.acc, acc |-> <<>>]>>)
  <2> DEFINE f == [kind |-> "suffix", node |-> Top.node, value |-> Top.acc, acc |-> <<>>]
             t == looked.stream
  <2>1. Calm(t) /\ Flagged(t)
    BY <1>2, <1>4, PeekCalm
  <2>2. Rules[Top.node].kind = "integer"
    BY <1>1, <1>2 DEF FrameInv, NodeKinds
  <2>3. FrameInv(f) /\ f.kind = "suffix" /\ f.acc = <<>>
    BY <1>2, <2>2 DEF FrameInv
  <2>4. Becomes(<<f>>)
    BY <1>4
  <2> HIDE DEF f, t
  <2>5. Unread(t) \in Seq(Atom) /\ IsRest(Unread(t), t.source) /\ <<>> \in Seq(Atom)
    BY <2>1, StreamFields DEF Calm, StreamInv
  <2>6. <<>> \o Unread(t) = Unread(t)
    BY <2>5, ConcatEmptySeq
  <2>7. Starts(f, t)
    BY <2>3, <2>5, <2>6 DEF Starts, ScanInv
  <2> QED
    BY <1>1, <2>1, <2>3, <2>4, <2>7, StayStep
<1>5. CASE LET before == PushBack(looked.stream, Top.acc)
           IN  SetStream(before) /\ Returns(Err(NextSpan(before)))
  <2> DEFINE before == PushBack(looked.stream, Top.acc)
  <2>1. SetStream(before) /\ Returns(Err(NextSpan(before)))
    BY <1>5
  <2>2. Calm(before) /\ Flagged(before)
    BY <1>1, <2>1, ScanGivesBack
  <2> HIDE DEF before
  <2> QED
    BY <1>1, <2>1, <2>2, ReturnStep, ResultFacts
<1> QED
  BY <1>3, <1>4, <1>5 DEF ScanDigits

LEMMA ScanSuffixStep ==
    ASSUME IInv, ScanSuffix
    PROVE  IInv'
<1> DEFINE looked == StreamPeek(Current)
           after == IF Top.acc \in Rule.suffixes THEN looked.stream
                    ELSE PushBack(looked.stream, Top.acc)
<1>1. frames # <<>> /\ Top.kind = "suffix" /\ ret = Running
  BY DEF ScanSuffix, Runs
<1>2. ~TokenSource /\ ~Failing /\ Rule.alphanumerics \subseteq Atom
  BY <1>1, ScanFacts
<1>3. CASE /\ looked.atom \in Rule.alphanumerics
           /\ SetStream(StreamNext(looked.stream).stream)
           /\ BecomesHavingRead(<<[Top EXCEPT !.acc = Append(Top.acc, looked.atom)]>>)
  BY <1>1, <1>2, <1>3, ScanTurn
<1>4. ASSUME NEW v, SetStream(after), Returns(Ok(v))
      PROVE  IInv'
  <2>1. CASE Top.acc \in Rule.suffixes
    <3>1. SetStream(looked.stream)
      BY <1>4, <2>1
    <3>2. Calm(looked.stream) /\ Flagged(looked.stream)
      BY <1>2, <3>1, PeekCalm
    <3> QED
      BY <1>1, <1>4, <3>2, ReturnStep, ResultFacts
  <2>2. CASE Top.acc \notin Rule.suffixes
    <3> DEFINE before == PushBack(looked.stream, Top.acc)
    <3>1. SetStream(before)
      BY <1>4, <2>2
    <3>2. Calm(before) /\ Flagged(before)
      BY <1>1, <3>1, ScanGivesBack
    <3> HIDE DEF before
    <3> QED
      BY <1>1, <1>4, <3>2, ReturnStep, ResultFacts
  <2> QED
    BY <2>1, <2>2
<1> QED
  BY <1>3, <1>4 DEF ScanSuffix

-----------------------------------------------------------------------------
(* The combinators and the derived enums. *)

\* A type on top of the call stack, about to run or about to go on.
LEMMA NodeFacts ==
    ASSUME IInv, NEW kind \in NodeKinds, Runs(kind) \/ Resumes(kind)
    PROVE  /\ frames # <<>> /\ Top.kind = kind /\ FrameInv(Top) /\ ~Inside(Top)
           /\ Top.kind \notin {"dup", "skip"}
           /\ Top.node \in NodeId /\ Rule.kind = kind /\ Top.step \in Nat
           /\ kind \in {"option", "result", "attempt", "many", "punctuated"} =>
                 Rule.of \in NodeId
           /\ Runs(kind) => ret = Running /\ ~Failing
<1>1. frames # <<>> /\ Top.kind = kind
  BY DEF Runs, Resumes
<1>2. FrameInv(Top)
  BY <1>1, TopFacts
<1>3. /\ Top.node \in NodeId /\ Rules[Top.node].kind = kind /\ Top.step \in Nat
      /\ ~Inside(Top)
  BY <1>1, <1>2, NodeFrameFacts
<1>4. Runs(kind) => ret = Running /\ ~Failing
  BY NotFailing DEF Runs
<1> QED
  BY <1>1, <1>2, <1>3, <1>4, RuleFacts DEF Rule, NodeKinds

LEMMA ParseAttemptStep ==
    ASSUME IInv, ParseAttempt
    PROVE  IInv'
<1>1. "attempt" \in NodeKinds /\ Runs("attempt") /\ Dups(<<>>, Enter(Rule.of))
  BY DEF ParseAttempt, NodeKinds
<1>2. /\ frames # <<>> /\ ret = Running /\ Top.kind \notin {"dup", "skip"}
      /\ Rule.of \in NodeId
  BY <1>1, NodeFacts
<1> DEFINE g == Enter(Rule.of)
<1>3. /\ FrameInv(g) /\ g.kind \notin {"dup", "skip"}
      /\ \A s : StreamInv(s) => Starts(g, s)
  <2>1. StreamInv(Current)
    BY <1>2, TopFacts
  <2> QED
    BY <1>2, <2>1, EnterFacts
<1>4. Dups(<<>>, g)
  BY <1>1
<1> HIDE DEF g
<1> QED
  BY <1>2, <1>3, <1>4, DupStep

LEMMA ParseSpannedStep ==
    ASSUME IInv, ParseSpanned
    PROVE  IInv'
<1>1. CASE /\ Runs("spanned")
           /\ Becomes(<<[kind |-> "spanned", level |-> Len(streams),
                         from |-> Position(Current), acc |-> <<>>], Enter(Rule.of)>>)
           /\ UNCHANGED streams
  <2> DEFINE f == [kind |-> "spanned", level |-> Len(streams),
                   from |-> Position(Current), acc |-> <<>>]
             g == Enter(Rule.of)
  <2>1. frames # <<>> /\ Top.kind = "spanned" /\ ret = Running /\ ~Failing
    BY <1>1, NotFailing DEF Runs
  <2>2. Rule.of \in NodeId /\ StreamInv(Current)
    BY <2>1, TopFacts, RuleFacts DEF Starts, Rule
  <2>3. FrameInv(g) /\ g.kind \notin {"dup", "skip"} /\ Starts(g, Current)
    BY <2>2, EnterFacts
  <2>4. f.kind = "spanned" /\ "kind" \in DOMAIN f
    OBVIOUS
  <2>5. Becomes(<<f, g>>)
    BY <1>1
  <2> HIDE DEF f, g
  <2>6. FrameInv(f) /\ ~Inside(f) /\ ~RewindsFirst(f)
    BY <2>4 DEF FrameInv, Inside, RewindsFirst
  <2>7. Calm(Current) /\ Flagged(Current)
    BY <1>1, <2>1, KeptCalm
  <2> QED
    BY <2>1, <2>3, <2>4, <2>5, <2>6, <2>7, CallStep
<1>2. CASE /\ Resumes("spanned")
           /\ Returns(IF ret.tag = "ok" THEN Ok(<<"spanned", ret.val>>) ELSE ret)
           /\ UNCHANGED streams
  <2> DEFINE r == IF ret.tag = "ok" THEN Ok(<<"spanned", ret.val>>) ELSE ret
  <2>1. frames # <<>> /\ Top.kind = "spanned" /\ ret.tag \in {"ok", "err"} /\ ~Inside(Top)
    BY <1>2 DEF Resumes, Inside
  <2>2. Calm(Current) /\ (ret.tag # "err" => Flagged(Current))
    BY <1>2, KeptCalm, NotFailing
  <2>3. r # Running /\ r.tag # "sep" /\ (ret.tag = "err" => r.tag = "err")
    BY <2>1, ResultFacts
  <2>4. Returns(r)
    BY <1>2
  <2> HIDE DEF r
  <2> QED
    BY <2>1, <2>2, <2>3, <2>4, ReturnStep
<1> QED
  BY <1>1, <1>2 DEF ParseSpanned

LEMMA ParseOptionStep ==
    ASSUME IInv, ParseOption
    PROVE  IInv'
<1>0. "option" \in NodeKinds
  BY DEF NodeKinds
<1>1. CASE Runs("option") /\ Dups(<<Top>>, Enter(Rule.of))
  <2> DEFINE g == Enter(Rule.of)
             fs == <<Top>>
  <2>1. /\ frames # <<>> /\ ret = Running /\ Top.kind \notin {"dup", "skip"}
        /\ FrameInv(Top) /\ ~Inside(Top) /\ Rule.of \in NodeId
    BY <1>0, <1>1, NodeFacts
  <2>2. /\ FrameInv(g) /\ g.kind \notin {"dup", "skip"}
        /\ \A s : StreamInv(s) => Starts(g, s)
    <3>1. StreamInv(Current)
      BY <2>1, TopFacts
    <3> QED
      BY <2>1, <3>1, EnterFacts
  <2>3. Dups(fs, g)
    BY <1>1
  <2>4. \E f : /\ fs = <<f>> /\ FrameInv(f)
               /\ f.kind \notin {"dup", "skip"} /\ ~Inside(f)
    BY <2>1
  <2> HIDE DEF g, fs
  <2> QED
    BY <2>1, <2>2, <2>3, <2>4, DupStep
<1>2. ASSUME NEW v, Resumes("option"), Returns(Ok(v)), UNCHANGED streams
      PROVE  IInv'
  <2>1. frames # <<>> /\ Top.kind = "option" /\ ~Inside(Top) /\ Top.kind # "dup"
    BY <1>0, <1>2, NodeFacts
  <2>2. ~Failing
    BY <2>1, NotFailing DEF RewindsFirst
  <2>3. Calm(Current) /\ Flagged(Current)
    BY <1>2, <2>2, KeptCalm
  <2> QED
    BY <1>2, <2>1, <2>3, ReturnStep, ResultFacts
<1> QED
  BY <1>1, <1>2 DEF ParseOption

LEMMA ParseResultStep ==
    ASSUME IInv, ParseResult
    PROVE  IInv'
<1>0. "result" \in NodeKinds
  BY DEF NodeKinds
<1>1. CASE Runs("result") /\ Becomes(<<Top, Enter(Rule.of)>>) /\ UNCHANGED streams
  <2>1. /\ frames # <<>> /\ ret = Running /\ Top.kind = "result"
        /\ Top.kind \notin {"dup", "skip"} /\ ~Failing
        /\ FrameInv(Top) /\ ~Inside(Top) /\ Rule.of \in NodeId
    BY <1>0, <1>1, NodeFacts
  <2>2. ~RewindsFirst(Top)
    BY <2>1 DEF RewindsFirst
  <2>3. Calm(Current) /\ Flagged(Current) /\ StreamInv(Current)
    BY <1>1, <2>1, KeptCalm, TopFacts
  <2> QED
    BY <1>1, <2>1, <2>2, <2>3, EnterFacts, CallStep
<1>2. ASSUME NEW v, Resumes("result"), Returns(Ok(v)), UNCHANGED streams
      PROVE  IInv'
  <2>1. /\ frames # <<>> /\ Top.kind = "result" /\ ~Inside(Top) /\ Top.kind # "dup"
        /\ Top.node \in NodeId /\ Rule.kind = "result"
    BY <1>0, <1>2, NodeFacts
  <2>2. Calm(Current) /\ Flagged(Current)
    BY <1>2, <2>1, KeptCalm DEF Flagged, NoneCatches, Rule
  <2> QED
    BY <1>2, <2>1, <2>2, ReturnStep, ResultFacts
<1> QED
  BY <1>1, <1>2 DEF ParseResult

\* What the collections have in common: the loop that dup runs, ..
LEMMA LoopStep ==
    ASSUME IInv, NEW kind \in NodeKinds, Runs(kind),
           NEW items \in Seq(ItemType), Dups(<<Top>>, ItemsFrame(items))
    PROVE  IInv'
<1> DEFINE g == ItemsFrame(items)
           fs == <<Top>>
<1>1. /\ frames # <<>> /\ ret = Running /\ Top.kind \notin {"dup", "skip"}
      /\ FrameInv(Top) /\ ~Inside(Top)
  BY NodeFacts
<1>2. /\ FrameInv(g) /\ g.kind \notin {"dup", "skip"}
      /\ \A s : StreamInv(s) => Starts(g, s)
  BY ItemsFrameFacts
<1>3. \E f : /\ fs = <<f>> /\ FrameInv(f)
             /\ f.kind \notin {"dup", "skip"} /\ ~Inside(f)
  BY <1>1
<1>4. Dups(fs, g)
  OBVIOUS
<1> HIDE DEF g, fs
<1> QED
  BY <1>1, <1>2, <1>3, <1>4, DupStep

\* .. the item it adds, and the end.
LEMMA LoopResumes ==
    ASSUME IInv, NEW kind \in {"many", "punctuated"}, Resumes(kind), UNCHANGED streams,
           \/ Becomes(<<[Top EXCEPT !.acc = Append(Top.acc, ret.val)]>>)
           \/ Returns(Ok(<<"many", Top.acc>>))
    PROVE  IInv'
<1>1. kind \in NodeKinds
  BY DEF NodeKinds
<1>2. /\ frames # <<>> /\ Top.kind = kind /\ FrameInv(Top) /\ ~Inside(Top)
      /\ Top.kind \notin {"dup", "skip"}
  BY <1>1, NodeFacts
<1>3. ~Failing
  BY <1>2, NotFailing DEF RewindsFirst
<1>4. Calm(Current) /\ Flagged(Current)
  BY <1>3, KeptCalm
<1>5. CASE Becomes(<<[Top EXCEPT !.acc = Append(Top.acc, ret.val)]>>)
  <2> DEFINE acc == Append(Top.acc, ret.val)
             f == [Top EXCEPT !.acc = acc]
  <2>1. Becomes(<<f>>)
    BY <1>5
  <2> HIDE DEF acc
  <2>2. FrameInv(f) /\ f.kind = kind
    BY <1>1, <1>2, NodeFrameFacts
  <2> HIDE DEF f
  <2>3. Starts(f, Current)
    BY <2>2 DEF Starts, ScanInv
  <2> QED
    BY <1>2, <1>4, <2>1, <2>2, <2>3, StayStep
<1>6. CASE Returns(Ok(<<"many", Top.acc>>))
  BY <1>2, <1>4, <1>6, ReturnStep, ResultFacts
<1> QED
  BY <1>5, <1>6

\* The items of a loop.
LEMMA LoopItems ==
    /\ \A n \in NodeId : /\ <<Parse(n)>> \in Seq(ItemType)
                         /\ <<SkipSep, Parse(n)>> \in Seq(ItemType)
    /\ \A n, p \in NodeId :
          <<SkipSep, Parse(p), SkipSep, Parse(n)>> \in Seq(ItemType)
<1>1. SkipSep \in ItemType /\ \A n \in NodeId : Parse(n) \in ItemType
  BY FlatItems DEF ItemType
<1>2. \A a, b, c, d \in ItemType : /\ <<a>> \in Seq(ItemType)
                                   /\ <<a, b>> \in Seq(ItemType)
                                   /\ <<a, b, c, d>> \in Seq(ItemType)
  OBVIOUS
<1> QED
  BY <1>1, <1>2

LEMMA ParseManyStep ==
    ASSUME IInv, ParseMany
    PROVE  IInv'
<1> DEFINE items == IF Top.acc = <<>> THEN <<Parse(Rule.of)>>
                    ELSE <<SkipSep, Parse(Rule.of)>>
<1>0. "many" \in NodeKinds
  BY DEF NodeKinds
<1>1. CASE Runs("many") /\ Dups(<<Top>>, ItemsFrame(items))
  <2>1. Rule.of \in NodeId
    BY <1>0, <1>1, NodeFacts
  <2>2. items \in Seq(ItemType)
    BY <2>1, LoopItems
  <2> HIDE DEF items
  <2> QED
    BY <1>0, <1>1, <2>2, LoopStep
<1>2. CASE /\ Resumes("many") /\ UNCHANGED streams
           /\ \/ Becomes(<<[Top EXCEPT !.acc = Append(Top.acc, ret.val)]>>)
              \/ Returns(Ok(<<"many", Top.acc>>))
  BY <1>2, LoopResumes
<1> QED
  BY <1>1, <1>2 DEF ParseMany

LEMMA ParsePunctuatedStep ==
    ASSUME IInv, ParsePunctuated
    PROVE  IInv'
<1> DEFINE items == IF Top.acc = <<>> THEN <<Parse(Rule.of)>>
                    ELSE <<SkipSep, Parse(Rule.punct), SkipSep, Parse(Rule.of)>>
<1>0. "punctuated" \in NodeKinds
  BY DEF NodeKinds
<1>1. CASE Runs("punctuated") /\ Dups(<<Top>>, ItemsFrame(items))
  <2>1. Rule.of \in NodeId /\ Rule.punct \in NodeId
    BY <1>0, <1>1, NodeFacts, RuleFacts DEF Rule
  <2>2. items \in Seq(ItemType)
    BY <2>1, LoopItems
  <2> HIDE DEF items
  <2> QED
    BY <1>0, <1>1, <2>2, LoopStep
<1>2. CASE /\ Resumes("punctuated") /\ UNCHANGED streams
           /\ \/ Becomes(<<[Top EXCEPT !.acc = Append(Top.acc, ret.val)]>>)
              \/ Returns(Ok(<<"many", Top.acc>>))
  BY <1>2, LoopResumes
<1> QED
  BY <1>1, <1>2 DEF ParsePunctuated

LEMMA ParseUnorderedStep ==
    ASSUME IInv, ParseUnordered
    PROVE  IInv'
<1>0. "unordered" \in NodeKinds
  BY DEF NodeKinds
<1>1. ASSUME Runs("unordered") \/ Resumes("unordered")
      PROVE  /\ TupleItems(<<Rule.t, Rule.u>>) \in Seq(ItemType)
             /\ TupleItems(<<Rule.u, Rule.t>>) \in Seq(ItemType)
             /\ \A step \in Nat : LET g == [Top EXCEPT !.step = step]
                                  IN  /\ FrameInv(g) /\ g.kind = "unordered"
                                      /\ g.step = step /\ ~Inside(g)
             /\ frames # <<>> /\ Top.kind = "unordered" /\ ~Inside(Top)
  <2>1. Rule.t \in NodeId /\ Rule.u \in NodeId
    BY <1>0, <1>1, NodeFacts, RuleFacts DEF Rule
  <2>2. \A a, b \in NodeId : <<a, b>> \in Seq(NodeId)
    OBVIOUS
  <2>3. FrameInv(Top) /\ Top.kind = "unordered" /\ frames # <<>> /\ ~Inside(Top)
    BY <1>0, <1>1, NodeFacts
  <2>4. \A step \in Nat : LET g == [Top EXCEPT !.step = step]
                          IN  FrameInv(g) /\ g.kind = "unordered" /\ g.step = step
    BY <1>0, <2>3, NodeFrameFacts
  <2> QED
    BY <2>1, <2>2, <2>3, <2>4, TupleItemsType DEF Inside
<1>2. CASE /\ Runs("unordered")
           /\ Dups(<<[Top EXCEPT !.step = 1]>>, ItemsFrame(TupleItems(<<Rule.t, Rule.u>>)))
  <2> DEFINE f == [Top EXCEPT !.step = 1]
             fs == <<f>>
             g == ItemsFrame(TupleItems(<<Rule.t, Rule.u>>))
  <2>1. frames # <<>> /\ ret = Running /\ Top.kind = "unordered"
    BY <1>2 DEF Runs
  <2>2. FrameInv(f) /\ f.kind = "unordered" /\ ~Inside(f)
    BY <1>1, <1>2
  <2>3. /\ FrameInv(g) /\ g.kind \notin {"dup", "skip"}
        /\ \A s : StreamInv(s) => Starts(g, s)
    BY <1>1, <1>2, ItemsFrameFacts
  <2>4. Dups(fs, g)
    BY <1>2
  <2> HIDE DEF f
  <2>5. \E h : /\ fs = <<h>> /\ FrameInv(h)
               /\ h.kind \notin {"dup", "skip"} /\ ~Inside(h)
    BY <2>2
  <2> HIDE DEF g, fs
  <2> QED
    BY <2>1, <2>3, <2>4, <2>5, DupStep
<1>3. CASE /\ Resumes("unordered") /\ Top.step = 1 /\ UNCHANGED streams
           /\ Becomes(<<[Top EXCEPT !.step = 2],
                        ItemsFrame(TupleItems(<<Rule.u, Rule.t>>))>>)
  <2> DEFINE f == [Top EXCEPT !.step = 2]
             g == ItemsFrame(TupleItems(<<Rule.u, Rule.t>>))
  <2>1. /\ frames # <<>> /\ Top.kind = "unordered" /\ ~Inside(Top)
        /\ FrameInv(f) /\ f.kind = "unordered" /\ ~Inside(f) /\ f.step = 2
    BY <1>1, <1>3
  <2>2. /\ FrameInv(g) /\ g.kind = "items" /\ Starts(g, Current)
    BY <1>1, <1>3, ItemsFrameFacts
  <2>3. ~Failing
    BY <1>3, <2>1, NotFailing DEF RewindsFirst
  <2>4. Calm(Current) /\ Flagged(Current)
    BY <1>3, <2>3, KeptCalm
  <2>5. Becomes(<<f, g>>)
    BY <1>3
  <2> HIDE DEF f, g
  <2>6. ~RewindsFirst(f)
    BY <2>1 DEF RewindsFirst
  <2> QED
    BY <2>1, <2>2, <2>4, <2>5, <2>6, CallStep
<1>4. CASE /\ Resumes("unordered") /\ UNCHANGED streams
           /\ Returns(IF ret.tag = "ok"
                      THEN Ok(<<IF Top.step = 1 THEN "tu" ELSE "ut", ret.val>>)
                      ELSE ret)
  <2> DEFINE r == IF ret.tag = "ok"
                  THEN Ok(<<IF Top.step = 1 THEN "tu" ELSE "ut", ret.val>>)
                  ELSE ret
  <2>1. /\ frames # <<>> /\ Top.kind = "unordered" /\ ~Inside(Top)
        /\ ret.tag \in {"ok", "err"}
    BY <1>1, <1>4 DEF Resumes
  <2>2. Calm(Current) /\ (ret.tag # "err" => Flagged(Current))
    BY <1>4, KeptCalm, NotFailing
  <2>3. r # Running /\ r.tag # "sep" /\ (ret.tag = "err" => r.tag = "err")
    BY <2>1, ResultFacts
  <2>4. Returns(r)
    BY <1>4
  <2> HIDE DEF r
  <2> QED
    BY <2>1, <2>2, <2>3, <2>4, ReturnStep
<1> QED
  BY <1>2, <1>3, <1>4 DEF ParseUnordered

\* The frame of a derived enum.
LEMMA VariantsFacts ==
    ASSUME NEW f, FrameInv(f), f.kind = "variants"
    PROVE  /\ f.node \in EnumNodes /\ f.node \in NodeId /\ f.step \in Nat /\ ~Inside(f)
           /\ \A acc : LET g == [f EXCEPT !.step = 1, !.acc = acc]
                       IN  FrameInv(g) /\ g.kind = "variants"
           /\ \A errors : LET g == [f EXCEPT !.step = f.step + 1, !.errors = errors]
                          IN  FrameInv(g) /\ g.kind = "variants"
<1>1. /\ DOMAIN f = {"kind", "node", "step", "acc", "errors"}
      /\ f.node \in EnumNodes /\ f.step \in Nat /\ ~Inside(f)
  BY DEF FrameInv, NodeKinds, Inside
<1>2. ASSUME NEW acc
      PROVE  LET g == [f EXCEPT !.step = 1, !.acc = acc]
             IN  FrameInv(g) /\ g.kind = "variants"
  <2> DEFINE g == [f EXCEPT !.step = 1, !.acc = acc]
  <2>1. /\ DOMAIN g = {"kind", "node", "step", "acc", "errors"}
        /\ g.kind = "variants" /\ g.node = f.node /\ g.step = 1
    BY <1>1
  <2> HIDE DEF g
  <2>2. FrameInv(g)
    BY <1>1, <2>1 DEF FrameInv
  <2> QED
    BY <2>1, <2>2 DEF g
<1>3. ASSUME NEW errors
      PROVE  LET g == [f EXCEPT !.step = f.step + 1, !.errors = errors]
             IN  FrameInv(g) /\ g.kind = "variants"
  <2> DEFINE g == [f EXCEPT !.step = f.step + 1, !.errors = errors]
  <2>1. /\ DOMAIN g = {"kind", "node", "step", "acc", "errors"}
        /\ g.kind = "variants" /\ g.node = f.node /\ g.step = f.step + 1
    BY <1>1
  <2> HIDE DEF g
  <2>2. FrameInv(g)
    BY <1>1, <2>1 DEF FrameInv
  <2> QED
    BY <2>1, <2>2 DEF g
<1> QED
  BY <1>1, <1>2, <1>3 DEF EnumNodes

LEMMA ParseEnumStep ==
    ASSUME IInv, ParseEnum
    PROVE  IInv'
<1>0. "enum" \in NodeKinds /\ Runs("enum")
  BY DEF NodeKinds, ParseEnum
<1>1. /\ frames # <<>> /\ ret = Running /\ Top.kind = "enum" /\ ~Failing
      /\ Top.kind \notin {"dup", "skip"} /\ Top.node \in EnumNodes
  BY <1>0, NodeFacts DEF EnumNodes, Rule
<1>2. ASSUME NEW step \in Nat
      PROVE  LET g == VariantsFrame(Top.node, step)
             IN  FrameInv(g) /\ g.kind = "variants" /\ \A s : Starts(g, s)
  BY <1>1 DEF VariantsFrame, FrameInv, Starts, ScanInv
<1>3. CASE Dups(<<>>, VariantsFrame(Top.node, 0))
  <2> DEFINE g == VariantsFrame(Top.node, 0)
  <2>1. FrameInv(g) /\ g.kind = "variants" /\ \A s : Starts(g, s)
    BY <1>2
  <2>2. Dups(<<>>, g)
    BY <1>3
  <2> HIDE DEF g
  <2> QED
    BY <1>1, <2>1, <2>2, DupStep
<1>4. CASE Becomes(<<VariantsFrame(Top.node, 1)>>) /\ UNCHANGED streams
  <2> DEFINE g == VariantsFrame(Top.node, 1)
  <2>1. FrameInv(g) /\ g.kind = "variants" /\ Starts(g, Current)
    BY <1>2
  <2>2. Becomes(<<g>>)
    BY <1>4
  <2>3. Calm(Current) /\ Flagged(Current)
    BY <1>1, <1>4, KeptCalm
  <2> HIDE DEF g
  <2> QED
    BY <1>1, <2>1, <2>2, <2>3, StayStep
<1> QED
  BY <1>3, <1>4 DEF ParseEnum

LEMMA ParsePrefixStep ==
    ASSUME IInv, ParsePrefix
    PROVE  IInv'
<1> DEFINE g == ItemsFrame(PrefixItems[Top.node])
<1>1. /\ frames # <<>> /\ Top.kind = "variants" /\ ret = Running /\ ~Failing
      /\ Top.step = 0 /\ FrameInv(Top)
  BY NotFailing, TopFacts DEF ParsePrefix, Runs
<1>2. Top.node \in EnumNodes /\ ~Inside(Top)
  BY <1>1, VariantsFacts
<1>3. FrameInv(g) /\ g.kind = "items" /\ Starts(g, Current)
  BY <1>2, GrammarCode, ItemsFrameFacts
<1>4. Calm(Current) /\ Flagged(Current)
  BY <1>1, KeptCalm DEF ParsePrefix
<1>5. Becomes(<<Top, g>>)
  BY DEF ParsePrefix
<1>6. ~RewindsFirst(Top)
  <2> DEFINE f == Top
  <2>1. f.kind = "variants" /\ f.step = 0
    BY <1>1
  <2> HIDE DEF f
  <2>2. ~RewindsFirst(f)
    BY <2>1 DEF RewindsFirst
  <2> QED
    BY <2>2 DEF f
<1> HIDE DEF g
<1> QED
  BY <1>1, <1>2, <1>3, <1>4, <1>5, <1>6, CallStep

LEMMA TryVariantStep ==
    ASSUME IInv, TryVariant
    PROVE  IInv'
<1>1. /\ frames # <<>> /\ Top.kind = "variants" /\ ret = Running /\ ~Failing
      /\ Top.step \in DOMAIN Rule.variants /\ FrameInv(Top)
  BY NotFailing, TopFacts DEF TryVariant, Runs
<1>2. Top.node \in EnumNodes /\ ~Inside(Top)
  BY <1>1, VariantsFacts
<1>3. CASE Returns(Ok(<<"variant", Top.step, Top.acc>>)) /\ UNCHANGED streams
  <2>1. Calm(Current) /\ Flagged(Current)
    BY <1>1, <1>3, KeptCalm
  <2> QED
    BY <1>1, <1>3, <2>1, ReturnStep, ResultFacts
<1>4. CASE Dups(<<Top>>, ItemsFrame(SuffixItems[Top.node][Top.step]))
  <2> DEFINE fs == <<Top>>
             g == ItemsFrame(SuffixItems[Top.node][Top.step])
  <2>1. FrameInv(g) /\ g.kind = "items" /\ \A s : Starts(g, s)
    <3>1. SuffixItems[Top.node][Top.step] \in Seq(ItemType)
      BY <1>1, <1>2, GrammarCode DEF Rule
    <3> QED
      BY <3>1, ItemsFrameFacts
  <2>2. \E f : /\ fs = <<f>> /\ FrameInv(f)
               /\ f.kind \notin {"dup", "skip"} /\ ~Inside(f)
    BY <1>1, <1>2
  <2>3. Dups(fs, g)
    BY <1>4
  <2> HIDE DEF fs, g
  <2> QED
    BY <1>1, <2>1, <2>2, <2>3, DupStep
<1> QED
  BY <1>3, <1>4 DEF TryVariant

LEMMA NoVariantLeftStep ==
    ASSUME IInv, NoVariantLeft
    PROVE  IInv'
<1>1. frames # <<>> /\ Top.kind = "variants" /\ ret = Running /\ ~Failing
  BY NotFailing DEF NoVariantLeft, Runs
<1>2. Calm(Current) /\ Flagged(Current)
  BY <1>1, KeptCalm DEF NoVariantLeft
<1>3. Returns(Err(FromAlternatives(Top.errors)))
  BY DEF NoVariantLeft
<1> QED
  BY <1>1, <1>2, <1>3, ReturnStep, ResultFacts

LEMMA VariantReturnedStep ==
    ASSUME IInv, VariantReturned
    PROVE  IInv'
<1>1. /\ frames # <<>> /\ Top.kind = "variants" /\ ret.tag \in {"ok", "err"}
      /\ FrameInv(Top) /\ ~Inside(Top) /\ UNCHANGED streams
  <2>1. frames # <<>> /\ Top.kind = "variants" /\ ret.tag \in {"ok", "err"}
    BY DEF VariantReturned, Resumes
  <2> QED
    BY <2>1, TopFacts, VariantsFacts DEF VariantReturned
<1>2. Calm(Current) /\ (~Failing => Flagged(Current))
  BY <1>1, KeptCalm
<1>3. CASE ret.tag = "ok" /\ Becomes(<<[Top EXCEPT !.step = 1, !.acc = ret.val[2]]>>)
  <2> DEFINE acc == ret.val[2]
             f == [Top EXCEPT !.step = 1, !.acc = acc]
  <2>1. Becomes(<<f>>)
    BY <1>3
  <2> HIDE DEF acc
  <2>2. FrameInv(f) /\ f.kind = "variants"
    BY <1>1, VariantsFacts
  <2> HIDE DEF f
  <2>3. Starts(f, Current)
    BY <2>2 DEF Starts, ScanInv
  <2> QED
    BY <1>1, <1>2, <1>3, <2>1, <2>2, <2>3, NotFailing, StayStep
<1>4. CASE ret.tag = "err" /\ Returns(ret)
  BY <1>1, <1>2, <1>4, ReturnStep, ResultFacts
<1>5. CASE ret.tag = "ok" /\ Returns(Ok(<<"variant", Top.step, Top.acc \o ret.val[2]>>))
  BY <1>1, <1>2, <1>5, NotFailing, ReturnStep, ResultFacts
<1>6. CASE /\ Top.step > 0
           /\ Becomes(<<[Top EXCEPT !.step = Top.step + 1,
                                    !.errors = Append(Top.errors, ret.at)]>>)
  <2> DEFINE errors == Append(Top.errors, ret.at)
             f == [Top EXCEPT !.step = Top.step + 1, !.errors = errors]
  <2>1. Becomes(<<f>>)
    BY <1>6
  <2> HIDE DEF errors
  <2>2. FrameInv(f) /\ f.kind = "variants"
    BY <1>1, VariantsFacts
  <2> HIDE DEF f
  <2>3. Starts(f, Current)
    BY <2>2 DEF Starts, ScanInv
  <2>4. ~Failing
    BY <1>1, <1>6, NotFailing DEF RewindsFirst
  <2> QED
    BY <1>1, <1>2, <2>1, <2>2, <2>3, <2>4, StayStep
<1> QED
  BY <1>3, <1>4, <1>5, <1>6 DEF VariantReturned

-----------------------------------------------------------------------------
(* The invariant. *)

\* A call starts on a new stream, with no scope open.
LEMMA InitEstablishesInv == Init => IInv
<1> SUFFICES ASSUME Init PROVE IInv
  OBVIOUS
<1> DEFINE s == StreamNew(job.input, <<>>)
           f == Enter(job.root)
<1>1. job.root \in NodeId /\ job.input \in Seq(Atom)
  BY JobsAssumption DEF Init
<1>2. streams = <<s>> /\ frames = <<f>> /\ ret = Running
  BY DEF Init
<1>3. /\ StreamInv(s) /\ StreamDepth(s) = 0 /\ FlagRight(s) /\ SavedFlagsRight(s)
  <2>1. <<>> \in Seq(Nat)
    OBVIOUS
  <2> QED
    BY <1>1, <2>1, NewStream
<1>4. FrameInv(f) /\ f.kind \notin {"dup", "skip"} /\ Starts(f, s)
  BY <1>1, <1>3, EnterFacts
<1> HIDE DEF s, f
<1>5. /\ IsSeq(frames) /\ Len(frames) = 1 /\ frames[1] = f /\ frames # <<>>
  BY <1>2, ShortSeqs
<1>6. /\ streams \in Seq(Stream) /\ Len(streams) = 1 /\ streams[1] = s /\ streams # <<>>
  <2>1. s \in Stream
    BY <1>3 DEF StreamInv
  <2> QED
    BY <1>2, <2>1
<1>7. Top = f /\ Current = s
  BY <1>5, <1>6 DEF Top, Current, Last
<1>8. FramesInv(frames)
  <2>1. \A i \in 1 .. 1 : i = 1
    OBVIOUS
  <2>2. 1 .. 1 - 1 = {}
    OBVIOUS
  <2> QED
    BY <1>4, <1>5, <2>1, <2>2 DEF FramesInv
<1>9. ControlInv
  BY <1>2, <1>4, <1>5, <1>6, <1>7, LevelFacts DEF ControlInv
<1>10. StreamsInv
  <2>1. \A level \in 1 .. 1 : level = 1
    OBVIOUS
  <2> QED
    BY <1>3, <1>6, <2>1 DEF StreamsInv
<1>11. ScopesNest
  <2>1. DOMAIN streams = 1 .. 1
    BY <1>6, LenProperties
  <2>2. \A level : DupsOf(frames, level) = {}
    <3>1. DOMAIN frames = 1 .. 1
      BY <1>5, SeqFacts
    <3>2. \A i \in 1 .. 1 : frames[i] = f
      BY <1>5
    <3> QED
      BY <1>4, <3>1, <3>2 DEF DupsOf
  <2>3. Nested(frames, {}, s)
    <3>1. TokenSource => Len(s.jointSaves) = 0
      BY <1>3 DEF StreamInv
    <3>2. 0 .. 0 - 1 = {}
      OBVIOUS
    <3> QED
      BY <1>3, <3>1, <3>2 DEF Nested
  <2>4. \A level \in 1 .. 1 : streams[level] = s
    BY <1>6
  <2> QED
    BY <2>1, <2>2, <2>3, <2>4, ScopesNestPerStream
<1>12. FlagsInv
  <2>1. \A level \in 1 .. 1 : streams[level] = s
    BY <1>6
  <2> QED
    BY <1>3, <1>6, <2>1 DEF FlagsInv
<1> QED
  BY <1>8, <1>9, <1>10, <1>11, <1>12 DEF IInv

\* Every step of every parser preserves the invariant.
LEMMA NextPreservesIInv == IInv /\ [Next]_vars => IInv'
<1> SUFFICES ASSUME IInv, [Next]_vars PROVE IInv'
  OBVIOUS
<1>1. CASE ParseLeaf
  BY <1>1, ParseLeafStep
<1>2. CASE ScanDigits
  BY <1>2, ScanDigitsStep
<1>3. CASE ScanSuffix
  BY <1>3, ScanSuffixStep
<1>4. CASE RunSkipSep
  BY <1>4, RunSkipSepStep
<1>5. CASE RunItem
  BY <1>5, RunItemStep
<1>6. CASE EnterGroup
  BY <1>6, EnterGroupStep
<1>7. CASE SepReturned
  BY <1>7, SepReturnedStep
<1>8. CASE ItemReturned
  BY <1>8, ItemReturnedStep
<1>9. CASE ItemsDone
  BY <1>9, ItemsDoneStep
<1>10. CASE CloseDup
  BY <1>10, CloseDupStep
<1>11. CASE ParseAttempt
  BY <1>11, ParseAttemptStep
<1>12. CASE ParseSpanned
  BY <1>12, ParseSpannedStep
<1>13. CASE ParseOption
  BY <1>13, ParseOptionStep
<1>14. CASE ParseResult
  BY <1>14, ParseResultStep
<1>15. CASE ParseMany
  BY <1>15, ParseManyStep
<1>16. CASE ParsePunctuated
  BY <1>16, ParsePunctuatedStep
<1>17. CASE ParseUnordered
  BY <1>17, ParseUnorderedStep
<1>18. CASE ParseEnum
  BY <1>18, ParseEnumStep
<1>19. CASE ParsePrefix
  BY <1>19, ParsePrefixStep
<1>20. CASE TryVariant
  BY <1>20, TryVariantStep
<1>21. CASE NoVariantLeft
  BY <1>21, NoVariantLeftStep
<1>22. CASE VariantReturned
  BY <1>22, VariantReturnedStep
<1>23. CASE UNCHANGED vars
  BY <1>23 DEF vars, IInv, FramesInv, ControlInv, Starts, ScanInv, StreamsInv,
               ScopesNest, ScopesOn, FlagsInv, Failing, Top, Current, NoneCatches
<1> QED
  BY <1>1, <1>2, <1>3, <1>4, <1>5, <1>6, <1>7, <1>8, <1>9, <1>10, <1>11, <1>12,
     <1>13, <1>14, <1>15, <1>16, <1>17, <1>18, <1>19, <1>20, <1>21, <1>22, <1>23
  DEF Next, Step, Terminated

\* The invariant holds of every parse, whatever the grammar and the input.
THEOREM ParserInvariant == Spec => []IInv
<1> QED
  BY InitEstablishesInv, NextPreservesIInv, PTL DEF Spec

\* The checkpoints of every stream nest with the running dups: commit and
\* rollback never meet a token that is not the innermost one (the debug_asserts
\* of tape.rs), and joint_saves has a flag for each.
THEOREM ScopesAlwaysNest == Spec => []ScopesNest
<1>1. IInv => ScopesNest
  BY DEF IInv
<1> QED
  BY <1>1, ParserInvariant, PTL

\* What a stream has yet to serve is a suffix of what it was made from,
\* whatever the parsers handed back and rewound.
THEOREM SourceStaysInOrder == Spec => []SourceInOrder
<1>1. IInv => SourceInOrder
  <2> SUFFICES ASSUME IInv, NEW level \in DOMAIN streams
               PROVE  IsSuffix(Unread(streams[level]), streams[level].source)
    BY DEF SourceInOrder
  <2>1. level \in 1 .. Len(streams) /\ StreamsInv
    BY StreamsFacts DEF IInv
  <2>2. StreamInv(streams[level])
    BY <2>1 DEF StreamsInv
  <2>3. /\ streams[level].source \in Seq(Atom)
        /\ IsRest(Unread(streams[level]), streams[level].source)
    BY <2>2, StreamFields DEF StreamInv
  <2> QED
    BY <2>3, RestIsSuffix
<1> QED
  BY <1>1, ParserInvariant, PTL

\* Whenever a parser asks for spacing, is_joint is the spacing in the source in
\* front of the next atom, provided no type of the grammar catches an error
\* without rewinding: one that does reads the flag of the atom handed back.
THEOREM SpacingStaysAtPosition ==
    NoneCatches => (Spec => []SpacingAtPosition)
<1> SUFFICES ASSUME NoneCatches PROVE Spec => []SpacingAtPosition
  OBVIOUS
<1>1. IInv => SpacingAtPosition
  <2> SUFFICES ASSUME IInv, TokenSource, Runs("skip")
               PROVE  Current.isJoint = JointAt(Current.source, Position(Current))
    BY DEF SpacingAtPosition
  <2>1. ~Failing
    BY NotFailing DEF Runs
  <2> QED
    BY <2>1, CurrentFlags DEF FlagRight
<1> QED
  BY <1>1, ParserInvariant, PTL
=============================================================================
