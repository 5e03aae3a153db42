---------------------------- MODULE ParsedValues ----------------------------
(***************************************************************************)
(* What becomes of a value after it was parsed: the atoms that Unparse     *)
(* writes for it (core/src/parse/unparse.rs, core/src/nested, and the      *)
(* derive) and the span that Spanned folds for it (core/src/span.rs, and   *)
(* the derive).  Both walk a type as its parser did, so both read a value  *)
(* along the items of the type.                                            *)
(***************************************************************************)
EXTENDS PegReference

\* The items that leave something in a value, one each.
Kept(items) == SelectSeq(items, LAMBDA i : i.op \in {"default", "parse", "group"})

-----------------------------------------------------------------------------
(* Unparse, to tokens. *)

\* A symbol is written by the compiler's lexer, from its text alone.
SymbolToken(r) == CHOOSE t \in r.accepts : t \notin Joint

\* emit_tt_group: the contents go to a stream of their own, which is one token.
EmitGroup(groups, inner) == << CHOOSE g \in groups : Content[g] = inner >>

\* Mutant of EmitUnordered: T is written first however they were read.
EmitUnorderedTFirst(tFirst, t, u) == t \o u

EmitUnordered(tFirst, t, u) == IF tFirst THEN t \o u ELSE u \o t

\* T and U in a value of Unordered, which are as they were read.
PartT(v) == v[2][2][IF v[1] = "tu" THEN 1 ELSE 2]
PartU(v) == v[2][2][IF v[1] = "tu" THEN 2 ELSE 1]

RECURSIVE Emit(_, _), EmitItems(_, _)

\* The fields in order, without the defaulted ones; a run of #[group] fields is
\* written between the delimiters of its holder.
EmitItems(items, vals) ==
    LET kept == Kept(items)
    IN  FlattenSeq([i \in DOMAIN kept |->
            CASE kept[i].op = "default" -> <<>>
              [] kept[i].op = "parse" -> Emit(kept[i].node, vals[i])
              [] kept[i].op = "group" ->
                    EmitGroup(kept[i].groups, EmitItems(kept[i].body, vals[i][3][2]))])

Emit(n, v) ==
    LET r == Rules[n]
    IN  CASE r.kind = "leaf" -> <<SymbolToken(r)>>
          [] r.kind \in ItemKinds -> EmitItems(TypeItems[n], v[2])
          [] r.kind = "enum" -> EmitItems(FieldItems(r.variants[v[2]]), v[3])
          [] r.kind = "option" -> IF v[1] = "none" THEN <<>> ELSE Emit(r.of, v[2])
          [] r.kind = "attempt" -> Emit(r.of, v)
          [] r.kind = "spanned" -> Emit(r.of, v[2])
          [] r.kind = "many" ->
                FlattenSeq([i \in DOMAIN v[2] |-> Emit(r.of, v[2][i][2][1])])
          [] r.kind = "punctuated" ->
                FlattenSeq([i \in DOMAIN v[2] |->
                    IF i = 1 THEN Emit(r.of, v[2][i][2][1])
                    ELSE Emit(r.punct, v[2][i][2][1]) \o Emit(r.of, v[2][i][2][2])])
          [] r.kind = "unordered" ->
                EmitUnordered(v[1] = "tu", Emit(r.t, PartT(v)), Emit(r.u, PartU(v)))

-----------------------------------------------------------------------------
(* Spanned. *)

\* Tuples, collections and derived types start at the default span.
FoldSpans(spans) == FoldLeft(Migrate, DefaultSpan, spans)

\* Mutant of GroupSpan: that of the opening delimiter.
GroupSpanOpen(open, close) == open

\* "The span comes from the delimiters alone".
GroupSpan(open, close) == Migrate(open, close)

\* Mutant of UnorderedSpan: T comes first however they were read.
UnorderedSpanTFirst(tFirst, t, u) == Migrate(t, u)

\* "in input order".
UnorderedSpan(tFirst, t, u) == IF tFirst THEN Migrate(t, u) ELSE Migrate(u, t)

RECURSIVE SpanOf(_, _), ItemSpans(_, _)

\* The spans of the fields, without the defaulted ones: those of #[group] fields
\* after that of their holder.  (In a text the delimiters are items like the
\* others, and the farthest place is the span whatever the order.)
ItemSpans(items, vals) ==
    LET kept == Kept(items)
    IN  FlattenSeq([i \in DOMAIN kept |->
            CASE kept[i].op = "default" -> <<>>
              [] kept[i].op = "parse" -> <<SpanOf(kept[i].node, vals[i])>>
              [] kept[i].op = "group" ->
                    <<GroupSpan(PlaceSpan(vals[i][2][1]), PlaceSpan(vals[i][2][2]))>>
                        \o ItemSpans(kept[i].body, vals[i][3][2])])

SpanOf(n, v) ==
    LET r == Rules[n]
        PairSpan(pair) == FoldSpans(<<SpanOf(r.punct, pair[1]), SpanOf(r.of, pair[2])>>)
    IN  CASE r.kind = "leaf" -> PlaceSpan(v[3])
          [] r.kind = "group" /\ TokenSource -> ItemSpans(TypeItems[n], v[2])[1]
          [] r.kind = "group" /\ ~TokenSource ->
                GroupSpan(SpanOf(r.delims.open, v[2][1]), SpanOf(r.delims.close, v[2][3]))
          [] r.kind \in {"struct", "tuple"} -> FoldSpans(ItemSpans(TypeItems[n], v[2]))
          [] r.kind = "enum" -> FoldSpans(ItemSpans(FieldItems(r.variants[v[2]]), v[3]))
          [] r.kind = "option" -> IF v[1] = "none" THEN DefaultSpan ELSE SpanOf(r.of, v[2])
          [] r.kind = "attempt" -> SpanOf(r.of, v)
          [] r.kind = "many" ->
                FoldSpans([i \in DOMAIN v[2] |-> SpanOf(r.of, v[2][i][2][1])])
          [] r.kind = "punctuated" ->
                IF v[2] = <<>> THEN DefaultSpan
                ELSE FoldSpans(<<SpanOf(r.of, v[2][1][2][1]),
                                 FoldSpans([i \in 1 .. Len(v[2]) - 1 |-> PairSpan(v[2][i + 1][2])])>>)
          [] r.kind = "unordered" ->
                UnorderedSpan(v[1] = "tu", SpanOf(r.t, PartT(v)), SpanOf(r.u, PartU(v)))

-----------------------------------------------------------------------------
(* Which types have these traits. *)

Uses(r) ==
    CASE r.kind \in {"leaf", "integer"} -> {}
      [] r.kind \in {"tuple", "joint"} -> Range(r.of)
      [] r.kind = "struct" -> {f.node : f \in Range(r.fields)}
      [] r.kind = "enum" -> {f.node : f \in UNION {Range(fields) : fields \in Range(r.variants)}}
      [] r.kind = "punctuated" -> {r.of, r.punct}
      [] r.kind = "unordered" -> {r.t, r.u}
      [] OTHER -> {r.of}

\* The types that a value of n is built from.
Within ==
    LET Grown(ns) == ns \cup UNION {Uses(Rules[m]) : m \in ns}
        Closure(n) == FoldLeft(LAMBDA ns, i : Grown(ns), {n}, [i \in 1 .. Cardinality(NodeId) |-> i])
    IN  [n \in NodeId |-> Closure(n)]

BuiltWithout(n, kinds) == \A m \in Within[n] : Rules[m].kind \notin kinds

\* Nothing in n asks for spacing, which a value does not keep.
AsksForNone(n) ==
    \A m \in Within[n] :
        /\ Rules[m].kind = "struct" =>
              \A f \in Range(Rules[m].fields) : f.attr # "joint"
        /\ Rules[m].kind = "enum" =>
              \A f \in UNION {Range(fields) : fields \in Range(Rules[m].variants)} : f.attr # "joint"

Emittable == {n \in NodeId : BuiltWithout(n, {"joint", "integer", "result"}) /\ AsksForNone(n)}
\* WithSpan's recorded span is SpanCoversConsumed's; an Err counts for nothing.
Spannable == {n \in NodeId : BuiltWithout(n, {"joint", "integer", "result", "spanned"})}

-----------------------------------------------------------------------------
\* The value with no places in it, nor how its symbols were spaced.
RECURSIVE Bare(_)
Bare(v) ==
    LET All(vs) == [i \in DOMAIN vs |-> Bare(vs[i])]
    IN  CASE v[1] = "atom" -> <<"atom">>
          [] v[1] \in {"items", "many"} -> <<v[1], All(v[2])>>
          [] v[1] = "variant" -> <<v[1], v[2], All(v[3])>>
          [] v[1] = "group" -> <<v[1], Bare(v[3])>>
          [] v[1] \in {"some", "spanned", "tu", "ut"} -> <<v[1], Bare(v[2])>>
          [] OTHER -> v

\* What a value is written as is parsed by its type, all of it, to that value
\* again: Unparse writes what Parse reads, in that order, whatever alternative,
\* group or default the value came by, and however the source was spaced.
EmittedParsesBack ==
    Finished /\ ret.tag = "ok" /\ TokenSource /\ job.root \in Emittable =>
        LET emitted == Emit(job.root, ret.val)
            again == Denote(job.root, Input(emitted, <<>>, DefaultSpan), 0)
        IN  again.ok /\ again.pos = Len(emitted) /\ Bare(again.val) = Bare(ret.val)

\* The span of a value is that of what it was parsed from.  Of a text, the place
\* of the last character that is no separator; the very first place ties with
\* the default span, and either may be folded to.  Of tokens, from the first to
\* the last, or into that one if it is a group.
SpanMeetsConsumed ==
    Finished /\ ret.tag = "ok" /\ job.root \in Spannable =>
        LET span == SpanOf(job.root, ret.val)
            taken == {i \in 1 .. Position(streams[1]) : job.input[i] \notin Whitespace}
        IN  IF taken = {} THEN span = DefaultSpan
            ELSE IF TokenSource
            THEN Head(span[1]) = Min(taken) - 1 /\ Head(span[2]) = Max(taken) - 1
            ELSE /\ span.loc = Max(taken) - 1
                 /\ span.loc > 0 => span.line = 1
=============================================================================
