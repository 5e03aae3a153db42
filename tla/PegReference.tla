---------------------------- MODULE PegReference ----------------------------
(***************************************************************************)
(* What a grammar means, with no stream, no tape and no transaction: a     *)
(* function from the atoms and a position to a value and a position.  An   *)
(* enum is its first variant that parses, Vec takes as many items as there *)
(* are, Option never fails (parsing expression grammars).  A failure also  *)
(* has a position, because only some types promise to rewind, and a span,  *)
(* where it is reported.                                                   *)
(*                                                                         *)
(* The reference shares with the parser only how a type is turned into     *)
(* items; it knows neither the dedup of shared prefixes, nor how spacing   *)
(* is remembered, nor how the places of failures are folded.  Its operators are recursive, so that no module with proofs *)
(* uses this one.                                                          *)
(***************************************************************************)
EXTENDS Parser

\* Some input: atoms, the place of the group they are the contents of, and the
\* span that a failure at their end is reported at.
Input(atoms, origin, eof) == [atoms |-> atoms, origin |-> origin, eof |-> eof]

SpanAt(src, pos) ==
    IF pos = Len(src.atoms) THEN src.eof ELSE PlaceSpan(Append(src.origin, pos))

Success(v, pos) == [ok |-> TRUE, val |-> v, pos |-> pos]
\* A failure leaves the stream at pos and is reported at a span.
Failure(pos, span) == [ok |-> FALSE, pos |-> pos, at |-> span]

\* The end of the longest run of atoms of the set that starts at pos.
RunFrom(src, pos, set) ==
    CHOOSE q \in pos .. Len(src.atoms) :
        /\ \A i \in pos + 1 .. q : src.atoms[i] \in set
        /\ q < Len(src.atoms) => src.atoms[q + 1] \notin set

AfterSep(src, pos) == RunFrom(src, pos, Whitespace)

Separated(src, pos) ==
    IF TokenSource THEN ~JointAt(src.atoms, pos) ELSE AfterSep(src, pos) > pos

Past(src, pos) == IF TokenSource THEN pos ELSE AfterSep(src, pos)

\* An integer is the longest run of digits and underscores with a digit in it,
\* and the word that follows if that is a suffix.
IntegerAt(r, src, pos) ==
    LET past == RunFrom(src, pos, r.digits \cup r.fillers)
        end == RunFrom(src, past, r.alphanumerics)
        value == SubSeq(src.atoms, pos + 1, past)
        word == SubSeq(src.atoms, past + 1, end)
    IN  IF \A i \in DOMAIN value : value[i] \in r.fillers
        THEN Failure(pos, SpanAt(src, pos))
        ELSE IF word \in r.suffixes
        THEN Success(<<"integer", value, word>>, end)
        ELSE Success(<<"integer", value, <<>> >>, past)

\* Where it is reported that all alternatives failed, from where each of them did.
\* In text: the farthest place, of the first of those that got there.  Of tokens: from
\* the start of the first failure that has a place to the end of the last, wherever
\* the farthest of them is.
AllFailedAt(spans) ==
    LET placed == SelectSeq(spans, LAMBDA s : s # DefaultSpan)
        IsFarthest(i) == \A j \in DOMAIN spans : spans[j].loc <= spans[i].loc
    IN  IF ~TokenSource THEN spans[Min({i \in DOMAIN spans : IsFarthest(i)})]
        ELSE IF placed = <<>> THEN DefaultSpan
        ELSE <<Head(placed)[1], Last(placed)[2]>>

RECURSIVE Denote(_, _, _), Sequence(_, _, _, _), Repeat(_, _, _, _, _),
          FirstOf(_, _, _, _, _)

\* The items in order, from pos, after those whose values are vals.
Sequence(items, src, pos, vals) ==
    IF items = <<>> THEN Success(<<"items", vals>>, pos) ELSE
    LET item == Head(items)
        past == Past(src, pos)
        Go(q, vs) == Sequence(Tail(items), src, q, vals \o vs)
        Inside(g) == Sequence(item.body,
                              Input(Content[g], Append(src.origin, pos), src.eof), 0, <<>>)
    IN  CASE item.op = "skip" -> Go(past, <<>>)
          [] item.op = "spacing" ->
                IF Separated(src, pos) = item.joint
                THEN Failure(past, Migrate(SpanAt(src, pos), SpanAt(src, past)))
                ELSE Go(past, <<>>)
          [] item.op = "together" ->
                IF Separated(src, pos)
                THEN Failure(past, SpanAt(src, past)) ELSE Go(pos, <<>>)
          [] item.op = "default" -> Go(pos, <<<<"default">>>>)
          [] item.op = "parse" ->
                LET r == Denote(item.node, src, pos)
                IN  IF r.ok THEN Go(r.pos, <<r.val>>) ELSE r
          [] item.op = "group" ->
                IF pos = Len(src.atoms) \/ src.atoms[pos + 1] \notin item.groups
                THEN Failure(pos, SpanAt(src, pos))
                ELSE LET r == Inside(src.atoms[pos + 1])
                     IN  IF r.ok THEN Go(pos + 1, <<<<"group", Delimiters(Append(src.origin, pos), Content[src.atoms[pos + 1]]), r.val>>>>)
                         ELSE Failure(pos + 1, r.at)

\* As many items as parse: the first as first, each further one as more.
Repeat(first, more, src, pos, vals) ==
    LET r == Sequence(IF vals = <<>> THEN first ELSE more, src, pos, <<>>)
    IN  IF r.ok THEN Repeat(first, more, src, r.pos, Append(vals, r.val))
        ELSE Success(<<"many", vals>>, pos)

\* The first variant, from v on, that parses at pos, or else a failure of them
\* all; spans are those of the variants before v.
FirstOf(variants, v, src, pos, spans) ==
    IF v > Len(variants) THEN Failure(pos, AllFailedAt(spans))
    ELSE LET r == Sequence(FieldItems(variants[v]), src, pos, <<>>)
         IN  IF r.ok THEN Success(<<"variant", v, r.val[2]>>, r.pos)
             ELSE FirstOf(variants, v + 1, src, pos, Append(spans, r.at))

Denote(n, src, pos) ==
    LET r == Rules[n]
        Of == Denote(r.of, src, pos)
        InOrder(nodes) == Sequence(TupleItems(nodes), src, pos, <<>>)
    IN  CASE r.kind = "leaf" ->
                IF pos < Len(src.atoms) /\ src.atoms[pos + 1] \in r.accepts
                THEN Success(<<"atom", src.atoms[pos + 1], Append(src.origin, pos)>>, pos + 1)
                ELSE Failure(pos, SpanAt(src, pos))
          [] r.kind = "integer" -> IntegerAt(r, src, pos)
          [] r.kind \in ItemKinds -> Sequence(ItemsOf(r), src, pos, <<>>)
          [] r.kind = "spanned" ->
                IF Of.ok THEN Success(<<"spanned", Of.val>>, Of.pos) ELSE Of
          [] r.kind = "attempt" -> IF Of.ok THEN Of ELSE Failure(pos, Of.at)
          [] r.kind = "option" ->
                IF Of.ok THEN Success(<<"some", Of.val>>, Of.pos)
                ELSE Success(<<"none">>, pos)
          [] r.kind = "result" ->
                IF Of.ok THEN Success(<<"ok", Of.val>>, Of.pos)
                ELSE Success(<<"err", Of.at>>, Of.pos)
          [] r.kind = "many" ->
                Repeat(<<Parse(r.of)>>, <<SkipSep, Parse(r.of)>>, src, pos, <<>>)
          [] r.kind = "punctuated" ->
                Repeat(<<Parse(r.of)>>,
                       <<SkipSep, Parse(r.punct), SkipSep, Parse(r.of)>>,
                       src, pos, <<>>)
          [] r.kind = "unordered" ->
                LET tu == InOrder(<<r.t, r.u>>)
                    ut == InOrder(<<r.u, r.t>>)
                IN  IF tu.ok THEN Success(<<"tu", tu.val>>, tu.pos)
                    ELSE IF ut.ok THEN Success(<<"ut", ut.val>>, ut.pos)
                    ELSE ut
          [] r.kind = "enum" -> FirstOf(r.variants, 1, src, pos, <<>>)

-----------------------------------------------------------------------------
(* Properties of a parse. *)

\* The call returns what the grammar means, and leaves its stream where the
\* reference says, whether it succeeds or fails; a failure of all alternatives is
\* reported where AllFailedAt says, the end of the input counting as the default.
MeansGrammar ==
    Finished =>
        LET r == Denote(job.root, Input(job.input, <<>>, DefaultSpan), 0)
        IN  /\ ret = IF r.ok THEN Ok(r.val) ELSE Err(r.at)
            /\ Position(streams[1]) = r.pos

\* The atom of the whole input that a span points a reader to: of tokens, where it
\* starts (From<Span> for Option<proc_macro2::Span>), of no place, the first.
PointsTo(span) ==
    IF ~TokenSource THEN span.loc ELSE IF span = DefaultSpan THEN 0 ELSE Head(span[1])

\* "Farthest failure wins: the alternative that got closest to matching is where
\* the input actually goes wrong" (error.rs, from_alternatives): none of the
\* alternatives failed beyond the place that their failure is reported at, the end
\* of the input being beyond its last atom.
FarthestReported ==
    LET rule == Rules[job.root]
        whole == Input(job.input, <<>>, PlaceSpan(<<Len(job.input)>>))
        Alone(fields) == Sequence(FieldItems(fields), whole, 0, <<>>)
    IN  Finished /\ ret.tag = "err" /\ rule.kind = "enum" =>
            \A v \in DOMAIN rule.variants :
                PointsTo(Alone(rule.variants[v]).at) <= PointsTo(ret.at)

\* The atoms of the stream that T took on its way, separators left out.
Taken(f) ==
    {i \in f.from + 1 .. Position(Current) : Current.source[i] \notin Whitespace}

\* What WithSpan records when its T has parsed never falls short: it reaches to
\* the last atom that T consumed, and for tokens starts at the first.
SpanCoversConsumed ==
    Resumes("spanned") /\ ret.tag = "ok" =>
        \A i \in Taken(Top) :
            LET span == Top.acc[1]
            IN  /\ Top.acc # <<>>
                /\ IF TokenSource
                   THEN Last(span[1]) <= i - 1 /\ i - 1 <= Last(span[2])
                   ELSE i - 1 <= span.loc

\* "`GroupParen<T, S>` | `(` `T` `)`" (README.md): when the contents of a token
\* group have been parsed, nothing is left before its closing delimiter.
GroupReadToEnd ==
    Resumes("items") /\ Item.op = "group" /\ ret.tag = "ok" =>
        Unread(Current) = <<>>

\* Every call returns: no Vec or Punctuated of the grammar repeats for ever and
\* no alternative is tried twice.
CallReturns == <>Finished
=============================================================================
