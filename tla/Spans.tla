-------------------------------- MODULE Spans --------------------------------
(***************************************************************************)
(* Where an atom or a failure is: the Span types of the two kinds of       *)
(* source and what the library does with any of them (core/src/span.rs,    *)
(* error.rs).  A place is the way to an atom: its position and before that *)
(* those of the groups around it.                                          *)
(***************************************************************************)
EXTENDS SourceOps

\* Text: the offset, and the line, which is 1 for every real one (col goes with
\* it); the Default has the offset of the first character and no real line.
\* Tokens: an optional pair of compiler spans, the Default being None.
DefaultSpan == IF TokenSource THEN <<>> ELSE [line |-> 0, loc |-> 0]

PlaceSpan(place) ==
    IF TokenSource THEN <<place, place>> ELSE [line |-> 1, loc |-> Last(place)]

\* The delimiters of the group token at a place, around the places inside it.
Delimiters(place, inside) == <<Append(place, -1), Append(place, Len(inside))>>

\* migrate.  Text keeps the later of two places, self on a tie.  For tokens a
\* stable compiler joins no spans: the start of the first and the end of the
\* second remain.
Migrate(self, other) ==
    IF ~TokenSource THEN IF other.loc > self.loc THEN other ELSE self
    ELSE IF self = <<>> THEN other
    ELSE IF other = <<>> THEN self
    ELSE <<self[1], other[2]>>

\* The span of the next atom, peek().map(span).unwrap_or_default().  (An atom
\* keeps its span when it is handed back: by SourceInOrder its place is its
\* stream's position again.)
NextPlace(s) == Append(s.origin, Position(s))
NextSpan(s) ==
    IF Position(s) = Len(s.source) THEN DefaultSpan ELSE PlaceSpan(NextPlace(s))

\* Mutant of FromAlternatives: the first failure is reported, as from_cause
\* does.
FromAlternativesFirst(spans) == IF spans = <<>> THEN DefaultSpan ELSE Head(spans)

\* from_alternatives: the failures' spans, folded.  In text that is the farthest of
\* them; of tokens Migrate compares no places, and the first stays the start.
FromAlternatives(spans) ==
    IF spans = <<>> THEN DefaultSpan ELSE FoldLeft(Migrate, Head(spans), Tail(spans))

\* WithSpan's accumulator, an Option: "starts empty rather than at S::default()".
Widened(acc, span) == IF acc = <<>> THEN <<span>> ELSE <<Migrate(acc[1], span)>>
=============================================================================
