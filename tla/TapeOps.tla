------------------------------ MODULE TapeOps ------------------------------
(***************************************************************************)
(* The operations of Tape<I> (core/src/parse/tape.rs) as operators on a    *)
(* record with the fields of the struct.  They take a tape and return the  *)
(* tape after the call; next and peek also return the answer.  Sources,    *)
(* parsers and proofs are all built on these operators.                    *)
(***************************************************************************)
EXTENDS Naturals, SequencesExt

CONSTANTS Atom,    \* the items of the iterator
          NoAtom   \* the answer None

ASSUME NoAtomAssumption == NoAtom \notin Atom

Answer == Atom \cup {NoAtom}

-----------------------------------------------------------------------------
(***************************************************************************)
(* The iterator I, which the tape only calls next on.  Rust's Iterator     *)
(* does not promise to stay exhausted: left is what it yields up to its    *)
(* first None, late is what it would yield if it were polled again after   *)
(* that, and ended records that the first None has been returned.          *)
(***************************************************************************)
Iterator == [left : Seq(Atom), late : Seq(Atom), ended : BOOLEAN]

IterNext(it) ==
    IF it.left # <<>>
    THEN [iter |-> [it EXCEPT !.left = Tail(it.left)], atom |-> Head(it.left)]
    ELSE [iter |-> [left |-> it.late, late |-> <<>>, ended |-> TRUE],
          atom |-> NoAtom]

-----------------------------------------------------------------------------
Save == [pos : Nat, extra : Seq(Atom)]

Tapes == [iter  : Iterator,
         buf   : Seq(Atom),
         pos   : Nat,
         extra : Seq(Atom),
         saves : Seq(Save),
         done  : BOOLEAN]

TapeNew(it) == [iter |-> it, buf |-> <<>>, pos |-> 0, extra |-> <<>>,
                saves |-> <<>>, done |-> FALSE]

Depth(t) == Len(t.saves)

\* Mutant of TapeRelease: the test that no scope is open is dropped.
TapeReleaseAlways(t) ==
    [t EXCEPT !.buf = SubSeq(t.buf, t.pos + 1, Len(t.buf)), !.pos = 0]

\* release: drop the served prefix once nothing can rewind onto it.
TapeRelease(t) ==
    IF t.saves = <<>> /\ t.pos > 0
    THEN [t EXCEPT !.buf = SubSeq(t.buf, t.pos + 1, Len(t.buf)), !.pos = 0]
    ELSE t

\* Mutant of TapePull: the answer is parked without matching on None.
TapePullParkingNone(t) ==
    [t EXCEPT !.iter = IterNext(t.iter).iter,
              !.buf  = Append(t.buf, IterNext(t.iter).atom),
              !.done = IterNext(t.iter).atom = NoAtom]

\* One call of iter.next() whose atom, if any, is parked at the end of buf.
TapePull(t) ==
    LET pulled == IterNext(t.iter)
    IN  IF pulled.atom = NoAtom
        THEN [t EXCEPT !.iter = pulled.iter, !.done = TRUE]
        ELSE [t EXCEPT !.iter = pulled.iter, !.buf = Append(t.buf, pulled.atom)]

\* Where peek finds its answer when nothing is pushed back: buf.get(pos).
Ahead(t) == IF t.pos < Len(t.buf) THEN t.buf[t.pos + 1] ELSE NoAtom

\* Mutant of TapePeek: the end is not remembered, so it is polled for again.
TapePeekPastEnd(t) ==
    IF t.extra # <<>>
    THEN [tape |-> t, atom |-> t.extra[Len(t.extra)]]
    ELSE LET looked == IF t.pos = Len(t.buf) THEN TapePull(t) ELSE t
         IN  [tape |-> looked, atom |-> Ahead(looked)]

TapePeek(t) ==
    IF t.extra # <<>>
    THEN [tape |-> t, atom |-> t.extra[Len(t.extra)]]
    ELSE LET looked == IF t.pos = Len(t.buf) /\ ~t.done THEN TapePull(t) ELSE t
         IN  [tape |-> looked, atom |-> Ahead(looked)]

TapePush(t, a) == [t EXCEPT !.extra = Append(t.extra, a)]

\* next, when the atom is neither pushed back nor in buf.  With no checkpoint
\* open the atom is served without being retained.
TapeNextFromIter(t) ==
    IF t.done
    THEN [tape |-> t, atom |-> NoAtom]
    ELSE LET pulled == IterNext(t.iter)
             served == IF t.saves = <<>>
                       THEN [t EXCEPT !.iter = pulled.iter]
                       ELSE [TapePull(t) EXCEPT !.pos = t.pos + 1]
         IN  [tape |-> IF pulled.atom = NoAtom THEN TapePull(t) ELSE served,
              atom |-> pulled.atom]

TapeNext(t) ==
    IF t.extra # <<>>
    THEN [tape |-> [t EXCEPT !.extra = SubSeq(t.extra, 1, Len(t.extra) - 1)],
          atom |-> t.extra[Len(t.extra)]]
    ELSE IF t.pos < Len(t.buf)
    THEN [tape |-> TapeRelease([t EXCEPT !.pos = t.pos + 1]),
          atom |-> t.buf[t.pos + 1]]
    ELSE TapeNextFromIter(TapeRelease(t))

\* checkpoint: the raw token is the depth before the call.
TapeCheckpoint(t) ==
    [t EXCEPT !.saves = Append(t.saves, [pos |-> t.pos, extra |-> t.extra])]

\* The debug_assert of rollback and commit: raw names an open checkpoint.
RawIsOpen(t, raw) == raw \in 0 .. Depth(t) - 1

\* Mutant of TapeRollback: the pushed-back atoms are not restored.
TapeRollbackCursorOnly(t, raw) ==
    TapeRelease([t EXCEPT !.pos   = t.saves[raw + 1].pos,
                          !.saves = SubSeq(t.saves, 1, raw)])

\* Mutant of TapeCommit: the outermost scope resolves without a release.
TapeCommitUnreleased(t, raw) == [t EXCEPT !.saves = SubSeq(t.saves, 1, raw)]

\* rollback and commit with an open raw; inner scopes that were leaked are
\* truncated away with it.
TapeRollback(t, raw) ==
    TapeRelease([t EXCEPT !.pos   = t.saves[raw + 1].pos,
                          !.extra = t.saves[raw + 1].extra,
                          !.saves = SubSeq(t.saves, 1, raw)])

TapeCommit(t, raw) == TapeRelease([t EXCEPT !.saves = SubSeq(t.saves, 1, raw)])

-----------------------------------------------------------------------------
\* Every position a rewind can return to is one that buf still covers, and an
\* outer scope never lies ahead of an inner one or of the cursor: what makes
\* rollback's "it restores an index" (tape.rs, module doc) correct.
CursorsInOrder(t) ==
    /\ t.pos <= Len(t.buf)
    /\ \A i \in 1 .. Depth(t) :
          /\ t.saves[i].pos <= t.pos
          /\ \A j \in i .. Depth(t) : t.saves[i].pos <= t.saves[j].pos

\* "Retention is scoped to open transactions" (tape.rs, module doc): with no
\* checkpoint open buf holds no served atom; with one open, the served atoms
\* it holds are those served since the outermost was opened.
OnlyScopedRetention(t) ==
    IF t.saves = <<>> THEN t.pos = 0 ELSE t.saves[1].pos = 0

\* done remembers exactly that the iterator has returned None.
EndKnown(t) == t.iter.ended <=> t.done

-----------------------------------------------------------------------------
(* What a tape is to its client (see RewindableStream). *)

\* The atoms that buf retains and then those the iterator is still asked for.
Held(t) == t.buf \o (IF t.done THEN <<>> ELSE t.iter.left)

\* What is served from cursor pos with the atoms of extra pushed back.
UpcomingFrom(t, pos, extra) ==
    Reverse(extra) \o SubSeq(Held(t), pos + 1, Len(Held(t)))

Upcoming(t) == UpcomingFrom(t, t.pos, t.extra)

\* What each open checkpoint rewinds to, outermost first.
Marks(t) ==
    [i \in 1 .. Depth(t) |-> UpcomingFrom(t, t.saves[i].pos, t.saves[i].extra)]
=============================================================================
