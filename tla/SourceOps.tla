----------------------------- MODULE SourceOps -----------------------------
(***************************************************************************)
(* The two kinds of ParseStream that parsers run on, each a Tape and what  *)
(* the source adds to it.  The text sources (core/src/source/string.rs and *)
(* bytes.rs) treat whitespace atoms as separators.  The token source       *)
(* (core/src/source/proc_macro2.rs) has no separator atoms: it remembers   *)
(* in is_joint whether the last atom served was a punctuation glued to its *)
(* successor, and saves that flag in a stack parallel to the tape's saves. *)
(***************************************************************************)
EXTENDS TapeOps

CONSTANTS TokenSource,  \* TRUE for proc_macro2 tokens, FALSE for text
          Whitespace,   \* the atoms of a text that are whitespace
          Joint,        \* the tokens that are Punct with Spacing::Joint
          Content       \* the atoms inside each token that is a group

ASSUME SourceAssumption ==
    /\ TokenSource \in BOOLEAN
    /\ Whitespace \subseteq Atom
    /\ Joint \subseteq Atom
    /\ \A g \in DOMAIN Content : g \in Atom /\ Content[g] \in Seq(Atom)

\* source and origin are no fields of the code: what the stream was made from,
\* and the place of the group whose contents that is, if any.
Stream == [tape : Tapes, isJoint : BOOLEAN, jointSaves : Seq(BOOLEAN),
           source : Seq(Atom), origin : Seq(Nat)]

\* An iterator over a finite sequence of atoms; those of the built-in sources
\* do stay exhausted.
IterOver(atoms) == [left |-> atoms, late |-> <<>>, ended |-> FALSE]

StreamNew(atoms, origin) ==
    [tape |-> TapeNew(IterOver(atoms)), isJoint |-> FALSE, jointSaves |-> <<>>,
     source |-> atoms, origin |-> origin]

StreamDepth(s) == Depth(s.tape)

\* next of the token source returns early at the end, leaving is_joint alone.
StreamNext(s) ==
    LET served == TapeNext(s.tape)
    IN  [stream |-> [s EXCEPT !.tape = served.tape,
                              !.isJoint = IF ~TokenSource \/ served.atom = NoAtom
                                          THEN s.isJoint
                                          ELSE served.atom \in Joint],
         atom |-> served.atom]

StreamPeek(s) ==
    LET looked == TapePeek(s.tape)
    IN  [stream |-> [s EXCEPT !.tape = looked.tape], atom |-> looked.atom]

\* push goes to the tape alone: is_joint keeps the spacing of the atom that is
\* being handed back.
StreamPush(s, a) == [s EXCEPT !.tape = TapePush(s.tape, a)]

StreamCheckpoint(s) ==
    [s EXCEPT !.tape = TapeCheckpoint(s.tape),
              !.jointSaves = IF TokenSource THEN Append(s.jointSaves, s.isJoint)
                             ELSE s.jointSaves]

\* Mutant of StreamRollback: the flag is derived state that is not restored.
StreamRollbackTapeOnly(s, raw) ==
    [s EXCEPT !.tape = TapeRollback(s.tape, raw),
              !.jointSaves = SubSeq(s.jointSaves, 1, raw)]

StreamRollback(s, raw) ==
    IF TokenSource
    THEN [s EXCEPT !.tape = TapeRollback(s.tape, raw),
                   !.isJoint = s.jointSaves[raw + 1],
                   !.jointSaves = SubSeq(s.jointSaves, 1, raw)]
    ELSE [s EXCEPT !.tape = TapeRollback(s.tape, raw)]

\* Mutant of StreamCommit: the saved flag stays on its stack.
StreamCommitTapeOnly(s, raw) == [s EXCEPT !.tape = TapeCommit(s.tape, raw)]

StreamCommit(s, raw) ==
    [s EXCEPT !.tape = TapeCommit(s.tape, raw),
              !.jointSaves = IF TokenSource THEN SubSeq(s.jointSaves, 1, raw)
                             ELSE s.jointSaves]

\* The atoms a stream has yet to serve.
Unread(s) == Upcoming(s.tape)

\* How many atoms of its source a stream has served for good.
Position(s) == Len(s.source) - Len(Unread(s))

\* The spacing at a position: the atom before it is glued to what follows.
JointAt(atoms, pos) == pos > 0 /\ atoms[pos] \in Joint
=============================================================================
