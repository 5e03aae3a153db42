-------------------------- MODULE RewindableStream --------------------------
(***************************************************************************)
(* What the ParseStream trait (core/src/parse/parse_stream.rs) promises    *)
(* its callers, with no word about how: a stream is the sequence of atoms  *)
(* still ahead, and each open checkpoint remembers what was ahead when it  *)
(* was opened.                                                             *)
(***************************************************************************)
EXTENDS Naturals, Sequences

CONSTANTS Atom, NoAtom, Sources

VARIABLES rest,    \* the atoms still ahead
          marks,   \* what was ahead at each open checkpoint, outermost first
          answer   \* the answer of the last next or peek

vars == <<rest, marks, answer>>

Init ==
    /\ \E src \in Sources : rest = src.left
    /\ marks = <<>>
    /\ answer = NoAtom

Front == IF rest = <<>> THEN NoAtom ELSE Head(rest)

\* "Consume and return the next atom, or None at end of input."
Next ==
    /\ answer' = Front
    /\ rest' = IF rest = <<>> THEN <<>> ELSE Tail(rest)
    /\ UNCHANGED marks

\* "The atom next would return, without consuming it."
Peek ==
    /\ answer' = Front
    /\ UNCHANGED <<rest, marks>>

\* "Hand an atom back; it is served before anything still unread."
Push(a) ==
    /\ rest' = <<a>> \o rest
    /\ UNCHANGED <<marks, answer>>

Checkpoint ==
    /\ marks' = Append(marks, rest)
    /\ UNCHANGED <<rest, answer>>

\* "Undo everything consumed since raw was taken, and close that scope."
Rollback(raw) ==
    /\ rest' = marks[raw + 1]
    /\ marks' = SubSeq(marks, 1, raw)
    /\ UNCHANGED answer

\* "Keep everything consumed since raw was taken, and close that scope."
Commit(raw) ==
    /\ marks' = SubSeq(marks, 1, raw)
    /\ UNCHANGED <<rest, answer>>

Step ==
    \/ Next
    \/ Peek
    \/ \E a \in Atom : Push(a)
    \/ Checkpoint
    \/ \E raw \in 0 .. Len(marks) - 1 : Rollback(raw) \/ Commit(raw)

Spec == Init /\ [][Step]_vars
=============================================================================
