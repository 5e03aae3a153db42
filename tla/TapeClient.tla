----------------------------- MODULE TapeClient -----------------------------
(***************************************************************************)
(* One Tape (core/src/parse/tape.rs) under every client that keeps the     *)
(* contract of the trait: next, peek, push of an arbitrary atom and        *)
(* checkpoint at any time, rollback and commit of any open scope, leaking  *)
(* the scopes inside it.                                                   *)
(***************************************************************************)
EXTENDS TapeOps

CONSTANTS Sources,    \* the iterators a tape may be built on
          MaxPushed,  \* bound on the pushed-back atoms held at once
          MaxDepth    \* bound on the checkpoints open at once

ASSUME SourcesAssumption ==
    \A src \in Sources : src.left \in Seq(Atom) /\ src.late \in Seq(Atom)

ASSUME BoundsAssumption == MaxPushed \in Nat /\ MaxDepth \in Nat

VARIABLES tape, answer

vars == <<tape, answer>>

TypeOK == tape \in Tapes /\ answer \in Answer

Init ==
    /\ \E src \in Sources :
          tape = TapeNew([left |-> src.left, late |-> src.late, ended |-> FALSE])
    /\ answer = NoAtom

CallNext ==
    /\ tape' = TapeNext(tape).tape
    /\ answer' = TapeNext(tape).atom

CallPeek ==
    /\ tape' = TapePeek(tape).tape
    /\ answer' = TapePeek(tape).atom

CallPush(a) ==
    /\ Len(tape.extra) < MaxPushed
    /\ tape' = TapePush(tape, a)
    /\ UNCHANGED answer

CallCheckpoint ==
    /\ Depth(tape) < MaxDepth
    /\ tape' = TapeCheckpoint(tape)
    /\ UNCHANGED answer

CallRollback(raw) ==
    /\ RawIsOpen(tape, raw)
    /\ tape' = TapeRollback(tape, raw)
    /\ UNCHANGED answer

CallCommit(raw) ==
    /\ RawIsOpen(tape, raw)
    /\ tape' = TapeCommit(tape, raw)
    /\ UNCHANGED answer

Step ==
    \/ CallNext
    \/ CallPeek
    \/ \E a \in Atom : CallPush(a)
    \/ CallCheckpoint
    \/ \E raw \in 0 .. Depth(tape) - 1 : CallRollback(raw) \/ CallCommit(raw)

Spec == Init /\ [][Step]_vars

-----------------------------------------------------------------------------
\* Rewinding restores an index, so every index a scope remembers stays inside
\* buf, and outer scopes stay behind inner ones (tape.rs, rollback).
CursorsOrdered == CursorsInOrder(tape)

\* A tape that no scope can rewind holds no served atom, and one that some
\* scope can rewind holds those served since the outermost was opened.
RetentionScoped == OnlyScopedRetention(tape)

\* Once the iterator has returned None it is never polled again, however often
\* rollbacks make the parser reach the end: "Iterator does not promise to stay
\* exhausted" (tape.rs, field done).
NeverPolledAfterEnd == [][tape.iter.ended => tape'.iter = tape.iter]_vars

-----------------------------------------------------------------------------
Abstract == INSTANCE RewindableStream WITH
    rest  <- Upcoming(tape),
    marks <- Marks(tape)

\* The tape is a rewindable stream: every next, peek, push, checkpoint,
\* rollback and commit answers and rewinds as the trait promises.
ImplementsRewindableStream == Abstract!Spec

=============================================================================
