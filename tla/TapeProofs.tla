----------------------------- MODULE TapeProofs -----------------------------
(***************************************************************************)
(* What holds of a tape under any client that keeps the contract of the    *)
(* trait, from the lemmas about its operations (TapeOpsProofs): its        *)
(* invariant, and that it is the stream RewindableStream describes.        *)
(***************************************************************************)
EXTENDS TapeClient, TapeOpsProofs

\* The inductive invariant of the specification, which TypeOK, CursorsOrdered
\* and RetentionScoped follow from.
IInv == TapeInv(tape) /\ answer \in Answer

\* Whatever a client that keeps the contract calls, the invariant survives, and
\* an iterator that has ended is left alone.
LEMMA StepPreservesIInv ==
    ASSUME IInv, [Step]_vars
    PROVE  IInv' /\ (tape.iter.ended => tape'.iter = tape.iter)
<1> USE DEF IInv
<1>1. CASE CallNext
  BY <1>1, NextPreservesInv DEF CallNext, TapeInv
<1>2. CASE CallPeek
  BY <1>2, PeekPreservesInv DEF CallPeek
<1>3. ASSUME NEW a \in Atom, CallPush(a)
      PROVE  IInv' /\ tape'.iter = tape.iter
  BY <1>3, PushPreservesInv DEF CallPush
<1>4. CASE CallCheckpoint
  BY <1>4, CheckpointPreservesInv DEF CallCheckpoint
<1>5. ASSUME NEW raw, CallRollback(raw)
      PROVE  IInv' /\ tape'.iter = tape.iter
  BY <1>5, RollbackPreservesInv DEF CallRollback
<1>6. ASSUME NEW raw, CallCommit(raw)
      PROVE  IInv' /\ tape'.iter = tape.iter
  BY <1>6, CommitPreservesInv DEF CallCommit
<1>7. CASE UNCHANGED vars
  BY <1>7 DEF vars, TapeInv
<1> QED
  BY <1>1, <1>2, <1>3, <1>4, <1>5, <1>6, <1>7 DEF Step

\* A new tape satisfies the invariant.
LEMMA InitEstablishesIInv == Init => IInv
<1> SUFFICES ASSUME NEW src \in Sources, answer = NoAtom,
                    tape = TapeNew([left |-> src.left, late |-> src.late,
                                    ended |-> FALSE])
             PROVE  IInv
  BY DEF Init
<1>1. /\ tape.saves = <<>> /\ tape.buf = <<>> /\ tape.pos = 0 /\ tape.done = FALSE
      /\ tape.iter.ended = FALSE
  BY DEF TapeNew
<1>2. tape \in Tapes
  BY SourcesAssumption, EmptySeq DEF TapeNew, Tapes, Iterator
<1>3. Depth(tape) = 0 /\ Len(tape.buf) = 0
  BY <1>1, EmptySeq DEF Depth
<1>4. CursorsInOrder(tape)
  <2>1. tape.pos <= Len(tape.buf)
    BY <1>1, <1>3
  <2>2. 1 .. Depth(tape) = {}
    BY <1>3
  <2> QED
    BY <2>1, <2>2 DEF CursorsInOrder
<1> QED
  BY <1>1, <1>2, <1>4
  DEF IInv, TapeInv, OnlyScopedRetention, EndKnown, Answer

\* The invariant holds in every reachable state of a tape, for every set of
\* atoms, every iterator and any number of pushbacks and nested scopes.
THEOREM TapeInvariant == Spec => []IInv
<1>1. Init => IInv
  BY InitEstablishesIInv
<1>2. IInv /\ [Step]_vars => IInv'
  BY StepPreservesIInv
<1> QED
  BY <1>1, <1>2, PTL DEF Spec

\* The fields of a tape keep their types and every answer is an atom or None.
THEOREM TypeCorrect == Spec => []TypeOK
<1>1. IInv => TypeOK
  BY DEF IInv, TapeInv, TypeOK
<1> QED
  BY <1>1, TapeInvariant, PTL

\* rollback always restores an index that buf still covers, and nested scopes
\* stay ordered.
THEOREM CursorsStayOrdered == Spec => []CursorsOrdered
<1>1. IInv => CursorsOrdered
  BY DEF IInv, TapeInv, CursorsOrdered
<1> QED
  BY <1>1, TapeInvariant, PTL

\* Served atoms are held only for scopes that could rewind onto them.
THEOREM RetentionStaysScoped == Spec => []RetentionScoped
<1>1. IInv => RetentionScoped
  BY DEF IInv, TapeInv, RetentionScoped
<1> QED
  BY <1>1, TapeInvariant, PTL

\* An iterator that has returned None is never polled again.
THEOREM IteratorLeftAloneAfterEnd == Spec => NeverPolledAfterEnd
<1>1. IInv /\ [Step]_vars => [tape.iter.ended => tape'.iter = tape.iter]_vars
  BY StepPreservesIInv
<1> QED
  BY <1>1, TapeInvariant, PTL DEF Spec, NeverPolledAfterEnd
-----------------------------------------------------------------------------
(* The tape implements the stream that the trait describes. *)

\* A new tape is a stream of what its iterator yields before its first None.
LEMMA AbstractInit == Init => Abstract!Init
<1> SUFFICES ASSUME NEW src \in Sources, answer = NoAtom,
                    tape = TapeNew([left |-> src.left, late |-> src.late,
                                    ended |-> FALSE])
             PROVE  Abstract!Init
  BY DEF Init
<1>1. /\ tape.saves = <<>> /\ tape.buf = <<>> /\ tape.pos = 0 /\ tape.done = FALSE
      /\ tape.extra = <<>> /\ tape.iter.left = src.left /\ src.left \in Seq(Atom)
  BY SourcesAssumption DEF TapeNew
<1>2. Held(tape) = src.left
  BY <1>1, ConcatEmptySeq DEF Held
<1>3. Upcoming(tape) = src.left
  <2>1. Reverse(<<>>) = <<>>
    BY EmptySeq, ReverseProperties
  <2>2. SubSeq(src.left, 0 + 1, Len(src.left)) = src.left
    BY <1>1, SubSeqFull
  <2>3. Upcoming(tape) = <<>> \o src.left
    BY <1>1, <1>2, <2>1, <2>2 DEF Upcoming, UpcomingFrom
  <2> QED
    BY <1>1, <2>3, ConcatEmptySeq
<1>4. Marks(tape) = <<>>
  <2>1. Depth(tape) = 0
    BY <1>1, EmptySeq DEF Depth
  <2>2. Marks(tape) \in [1 .. 0 -> Seq(Atom)]
    BY <2>1 DEF Marks
  <2>3. Marks(tape) \in Seq(Seq(Atom)) /\ Len(Marks(tape)) = 0
    BY <2>2, FunctionIsSeq
  <2> QED
    BY <2>3, EmptySeq
<1> QED
  BY <1>3, <1>4 DEF Abstract!Init

\* Every call is the step of the trait that has its name.
LEMMA AbstractNext ==
    ASSUME IInv, [Step]_vars
    PROVE  [Abstract!Step]_(Abstract!vars)
<1> USE DEF IInv
<1>0. tape \in Tapes /\ Len(Marks(tape)) = Depth(tape) /\ Upcoming(tape) \in Seq(Atom)
  BY ViewType DEF TapeInv
<1>1. CASE CallNext
  <2>1. /\ answer' = FirstOf(Upcoming(tape))
        /\ Upcoming(tape)' = AfterFirst(Upcoming(tape))
        /\ Marks(tape)' = Marks(tape)
    BY <1>1, NextView DEF CallNext
  <2> QED
    BY <2>1 DEF Abstract!Step, Abstract!Next, Abstract!Front, FirstOf, AfterFirst
<1>2. CASE CallPeek
  <2>1. /\ answer' = FirstOf(Upcoming(tape))
        /\ Upcoming(tape)' = Upcoming(tape)
        /\ Marks(tape)' = Marks(tape)
    BY <1>2, PeekView DEF CallPeek
  <2> QED
    BY <2>1 DEF Abstract!Step, Abstract!Peek, Abstract!Front, FirstOf
<1>3. ASSUME NEW a \in Atom, CallPush(a)
      PROVE  Abstract!Step
  <2>1. /\ Upcoming(tape)' = <<a>> \o Upcoming(tape)
        /\ Marks(tape)' = Marks(tape) /\ answer' = answer
    BY <1>3, PushView DEF CallPush
  <2> QED
    BY <2>1 DEF Abstract!Step, Abstract!Push
<1>4. CASE CallCheckpoint
  <2>1. /\ Upcoming(tape)' = Upcoming(tape) /\ answer' = answer
        /\ Marks(tape)' = Append(Marks(tape), Upcoming(tape))
    BY <1>4, CheckpointView DEF CallCheckpoint
  <2> QED
    BY <2>1 DEF Abstract!Step, Abstract!Checkpoint
<1>5. ASSUME NEW raw \in 0 .. Depth(tape) - 1, CallRollback(raw)
      PROVE  Abstract!Step
  <2>1. /\ Upcoming(tape)' = Marks(tape)[raw + 1] /\ answer' = answer
        /\ Marks(tape)' = SubSeq(Marks(tape), 1, raw)
    BY <1>5, RollbackView DEF CallRollback
  <2> QED
    BY <1>0, <2>1 DEF Abstract!Step, Abstract!Rollback
<1>6. ASSUME NEW raw \in 0 .. Depth(tape) - 1, CallCommit(raw)
      PROVE  Abstract!Step
  <2>1. /\ Upcoming(tape)' = Upcoming(tape) /\ answer' = answer
        /\ Marks(tape)' = SubSeq(Marks(tape), 1, raw)
    BY <1>6, CommitView DEF CallCommit
  <2> QED
    BY <1>0, <2>1 DEF Abstract!Step, Abstract!Commit
<1>7. CASE UNCHANGED vars
  BY <1>7 DEF vars, Abstract!vars
<1> QED
  BY <1>1, <1>2, <1>3, <1>4, <1>5, <1>6, <1>7 DEF Step

\* A tape is a rewindable stream: with its pushbacks, its buffer and its
\* retention scoped to open transactions, it answers and rewinds as a plain
\* sequence of atoms with marks would, for every iterator and every sequence of
\* calls its contract allows.
THEOREM RefinesRewindableStream == Spec => ImplementsRewindableStream
BY TapeInvariant, AbstractInit, AbstractNext, PTL
   DEF Spec, Abstract!Spec, ImplementsRewindableStream
=============================================================================
