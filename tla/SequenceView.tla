---------------------------- MODULE SequenceView ----------------------------
(***************************************************************************)
(* What the trait SeqView (core/src/visit.rs) promises the visitor that is *)
(* handed a slot of the tree: a sequence that can be read, edited, and     *)
(* walked from the first item to the last, each of which it may edit and   *)
(* drop as it is reached.                                                  *)
(***************************************************************************)
EXTENDS Integers, SequencesExt

CONSTANTS Item, NoItem

VARIABLES items,    \* the sequence
          passed,   \* how many of them a walk has passed, -1 when none runs
          answer    \* the answer of the last call

vars == <<items, passed, answer>>

Idle == passed = -1
At(index) == IF index \in 0 .. Len(items) - 1 THEN items[index + 1] ELSE NoItem

Init ==
    /\ items \in Seq(Item)
    /\ passed = -1
    /\ answer = NoItem

Read ==
    /\ Idle
    /\ \E index \in 0 .. Len(items) : answer' = At(index)
    /\ UNCHANGED <<items, passed>>

Replace(index, item) ==
    /\ Idle
    /\ items' = IF At(index) = NoItem THEN items ELSE [items EXCEPT ![index + 1] = item]
    /\ UNCHANGED <<passed, answer>>

Insert(index, item) ==
    /\ Idle /\ index \in 0 .. Len(items)
    /\ items' = InsertAt(items, index + 1, item)
    /\ UNCHANGED <<passed, answer>>

Delete(index) ==
    /\ Idle
    /\ answer' = At(index)
    /\ items' = IF At(index) = NoItem THEN items ELSE RemoveAt(items, index + 1)
    /\ UNCHANGED passed

StartWalk == Idle /\ passed' = 0 /\ UNCHANGED <<items, answer>>

\* "Visit each element in place, then drop those for which f returns false."
Visit(item, keep) ==
    /\ passed \in 0 .. Len(items) - 1
    /\ items' = IF keep THEN [items EXCEPT ![passed + 1] = item]
                ELSE RemoveAt(items, passed + 1)
    /\ passed' = IF keep THEN passed + 1 ELSE passed
    /\ UNCHANGED answer

\* What an iterator has yielded stays borrowed, and editable, while it runs.
EditPassed(index, item) ==
    /\ index \in 0 .. passed - 1
    /\ items' = [items EXCEPT ![index + 1] = item]
    /\ UNCHANGED <<passed, answer>>

\* A walk ends behind the last item, or early, where its visitor gives up.
EndWalk == ~Idle /\ passed' = -1 /\ UNCHANGED <<items, answer>>

Step ==
    \/ Read
    \/ \E index \in 0 .. Len(items), item \in Item :
          Replace(index, item) \/ Insert(index, item) \/ EditPassed(index, item)
    \/ \E index \in 0 .. Len(items) : Delete(index)
    \/ StartWalk
    \/ \E item \in Item, keep \in BOOLEAN : Visit(item, keep)
    \/ EndWalk

Spec == Init /\ [][Step]_vars
=============================================================================
