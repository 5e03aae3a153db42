-------------------------- MODULE PunctuatedClient --------------------------
(***************************************************************************)
(* A Punctuated list (core/src/nested/punctuated.rs) in the hands of a     *)
(* visitor, which reads and edits it, and walks it with retain_mut or      *)
(* view_iter_mut of SeqView (core/src/visit.rs).  A walk goes by index on  *)
(* the list that its own removals shift, and calls the visitor back at     *)
(* every item.                                                             *)
(***************************************************************************)
EXTENDS PunctuatedOps

CONSTANTS Parsed,  \* the lists to start from
          MaxLen   \* bound on the length of a list

ASSUME ParsedAssumption == Parsed \subseteq Lists
ASSUME MaxLenAssumption == MaxLen \in Nat

VARIABLES list,
          walk,     \* the loop of retain_mut or the iterator, if one runs
          answer,   \* the answer of the last read or remove
          before,   \* the items when the walk began, and ..
          offered   \* .. those it has shown the visitor: not in the code

vars == <<list, walk, answer, before, offered>>

NoWalk == [kind |-> "none", idx |-> 0, len |-> 0]
Idle == walk = NoWalk
Retaining == walk.kind = "retain"
Iterating == walk.kind = "iter"

TypeOK ==
    /\ list \in Lists
    /\ walk \in [kind : {"none", "retain", "iter"}, idx : Nat, len : Nat]
    /\ walk.kind = "none" => Idle
    /\ answer \in Item \cup {NoItem}
    /\ before \in Seq(Item) /\ offered \in Seq(Item)

Init ==
    /\ list \in Parsed
    /\ walk = NoWalk
    /\ answer = NoItem
    /\ before = <<>> /\ offered = <<>>

Edits(l) ==
    /\ Idle
    /\ list' = l
    /\ UNCHANGED <<walk, answer, before, offered>>

Answers(a) ==
    /\ Idle
    /\ answer' = a
    /\ UNCHANGED <<list, walk, before, offered>>

CallGet(index) == Answers(ListGet(list, index))
CallFirst == Answers(ListFirst(list))
CallLast == Answers(ListLast(list))

CallGetMut(index, item) == Edits(ListSet(list, index, item))
CallLastMut(item) == Edits(ListSetLast(list, item))

CallPush(item) == ListLen(list) < MaxLen /\ Edits(ListPush(list, item))

CallInsert(index, item) ==
    /\ ListLen(list) < MaxLen /\ index <= ListLen(list)
    /\ Edits(ListInsert(list, index, item))

CallRemove(index) ==
    /\ Idle
    /\ answer' = ListGet(list, index)
    /\ list' = ListRemove(list, index)
    /\ UNCHANGED <<walk, before, offered>>

-----------------------------------------------------------------------------
Starts(w) ==
    /\ Idle
    /\ walk' = w
    /\ before' = ItemsOf(list) /\ offered' = <<>>
    /\ UNCHANGED <<list, answer>>

CallRetainMut == Starts([kind |-> "retain", idx |-> 0, len |-> 0])
CallViewIterMut == Starts([kind |-> "iter", idx |-> 0, len |-> ListLen(list)])

\* Mutant of RetainItem: the index moves on after a removal too.
RetainItemSkipping(item, keep) ==
    /\ Retaining /\ walk.idx < ListLen(list)
    /\ offered' = Append(offered, ListGet(list, walk.idx))
    /\ LET edited == ListSet(list, walk.idx, item)
       IN  list' = IF keep THEN edited ELSE ListRemove(edited, walk.idx)
    /\ walk' = [walk EXCEPT !.idx = walk.idx + 1]
    /\ UNCHANGED <<answer, before>>

\* One turn of retain_mut: f may write item over the element, and keeps it or
\* not.  The length is read again on every turn.
RetainItem(item, keep) ==
    /\ Retaining /\ walk.idx < ListLen(list)
    /\ offered' = Append(offered, ListGet(list, walk.idx))
    /\ LET edited == ListSet(list, walk.idx, item)
       IN  list' = IF keep THEN edited ELSE ListRemove(edited, walk.idx)
    /\ walk' = IF keep THEN [walk EXCEPT !.idx = walk.idx + 1] ELSE walk
    /\ UNCHANGED <<answer, before>>

\* Mutant of IterItem: the end is tested one too late.
IterItemPastEnd(item) ==
    /\ Iterating /\ walk.idx <= walk.len
    /\ offered' = Append(offered, ListGet(list, walk.idx))
    /\ list' = ListSet(list, walk.idx, item)
    /\ walk' = [walk EXCEPT !.idx = walk.idx + 1]
    /\ UNCHANGED <<answer, before>>

\* next of SeqIterMut, up to the length the list had at first.
IterItem(item) ==
    /\ Iterating /\ walk.idx < walk.len
    /\ offered' = Append(offered, ListGet(list, walk.idx))
    /\ list' = ListSet(list, walk.idx, item)
    /\ walk' = [walk EXCEPT !.idx = walk.idx + 1]
    /\ UNCHANGED <<answer, before>>

\* The references an iterator has yielded live as long as its borrow.
EditYielded(index, item) ==
    /\ Iterating /\ index < walk.idx
    /\ list' = ListSet(list, index, item)
    /\ UNCHANGED <<walk, answer, before, offered>>

Ends ==
    /\ walk' = NoWalk /\ before' = <<>> /\ offered' = <<>>
    /\ UNCHANGED <<list, answer>>

RetainReturns == Retaining /\ walk.idx >= ListLen(list) /\ Ends

\* The iterator is dropped, at its end or not, or f panics.
GiveUp == (Iterating \/ (Retaining /\ walk.idx < ListLen(list))) /\ Ends

Step ==
    \/ CallFirst \/ CallLast
    \/ \E index \in 0 .. ListLen(list) :
          \/ CallGet(index) \/ CallRemove(index)
          \/ \E item \in Item :
                CallGetMut(index, item) \/ CallInsert(index, item)
    \/ \E item \in Item : CallLastMut(item) \/ CallPush(item)
    \/ CallRetainMut \/ CallViewIterMut
    \/ \E item \in Item, keep \in BOOLEAN : RetainItem(item, keep)
    \/ \E item \in Item : IterItem(item)
    \/ \E index \in 0 .. MaxLen, item \in Item : EditYielded(index, item)
    \/ RetainReturns \/ GiveUp

Spec == Init /\ [][Step]_vars

-----------------------------------------------------------------------------
\* The items that a walk which has passed so many has not shown yet.
Ahead(items, passed) == SubSeq(items, passed + 1, Len(items))

\* A walk shows the visitor every item that was there when it began once and in
\* order, whatever it removes on the way: those shown and those ahead are those.
\* (SeqIterMut's unsafe block relies on "each index is yielded exactly once".)
WalkOffersEach == ~Idle => offered \o Ahead(ItemsOf(list), walk.idx) = before

\* "The wire format does not mirror the field layout": what is serialized passes
\* the count that deserializing it makes, and is the same list again.
WireRoundTrips ==
    WireAccepted(ToWire(list)) /\ FromWire(ToWire(list)) = list

\* The place of item in items, if it is there exactly once.
Once(items, item, i) == {j \in DOMAIN items : items[j] = item} = {i}

\* An item keeps the punctuation in front of it through every edit around it:
\* only an item that comes to be first, or no longer is, loses or gains one.
PunctsStay ==
    LET old == ItemsOf(list)
        new == ItemsOf(list)'
    IN  \A i \in 2 .. Len(old), j \in 2 .. Len(new) :
            Once(old, old[i], i) /\ Once(new, old[i], j) =>
                PunctsOf(list)[i - 1] = PunctsOf(list)'[j - 1]
PunctsStayInFront == [][PunctsStay]_vars

-----------------------------------------------------------------------------
\* The refinement mapping: the items in order, however they are stored.
Abstract == INSTANCE SequenceView WITH
    items  <- ItemsOf(list),
    passed <- IF Idle THEN -1 ELSE walk.idx

\* With its first item stored apart and every index shifted by one, the list is
\* the sequence that SeqView promises, also in the middle of a walk.
ImplementsSequenceView == Abstract!Spec
=============================================================================
