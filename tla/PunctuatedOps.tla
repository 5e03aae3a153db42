--------------------------- MODULE PunctuatedOps ---------------------------
(***************************************************************************)
(* The operations of Punctuated<Item, Punct> (core/src/nested/             *)
(* punctuated.rs) as operators on its representation, an                   *)
(* Option<(Box<Item>, Vec<(Punct, Item)>)>: the first item apart, every    *)
(* other one in a pair with the punctuation before it.                     *)
(***************************************************************************)
EXTENDS Integers, SequencesExt

CONSTANTS Item, NoItem,        \* the items, and the answer None
          Punct, DefaultPunct  \* the punctuations, and Punct::default()

ASSUME NoItemAssumption == NoItem \notin Item
ASSUME DefaultPunctAssumption == DefaultPunct \in Punct

Pair == [punct : Punct, item : Item]

\* None is Empty; Some((first, rest)) has the fields of the pair.
Empty == [some |-> FALSE]
Some(first, rest) == [some |-> TRUE, first |-> first, rest |-> rest]
Lists == {Empty} \cup [some : {TRUE}, first : Item, rest : Seq(Pair)]

ListLen(l) == IF l.some THEN 1 + Len(l.rest) ELSE 0

\* get, with indices from 0.
ListGet(l, index) ==
    IF ~l.some THEN NoItem
    ELSE IF index = 0 THEN l.first
    ELSE IF index \in 1 .. Len(l.rest) THEN l.rest[index].item
    ELSE NoItem

ListFirst(l) == IF l.some THEN l.first ELSE NoItem

ListLast(l) ==
    IF ~l.some THEN NoItem
    ELSE IF l.rest = <<>> THEN l.first
    ELSE Last(l.rest).item

\* An assignment through the reference that get_mut(index) returns, if any.
ListSet(l, index, item) ==
    IF ~l.some THEN l
    ELSE IF index = 0 THEN Some(item, l.rest)
    ELSE IF index \in 1 .. Len(l.rest) THEN Some(l.first, [l.rest EXCEPT ![index].item = item])
    ELSE l

\* .. and that last_mut returns.
ListSetLast(l, item) ==
    IF ~l.some THEN l
    ELSE IF l.rest = <<>> THEN Some(item, l.rest)
    ELSE Some(l.first, [l.rest EXCEPT ![Len(l.rest)].item = item])

ListPush(l, item) ==
    IF l.some
    THEN Some(l.first, Append(l.rest, [punct |-> DefaultPunct, item |-> item]))
    ELSE Some(item, <<>>)

\* Mutant of ListInsert: the new item takes over the punctuation of the one it
\* is put in front of.
ListInsertShifting(l, index, item) ==
    IF ~l.some THEN Some(item, <<>>)
    ELSE IF index = 0
    THEN Some(item, InsertAt(l.rest, 1, [punct |-> DefaultPunct, item |-> l.first]))
    ELSE IF index > Len(l.rest)
    THEN Some(l.first, Append(l.rest, [punct |-> DefaultPunct, item |-> item]))
    ELSE Some(l.first, InsertAt([l.rest EXCEPT ![index].punct = DefaultPunct], index,
                                [punct |-> l.rest[index].punct, item |-> item]))

\* insert at index <= len, beyond which it panics.
ListInsert(l, index, item) ==
    IF ~l.some THEN Some(item, <<>>)
    ELSE IF index = 0
    THEN Some(item, InsertAt(l.rest, 1, [punct |-> DefaultPunct, item |-> l.first]))
    ELSE Some(l.first, InsertAt(l.rest, index, [punct |-> DefaultPunct, item |-> item]))

\* Mutant of ListRemove: the first item leaves its successors' pairs alone.
ListRemoveOffByOne(l, index) ==
    IF ~l.some THEN l
    ELSE IF index = 0
    THEN IF l.rest = <<>> THEN Empty ELSE Some(l.rest[1].item, RemoveAt(l.rest, 1))
    ELSE IF index < Len(l.rest) THEN Some(l.first, RemoveAt(l.rest, index))
    ELSE l

\* remove: the second item is promoted when the first goes; an index out of
\* bounds puts back what take() took.
ListRemove(l, index) ==
    IF ~l.some THEN l
    ELSE IF index = 0
    THEN IF l.rest = <<>> THEN Empty ELSE Some(l.rest[1].item, RemoveAt(l.rest, 1))
    ELSE IF index <= Len(l.rest) THEN Some(l.first, RemoveAt(l.rest, index))
    ELSE l

\* The items that iter, iter_mut and into_iter go through.
ItemsOf(l) == [i \in 1 .. ListLen(l) |-> ListGet(l, i - 1)]
PunctsOf(l) == IF l.some THEN [i \in 1 .. Len(l.rest) |-> l.rest[i].punct] ELSE <<>>

\* Serialize: {items, puncts}.
ToWire(l) == [items |-> ItemsOf(l), puncts |-> PunctsOf(l)]

\* Deserialize: refused unless there is one item more than punctuations, or
\* neither.
WireAccepted(w) ==
    Len(w.items) = Len(w.puncts) + (IF w.items = <<>> THEN 0 ELSE 1)

\* Mutant of FromWire: the items are zipped with the first one among them.
FromWireUnshifted(w) ==
    IF w.items = <<>> THEN Empty
    ELSE Some(Head(w.items),
              [i \in 1 .. Len(w.puncts) |->
                  [punct |-> w.puncts[i], item |-> w.items[i]]])

FromWire(w) ==
    IF w.items = <<>> THEN Empty
    ELSE Some(Head(w.items),
              [i \in 1 .. Len(w.puncts) |->
                  [punct |-> w.puncts[i], item |-> Tail(w.items)[i]]])
=============================================================================
