---------------------------- MODULE VisitorWalk -----------------------------
(***************************************************************************)
(* A walk: node.visit(..) or node.visit_mut(..) with the code that         *)
(* visitor! generated (macro/visitor/side.rs around the bodies of          *)
(* VisitorLower) and the Walk impls of core/src/visit.rs.  The call stack  *)
(* is explicit and every call, hook and turn of a loop is a step; hooks on *)
(* the mutable side edit the node or the slot that they are handed.        *)
(***************************************************************************)
EXTENDS VisitorLower

CONSTANTS Chain,      \* the visitor modules, each after the one it extends
          Trees,      \* the values to walk: the numbers of their nodes are distinct
          Visitors,   \* what is passed to visit()
          Sides,      \* subset of BOOLEAN: is it visit_mut?
          NewNode(_, _), \* the node of this type and number that an edit puts in
          MaxEdits    \* bound on the number of edits

VARIABLES tree, visitor, visitMut,
          stack,    \* the call stack, innermost first
          log,      \* what was offered to whom: pairs of a hook and a node's number
          edits     \* number of edits so far

vars == <<tree, visitor, visitMut, stack, log, edits>>

\* --- values ---

Node(id, ty, variant, kids) == [k |-> "node", id |-> id, ty |-> ty, variant |-> variant, kids |-> kids]
\* Anything with a Walk impl at Thru: a container, a Box, a map with its values.
Holder(kids) == [k |-> "holder", kids |-> kids]
SharedRef(kid) == [k |-> "ref", kids |-> <<kid>>]
Tup(kids) == [k |-> "tuple", kids |-> kids]
Atom == [k |-> "atom", kids |-> <<>>]

At(addr) == FoldLeft(LAMBDA v, i : v.kids[i], tree, addr)

RECURSIVE Put(_, _, _)
Put(v, addr, new) ==
    IF addr = <<>> THEN new
    ELSE [v EXCEPT !.kids[addr[1]] = Put(@, Tail(addr), new)]

RECURSIVE Ids(_)
Ids(v) == (IF v.k = "node" THEN {v.id} ELSE {}) \cup UNION {Ids(v.kids[i]) : i \in DOMAIN v.kids}

\* --- visitors ---

Pass == [k |-> "pass"]                                 \* a struct that implements Visit
Forward(inner) == [k |-> "forward", parts |-> <<inner>>]   \* &mut V or Box<V>
Tuple(parts) == [k |-> "tuple", parts |-> parts]       \* a tuple of visitors
Driver(heads) == [k |-> "driver", heads |-> heads]     \* closures, each for a type

VisitorAt(v) == FoldLeft(LAMBDA x, i : x.parts[i], visitor, v)

\* --- the generated code ---

Top == Head(stack)
Call(v, at) == [do |-> "call", v |-> v, at |-> at]
BodyOf(v, at, tag) == [do |-> "body", v |-> v, at |-> at, tag |-> tag, pc |-> 1]
WalkOf(v, at, tag, ind) == [do |-> "walk", v |-> v, at |-> at, tag |-> tag, ind |-> ind, pc |-> 1]
ViewOf(v, at, kind, ty) == [do |-> "view", v |-> v, at |-> at, kind |-> kind, ty |-> ty, pc |-> 0]

\* The module whose visitor! lists the type: its trait has the method and its free function.
HomeOf(ident) == CHOOSE m \in DOMAIN Chain : ident \in Chain[m].visited
\* The arms that each module has, by type, variant and side.
Arms ==
    [m \in DOMAIN Chain |->
        [p \in Generated(Chain[m]) |->
            [i \in DOMAIN DefOf(p).variants |->
                [side \in BOOLEAN |-> Body(Chain[m], side, p, i)]]]]
Arm(tag, node) ==
    LET path == CHOOSE p \in Generated(Chain[tag]) : Rooted(p) = node.ty
    IN  Arms[tag][path][node.variant][visitMut]

Become(frame) == stack' = <<frame>> \o Tail(stack)
Return == stack' = Tail(stack)
\* Calls, and goes on with `frame` afterwards.
Enter(callee, frame) == stack' = <<callee, frame>> \o Tail(stack)

\* visit_t of a wrapper forwards, and that of a tuple calls its parts one after the other.
CallForward ==
    /\ Top.do = "call" /\ VisitorAt(Top.v).k \in {"forward", "tuple"}
    /\ LET parts == VisitorAt(Top.v).parts
       IN  stack' = [i \in DOMAIN parts |-> Call(Append(Top.v, i), Top.at)] \o Tail(stack)
    /\ UNCHANGED <<tree, visitor, visitMut, log, edits>>

\* A number that the nodes of an edit can be numbered from, and is of none in the tree.
Fresh == -10 * (edits + 1)
\* A hook may put other contents in the node it was handed: the node itself stays.
MayEditNode(at) ==
    \/ UNCHANGED <<tree, edits>>
    \/ /\ visitMut /\ edits < MaxEdits
       /\ edits' = edits + 1
       /\ tree' = Put(tree, at, [NewNode(At(at).ty, Fresh) EXCEPT !.id = At(at).id])

\* The hooks that answer a call: the overridden method, or the closures for the type, all of
\* them before the driver descends.
HooksAt(v, node) ==
    IF VisitorAt(v).k = "pass" THEN <<<<v, 0>>>>
    ELSE LET heads == VisitorAt(v).heads
         IN  [i \in 1..Len(SelectSeq(heads, LAMBDA h : h = LastIdent(node.ty))) |->
                <<v, CHOOSE j \in DOMAIN heads :
                        /\ heads[j] = LastIdent(node.ty)
                        /\ Cardinality({l \in 1..j : heads[l] = heads[j]}) = i>>]

\* Mutant of CallHook: the driver descends once for each of its closures.
CallHookEach ==
    /\ Top.do = "call" /\ VisitorAt(Top.v).k \in {"pass", "driver"}
    /\ LET node == At(Top.at)
           hooks == HooksAt(Top.v, node)
           body == BodyOf(Top.v, Top.at, HomeOf(LastIdent(node.ty)))
       IN  /\ log' = log \o [i \in DOMAIN hooks |-> <<hooks[i], node.id>>]
           /\ IF hooks = <<>> THEN Become(body)
              ELSE stack' = [i \in DOMAIN hooks |-> body] \o Tail(stack)
    /\ UNCHANGED <<tree, visitor, visitMut, edits>>

CallHook ==
    /\ Top.do = "call" /\ VisitorAt(Top.v).k \in {"pass", "driver"}
    /\ LET node == At(Top.at)
           hooks == HooksAt(Top.v, node)
       IN  /\ log' = log \o [i \in DOMAIN hooks |-> <<hooks[i], node.id>>]
           /\ IF hooks = <<>> THEN UNCHANGED <<tree, edits>> ELSE MayEditNode(Top.at)
           /\ Become(BodyOf(Top.v, Top.at, HomeOf(LastIdent(node.ty))))
    /\ UNCHANGED <<visitor, visitMut>>

BodyStep ==
    /\ Top.do = "body"
    /\ LET stmts == Arm(Top.tag, At(Top.at))
           s == stmts[Top.pc]
           next == [Top EXCEPT !.pc = @ + 1]
           field == Append(Top.at, Top.pc)
       IN  IF Top.pc > Len(stmts) THEN Return
           ELSE \/ s.op = "none" /\ Become(next)
                \/ s.op = "walk" /\ Enter(WalkOf(Top.v, field, Top.tag, s.ind), next)
                \/ s.op = "view" /\ Enter(ViewOf(Top.v, field, s.kind, Rooted(s.head)), next)
    /\ UNCHANGED <<tree, visitor, visitMut, log, edits>>

\* --- syan::visit::Walk ---

WalkHere ==
    /\ Top.do = "walk" /\ Top.ind = Here
    /\ IF LastIdent(At(Top.at).ty) \in MethodSet(Chain[Top.tag])
       THEN Become(Call(Top.v, Top.at))
       ELSE Become(BodyOf(Top.v, Top.at, Top.tag))
    /\ UNCHANGED <<tree, visitor, visitMut, log, edits>>

WalkSkip ==
    /\ Top.do = "walk" /\ Top.ind = Skip
    /\ Return
    /\ UNCHANGED <<tree, visitor, visitMut, log, edits>>

WalkThru ==
    /\ Top.do = "walk" /\ Top.ind.at = "thru"
    /\ IF Top.pc > Len(At(Top.at).kids) THEN Return
       ELSE Enter(WalkOf(Top.v, Append(Top.at, Top.pc), Top.tag, Top.ind.inner), [Top EXCEPT !.pc = @ + 1])
    /\ UNCHANGED <<tree, visitor, visitMut, log, edits>>

WalkSlots ==
    /\ Top.do = "walk" /\ Top.ind.at = "slots"
    /\ IF Top.pc > Len(Top.ind.slots) THEN Return
       ELSE Enter(WalkOf(Top.v, Append(Top.at, Top.pc), Top.tag, Top.ind.slots[Top.pc]), [Top EXCEPT !.pc = @ + 1])
    /\ UNCHANGED <<tree, visitor, visitMut, log, edits>>

\* --- views: visit_t_seq and visit_t_opt ---

\* What one edit makes of a slot: the view of a sequence inserts and removes.
SeqEdits(kids, new) ==
    {InsertAt(kids, i, new) : i \in 1..Len(kids) + 1} \cup {RemoveAt(kids, i) : i \in DOMAIN kids}
\* That of an Option sets and takes.
OptEdits(kids, new) == {<<new>>} \cup (IF kids # <<>> THEN {<<>>} ELSE {})

\* The method of a pass may edit the slot before it runs the default, which offers what is
\* then there.
ViewBegin ==
    /\ Top.do = "view" /\ Top.pc = 0
    /\ Become([Top EXCEPT !.pc = 1])
    /\ \/ UNCHANGED <<tree, edits>>
       \/ /\ visitMut /\ edits < MaxEdits /\ VisitorAt(Top.v).k = "pass"
          /\ edits' = edits + 1
          /\ LET kids == At(Top.at).kids
                 new == NewNode(Top.ty, Fresh)
             IN  \E slot \in IF Top.kind = "seq" THEN SeqEdits(kids, new) ELSE OptEdits(kids, new) :
                    tree' = Put(tree, Top.at, Holder(slot))
    /\ UNCHANGED <<visitor, visitMut, log>>

\* Or it walks the elements in retain_mut, and decides about each when it has walked it.
ViewRetain ==
    /\ Top.do = "view" /\ Top.pc = 0 /\ Top.kind = "seq" /\ visitMut /\ VisitorAt(Top.v).k = "pass"
    /\ edits < MaxEdits
    /\ Become([do |-> "retain", v |-> Top.v, at |-> Top.at, pc |-> 1, walked |-> FALSE])
    /\ UNCHANGED <<tree, visitor, visitMut, log, edits>>

\* Mutant of RetainKeep: the index stays behind when an element is kept.
RetainKeepStuck == UNCHANGED <<stack, tree, edits>>
RetainKeep == Become([Top EXCEPT !.pc = @ + 1, !.walked = FALSE]) /\ UNCHANGED <<tree, edits>>
RetainDrop ==
    /\ edits < MaxEdits
    /\ edits' = edits + 1
    /\ tree' = Put(tree, Top.at, Holder(RemoveAt(At(Top.at).kids, Top.pc)))
    /\ Become([Top EXCEPT !.walked = FALSE])

RetainStep ==
    /\ Top.do = "retain"
    /\ IF Top.pc > Len(At(Top.at).kids) THEN Return /\ UNCHANGED <<tree, edits>>
       ELSE IF Top.walked THEN RetainKeep \/ RetainDrop
       ELSE /\ Enter(Call(Top.v, Append(Top.at, Top.pc)), [Top EXCEPT !.walked = TRUE])
            /\ UNCHANGED <<tree, edits>>
    /\ UNCHANGED <<visitor, visitMut, log>>

ViewStep ==
    /\ Top.do = "view" /\ Top.pc > 0
    /\ IF Top.pc > Len(At(Top.at).kids) THEN Return
       ELSE Enter(Call(Top.v, Append(Top.at, Top.pc)), [Top EXCEPT !.pc = @ + 1])
    /\ UNCHANGED <<tree, visitor, visitMut, log, edits>>

\* --- the specification ---

\* node.visit(v) and node.visit_mut(v).
Init ==
    /\ tree \in Trees /\ visitor \in Visitors /\ visitMut \in Sides
    /\ stack = <<Call(<<>>, <<>>)>>
    /\ log = <<>> /\ edits = 0

Returned == stack = <<>>

Next ==
    \/ /\ ~Returned
       /\ \/ CallForward \/ CallHook \/ BodyStep
          \/ WalkHere \/ WalkSkip \/ WalkThru \/ WalkSlots
          \/ ViewBegin \/ ViewRetain \/ RetainStep \/ ViewStep
    \/ Returned /\ UNCHANGED vars

\* A call runs to its end: nothing in it waits.
Spec == Init /\ [][Next]_vars /\ WF_vars(Next)

\* --- what a walk should offer, by what the fields hold and not by what they are spelled ---

Known(tag, ty) == \E p \in Range(Chain[tag].reach) : Rooted(p) = ty
Intermediate(owner, ty) == ty = owner \/ \E e \in Range(Defs[owner].subast) : Rooted(e.path) = ty

\* The nodes of v, a value in a field of the type `owner` for which the module `tag` has the
\* code, in the order in which they are met.
RECURSIVE Met(_, _, _), Within(_, _)
Met(tag, owner, v) ==
    CASE v.k = "node" /\ Known(tag, v.ty) -> <<v>> \o Within(HomeOf(LastIdent(v.ty)), v)
      [] v.k = "node" /\ ~Known(tag, v.ty) /\ Intermediate(owner, v.ty) -> Within(tag, v)
      [] v.k = "ref" -> IF visitMut THEN <<>> ELSE Met(tag, owner, v.kids[1])
      [] v.k \in {"holder", "tuple"} -> FlattenSeq([i \in DOMAIN v.kids |-> Met(tag, owner, v.kids[i])])
      [] OTHER -> <<>>
Within(tag, node) ==
    LET fields == Defs[node.ty].variants[node.variant]
    IN  FlattenSeq([i \in DOMAIN fields |->
            IF fields[i].skip THEN <<>> ELSE Met(tag, node.ty, node.kids[i])])

RECURSIVE LeavesFrom(_)
LeavesFrom(addr) ==
    LET v == VisitorAt(addr)
    IN  IF v.k \in {"pass", "driver"} THEN <<addr>>
        ELSE FlattenSeq([i \in DOMAIN v.parts |-> LeavesFrom(Append(addr, i))])
\* The passes and drivers that the visitor is made of, in the order they are called.
Leaves == LeavesFrom(<<>>)

\* How many of them have walked the tree, when one has just done so and no other has begun.
WalksDone ==
    IF Returned THEN Len(Leaves)
    ELSE IF Top.do = "call" /\ Top.at = <<>>
         THEN Len(SelectSeq(Leaves, LAMBDA a : \A i \in DOMAIN stack : ~IsPrefix(stack[i].v, a)))
         ELSE 0

HooksOf(leaf) == IF VisitorAt(leaf).k = "pass" THEN {0} ELSE DOMAIN VisitorAt(leaf).heads
Answers(leaf, j, node) == j = 0 \/ VisitorAt(leaf).heads[j] = LastIdent(node.ty)
OfferedTo(leaf, j) == LET own == SelectSeq(log, LAMBDA e : e[1] = <<leaf, j>>)
                      IN  [i \in DOMAIN own |-> own[i][2]]

\* A walk offers to each hook every node of its type that is then in the tree, each once, in
\* the order in which they stand: whatever wrappers, tuples, aliases, unlisted types and
\* inherited types are in between, and whatever the hooks have edited on the way.
WalkOffersAll ==
    WalksDone > 0 =>
        LET leaf == Leaves[WalksDone]
            all == Met(HomeOf(LastIdent(tree.ty)), tree.ty, tree)
        IN  \A j \in HooksOf(leaf) :
                LET offered == OfferedTo(leaf, j)
                    mine == SelectSeq(all, LAMBDA n : Answers(leaf, j, n))
                IN  /\ IsInjective(offered)
                    /\ SelectSeq(offered, LAMBDA id : id \in Ids(tree)) = [i \in DOMAIN mine |-> mine[i].id]

\* Every call of Walk has an impl: the indicator that the macro read off the spelling of a
\* field fits the value there, and visit_mut meets no shared reference.
WalkFits ==
    \A i \in DOMAIN stack :
        LET f == stack[i]
            v == At(f.at)
        IN  f.do = "walk" =>
                CASE f.ind = Here -> /\ v.k = "node"
                                     /\ \/ Known(f.tag, v.ty)
                                        \/ \E p \in Chain[f.tag].done : Rooted(p) = v.ty
                  [] f.ind.at = "thru" -> v.k = "holder" \/ (v.k = "ref" /\ ~visitMut)
                  [] f.ind.at = "slots" -> v.k = "tuple" /\ Len(v.kids) = Len(f.ind.slots)
                  [] f.ind = Skip -> TRUE

\* The entries of the log at these places come from one walk: a node is offered to all
\* before any of them gets another.
InOneWalk(places) ==
    \A a, b, c \in places :
        a < b /\ b < c /\ log[a][2] = log[c][2] => log[b][2] = log[a][2]

\* A tuple of closures shares one walk: each node is offered to all of its closures before
\* any of them gets another node.
ClosuresShareTheWalk ==
    \A hook \in {e[1] : e \in Range(log)} : InOneWalk({i \in DOMAIN log : log[i][1][1] = hook[1]})

\* Every walk ends.
WalkReturns == <>Returned
=============================================================================
