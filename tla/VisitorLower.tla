---------------------------- MODULE VisitorLower ----------------------------
(***************************************************************************)
(* What visitor! generates for the body of a visit_* function              *)
(* (macro/visitor/lower.rs, discover.rs, params.rs): for each field of a   *)
(* node nothing, a Walk call with an indicator, or a call of the view      *)
(* method of a #[seq] or #[opt] field; or an error at expansion time.      *)
(*                                                                         *)
(* A visitor is a record: `reach` maps the last segment of every type that *)
(* it can name, its own and the inherited ones, to the path it names it    *)
(* by, `visited` has the last segments of its own, and `done` the paths    *)
(* that were fetched.                                                      *)
(***************************************************************************)
EXTENDS AstTypes

CONSTANT Defs  \* from the absolute path of a type to what its derive(Ast) exports

\* A #[subast] path is exported with $crate for crate.
Rooted(path) == IF path[1] = "$crate" THEN <<"crate">> \o Tail(path) ELSE path
DefOf(path) == Defs[Rooted(path)]

Entry(path, key) == [path |-> path, key |-> key]
Field(ty, view, skip) == [ty |-> ty, view |-> view, skip |-> skip]
Plain(ty) == Field(ty, "none", FALSE)

MethodSet(vis) == DOMAIN vis.reach

Keys(def) == {e.key : e \in Range(def.subast)}
\* What counts as a head in the fields of a type.
UserTypes(vis, def) == {def.ident} \cup Keys(def) \cup MethodSet(vis)

EntryOf(def, head) == LET fit == SelectSeq(def.subast, LAMBDA e : e.key = head) IN fit[1]

\* --- discovery: the types to fetch because a field of `def` leads to them ---

RECURSIVE FollowedIn(_, _, _)
FollowedIn(vis, def, ty) ==
    LET p == Peel(ty, UserTypes(vis, def))
        head == LastIdent(p.head.wrote)
    IN  CASE p.head.k = "none" -> <<>>
          [] p.head.k = "tuple" ->
                FlattenSeq([i \in DOMAIN p.head.elems |-> FollowedIn(vis, def, p.head.elems[i])])
          [] p.head.k = "path" ->
                IF head = def.ident \/ head \notin Keys(def) THEN <<>>
                ELSE LET path == EntryOf(def, head).path
                     IN  IF LastIdent(path) \in MethodSet(vis) THEN <<>> ELSE <<path>>

FollowedIntermediates(vis, def) ==
    LET fields == FlattenSeq(def.variants)
    IN  FlattenSeq([i \in DOMAIN fields |-> FollowedIn(vis, def, fields[i].ty)])

\* --- lowering ---

Nowhere == <<>>
\* The path of the type that a followed head stands for, in a field of the node at `owner`.
Resolved(vis, owner, wrote) ==
    LET def == DefOf(owner)
        head == LastIdent(wrote)
        real == LastIdent(EntryOf(def, head).path)
    IN  CASE head = def.ident -> owner
          [] head # def.ident /\ head \in Keys(def) ->
                IF real \in MethodSet(vis) THEN vis.reach[real] ELSE EntryOf(def, head).path
          [] OTHER ->
                IF head \in MethodSet(vis) /\ PathMayDenote(wrote, vis.reach[head], owner)
                THEN vis.reach[head] ELSE Nowhere

\* The type arguments of a field's head, each with the parameter it is for.  The head's
\* definition is looked up without $crate, under which unlisted types are kept.
HandsOverLostType(vis, args, path, ownerTypes) ==
    LET def == DefOf(path)
        types == {def.ident} \cup Keys(def) \cup MethodSet(vis)
        Holds(ty, param) ==
            LET p == Peel(ty, types \cup {param})
            IN  /\ ~(ty.k = "path" /\ LastIdent(ty.path) = "PhantomData")
                /\ p.head.k = "path" /\ LastIdent(p.head.wrote) = param
    IN  /\ Rooted(path) \in vis.done
        /\ \E i \in DOMAIN args \cap DOMAIN def.params :
              /\ Follows(Peel(args[i], ownerTypes))
              /\ \E f \in ItemFields(def) : Holds(f.ty, def.params[i])

Rejection == "rejected"

\* What a field, a head or a type leads to: "visit" if the walk enters it, Rejection if the
\* macro gives an error.  The trail has the unlisted types that are being drilled into.
RECURSIVE FieldLeads(_, _, _, _, _), TypeLeads(_, _, _, _)

FieldLeads(vis, mutable, owner, f, trail) ==
    LET users == UserTypes(vis, DefOf(owner))
        p == Peel(f.ty, users)
        target == Resolved(vis, owner, p.head.wrote)
        elems == p.head.elems
        marked == f.view # "none"
        viewable == /\ p.head.k = "path" /\ target # Nowhere
                    /\ LastIdent(target) \in MethodSet(vis)
                    /\ p.conts = <<"view">>
        lost == /\ p.head.k = "path" /\ target # Nowhere
                /\ HandsOverLostType(vis, p.head.args, target, users)
    IN  CASE f.skip -> IF marked THEN {Rejection} ELSE {}
          [] ~f.skip /\ ~Follows(p) -> IF marked THEN {Rejection} ELSE {}
          [] ~f.skip /\ Follows(p) /\ mutable /\ p.sharedRef -> {}
          [] OTHER ->
                CASE lost -> {Rejection}
                  [] ~lost /\ marked -> IF viewable THEN {"visit"} ELSE {Rejection}
                  [] ~lost /\ ~marked /\ p.head.k = "tuple" ->
                        UNION {FieldLeads(vis, mutable, owner, Plain(elems[i]), trail) : i \in DOMAIN elems}
                  [] OTHER -> IF target = Nowhere THEN {} ELSE TypeLeads(vis, mutable, target, trail)

TypeLeads(vis, mutable, path, trail) ==
    IF LastIdent(path) \in MethodSet(vis) THEN {"visit"}
    ELSE IF path \in trail \/ path \notin vis.done THEN {Rejection}
    ELSE UNION {FieldLeads(vis, mutable, path, f, trail \cup {path}) : f \in ItemFields(DefOf(path))}

\* The statement for a field: a Walk call, a call of the view method of the type `head`, or
\* none.
NoStmt == [op |-> "none"]
WalkAt(ind) == [op |-> "walk", ind |-> ind]
ViewAt(kind, head) == [op |-> "view", kind |-> kind, head |-> head]

FieldStmt(vis, mutable, owner, f) ==
    LET users == UserTypes(vis, DefOf(owner))
    IN  IF "visit" \notin FieldLeads(vis, mutable, owner, f, {}) THEN NoStmt
        ELSE IF f.view = "none" THEN WalkAt(Indicator(f.ty, users))
        ELSE ViewAt(f.view, Resolved(vis, owner, Peel(f.ty, users).head.wrote))

\* The arm of one variant, in the visit_* function of the type or, for an unlisted type, in
\* its Walk impl: a statement for each field.
Body(vis, mutable, owner, variant) ==
    LET fields == DefOf(owner).variants[variant]
    IN  [i \in DOMAIN fields |-> FieldStmt(vis, mutable, owner, fields[i])]

\* The types for which the module has code: its own and the unlisted ones it fetched.
Generated(vis) == {p \in vis.done : LastIdent(p) \in vis.visited \/ LastIdent(p) \notin MethodSet(vis)}

\* The macro expands without an error.  A view of an inherited type has no method to call.
Accepts(vis) ==
    \A p \in Generated(vis), mutable \in BOOLEAN : \A f \in ItemFields(DefOf(p)) :
        LET led == FieldLeads(vis, mutable, p, f, {})
            viewed == Resolved(vis, p, Peel(f.ty, UserTypes(vis, DefOf(p))).head.wrote)
        IN  /\ Rejection \notin led
            /\ "visit" \in led /\ f.view # "none" => LastIdent(viewed) \in vis.visited
=============================================================================
