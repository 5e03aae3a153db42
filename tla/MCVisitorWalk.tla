--------------------------- MODULE MCVisitorWalk ----------------------------
(***************************************************************************)
(* A module `base` that visits Ty and Expr, and one that extends it with   *)
(* Stmt.  The fields reach their nodes through a Vec, a Box, a map, a      *)
(* tuple, an alias, unlisted types, relative paths and views, and some     *)
(* fields hold nodes that must not be visited.                             *)
(***************************************************************************)
EXTENDS VisitorWalk

In(m, name) == <<"crate", m, name>>
Ty == In("ast", "Ty")
Expr == In("ast", "Expr")
Stmt == In("stmt", "Stmt")
Arg == In("ast", "Arg")       \* unlisted, reached through the #[subast] of Expr
Coerce == In("ops", "Cast")   \* unlisted, aliased
Other == In("other", "Expr")  \* not visited, with the name of a visited type

Name(n) == Named(<<n>>, <<>>)
Wrap(n, ty) == Named(<<n>>, <<ty>>)
Mine(path) == <<"$crate">> \o Tail(path)

Struct(ident, params, subast, fields) ==
    [ident |-> ident, params |-> params, subast |-> subast, variants |-> <<fields>>]
Enum(ident, params, subast, variants) ==
    [ident |-> ident, params |-> params, subast |-> subast, variants |-> variants]

MCDefs ==
       Ty :> Enum("Ty", <<>>, <<>>,
        << <<>>, <<Plain(Wrap("Box", Name("Ty"))), Plain(Named(<<"super", "other", "Expr">>, <<>>))>> >>)
    @@ Expr :> Enum("Expr", <<>>, <<Entry(Mine(Arg), "Arg"), Entry(Mine(Coerce), "Coercion")>>,
        << <<Plain(Name("u8"))>>,
           <<Field(Wrap("Vec", Name("Expr")), "seq", FALSE)>>,
           <<Plain(Wrap("Vec", Name("Arg")))>>,
           <<Plain(TupleTy(<<Name("u8"), Wrap("Box", Name("Coercion")), RawOf(Name("Ty"))>>))>>,
           <<Plain(RefTo(FALSE, Wrap("Vec", Name("Expr")))), Field(Name("Ty"), "none", TRUE),
             Plain(Named(<<"Map">>, <<Name("String"), Name("Expr")>>))>> >>)
    @@ Arg :> Struct("Arg", <<>>, <<>>,
        <<Plain(Name("String")), Plain(Wrap("Option", Named(Expr, <<>>)))>>)
    @@ Coerce :> Struct("Cast", <<>>, <<>>,
        <<Plain(Wrap("Box", Name("Expr"))), Plain(Name("Ty"))>>)
    @@ Stmt :> Enum("Stmt", <<>>, <<>>,
        << <<Plain(Named(<<"super", "ast", "Expr">>, <<>>)), Field(Wrap("Option", Name("Stmt")), "opt", FALSE)>>,
           <<Plain(TupleTy(<<Wrap("Vec", TupleTy(<<Name("Ty"), Name("Stmt")>>)),
                             Named(<<"Vec">>, <<Named(<<"super", "ast", "Expr">>, <<>>)>>)>>))>> >>)
    @@ Other :> Struct("Expr", <<>>, <<>>, << >>)

Base == [reach |-> "Ty" :> Ty @@ "Expr" :> Expr, visited |-> {"Ty", "Expr"},
         done |-> {Ty, Expr, Mine(Arg), Mine(Coerce)}]
Ext == [reach |-> "Ty" :> Ty @@ "Expr" :> Expr @@ "Stmt" :> Stmt, visited |-> {"Stmt"},
        done |-> {Stmt}]
MCChain == <<Base, Ext>>

ASSUME AcceptedAssumption == \A m \in DOMAIN Chain : Accepts(Chain[m])

\* --- trees ---

Fixed(ty, variant, kids) == Node(0, ty, variant, kids)
Foreign == Fixed(Other, 1, <<>>)
TyLeaf == Fixed(Ty, 1, <<>>)
Pointer == Fixed(Ty, 2, <<Holder(<<TyLeaf>>), Foreign>>)
Lit == Fixed(Expr, 1, <<Atom>>)
ArgOf(e) == Fixed(Arg, 1, <<Atom, Holder(e)>>)
CastOf(e) == Fixed(Coerce, 1, <<Holder(<<e>>), TyLeaf>>)

Exprs(inner) ==
    UNION {{Fixed(Expr, 2, <<Holder(<<e, Lit>>)>>),
            Fixed(Expr, 3, <<Holder(<<ArgOf(<<e>>), ArgOf(<<>>), ArgOf(<<Lit>>)>>)>>),
            Fixed(Expr, 4, <<Tup(<<Atom, Holder(<<CastOf(e)>>), Holder(<<TyLeaf, Pointer>>)>>)>>),
            Fixed(Expr, 5, <<SharedRef(Holder(<<e>>)), TyLeaf, Holder(<<e, Lit>>)>>)} : e \in inner}
Let(e, s) == Fixed(Stmt, 1, <<e, Holder(s)>>)
Block(s, e) == Fixed(Stmt, 2, <<Tup(<<Holder(<<Tup(<<TyLeaf, s>>)>>), Holder(<<e>>)>>)>>)

Small == Exprs({Lit})
Shapes == Exprs(Small) \cup {Let(e, <<>>) : e \in Small}
          \cup {Let(Lit, <<Block(Let(e, <<>>), Lit)>>) : e \in Small}

\* The tree with its nodes numbered by their places.
RECURSIVE Numbered(_, _)
Numbered(v, n) ==
    LET kids == [i \in DOMAIN v.kids |-> Numbered(v.kids[i], 4 * n + i)]
        new == [v EXCEPT !.kids = kids]
    IN  IF v.k = "node" THEN [new EXCEPT !.id = n] ELSE new

MCTrees == {Numbered(v, 1) : v \in Shapes}

MCNewNode(ty, n) ==
    CASE ty = Ty -> Node(n, Ty, 2, <<Holder(<<Node(n + 1, Ty, 1, <<>>)>>), Foreign>>)
      [] ty = Stmt -> Node(n, Stmt, 1, <<Node(n + 1, Expr, 1, <<Atom>>), Holder(<<>>)>>)
      [] OTHER -> Node(n, Expr, 2, <<Holder(<<Node(n + 1, Expr, 1, <<Atom>>)>>)>>)

MCVisitors == {Forward(Pass), Driver(<<"Expr">>), Driver(<<"Ty", "Expr", "Expr">>),
               Tuple(<<Forward(Pass), Tuple(<<Pass, Pass>>)>>)}
=============================================================================
