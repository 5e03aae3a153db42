------------------------- MODULE MCVisitorDiscovery -------------------------
(***************************************************************************)
(* Discovery over the definitions of a small language, with any one or two *)
(* of its types listed, with and without a base that visits some of them.  *)
(***************************************************************************)
EXTENDS VisitorDiscovery, VisitorLower, TLC

Listed(name) == <<"crate", "ast", name>>
Exported(name) == <<"$crate", "ast", name>>

Of(name) == Named(<<name>>, <<>>)
In(holder, ty) == Named(<<holder>>, <<ty>>)
Def(ident, subast, types) ==
    [ident |-> ident, params |-> <<>>, subast |-> [i \in DOMAIN subast |-> Entry(Exported(subast[i]), subast[i])],
     variants |-> <<[i \in DOMAIN types |-> Plain(types[i])]>>]

Types == {"Item", "Stmt", "Expr", "Call", "Args", "Attr", "Pat"}
MCDefs ==
    [n \in Types |->
        CASE n = "Item" -> Def(n, <<"Attr">>, <<In("Vec", Of("Stmt")), Of("Attr"), Of("Span")>>)
          [] n = "Stmt" -> Def(n, <<"Attr", "Pat", "Expr">>,
                               <<Of("Expr"), In("Vec", TupleTy(<<Of("Attr"), Of("Pat")>>))>>)
          [] n = "Expr" -> Def(n, <<"Call">>, <<In("Box", Of("Expr")), Of("Call")>>)
          [] n = "Call" -> Def(n, <<"Args", "Expr">>,
                               <<Of("Expr"), In("Vec", Of("Args")), In("Box", Of("Call")), Of("Args")>>)
          [] n = "Args" -> Def(n, <<"Attr", "Call", "Pat">>, <<Of("Attr"), TupleTy(<<Of("Call"), Of("Pat")>>)>>)
          [] n = "Attr" -> Def(n, <<>>, <<Of("Span")>>)
          [] n = "Pat" -> [Def(n, <<>>, <<In("Box", Of("Pat")), In("Option", Of("Guard"))>>)
                              EXCEPT !.subast = <<Entry(Exported("Expr"), "Guard")>>]]

\* Every type by the path it is listed with and by the one that derive(Ast) exports.
MCPaths == {Listed(n) : n \in Types} \cup {Exported(n) : n \in Types}
MCKey(path) == path
Leading ==
    [n \in Types |->
        [heads \in SUBSET Types |-> FollowedIntermediates([reach |-> [h \in heads |-> <<h>>]], MCDefs[n])]]
MCFollowed(path, heads) == Leading[LastIdent(path)][heads]

Lists == UNION {{s \in [1..n -> {Listed(t) : t \in Types}] : IsInjective(s)} : n \in 1..2}
MCRequests ==
    {Request(s, FALSE, {}) : s \in Lists}
        \cup {Request(s, TRUE, heads) : s \in Lists, heads \in {{}, {"Expr"}, {"Attr", "Args"}}}

ASSUME Distinguished == KeysTell /\ LeadsElsewhere
=============================================================================
