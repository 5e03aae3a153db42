------------------------------ MODULE MCRecurse ------------------------------
(***************************************************************************)
(* Modules of two types that may refer to each other, directly, through    *)
(* groups or through a type with impls of its own, under any mix of        *)
(* derives and imports.                                                    *)
(***************************************************************************)
EXTENDS Recurse

Derive(names) == Attr("derive", [i \in DOMAIN names |-> <<names[i]>>])
Group(holder) == Attr("group", <<holder>>)
Boxed(t) == {<<"Box">>, <<t>>}
PlainOf(ty) == Field("V", "x", ty, <<Attr("joint", <<>>)>>)
Grouped(variant, content, ty) ==
    <<Field(variant, "h", {<<"GroupBrace">>}, <<>>), Field(variant, content, ty, <<Group("h"), Attr("seq", <<>>)>>)>>

AFields ==
    {<<PlainOf(Boxed("B"))>>,
     <<PlainOf({<<"Box">>, <<"m", "A">>})>>,
     Grouped("V", "c", Boxed("B")),
     Grouped("V", "c", Boxed("B")) \o <<Field("W", "t", {<<"Token">>}, <<>>)>> \o Grouped("W", "d", {<<"B">>}),
     Grouped("V", "c", {<<"Integer">>}) \o <<Field("V", "d", Boxed("B"), <<Group("h"), Attr("default", <<>>)>>),
                                             Field("W", "x", Boxed("A"), <<Attr("seq", <<>>)>>)>>,
     <<PlainOf({<<"H">>}), Field("V", "y", {<<"m", "B">>}, <<Attr("default", <<>>)>>)>>}
BFields ==
    {<<Field("", "x", Boxed("A"), <<Attr("opt", <<>>)>>)>>,
     <<Field("", "x", {<<"Integer">>}, <<>>)>>,
     Grouped("", "c", {<<"A">>}) \o <<Field("", "y", {<<"m", "A">>}, <<Attr("alone", <<>>), Attr("skip", <<>>)>>)>>}
SubastOf(t) == Attr("subast", <<[path |-> <<"crate", t>>, alias |-> None], [path |-> <<t>>, alias |-> <<"Also">>]>>)
Attrs(t) ==
    {<<Derive(<<"Unparse">>)>>,
     <<Derive(<<"Parse", "Unparse", "Spanned">>)>>,
     <<Derive(<<"Debug", "Unparse">>), SubastOf(t), Attr("derive", <<<<"syan", "parse", "Parse">>, <<"Ast">>>>), Attr("group", <<"x">>)>>,
     <<Attr("macro_derive", <<<<"Spanned">>>>), Derive(<<"Ast">>), SubastOf(t)>>}

Adt(kind, name, attrs, fields) == [kind |-> kind, name |-> name, attrs |-> attrs, fields |-> fields]
Imports ==
    {Use({Leaf(<<"syan", "parse", "Parse">>, "Parse", {"type", "macro"}), Leaf(<<"syan", "parse", "Unparse">>, "Unparse", {"type", "macro"}),
          Leaf(<<"syan", "literal", "Integer">>, "Integer", {"type"})}),
     Use({Leaf(<<"syan", "parse", "Parse">>, "P", {"type", "macro"}), Leaf(<<"other", "Print">>, "Unparse", {"type"}),
          Leaf(<<"syan", "Span">>, "Spanned", {"type", "macro"})})}
ByHand == <<Adt("struct", "H", <<>>, <<Field("", "x", Boxed("A"), <<>>)>>), Impl("Parse", <<"H">>, {Bound(<<"A">>, TRUE, FALSE)})>>
\* Beside A with a group in its variant V, a struct A_V with one; and a type called like its trait.
Clashing ==
    [body |-> TRUE,
     items |-> <<Adt("enum", "A", <<Derive(<<"Parse", "Unparse">>)>>, Grouped("V", "c", Boxed("A"))),
                 Adt("struct", "A_V", <<Derive(<<"Parse", "Spanned">>)>>, Grouped("", "c", {<<"Integer">>}))>>]
LikeItsTrait ==
    [body |-> TRUE,
     items |-> <<Adt("enum", "Spanned", <<Attr("derive", <<<<"syan", "span", "Spanned">>>>)>>, <<PlainOf(Boxed("Spanned"))>>)>>]

MCModules ==
    {[body |-> TRUE, items |-> its] :
        its \in {<<use, Adt("enum", "A", as, fs)>> \o hand \o <<Adt("struct", "B", bs, gs)>> :
                       use \in Imports, as \in Attrs("B"), fs \in AFields, bs \in Attrs("A"), gs \in BFields, hand \in {<<>>, ByHand}}}
        \cup {[body |-> FALSE, items |-> <<>>], Clashing, LikeItsTrait,
              [body |-> TRUE, items |-> <<Adt("enum", "A", <<Derive(<<"Ast", "Debug">>)>>, <<PlainOf(Boxed("A"))>>), [kind |-> "other"]>>]}
MCArguments == {<<>>, <<"structural">>, <<"limit", "=", "2">>}
=============================================================================
