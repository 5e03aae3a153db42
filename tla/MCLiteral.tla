----------------------------- MODULE MCLiteral ------------------------------
(***************************************************************************)
(* Tokens with every prefix and short contents, and built values of every  *)
(* type with them.                                                         *)
(***************************************************************************)
EXTENDS LiteralClient

Quoted(prefix, mark, body) == Literal(prefix \o <<mark>> \o body \o <<mark>>)
RawLit(prefix, n, body) == Literal(prefix \o Repeat(Hash, n) \o <<Quote>> \o body \o <<Quote>> \o Repeat(Hash, n))

CharBodies == {<<"a">>} \cup {<<Back, c>> : c \in {"n", "t", "r", Back, Tick, "0", "x41"}}
Bodies == {<<>>, <<"a">>, <<"a", "a">>, <<Back, "n">>, <<Back, Quote>>, <<Back, Back>>, <<"a", Back, Quote, "a">>, <<Newline>>}
Numbers ==
    {<<"1">>, <<"1", "0">>, <<"1", "_", "0">>, <<"1", "u8">>, <<"1", "_", "i64">>, <<"0", "x", "u8">>, <<"1", "f64">>,
     <<"1", "e", "1">>, <<"1", ".">>, <<"1", ".", "0">>, <<"1", ".", "0", "f64">>, <<"1", ".", "0", "e", "-", "1">>,
     <<"1", "_", "0", ".", "0">>, <<"-", "1">>, <<"-", "1", "u8">>}

MCSources ==
    {Ident(n) : n \in {"true", "false", "c"}} \cup {Literal(n) : n \in Numbers}
        \cup {[kind |-> "punct", text |-> <<",">>]}
        \cup {Quoted(<<>>, Tick, b) : b \in CharBodies \cup {<<Wide>>, <<Quote>>}}
        \cup {Quoted(<<"b">>, Tick, b) : b \in CharBodies \cup {<<Quote>>, <<Back, "xff">>}}
        \cup {Quoted(p, Quote, b) : p \in {<<>>, <<"b">>, <<"c">>}, b \in Bodies}
        \cup {RawLit(p, n, b) : p \in {<<"r">>, <<"b", "r">>, <<"c", "r">>}, n \in 0..2, b \in {<<>>, <<"a">>, <<Back, "n">>}}
        \cup {RawLit(p, 1, <<Quote>>) : p \in {<<"r">>, <<"b", "r">>, <<"c", "r">>}}

MCBuilt ==
    {Value("Bool", <<b>>) : b \in {"true", "false"}}
        \cup {Value("Char", <<c>>) : c \in {"a", Tick, Quote, Back, Newline, Zero, Wide}}
        \cup {Value("ByteChar", <<c>>) : c \in {"a", Tick, Quote, Back, Tab, Return, Zero, High}}
        \cup {Value(t, b) : t \in {"Str", "ByteStr", "CStr"}, b \in Bodies \cup {<<Quote>>, <<Back>>, <<Back, Back, Quote>>}}
        \cup {[Value(t, b) EXCEPT !.hashes = n] :
                  t \in {"StrRaw", "ByteStrRaw", "CStrRaw"}, n \in 0..2, b \in Bodies \cup {<<Quote>>, <<Quote, Hash>>}}
=============================================================================
