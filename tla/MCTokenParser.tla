--------------------------- MODULE MCTokenParser ---------------------------
(***************************************************************************)
(* Parsing proc_macro2 tokens: types that ask for spacing, that backtrack  *)
(* over glued punctuation and that descend into groups, on every stream of *)
(* up to four tokens a compiler can produce and some longer ones.          *)
(***************************************************************************)
EXTENDS ParsedValues, GrammarNodes

\* An identifier, two punctuations with either spacing, and groups: (), (a)
\* and (+=) in parentheses, {a} in braces; (+ =) is what (+=) is written as.
Glued == {"+.", "=."}
Puncts == {"+", "="} \cup Glued
Parens == {"()", "(a)", "(+=)", "(+ =)"}
Tokens == {"a", "{a}"} \cup Puncts \cup Parens

Contents == ( "()" :> <<>> @@ "(a)" :> <<"a">> @@ "(+=)" :> <<"+.", "=">> @@ "(+ =)" :> <<"+", "=">>
           @@ "{a}" :> <<"a">> )

TokenRules ==
    ( "a" :> Leaf({"a"}) @@ "plus" :> Leaf({"+", "+."}) @@ "eq" :> Leaf({"=", "=."})
   @@ "unit" :> Tuple(<<>>)
   @@ "paren" :> GroupOf("unit", TokenDelims(Parens))
   @@ "brace" :> GroupOf("a", TokenDelims({"{a}"}))
   @@ "AddEq" :> JointOf(<<"plus", "eq">>)
   \* the compound operator, or else its first half on its own
   @@ "Op" :> Enum(<< <<Field("plus"), JointField("eq"), JointField("eq")>>,
                      <<Field("plus"), JointField("eq")>>,
                      <<Field("plus"), AloneField("a")>> >>)
   @@ "Ops" :> VecOf("Op")
   @@ "op?" :> OptionOf("AddEq") @@ "try" :> AttemptOf("AddEq")
   \* spacing asked for after a transaction was rewound
   @@ "Maybe" :> Struct(<<Field("plus"), Field("op?"), JointField("eq")>>)
   @@ "Swap" :> UnorderedOf("try", "plus")
   \* holders: contents of one field, of two, and a plain brace group
   @@ "Call" :> Enum(<< <<Field("a"), Field("paren"), GroupField("AddEq")>>,
                        <<Field("a"), Field("paren"), GroupField("plus"),
                          GroupField("eq"), Field("brace")>>,
                        <<Field("a"), Field("brace")>> >>)
   @@ "Calls" :> PunctuatedBy("Call", "eq")
   \* spans across a group, a rewind and an alternative
   @@ "Call+" :> SpannedOf("Call") @@ "Op+" :> SpannedOf("Op")
   \* values to be written back: contents, orders, defaults and repetitions
   @@ "order" :> UnorderedOf("eq", "plus") @@ "a?" :> OptionOf("a")
   @@ "braces" :> VecOf("brace") @@ "sum!" :> AttemptOf("Sum")
   @@ "Sum" :> Enum(<< <<Field("a"), Field("paren"), GroupField("order"), GroupField("a?")>>,
                       <<Field("order")>>,
                       <<AloneField("plus"), Field("sum!")>>,
                       <<Field("a"), DefaultField("eq"), Field("braces")>> >>)
   @@ "Sums" :> PunctuatedBy("Sum", "eq")
   @@ "Ops+" :> VecOf("Op+")
   @@ "Spans" :> SpannedOf("Pair") @@ "Pair" :> Tuple(<<"Call+", "Ops+">>) )

TokenRoots == {"AddEq", "Ops", "Maybe", "Swap", "Calls", "Spans", "Sums"}

\* Result<T, E> over the second half of a compound operator, then #[joint].
ResultRules ==
    ( "plus" :> Leaf({"+", "+."}) @@ "eq" :> Leaf({"=", "=."})
   @@ "plus!" :> ResultOf("plus")
   @@ "Root" :> Struct(<<Field("plus"), Field("plus!"), JointField("eq")>>) )

\* The arguments of a call: a list of identifiers inside parentheses.
ArgumentRules ==
    ( "a" :> Leaf({"a"}) @@ "eq" :> Leaf({"=", "=."})
   @@ "list" :> PunctuatedBy("a", "eq")
   @@ "Root" :> GroupOf("list", TokenDelims(Parens)) )

\* An enum each of whose alternatives gets farther than the one before it, the last to the end.
AlternativeRules ==
    ( "a" :> Leaf({"a"}) @@ "plus" :> Leaf({"+", "+."}) @@ "eq" :> Leaf({"=", "=."})
   @@ "Root" :> Enum(<< <<Field("plus")>>, <<Field("a"), Field("a")>>, <<Field("a"), Field("eq"), Field("a")>> >>) )

\* A compiler glues a punctuation only to another one.
ShortStreams ==
    {ts \in BoundedSeq(Tokens \ {"(+ =)"}, 4) :
        \A i \in DOMAIN ts :
            ts[i] \in Glued => i < Len(ts) /\ ts[i + 1] \in Puncts}

LongStreams ==
    {<<"a", "{a}", "=", "a", "(+=)">>,
     <<"a", "(+=)", "=", "a", "(+=)", "{a}", "=">>,
     <<"+.", "=.", "=", "+.", "=", "+", "a", "+.", "=.", "+">>}

Calls(roots) ==
    {[root |-> r, input |-> ts] : r \in roots, ts \in ShortStreams \cup LongStreams}

TokenJobs == Calls(TokenRoots)
RootJobs == Calls({"Root"})

AlternativeJobs == {[root |-> "Root", input |-> <<"a", "=">>]}
=============================================================================
