---------------------------- MODULE MCTextParser ----------------------------
(***************************************************************************)
(* Parsing text: one type for each combinator and each shape of derived    *)
(* type, on every text of up to four characters and some longer ones.      *)
(***************************************************************************)
EXTENDS ParsedValues, GrammarNodes

Letters == {"x", "y", ",", " ", "(", ")"}
Digits == {"8", "_", "u", " "}
Chars == Letters \cup Digits

Paren == TextDelims("open", "close")

TextRules ==
    ( "x" :> Leaf({"x"}) @@ "y" :> Leaf({"y"}) @@ "comma" :> Leaf({","})
   @@ "open" :> Leaf({"("}) @@ "close" :> Leaf({")"})
   @@ "unit" :> Tuple(<<>>) @@ "xy" :> Tuple(<<"x", "y">>)
   @@ "list" :> PunctuatedBy("x", "comma") @@ "comma?" :> OptionOf("comma")
   @@ "List" :> Struct(<<Field("list"), DefaultField("x"), Field("comma?")>>)
   \* an enum whose last variant is the shared prefix alone, the fallback
   @@ "Fallback" :> Enum(<< <<Field("x"), JointField("y")>>,
                            <<Field("x"), AloneField("y"), Field("comma")>>,
                            <<Field("x")>> >>)
   @@ "Vec" :> VecOf("Fallback")
   \* variants that share two fields
   @@ "Shared" :> Enum(<< <<Field("x"), Field("y"), Field("comma")>>,
                          <<Field("x"), Field("y"), Field("x")>> >>)
   \* a recursive type, whose variants share a group holder but not its content
   @@ "paren" :> GroupOf("unit", Paren)
   @@ "Call" :> Enum(<< <<Field("x"), Field("paren"), GroupField("Arg")>>,
                        <<Field("x"), Field("paren"), GroupField("y"), Field("comma")>>,
                        <<Field("x"), Field("paren"), GroupField("y")>> >>)
   @@ "Arg" :> Enum(<< <<Field("Call")>>, <<Field("x")>> >>)
   @@ "Group" :> GroupOf("list", Paren)
   @@ "Joint" :> JointOf(<<"x", "comma", "y">>)
   @@ "Unordered" :> UnorderedOf("xy", "x")
   @@ "Attempt" :> AttemptOf("xy")
   @@ "u" :> Leaf({"u"}) @@ "us" :> VecOf("u")
   @@ "int" :> IntegerOf({"8"}, {"_"}, {"8", "u"}, {<<"u", "8">>})
   @@ "Number" :> Struct(<<Field("int"), JointField("us")>>)
   @@ "xy!" :> ResultOf("xy")
   @@ "Result" :> Struct(<<Field("xy!"), JointField("y")>>)
   \* spans of what backtracks, hands back, skips separators and nests
   @@ "Arg+" :> SpannedOf("Arg")
   @@ "Pair" :> Struct(<<Field("Group"), Field("Arg+")>>)
   @@ "Spans" :> SpannedOf("Pair") )

TextRoots == {"List", "Vec", "Shared", "Call", "Group", "Joint", "Unordered",
              "Attempt", "Result", "Spans"}

NoGroups == [g \in {} |-> <<>>]

LongTexts ==
    {<<"x", "(", "y", ")", ",">>, <<"x", "(", "x", "(", "y", ")", ")">>,
     <<"x", "(", "x", "(", " ", "x", ")", " ", ")">>,
     <<"x", " ", "x", "y", " ", "x", " ", "y", ",">>,
     <<"(", " ", "x", " ", ",", "x", ",", ")">>}

Calls(roots, texts) == {[root |-> r, input |-> t] : r \in roots, t \in texts}

TextJobs ==
    Calls(TextRoots, BoundedSeq(Letters, 4) \cup LongTexts)
    \cup Calls({"Number"}, BoundedSeq(Digits, 5))
=============================================================================
