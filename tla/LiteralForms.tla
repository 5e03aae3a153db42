---------------------------- MODULE LiteralForms ----------------------------
(***************************************************************************)
(* The literal types over tokens (core/literal.rs, literal/parse_impl.rs,  *)
(* display_impl.rs, unparse_impl.rs): what each reads from the text of a   *)
(* token, and the text it is shown and emitted as.  A text is a sequence   *)
(* of characters, among which a suffix and what follows the backslash of   *)
(* an escape are one each.  None is the empty sequence.                    *)
(***************************************************************************)
EXTENDS Integers, SequencesExt

Quote == "\""
Tick == "'"
Back == "\\"
Hash == "#"
Newline == "newline"
Tab == "tab"
Return == "return"
Zero == "zero"
Wide == "wide"    \* a character of two bytes
High == "high"    \* a byte beyond ASCII
Bytes(c) == IF c = Wide THEN 2 ELSE 1

Types == {"Bool", "Char", "ByteChar", "Integer", "Float",
          "Str", "ByteStr", "CStr", "StrRaw", "ByteStrRaw", "CStrRaw"}

\* A token: of the literals the text, of an ident its name, or something else.
Literal(text) == [kind |-> "literal", text |-> text]
Ident(name) == [kind |-> "ident", text |-> <<name>>]

\* The values; `hashes` and `suffix` are there for the types that have them.
Value(ty, value) == [ty |-> ty, value |-> value, hashes |-> 0, suffix |-> <<>>]
None == <<>>
Panic == <<Value("panic", None)>>

Between(text, before, after) == SubSeq(text, before + 1, Len(text) - after)
Repeat(c, n) == [i \in 1..n |-> c]

\* The escapes of the table and the characters they stand for.
EscapeTable ==
    {<<"n", Newline>>, <<"t", Tab>>, <<"r", Return>>, <<Back, Back>>, <<Tick, Tick>>, <<"0", Zero>>}
\* Mutant of Unescape: the newline and the carriage return are swapped.
UnescapeSwapped(rest) ==
    IF rest = <<"n">> THEN {Return} ELSE IF rest = <<"r">> THEN {Newline}
    ELSE {e[2] : e \in {d \in EscapeTable : rest = <<d[1]>>}}
Unescape(rest) == {e[2] : e \in {d \in EscapeTable : rest = <<d[1]>>}}

\* --- reading ---

\* The rest of a raw form: the loop that counts the hashes takes the character after them too,
\* and the slice that takes off the quotes does not look whether there are two.
ReadRaw(rest) ==
    LET hashes == Min({i \in 0..Len(rest) : i = Len(rest) \/ rest[i + 1] # Hash})
        remaining == Between(rest, hashes + 1, 0)
    IN  IF IsPrefix(<<Quote>>, remaining) /\ IsSuffix(<<Quote>>, remaining)
        THEN IF Len(remaining) = 1 THEN Panic ELSE <<[value |-> Between(remaining, 1, 1), hashes |-> hashes]>>
        ELSE None

ReadRawAs(ty, prefix, text) ==
    LET raw == ReadRaw(Between(text, Len(prefix), 0))
    IN  IF ~IsPrefix(prefix, text) \/ raw = None THEN None
        ELSE IF raw = Panic THEN Panic
        ELSE <<[Value(ty, raw[1].value) EXCEPT !.hashes = raw[1].hashes]>>

ReadQuoted(ty, prefix, text) ==
    IF IsPrefix(prefix \o <<Quote>>, text) /\ IsSuffix(<<Quote>>, text)
    THEN <<Value(ty, Between(text, Len(prefix) + 1, 1))>> ELSE None

Digits == {"0", "1"}
IntSuffixes == {"u8", "i64"}
FloatSuffixes == {"f64"}
Unsuffixed(text, suffixes) == IF Last(text) \in suffixes THEN Front(text) ELSE text
SuffixOf(text, suffixes) == IF Last(text) \in suffixes THEN <<Last(text)>> ELSE <<>>

IsInteger(text) ==
    \A i \in DOMAIN text : text[i] \in Digits \cup {"_"} \/ (text[i] = "-" /\ text[1] = "-")
ReadInteger(text) ==
    IF "." \notin Range(text) /\ IsInteger(Unsuffixed(text, IntSuffixes))
    THEN <<[Value("Integer", Unsuffixed(text, IntSuffixes)) EXCEPT !.suffix = SuffixOf(text, IntSuffixes)]>>
    ELSE None

\* What str::parse::<f64> takes, of the texts that tokens have.
IsFloat(text) == \A i \in DOMAIN text : text[i] \in Digits \cup {".", "e", "-"}
\* Mutant of ReadFloat: a number needs no point.
ReadFloatAny(text) ==
    IF IsFloat(Unsuffixed(text, FloatSuffixes))
    THEN <<[Value("Float", Unsuffixed(text, FloatSuffixes)) EXCEPT !.suffix = SuffixOf(text, FloatSuffixes)]>>
    ELSE None
ReadFloat(text) ==
    IF "." \in Range(text) /\ IsFloat(Unsuffixed(text, FloatSuffixes))
    THEN <<[Value("Float", Unsuffixed(text, FloatSuffixes)) EXCEPT !.suffix = SuffixOf(text, FloatSuffixes)]>>
    ELSE None

\* What parse_lit is called with for a type.
ReadLit(ty, text) ==
    CASE ty = "Integer" -> ReadInteger(text)
      [] ty = "Float" -> ReadFloat(text)
      [] ty = "Str" -> ReadQuoted(ty, <<>>, text)
      [] ty = "ByteStr" -> ReadQuoted(ty, <<"b">>, text)
      [] ty = "CStr" -> ReadQuoted(ty, <<"c">>, text)
      [] ty = "StrRaw" -> ReadRawAs(ty, <<"r">>, text)
      [] ty = "ByteStrRaw" -> ReadRawAs(ty, <<"b", "r">>, text)
      [] ty = "CStrRaw" -> ReadRawAs(ty, <<"c", "r">>, text)

\* An ident is handed back unless it is one of the two.
ReadBool(name) == IF name \in {<<"true">>, <<"false">>} THEN <<Value("Bool", name)>> ELSE None

IsCharForm(ty, text) ==
    LET open == IF ty = "ByteChar" THEN <<"b", Tick>> ELSE <<Tick>>
    IN  IsPrefix(open, text) /\ IsSuffix(<<Tick>>, text)
\* A character between its quotes: one byte, or an escape of the table.
ReadChar(ty, text) ==
    LET inner == Between(text, IF ty = "ByteChar" THEN 2 ELSE 1, 1)
    IN  IF Len(inner) = 1 /\ Bytes(inner[1]) = 1 THEN <<Value(ty, inner)>>
        ELSE IF inner[1] = Back /\ Unescape(Tail(inner)) # {}
             THEN <<Value(ty, <<CHOOSE c \in Unescape(Tail(inner)) : TRUE>>)>>
        ELSE None

\* --- showing and emitting ---

\* A character in a literal where those of `marks` must be escaped, and Zero is written `zero`.
Escaped(c, marks, zero) ==
    CASE c \in marks -> <<Back, c>>
      [] c = Newline -> <<Back, "n">>
      [] c = Tab -> <<Back, "t">>
      [] c = Return -> <<Back, "r">>
      [] c = Zero -> <<Back, zero>>
      [] c = High -> <<Back, "xff">>
      [] OTHER -> <<c>>
EscapeAll(text, marks, zero) == FlattenSeq([i \in DOMAIN text |-> Escaped(text[i], marks, zero)])
\* str::replace of the backslashes and then of the quotes.
Doubled(text) == FlattenSeq([i \in DOMAIN text |-> IF text[i] \in {Back, Quote} THEN <<Back, text[i]>> ELSE <<text[i]>>])

PrefixOf(ty) ==
    CASE ty \in {"ByteStr", "ByteChar"} -> <<"b">> [] ty = "CStr" -> <<"c">> [] ty = "StrRaw" -> <<"r">>
      [] ty = "ByteStrRaw" -> <<"b", "r">> [] ty = "CStrRaw" -> <<"c", "r">> [] OTHER -> <<>>

Raw(v) == PrefixOf(v.ty) \o Repeat(Hash, v.hashes) \o <<Quote>> \o v.value \o <<Quote>> \o Repeat(Hash, v.hashes)

\* Mutant of ShowChar: the backslash is written as it is.
ShowCharBare(v) == PrefixOf(v.ty) \o <<Tick>> \o Escaped(v.value[1], {Tick}, "0") \o <<Tick>>
ShowChar(v) == PrefixOf(v.ty) \o <<Tick>> \o Escaped(v.value[1], {Back, Tick}, "0") \o <<Tick>>

Display(v) ==
    CASE v.ty = "Bool" -> v.value
      [] v.ty \in {"Char", "ByteChar"} -> ShowChar(v)
      [] v.ty \in {"Integer", "Float"} -> v.value \o v.suffix
      [] v.ty \in {"Str", "CStr"} -> PrefixOf(v.ty) \o <<Quote>> \o Doubled(v.value) \o <<Quote>>
      [] v.ty = "ByteStr" -> <<"b", Quote>> \o EscapeAll(v.value, {Back, Quote}, "x00") \o <<Quote>>
      [] OTHER -> Raw(v)

\* The literals that proc_macro2 builds from a value.
NewChar(ty, c) == PrefixOf(ty) \o <<Tick>> \o Escaped(c, {Back, Tick}, "0") \o <<Tick>>
NewStr(ty, text) == PrefixOf(ty) \o <<Quote>> \o EscapeAll(text, {Back, Quote}, "0") \o <<Quote>>

\* Whether the text lexes between quotes as it is: those in it are escaped, the one after it is not.
EscapedAt(text, i) == (i - 1 - Max({0} \cup {j \in 1..(i - 1) : text[j] # Back})) % 2 = 1
LexesQuoted(text) ==
    ~EscapedAt(text, Len(text) + 1) /\ \A i \in DOMAIN text : text[i] = Quote => EscapedAt(text, i)
\* Whether the text of a raw form lexes as one literal; that of a number of a token always does.
LexesRaw(v) ==
    ~\E i \in DOMAIN v.value :
        v.value[i] = Quote /\ i + v.hashes <= Len(v.value)
        /\ \A j \in (i + 1)..(i + v.hashes) : v.value[j] = Hash

\* The token that a value is emitted as.
Emitted(v) ==
    CASE v.ty = "Bool" -> Ident(v.value[1])
      [] v.ty \in {"Char", "ByteChar"} -> Literal(NewChar(v.ty, v.value[1]))
      [] v.ty \in {"Integer", "Float"} -> Literal(Display(v))
      [] v.ty \in {"Str", "ByteStr"} -> Literal(NewStr(v.ty, v.value))
      [] v.ty = "CStr" -> Literal(IF LexesQuoted(v.value) THEN <<"c", Quote>> \o v.value \o <<Quote>>
                                  ELSE NewStr("Str", v.value))
      [] OTHER -> Literal(IF LexesRaw(v) THEN Raw(v)
                          ELSE NewStr(IF v.ty = "ByteStrRaw" THEN "ByteStr" ELSE "Str", v.value))
=============================================================================
