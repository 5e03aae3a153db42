---------------------------- MODULE LiteralProofs ----------------------------
(***************************************************************************)
(* The literal types tell tokens apart, and the types that resolve their   *)
(* token read back what they emit, whatever the token's text.              *)
(***************************************************************************)
EXTENDS LiteralClient, SequenceTheorems, TLAPS

-----------------------------------------------------------------------------
(* How a token that a type takes begins. *)

\* The first characters of a text.
LEMMA PrefixOne ==
    ASSUME NEW S, NEW text \in Seq(S), NEW a, IsPrefix(<<a>>, text)
    PROVE  Len(text) \in Nat /\ Len(text) >= 1 /\ text[1] = a
<1> DEFINE one == <<a>>
<1>1. Len(one) = 1 /\ one[1] = a /\ Len(text) \in Nat
  BY LenProperties
<1>2. Len(text) >= 1 /\ SubSeq(one, 1, 1) = SubSeq(text, 1, 1)
  BY <1>1 DEF IsPrefix
<1>3. SubSeq(one, 1, 1)[1] = a
  OBVIOUS
<1>4. SubSeq(text, 1, 1)[1] = text[1]
  BY <1>1, <1>2
<1> QED
  BY <1>1, <1>2, <1>3, <1>4

LEMMA PrefixTwo ==
    ASSUME NEW S, NEW text \in Seq(S), NEW a, NEW b, IsPrefix(<<a, b>>, text)
    PROVE  Len(text) \in Nat /\ Len(text) >= 2 /\ text[1] = a /\ text[2] = b
<1> DEFINE two == <<a, b>>
<1>1. Len(two) = 2 /\ Len(text) \in Nat
  BY LenProperties
<1>2. Len(text) >= 2 /\ SubSeq(two, 1, 2) = SubSeq(text, 1, 2)
  BY <1>1 DEF IsPrefix
<1>3. SubSeq(two, 1, 2)[1] = a /\ SubSeq(two, 1, 2)[2] = b
  OBVIOUS
<1>4. SubSeq(text, 1, 2)[1] = text[1] /\ SubSeq(text, 1, 2)[2] = text[2]
  BY <1>1, <1>2
<1> QED
  BY <1>1, <1>2, <1>3, <1>4

LEMMA OneAndOne ==
    ASSUME NEW a, NEW b
    PROVE  <<a>> \o <<b>> = <<a, b>>
<1> DEFINE S == {a, b}  x == <<a>>  y == <<b>>  z == <<a, b>>
<1>1. x \in Seq(S) /\ y \in Seq(S) /\ z \in Seq(S)
  OBVIOUS
<1>2. Len(x) = 1 /\ Len(y) = 1 /\ Len(z) = 2 /\ x[1] = a /\ y[1] = b /\ z[1] = a /\ z[2] = b
  OBVIOUS
<1> HIDE DEF S, x, y, z
<1>3. x \o y \in Seq(S) /\ Len(x \o y) = 2
  BY <1>1, <1>2, ConcatProperties
<1>4. \A i \in 1 .. 2 : (x \o y)[i] = z[i]
  BY <1>1, <1>2, ConcatProperties
<1> QED
  BY <1>1, <1>2, <1>3, <1>4, SeqEqual DEF x, y, z


\* Text that a token can have.
IsText(text) == text \in Seq(Range(text)) \ {<<>>}

\* The characters that tell the types apart.
Begins(t, text) ==
    /\ t = "Char" => text[1] = Tick
    /\ t = "ByteChar" => text[1] = "b" /\ text[2] = Tick
    /\ t = "Str" => text[1] = Quote
    /\ t = "ByteStr" => text[1] = "b" /\ text[2] = Quote
    /\ t = "CStr" => text[1] = "c" /\ text[2] = Quote
    /\ t = "StrRaw" => text[1] = "r"
    /\ t = "ByteStrRaw" => text[1] = "b" /\ text[2] = "r"
    /\ t = "CStrRaw" => text[1] = "c" /\ text[2] = "r"
    /\ t = "Integer" => /\ "." \notin Range(text)
                        /\ text[1] \in Digits \cup {"_", "-"} \cup IntSuffixes
    /\ t = "Float" => /\ "." \in Range(text)
                      /\ text[1] \in Digits \cup {".", "e", "-"} \cup FloatSuffixes

\* The form of a character.
LEMMA CharBegins ==
    ASSUME NEW t \in Chars, NEW text, IsText(text), IsCharForm(t, text)
    PROVE  Begins(t, text)
<1>1. text \in Seq(Range(text))
  BY DEF IsText
<1>2. CASE t = "Char"
  <2>1. IsPrefix(<<Tick>>, text)
    BY <1>2 DEF IsCharForm
  <2> QED
    BY <1>1, <1>2, <2>1, PrefixOne DEF Begins
<1>3. CASE t = "ByteChar"
  <2>1. IsPrefix(<<"b", Tick>>, text)
    BY <1>3 DEF IsCharForm
  <2> QED
    BY <1>1, <1>3, <2>1, PrefixTwo DEF Begins
<1> QED
  BY <1>2, <1>3 DEF Chars

\* The forms with a quote.
LEMMA QuotedBegins ==
    ASSUME NEW t, NEW p, NEW text, IsText(text),
           \/ t = "Str" /\ p = <<>>
           \/ t = "ByteStr" /\ p = <<"b">>
           \/ t = "CStr" /\ p = <<"c">>,
           ReadQuoted(t, p, text) # None
    PROVE  Begins(t, text)
<1>1. text \in Seq(Range(text)) /\ IsPrefix(p \o <<Quote>>, text)
  BY DEF IsText, ReadQuoted
<1>2. CASE t = "Str" /\ p = <<>>
  <2>1. p \o <<Quote>> = <<Quote>>
    BY <1>2
  <2>2. text[1] = Quote
    BY <1>1, <2>1, PrefixOne
  <2> QED
    BY <1>2, <2>2 DEF Begins
<1>3. ASSUME NEW c, p = <<c>>
      PROVE  text[1] = c /\ text[2] = Quote
  <2>1. <<c>> \o <<Quote>> = <<c, Quote>>
    BY OneAndOne
  <2>2. p \o <<Quote>> = <<c, Quote>>
    BY <1>3, <2>1
  <2> QED
    BY <1>1, <2>2, PrefixTwo
<1> QED
  BY <1>2, <1>3 DEF Begins

\* The raw forms.
LEMMA RawBegins ==
    ASSUME NEW t, NEW p, NEW text, IsText(text),
           \/ t = "StrRaw" /\ p = <<"r">>
           \/ t = "ByteStrRaw" /\ p = <<"b", "r">>
           \/ t = "CStrRaw" /\ p = <<"c", "r">>,
           ReadRawAs(t, p, text) # None
    PROVE  Begins(t, text)
<1>1. text \in Seq(Range(text)) /\ IsPrefix(p, text)
  BY DEF IsText, ReadRawAs
<1>2. CASE t = "StrRaw" /\ p = <<"r">>
  BY <1>1, <1>2, PrefixOne DEF Begins
<1>3. CASE t = "ByteStrRaw" /\ p = <<"b", "r">>
  BY <1>1, <1>3, PrefixTwo DEF Begins
<1>4. CASE t = "CStrRaw" /\ p = <<"c", "r">>
  BY <1>1, <1>4, PrefixTwo DEF Begins
<1> QED
  BY <1>2, <1>3, <1>4


\* The last character is the text's, and the rest is what is before it.
LEMMA FrontAndLast ==
    ASSUME NEW text, IsText(text)
    PROVE  /\ Len(text) \in Nat \ {0} /\ text \in Seq(Range(text))
           /\ Front(text) \in Seq(Range(text)) /\ Len(Front(text)) = Len(text) - 1
           /\ \A i \in 1 .. Len(text) - 1 : Front(text)[i] = text[i]
           /\ Front(text) \o <<Last(text)>> = text
<1>1. text \in Seq(Range(text)) /\ Len(text) \in Nat \ {0} /\ DOMAIN text = 1 .. Len(text)
  BY EmptySeq, LenProperties DEF IsText
<1>2. /\ Front(text) \in Seq(Range(text)) /\ Len(Front(text)) = Len(text) - 1
      /\ \A i \in 1 .. Len(text) - 1 : Front(text)[i] = text[i]
  BY <1>1 DEF Front
<1>3. Last(text) \in Range(text) /\ Last(text) = text[Len(text)]
  BY <1>1 DEF Last, Range
<1> DEFINE f == Front(text)  z == Last(text)  R == Range(text)  n == Len(text)
<1>4. f \in Seq(R) /\ z \in R /\ Len(f) = n - 1 /\ n \in Nat \ {0} /\ text \in Seq(R) /\ Len(text) = n
      /\ z = text[n] /\ \A i \in 1 .. n - 1 : f[i] = text[i]
  BY <1>1, <1>2, <1>3
<1> HIDE DEF f, z, R, n
<1>5. f \o <<z>> = text
  <2>1. f \o <<z>> \in Seq(R) /\ Len(f \o <<z>>) = n
    BY <1>4
  <2>2. \A i \in 1 .. n : (f \o <<z>>)[i] = text[i]
    BY <1>4
  <2> QED
    BY <1>4, <2>1, <2>2, SeqEqual
<1> QED
  BY <1>1, <1>2, <1>5 DEF f, z

\* A text without its suffix begins as the text does, unless nothing is left.
LEMMA UnsuffixedBegins ==
    ASSUME NEW text, IsText(text), NEW suffixes
    PROVE  /\ \/ text[1] \in suffixes
              \/ /\ 1 \in DOMAIN Unsuffixed(text, suffixes)
                 /\ Unsuffixed(text, suffixes)[1] = text[1]
           /\ Unsuffixed(text, suffixes) \o SuffixOf(text, suffixes) = text
<1> DEFINE n == Len(text)
<1>1. text \in Seq(Range(text)) /\ n \in Nat \ {0} /\ DOMAIN text = 1 .. n
  BY EmptySeq, LenProperties DEF IsText
<1>2. CASE text[n] \in suffixes
  <2>1. Unsuffixed(text, suffixes) = Front(text) /\ SuffixOf(text, suffixes) = <<Last(text)>>
    BY <1>2 DEF Unsuffixed, SuffixOf, Last
  <2>2. /\ Front(text) \in Seq(Range(text)) /\ Len(Front(text)) = n - 1
        /\ \A i \in 1 .. n - 1 : Front(text)[i] = text[i]
        /\ Front(text) \o <<Last(text)>> = text
    BY FrontAndLast
  <2>3. DOMAIN Front(text) = 1 .. n - 1
    BY <2>2, LenProperties
  <2>4. n = 1 \/ 1 \in 1 .. n - 1
    BY <1>1
  <2>5. n = 1 => text[1] \in suffixes
    BY <1>2
  <2> QED
    BY <2>1, <2>2, <2>3, <2>4, <2>5
<1>3. CASE text[n] \notin suffixes
  <2>1. Unsuffixed(text, suffixes) = text /\ SuffixOf(text, suffixes) = <<>>
    BY <1>3 DEF Unsuffixed, SuffixOf, Last
  <2>2. text \o <<>> = text
    BY <1>1
  <2>3. 1 \in 1 .. n
    BY <1>1
  <2> QED
    BY <1>1, <2>1, <2>2, <2>3
<1> QED
  BY <1>2, <1>3

\* The numbers.
LEMMA NumberBegins ==
    ASSUME NEW text, IsText(text)
    PROVE  /\ ReadInteger(text) # None => Begins("Integer", text)
           /\ ReadFloat(text) # None => Begins("Float", text)
<1>1. ASSUME ReadInteger(text) # None
      PROVE  Begins("Integer", text)
  <2> DEFINE U == Unsuffixed(text, IntSuffixes)
  <2>1. "." \notin Range(text) /\ IsInteger(U)
    BY <1>1 DEF ReadInteger
  <2>2. text[1] \in IntSuffixes \/ (1 \in DOMAIN U /\ U[1] = text[1])
    BY UnsuffixedBegins
  <2> HIDE DEF U
  <2>3. text[1] \in Digits \cup {"_", "-"} \cup IntSuffixes
    BY <2>1, <2>2 DEF IsInteger
  <2> QED
    BY <2>1, <2>3 DEF Begins
<1>2. ASSUME ReadFloat(text) # None
      PROVE  Begins("Float", text)
  <2> DEFINE U == Unsuffixed(text, FloatSuffixes)
  <2>1. "." \in Range(text) /\ IsFloat(U)
    BY <1>2 DEF ReadFloat
  <2>2. text[1] \in FloatSuffixes \/ (1 \in DOMAIN U /\ U[1] = text[1])
    BY UnsuffixedBegins
  <2> HIDE DEF U
  <2>3. text[1] \in Digits \cup {".", "e", "-"} \cup FloatSuffixes
    BY <2>1, <2>2 DEF IsFloat
  <2> QED
    BY <2>1, <2>3 DEF Begins
<1> QED
  BY <1>1, <1>2

\* Where a token goes by its kind and the characters it begins with.
Goes(t, token) ==
    \/ t = "Bool" /\ token.kind = "ident"
    \/ t # "Bool" /\ token.kind = "literal" /\ Begins(t, token.text)

LEMMA TakesBegins ==
    ASSUME NEW t \in Types, NEW token, IsText(token.text), Takes(t, token) # None
    PROVE  Goes(t, token)
<1> DEFINE text == token.text
<1>1. CASE t = "Bool"
  BY <1>1 DEF Takes, Goes, Chars
<1>2. CASE t \in Chars
  <2>1. token.kind = "literal" /\ IsCharForm(t, text)
    BY <1>2 DEF Takes, Chars
  <2> QED
    BY <1>2, <2>1, CharBegins DEF Goes, Chars
<1>3. CASE t \notin Chars \cup {"Bool"}
  <2>1. token.kind = "literal" /\ ReadLit(t, text) # None
    BY <1>3 DEF Takes
  <2>2. CASE t = "Integer"
    BY <2>1, <2>2, NumberBegins DEF Goes, ReadLit
  <2>3. CASE t = "Float"
    BY <2>1, <2>3, NumberBegins DEF Goes, ReadLit
  <2>4. CASE t = "Str"
    BY <2>1, <2>4, QuotedBegins DEF Goes, ReadLit
  <2>5. CASE t = "ByteStr"
    BY <2>1, <2>5, QuotedBegins DEF Goes, ReadLit
  <2>6. CASE t = "CStr"
    BY <2>1, <2>6, QuotedBegins DEF Goes, ReadLit
  <2>7. CASE t = "StrRaw"
    BY <2>1, <2>7, RawBegins DEF Goes, ReadLit
  <2>8. CASE t = "ByteStrRaw"
    BY <2>1, <2>8, RawBegins DEF Goes, ReadLit
  <2>9. CASE t = "CStrRaw"
    BY <2>1, <2>9, RawBegins DEF Goes, ReadLit
  <2> QED
    BY <1>3, <2>2, <2>3, <2>4, <2>5, <2>6, <2>7, <2>8, <2>9 DEF Types, Chars
<1> QED
  BY <1>1, <1>2, <1>3

\* No token goes to two types.
LEMMA GoesToOne ==
    ASSUME NEW t \in Types, NEW u \in Types, NEW token, Goes(t, token), Goes(u, token)
    PROVE  t = u
<1> DEFINE text == token.text
<1>1. t = "Bool" <=> u = "Bool"
  BY DEF Goes
<1>2. CASE t = "Bool"
  BY <1>1, <1>2
<1>3. CASE t # "Bool"
  <2>1. Begins(t, text) /\ Begins(u, text) /\ u # "Bool"
    BY <1>1, <1>3 DEF Goes
  <2> DEFINE a == text[1]  b == text[2]  point == "." \in Range(text)
  <2>2. \A w \in {t, u} :
          /\ w = "Char" => a = "'"
          /\ w = "ByteChar" => a = "b" /\ b = "'"
          /\ w = "Str" => a = "\""
          /\ w = "ByteStr" => a = "b" /\ b = "\""
          /\ w = "CStr" => a = "c" /\ b = "\""
          /\ w = "StrRaw" => a = "r"
          /\ w = "ByteStrRaw" => a = "b" /\ b = "r"
          /\ w = "CStrRaw" => a = "c" /\ b = "r"
          /\ w = "Integer" => ~point /\ a \in {"0", "1", "_", "-", "u8", "i64"}
          /\ w = "Float" => point /\ a \in {"0", "1", ".", "e", "-", "f64"}
    BY <2>1 DEF Begins, Tick, Quote, Digits, IntSuffixes, FloatSuffixes
  <2> HIDE DEF a, b, point
  <2> QED
    BY <1>3, <2>1, <2>2 DEF Types
<1> QED
  BY <1>2, <1>3

-----------------------------------------------------------------------------
(* What the types that resolve their token read, and read back.            *)

\* A concatenation, from the front and from where the second part starts.
LEMMA ConcatPlaces ==
    ASSUME NEW S, NEW p \in Seq(S), NEW q \in Seq(S)
    PROVE  /\ p \o q \in Seq(S) /\ Len(p \o q) = Len(p) + Len(q)
           /\ \A i \in 1 .. Len(p) : (p \o q)[i] = p[i]
           /\ \A i \in 1 .. Len(q) : (p \o q)[Len(p) + i] = q[i]
BY ConcatProperties, LenProperties

\* What is between an opening and a closing mark.
Encloses(S, a, b, z) ==
    LET text == a \o b \o <<z>>
    IN  /\ text \in Seq(S) /\ Len(text) = Len(a) + Len(b) + 1
        /\ IsPrefix(a, text) /\ IsSuffix(<<z>>, text)
        /\ Between(text, Len(a), 1) = b

LEMMA Wrapped ==
    ASSUME NEW S, NEW a \in Seq(S), NEW b \in Seq(S), NEW z \in S
    PROVE  Encloses(S, a, b, z)
<1> DEFINE c == <<z>>  text == a \o b \o c  n == Len(text)  k == Len(a)  m == Len(b)
<1>1. c \in Seq(S) /\ Len(c) = 1 /\ c[1] = z /\ k \in Nat /\ m \in Nat
  BY LenProperties
<1>2. /\ text \in Seq(S) /\ n = k + m + 1
      /\ \A i \in 1 .. k : text[i] = a[i]
      /\ \A i \in 1 .. m : text[k + i] = b[i]
      /\ text[n] = z
  <2> DEFINE ab == a \o b
  <2>1. /\ ab \in Seq(S) /\ Len(ab) = k + m
        /\ \A i \in 1 .. k : ab[i] = a[i]
        /\ \A i \in 1 .. m : ab[k + i] = b[i]
    BY ConcatPlaces
  <2> HIDE DEF ab, k, m, c
  <2> DEFINE q == Len(ab)
  <2>2. /\ ab \o c \in Seq(S) /\ Len(ab \o c) = q + 1
        /\ \A i \in 1 .. q : (ab \o c)[i] = ab[i]
        /\ \A i \in 1 .. 1 : (ab \o c)[q + i] = c[i]
    <3> HIDE DEF text, q
    <3>1. ab \in Seq(S) /\ c \in Seq(S)
      BY <1>1, <2>1
    <3>2. \A p1, q1 \in Seq(S) :
            /\ p1 \o q1 \in Seq(S) /\ Len(p1 \o q1) = Len(p1) + Len(q1)
            /\ \A i \in 1 .. Len(p1) : (p1 \o q1)[i] = p1[i]
            /\ \A i \in 1 .. Len(q1) : (p1 \o q1)[Len(p1) + i] = q1[i]
      BY ConcatPlaces
    <3>3. /\ ab \o c \in Seq(S) /\ Len(ab \o c) = Len(ab) + Len(c)
          /\ \A i \in 1 .. Len(ab) : (ab \o c)[i] = ab[i]
          /\ \A i \in 1 .. Len(c) : (ab \o c)[Len(ab) + i] = c[i]
      BY ONLY <3>1, <3>2
    <3> QED
      BY <1>1, <3>3 DEF q
  <2>3. text = ab \o c
    BY DEF ab
  <2>4. /\ \A i \in 1 .. k : i \in 1 .. q
        /\ \A i \in 1 .. m : k + i \in 1 .. q
        /\ 1 \in 1 .. 1
    BY <1>1, <2>1
  <2> HIDE DEF text, q
  <2>5. text[q + 1] = z
    BY <1>1, <2>2, <2>3, <2>4
  <2>6. q = k + m
    BY <2>1 DEF q
  <2>7. \A i \in 1 .. k : text[i] = a[i]
    BY <2>1, <2>2, <2>3, <2>4
  <2>8. \A i \in 1 .. m : text[k + i] = b[i]
    BY <2>1, <2>2, <2>3, <2>4
  <2> QED
    BY <2>2, <2>3, <2>5, <2>6, <2>7, <2>8
<1> HIDE DEF text, c
<1>3. IsPrefix(a, text)
  <2>1. k <= n
    BY <1>1, <1>2
  <2>2. SubSeq(a, 1, k) = SubSeq(text, 1, k)
    BY <1>1, <1>2
  <2> QED
    BY <2>1, <2>2 DEF IsPrefix
<1>4. IsSuffix(c, text)
  <2> DEFINE u == Reverse(c)  w == Reverse(text)
  <2>1. u \in Seq(S) /\ Len(u) = 1 /\ u[1] = z
    BY <1>1 DEF Reverse
  <2>2. w \in Seq(S) /\ Len(w) = n /\ w[1] = z
    <3>1. \A i \in 1 .. n : (n - i) + 1 \in 1 .. n
      BY <1>1, <1>2
    <3>2. \A i \in 1 .. n : text[(n - i) + 1] \in S
      BY <1>2, <3>1
    <3> QED
      BY <1>1, <1>2, <3>1, <3>2 DEF Reverse
  <2> HIDE DEF u, w
  <2>3. Len(u) <= Len(w)
    BY <1>1, <1>2, <2>1, <2>2
  <2>4. SubSeq(u, 1, 1) = SubSeq(w, 1, 1)
    BY <1>1, <1>2, <2>1, <2>2
  <2>5. IsPrefix(u, w)
    BY <2>1, <2>3, <2>4 DEF IsPrefix
  <2> QED
    BY <2>5 DEF IsSuffix, u, w
<1>5. Between(text, k, 1) = b
  <2> DEFINE s == SubSeq(text, k + 1, n - 1)
  <2>1. k + 1 \in 1 .. n /\ n - 1 = k + m
    BY <1>1, <1>2
  <2>2. s \in Seq(S) /\ Len(s) = m /\ \A i \in 1 .. m : s[i] = text[k + i]
    BY <1>1, <1>2, <2>1
  <2>3. s = b
    BY <1>1, <1>2, <2>2, SeqEqual
  <2> QED
    BY <2>3 DEF Between
<1> QED
  BY <1>2, <1>3, <1>4, <1>5 DEF text, c, Encloses

\* The escapes of the table stand for one character each.
LEMMA UnescapeOne ==
    /\ Unescape(<<"n">>) = {Newline} /\ Unescape(<<"t">>) = {Tab} /\ Unescape(<<"r">>) = {Return}
    /\ Unescape(<<Back>>) = {Back} /\ Unescape(<<Tick>>) = {Tick} /\ Unescape(<<"0">>) = {Zero}
<1>1. ASSUME NEW x, NEW d \in EscapeTable, x = d[1]
      PROVE  Unescape(<<x>>) = {d[2]}
  <2>1. \A e \in EscapeTable : e[1] = x => e = d
    BY <1>1 DEF EscapeTable, Back, Tick, Newline, Tab, Return, Zero
  <2>2. \A e \in EscapeTable : <<x>> = <<e[1]>> <=> e[1] = x
    OBVIOUS
  <2>3. {e \in EscapeTable : <<x>> = <<e[1]>>} = {d}
    BY <1>1, <2>1, <2>2
  <2> QED
    BY <2>3 DEF Unescape
<1>2. \A d \in EscapeTable : Unescape(<<d[1]>>) = {d[2]}
  BY <1>1
<1> HIDE DEF Unescape
<1>3. /\ <<"n", Newline>> \in EscapeTable /\ <<"t", Tab>> \in EscapeTable /\ <<"r", Return>> \in EscapeTable
      /\ <<Back, Back>> \in EscapeTable /\ <<Tick, Tick>> \in EscapeTable /\ <<"0", Zero>> \in EscapeTable
  BY DEF EscapeTable
<1> QED
  BY <1>2, <1>3

LEMMA UnescapeInTable ==
    ASSUME NEW rest, NEW c \in Unescape(rest)
    PROVE  c \notin {Wide, High}
BY DEF Unescape, EscapeTable, Back, Tick, Newline, Tab, Return, Zero, Wide, High

\* The types whose value stands for the token that it was read from.
Faithful == Resolving \cup {"CStr"}

\* A value as those types read it.
KeptChar(t, c) == t \in Chars /\ c \notin {Wide, High}
KeptAs(t, v) ==
    /\ v.ty = t
    /\ t = "Bool" => \E b \in {"true", "false"} : v = Value("Bool", <<b>>)
    /\ t \in Chars => \E c : KeptChar(t, c) /\ v = Value(t, <<c>>)
    /\ t = "Integer" => \E text : IsText(text) /\ ReadInteger(text) = <<v>>
    /\ t = "Float" => \E text : IsText(text) /\ ReadFloat(text) = <<v>>
    /\ t = "CStr" => \E S : \E body \in Seq(S) : LexesQuoted(body) /\ v = Value("CStr", body)

\* A character that is read is one that the literal can hold.
LEMMA CharIsKept ==
    ASSUME NEW t \in Chars, NEW text, IsText(text), High \notin Range(text), ReadChar(t, text) # None
    PROVE  \E c : KeptChar(t, c) /\ ReadChar(t, text) = <<Value(t, <<c>>)>>
<1> DEFINE k == IF t = "ByteChar" THEN 2 ELSE 1  n == Len(text)
           inner == Between(text, k, 1)
<1>1. text \in Seq(Range(text)) /\ n \in Nat /\ k \in {1, 2} /\ DOMAIN text = 1 .. n
  BY LenProperties DEF IsText
<1>2. CASE Len(inner) = 1 /\ Bytes(inner[1]) = 1
  <2>1. inner = SubSeq(text, k + 1, n - 1) /\ inner \in Seq(Range(text))
    BY <1>1 DEF Between
  <2>2. inner[1] \in Range(text)
    BY <1>2, <2>1
  <2>3. inner = <<inner[1]>>
    BY <1>2, <2>1
  <2>4. ReadChar(t, text) = <<Value(t, inner)>>
    BY <1>2 DEF ReadChar
  <2>5. inner[1] # Wide
    BY <1>2 DEF Bytes
  <2> HIDE DEF inner
  <2> QED
    BY <2>2, <2>3, <2>4, <2>5 DEF KeptChar
<1>3. CASE ~(Len(inner) = 1 /\ Bytes(inner[1]) = 1)
  <2> DEFINE rest == Tail(inner)  c == CHOOSE x \in Unescape(rest) : TRUE
  <2>1. Unescape(rest) # {} /\ ReadChar(t, text) = <<Value(t, <<c>>)>>
    BY <1>3 DEF ReadChar
  <2>2. c \in Unescape(rest)
    BY <2>1
  <2>3. c \notin {Wide, High}
    BY <2>2, UnescapeInTable
  <2> QED
    BY <2>1, <2>3 DEF KeptChar
<1> QED
  BY <1>2, <1>3

\* What is read of a source has the form of its type.
LEMMA TakenIsKept ==
    ASSUME NEW t \in Faithful, NEW token \in Sources, Takes(t, token) # None
    PROVE  \E v : Takes(t, token) = <<v>> /\ KeptAs(t, v)
<1> DEFINE text == token.text
<1>1. IsText(text) /\ High \notin Range(text)
  BY SourcesAssumption DEF IsText
<1>2. CASE t = "Bool"
  <2>1. \E b \in {"true", "false"} : Takes(t, token) = <<Value("Bool", <<b>>)>>
    BY <1>2 DEF Takes, ReadBool, Chars
  <2> QED
    BY <1>2, <2>1 DEF KeptAs, Value, Chars
<1>3. CASE t \in Chars
  <2>1. ReadChar(t, text) # None /\ Takes(t, token) = ReadChar(t, text)
    BY <1>3 DEF Takes, Chars
  <2>2. PICK c : KeptChar(t, c) /\ ReadChar(t, text) = <<Value(t, <<c>>)>>
    BY <1>1, <1>3, <2>1, CharIsKept
  <2> QED
    BY <1>3, <2>1, <2>2 DEF KeptAs, Value, Chars
<1>4. CASE t = "Integer"
  <2>1. Takes(t, token) = ReadInteger(text) /\ ReadInteger(text) # None
    BY <1>4 DEF Takes, Chars, ReadLit
  <2>2. \E v : ReadInteger(text) = <<v>> /\ v.ty = "Integer"
    BY <2>1 DEF ReadInteger, Value
  <2> QED
    BY <1>1, <1>4, <2>1, <2>2 DEF KeptAs, Chars
<1>5. CASE t = "Float"
  <2>1. Takes(t, token) = ReadFloat(text) /\ ReadFloat(text) # None
    BY <1>5 DEF Takes, Chars, ReadLit
  <2>2. \E v : ReadFloat(text) = <<v>> /\ v.ty = "Float"
    BY <2>1 DEF ReadFloat, Value
  <2> QED
    BY <1>1, <1>5, <2>1, <2>2 DEF KeptAs, Chars
<1>6. CASE t = "CStr"
  <2> DEFINE body == Between(text, 2, 1)
  <2>1. Takes(t, token) = ReadQuoted("CStr", <<"c">>, text)
    BY <1>6 DEF Takes, Chars, ReadLit
  <2>2. <<"c">> \o <<Quote>> = <<"c", Quote>> /\ Len(<<"c">>) + 1 = 2
    BY OneAndOne
  <2>3. IsPrefix(<<"c", Quote>>, text) /\ Takes(t, token) = <<Value("CStr", body)>>
    BY <2>1, <2>2 DEF ReadQuoted
  <2>4. LexesQuoted(body)
    BY <2>3, SourcesAssumption
  <2>5. body \in Seq(Range(text))
    BY <1>1 DEF Between, IsText
  <2> HIDE DEF body
  <2> QED
    BY <1>6, <2>3, <2>4, <2>5 DEF KeptAs, Value, Chars
<1> QED
  BY <1>2, <1>3, <1>4, <1>5, <1>6 DEF Faithful, Resolving, Chars

\* How a character is escaped in the literal of a character.
LEMMA EscapedAs ==
    ASSUME NEW c, c \notin {High}
    PROVE  LET e == Escaped(c, {Back, Tick}, "0")
           IN  /\ c \in {Back, Tick} => e = <<Back, c>>
               /\ c = Newline => e = <<Back, "n">>
               /\ c = Tab => e = <<Back, "t">>
               /\ c = Return => e = <<Back, "r">>
               /\ c = Zero => e = <<Back, "0">>
               /\ c \notin {Back, Tick, Newline, Tab, Return, Zero} => e = <<c>>
BY DEF Escaped, Back, Tick, Newline, Tab, Return, Zero, High

\* How far the mark of a character is from the start.
Mark(t) == IF t = "ByteChar" THEN 2 ELSE 1

\* The literal of a character: it, or an escape that stands for it, between the marks.
LEMMA NewCharForm ==
    ASSUME NEW t, NEW c, KeptChar(t, c)
    PROVE  LET text == NewChar(t, c)
               e == Escaped(c, {Back, Tick}, "0")
           IN  /\ \E S : text \in Seq(S)
               /\ IsCharForm(t, text) /\ Between(text, Mark(t), 1) = e /\ Len(text) > Mark(t) + 1
               /\ \/ e = <<c>> /\ Bytes(c) = 1 /\ c # Back
                  \/ \E x : e = <<Back, x>> /\ Unescape(<<x>>) = {c}
<1> DEFINE open == PrefixOf(t) \o <<Tick>>  e == Escaped(c, {Back, Tick}, "0")  text == NewChar(t, c)
           k == Mark(t)
           S == {"b", Tick, Back, "n", "t", "r", "0", c}
<1>1. open = IF t = "ByteChar" THEN <<"b", Tick>> ELSE <<Tick>>
  <2>1. CASE t = "ByteChar"
    BY <2>1, OneAndOne DEF PrefixOf
  <2>2. CASE t = "Char"
    <3>1. PrefixOf(t) = <<>>
      BY <2>2 DEF PrefixOf
    <3>2. <<>> \o <<Tick>> = <<Tick>>
      OBVIOUS
    <3> QED
      BY <2>2, <3>1, <3>2
  <2> QED
    BY <2>1, <2>2 DEF KeptChar, Chars
<1>2. open \in Seq(S) /\ Len(open) = k
  <2>1. <<"b", Tick>> \in Seq(S) /\ Len(<<"b", Tick>>) = 2 /\ <<Tick>> \in Seq(S) /\ Len(<<Tick>>) = 1
    OBVIOUS
  <2> HIDE DEF open, S
  <2>2. CASE t = "ByteChar"
    BY <1>1, <2>1, <2>2 DEF Mark
  <2>3. CASE t # "ByteChar"
    BY <1>1, <2>1, <2>3 DEF Mark
  <2> QED
    BY <2>2, <2>3
<1>3. \/ e = <<c>> /\ Bytes(c) = 1 /\ c # Back
      \/ \E x : e = <<Back, x>> /\ x \in S /\ Unescape(<<x>>) = {c}
  <2>1. CASE c \in {Back, Tick}
    <3>1. e = <<Back, c>> /\ Unescape(<<c>>) = {c}
      BY <2>1, UnescapeOne, EscapedAs DEF KeptChar
    <3> QED
      BY <3>1
  <2>2. CASE c \in {Newline, Tab, Return, Zero}
    <3>1. \E x \in {"n", "t", "r", "0"} : e = <<Back, x>> /\ Unescape(<<x>>) = {c}
      BY <2>2, UnescapeOne, EscapedAs DEF KeptChar
    <3> QED
      BY <3>1
  <2>3. CASE c \notin {Back, Tick, Newline, Tab, Return, Zero}
    BY <2>3, EscapedAs DEF KeptChar, Bytes
  <2> QED
    BY <2>1, <2>2, <2>3
<1>4. e \in Seq(S)
  <2>1. c \in S /\ Back \in S
    OBVIOUS
  <2> HIDE DEF e, S
  <2>2. CASE e = <<c>>
    BY <2>1, <2>2
  <2>3. ASSUME NEW x \in S, e = <<Back, x>>
        PROVE  e \in Seq(S)
    BY <2>1, <2>3
  <2> QED
    BY <1>3, <2>2, <2>3
<1>5. /\ text \in Seq(S) /\ Len(text) = Len(open) + Len(e) + 1
      /\ IsPrefix(open, text) /\ IsSuffix(<<Tick>>, text) /\ Between(text, Len(open), 1) = e
  <2>1. text = open \o e \o <<Tick>>
    BY DEF NewChar
  <2>2. Tick \in S
    OBVIOUS
  <2> HIDE DEF open, e, text, S
  <2>3. Encloses(S, open, e, Tick)
    BY <1>2, <1>4, <2>2, Wrapped
  <2> QED
    BY <2>1, <2>3 DEF Encloses
<1>6. Len(e) \in Nat /\ Len(e) >= 1 /\ k \in Nat
  <2> HIDE DEF e
  <2>1. e = <<c>> => Len(e) = 1
    OBVIOUS
  <2>2. \A x : e = <<Back, x>> => Len(e) = 2
    OBVIOUS
  <2>3. e = <<c>> \/ \E x : e = <<Back, x>>
    BY <1>3
  <2>4. k \in Nat
    BY DEF Mark
  <2> QED
    BY <2>1, <2>2, <2>3, <2>4
<1>7. Between(text, k, 1) = e /\ Len(text) > k + 1
  BY <1>2, <1>5, <1>6
<1> HIDE DEF text, e, open, S
<1>8. IsCharForm(t, text)
  BY <1>1, <1>5 DEF IsCharForm
<1> QED
  BY <1>3, <1>5, <1>7, <1>8 DEF text, e

\* A character is read back between its marks.
LEMMA CharReadsBack ==
    ASSUME NEW t, NEW c, KeptChar(t, c)
    PROVE  ReadChar(t, NewChar(t, c)) = <<Value(t, <<c>>)>>
<1> DEFINE text == NewChar(t, c)  e == Escaped(c, {Back, Tick}, "0")
<1>1. /\ Between(text, IF t = "ByteChar" THEN 2 ELSE 1, 1) = e
      /\ \/ e = <<c>> /\ Bytes(c) = 1
         \/ \E x : e = <<Back, x>> /\ Unescape(<<x>>) = {c}
  BY NewCharForm DEF Mark
<1> HIDE DEF text, e
<1>2. CASE e = <<c>> /\ Bytes(c) = 1
  <2>1. Len(e) = 1 /\ e[1] = c
    BY <1>2
  <2> QED
    BY <1>1, <1>2, <2>1 DEF ReadChar, text
<1>3. ASSUME NEW x, e = <<Back, x>>, Unescape(<<x>>) = {c}
      PROVE  ReadChar(t, text) = <<Value(t, <<c>>)>>
  <2>1. Len(e) = 2 /\ e[1] = Back /\ Tail(e) = <<x>>
    BY <1>3
  <2> DEFINE u == Unescape(Tail(e))
  <2>2. u = {c}
    BY <1>3, <2>1
  <2>3. ReadChar(t, text) = <<Value(t, <<CHOOSE y \in u : TRUE>>)>>
    <3>1. Len(e) # 1 /\ e[1] = Back /\ u # {}
      BY <2>1, <2>2
    <3> QED
      BY <1>1, <3>1 DEF ReadChar
  <2>4. (CHOOSE y \in {c} : TRUE) = c
    OBVIOUS
  <2> HIDE DEF u
  <2> QED
    BY <2>2, <2>3, <2>4
<1> QED
  BY <1>1, <1>2, <1>3 DEF text

\* A number is emitted as it was read.
LEMMA NumberIsEmitted ==
    ASSUME NEW text, IsText(text), NEW v
    PROVE  ReadInteger(text) = <<v>> \/ ReadFloat(text) = <<v>> =>
               Emitted(v).kind = "literal" /\ Emitted(v).text = text
<1>1. ASSUME ReadInteger(text) = <<v>>
      PROVE  Emitted(v).kind = "literal" /\ Emitted(v).text = text
  <2> DEFINE w == [Value("Integer", Unsuffixed(text, IntSuffixes)) EXCEPT !.suffix = SuffixOf(text, IntSuffixes)]
  <2>1. v = w
    <3>1. ReadInteger(text) \in {<<>>, <<w>>}
      BY DEF ReadInteger, None
    <3> HIDE DEF w
    <3> QED
      BY <1>1, <3>1
  <2>2. v.ty = "Integer" /\ v.value = Unsuffixed(text, IntSuffixes) /\ v.suffix = SuffixOf(text, IntSuffixes)
    BY <2>1 DEF Value
  <2>3. Display(v) = text
    BY <2>2, UnsuffixedBegins DEF Display
  <2> QED
    BY <2>2, <2>3 DEF Emitted, Literal
<1>2. ASSUME ReadFloat(text) = <<v>>
      PROVE  Emitted(v).kind = "literal" /\ Emitted(v).text = text
  <2> DEFINE w == [Value("Float", Unsuffixed(text, FloatSuffixes)) EXCEPT !.suffix = SuffixOf(text, FloatSuffixes)]
  <2>1. v = w
    <3>1. ReadFloat(text) \in {<<>>, <<w>>}
      BY DEF ReadFloat, None
    <3> HIDE DEF w
    <3> QED
      BY <1>2, <3>1
  <2>2. v.ty = "Float" /\ v.value = Unsuffixed(text, FloatSuffixes) /\ v.suffix = SuffixOf(text, FloatSuffixes)
    BY <2>1 DEF Value
  <2>3. Display(v) = text
    BY <2>2, UnsuffixedBegins DEF Display
  <2> QED
    BY <2>2, <2>3 DEF Emitted, Literal
<1> QED
  BY <1>1, <1>2

\* What a faithful type read, it emits as a token that it reads to the same value.
LEMMA KeptReadsBack ==
    ASSUME NEW t \in Faithful, NEW v, KeptAs(t, v)
    PROVE  Takes(t, Emitted(v)) = <<v>>
<1>1. CASE t = "Bool"
  <2>1. PICK b \in {"true", "false"} : v = Value("Bool", <<b>>)
    BY <1>1 DEF KeptAs
  <2>2. v.ty = "Bool" /\ v.value = <<b>>
    BY <2>1 DEF Value
  <2>3. Emitted(v).kind = "ident" /\ Emitted(v).text = <<b>>
    BY <2>2 DEF Emitted, Ident
  <2> QED
    BY <1>1, <2>1, <2>3 DEF Takes, ReadBool, Chars
<1>2. CASE t \in Chars
  <2>1. PICK c : KeptChar(t, c) /\ v = Value(t, <<c>>)
    BY <1>2 DEF KeptAs
  <2>2. v.ty = t /\ v.value = <<c>>
    BY <2>1 DEF Value
  <2>3. Emitted(v) = Literal(NewChar(t, c))
    BY <1>2, <2>2 DEF Emitted, Chars
  <2>4. Emitted(v).kind = "literal" /\ Emitted(v).text = NewChar(t, c)
    BY <2>3 DEF Literal
  <2> QED
    BY <1>2, <2>1, <2>4, NewCharForm, CharReadsBack DEF Takes, Chars
<1>3. CASE t = "Integer"
  <2>1. PICK text : IsText(text) /\ ReadInteger(text) = <<v>>
    BY <1>3 DEF KeptAs
  <2>2. Emitted(v).kind = "literal" /\ Emitted(v).text = text
    BY <2>1, NumberIsEmitted
  <2> QED
    BY <1>3, <2>1, <2>2 DEF Takes, ReadLit, Chars
<1>4. CASE t = "Float"
  <2>1. PICK text : IsText(text) /\ ReadFloat(text) = <<v>>
    BY <1>4 DEF KeptAs
  <2>2. Emitted(v).kind = "literal" /\ Emitted(v).text = text
    BY <2>1, NumberIsEmitted
  <2> QED
    BY <1>4, <2>1, <2>2 DEF Takes, ReadLit, Chars
<1>5. CASE t = "CStr"
  <2>1. PICK S : \E body \in Seq(S) : LexesQuoted(body) /\ v = Value("CStr", body)
    BY <1>5 DEF KeptAs
  <2>2. PICK body \in Seq(S) : LexesQuoted(body) /\ v = Value("CStr", body)
    BY <2>1
  <2> DEFINE open == <<"c", Quote>>  text == open \o body \o <<Quote>>  R == S \cup {"c", Quote}
  <2>3. v.ty = "CStr" /\ v.value = body
    BY <2>2 DEF Value
  <2>4. Emitted(v).kind = "literal" /\ Emitted(v).text = text
    BY <2>2, <2>3 DEF Emitted, Literal
  <2>5. open \in Seq(R) /\ body \in Seq(R) /\ Quote \in R /\ Len(open) = 2
    <3>1. Seq(S) \subseteq Seq(R)
      BY <2>2
    <3> QED
      BY <3>1
  <2>6. IsPrefix(open, text) /\ IsSuffix(<<Quote>>, text) /\ Between(text, 2, 1) = body
    <3> HIDE DEF open, R
    <3>1. Encloses(R, open, body, Quote)
      BY <2>5, Wrapped
    <3> QED
      BY <2>5, <3>1 DEF Encloses
  <2>7. <<"c">> \o <<Quote>> = open /\ Len(<<"c">>) + 1 = 2
    BY OneAndOne
  <2> HIDE DEF text, open
  <2>8. ReadQuoted("CStr", <<"c">>, text) = <<v>>
    BY <2>2, <2>6, <2>7 DEF ReadQuoted
  <2> QED
    BY <1>5, <2>4, <2>8 DEF Takes, ReadLit, Chars
<1> QED
  BY <1>1, <1>2, <1>3, <1>4, <1>5 DEF Faithful, Resolving, Chars

-----------------------------------------------------------------------------
(* The client.                                                             *)

\* What is at hand in each phase.
SourceInv == source # None => \E t \in Sources : source = <<t>>
SourcePhase == phase = "source" => stream = source /\ first = None
HeldInv ==
    phase \in {"value", "emitted"} =>
        /\ first = value
        /\ IF source # None THEN first = Takes(ty, source[1]) /\ first # None
           ELSE \E v \in Built : first = <<v>> /\ v.ty = ty
EmittedInv == phase = "emitted" => stream = <<Emitted(value[1])>>
FailedInv == phase \in {"failed", "ended"} /\ first # None => source = None \/ ty \notin Faithful
AgainInv == source # None /\ ty \in Faithful => phase # "panic" /\ (phase = "again" => value = first)
LitInv ==
    /\ ty \in Types
    /\ phase \in {"source", "value", "emitted", "again", "failed", "ended", "panic"}
    /\ SourceInv /\ SourcePhase /\ HeldInv /\ EmittedInv /\ FailedInv /\ AgainInv

LEMMA InitLit == Init => LitInv
<1>1. ASSUME source \in {<<t>> : t \in Sources} \cup {None}, stream = source, ty \in Types,
             first = None, value = None, phase = "source"
      PROVE  LitInv
  <2> QED
    BY <1>1 DEF LitInv, SourceInv, SourcePhase, HeldInv, EmittedInv, FailedInv, AgainInv
<1>2. ASSUME source = None, first \in {<<v>> : v \in Built}, value = first,
             ty = value[1].ty, phase = "value"
      PROVE  LitInv
  <2>1. PICK v \in Built : first = <<v>>
    BY <1>2
  <2>2. ty = v.ty /\ ty \in Types
    BY <1>2, <2>1, BuiltAssumption
  <2> QED
    BY <1>2, <2>1, <2>2 DEF LitInv, SourceInv, SourcePhase, HeldInv, EmittedInv, FailedInv, AgainInv
<1> QED
  BY <1>1, <1>2 DEF Init

\* What a faithful type takes of a source, and of what it emitted.
LEMMA ReadingFaithful ==
    ASSUME LitInv, Reading, source # None, ty \in Faithful
    PROVE  /\ phase = "source" => Takes(ty, Token) # Panic
           /\ phase = "emitted" => Takes(ty, Token) = first /\ first \notin {None, Panic}
<1>1. PICK t \in Sources : source = <<t>>
  BY DEF LitInv, SourceInv
<1>2. source[1] = t
  BY <1>1
<1>3. ASSUME NEW v, KeptAs(ty, v)
      PROVE  <<v>> \notin {None, Panic}
  <2>1. v.ty # "panic"
    BY <1>3 DEF KeptAs, Faithful, Resolving
  <2>2. v # Value("panic", None)
    BY <2>1 DEF Value
  <2> QED
    BY <2>2 DEF None, Panic
<1>4. CASE phase = "source"
  <2>1. Token = t
    BY <1>1, <1>2, <1>4 DEF LitInv, SourcePhase, Token
  <2>2. CASE Takes(ty, t) = None
    BY <1>4, <2>1, <2>2 DEF None, Panic
  <2>3. CASE Takes(ty, t) # None
    BY <1>3, <1>4, <2>1, <2>3, TakenIsKept
  <2> QED
    BY <2>2, <2>3
<1>5. CASE phase = "emitted"
  <2>1. first = value /\ first = Takes(ty, t) /\ first # None
    BY <1>2, <1>5 DEF LitInv, HeldInv
  <2>2. PICK v : first = <<v>> /\ KeptAs(ty, v)
    BY <1>1, <2>1, TakenIsKept
  <2>3. Token = Emitted(v)
    BY <1>5, <2>1, <2>2 DEF LitInv, EmittedInv, Token
  <2>4. Takes(ty, Token) = <<v>>
    BY <2>2, <2>3, KeptReadsBack
  <2> QED
    BY <1>3, <1>5, <2>2, <2>4
<1> QED
  BY <1>4, <1>5 DEF Reading, AboutToRead

\* Reading a source or what was emitted.
LEMMA ReadLitInv ==
    ASSUME LitInv, Read
    PROVE  LitInv'
<1>1. /\ Reading /\ Takes(ty, Token) \notin {None, Panic} /\ value' = Takes(ty, Token)
      /\ source' = source /\ ty' = ty /\ ty \in Types
  BY DEF Read, LitInv
<1>2. CASE phase = "source"
  <2>1. first' = value' /\ phase' = "value" /\ source # None /\ Token = source[1]
    BY <1>2 DEF Read, Reading, LitInv, SourcePhase, Token, None
  <2> QED
    BY <1>1, <2>1 DEF LitInv, SourceInv, SourcePhase, HeldInv, EmittedInv, FailedInv, AgainInv, Takes
<1>3. CASE phase = "emitted"
  <2>1. first' = first /\ phase' = "again"
    BY <1>3 DEF Read
  <2>2. source # None /\ ty \in Faithful => value' = first
    BY <1>1, <1>3, ReadingFaithful
  <2> QED
    BY <1>1, <2>1, <2>2 DEF LitInv, SourceInv, SourcePhase, HeldInv, EmittedInv, FailedInv, AgainInv
<1> QED
  BY <1>1, <1>2, <1>3 DEF Reading, AboutToRead

\* The type fails on a token.
LEMMA FailsLitInv ==
    ASSUME LitInv, Reading, Takes(ty, Token) = None, source' = source, ty' = ty, first' = first,
           phase' \in {"failed", "ended"}
    PROVE  LitInv'
<1>1. CASE phase = "source"
  <2>1. first' = None
    BY <1>1 DEF LitInv, SourcePhase
  <2> QED
    BY <2>1 DEF LitInv, SourceInv, SourcePhase, HeldInv, EmittedInv, FailedInv, AgainInv
<1>2. CASE phase = "emitted"
  <2>1. first # None
    <3>1. CASE source # None
      BY <1>2, <3>1 DEF LitInv, HeldInv
    <3>2. CASE source = None
      <4>1. PICK v \in Built : first = <<v>>
        BY <1>2, <3>2 DEF LitInv, HeldInv
      <4> QED
        BY <4>1 DEF None
    <3> QED
      BY <3>1, <3>2
  <2>2. source = None \/ ty \notin Faithful
    BY <1>2, ReadingFaithful
  <2> QED
    BY <2>1, <2>2 DEF LitInv, SourceInv, SourcePhase, HeldInv, EmittedInv, FailedInv, AgainInv
<1> QED
  BY <1>1, <1>2 DEF Reading, AboutToRead

LEMMA NextLit == LitInv /\ [Next]_vars => LitInv'
<1> SUFFICES ASSUME LitInv, [Next]_vars
             PROVE  LitInv'
  OBVIOUS
<1>1. CASE Read
  BY <1>1, ReadLitInv
<1>2. CASE HandBack
  BY <1>2, FailsLitInv DEF HandBack
<1>3. CASE GiveUp
  <2>1. Takes(ty, Token) = None /\ ty \in Chars
    BY <1>3 DEF GiveUp, CharNotUnderstood, Takes, Text, Chars
  <2> QED
    BY <1>3, <2>1, FailsLitInv DEF GiveUp
<1>4. CASE PanicIn
  <2>1. source = None \/ ty \notin Faithful
    BY <1>4, ReadingFaithful DEF PanicIn, Reading, AboutToRead
  <2>2. phase' = "panic" /\ source' = source /\ ty' = ty
    BY <1>4 DEF PanicIn
  <2> QED
    BY <2>1, <2>2 DEF LitInv, SourceInv, SourcePhase, HeldInv, EmittedInv, FailedInv, AgainInv
<1>5. CASE Emit
  <2>1. /\ phase = "value" /\ phase' = "emitted" /\ stream' = <<Emitted(value[1])>>
        /\ source' = source /\ ty' = ty /\ first' = first /\ value' = value
    BY <1>5 DEF Emit
  <2> QED
    BY <2>1 DEF LitInv, SourceInv, SourcePhase, HeldInv, EmittedInv, FailedInv, AgainInv, Emitted, Takes
<1>6. CASE NothingToRead
  <2>1. phase = "source"
    BY <1>6 DEF NothingToRead, AboutToRead, LitInv, EmittedInv
  <2>2. first' = None /\ phase' = "ended" /\ source' = source /\ ty' = ty
    BY <1>6, <2>1 DEF NothingToRead, LitInv, SourcePhase
  <2> QED
    BY <2>2 DEF LitInv, SourceInv, SourcePhase, HeldInv, EmittedInv, FailedInv, AgainInv
<1>7. CASE UNCHANGED vars
  BY <1>7 DEF vars, LitInv, SourceInv, SourcePhase, HeldInv, EmittedInv, FailedInv, AgainInv, Emitted, Takes
<1> QED
  BY <1>1, <1>2, <1>3, <1>4, <1>5, <1>7, <1>6 DEF Next

THEOREM LiteralInvariant == Spec => []LitInv
<1>1. Init => LitInv
  BY InitLit
<1>2. LitInv /\ [Next]_vars => LitInv'
  BY NextLit
<1> QED
  BY <1>1, <1>2, PTL DEF Spec

-----------------------------------------------------------------------------
(* What a token means.                                                     *)

\* One step of Resolved, and the fold as the function it is defined by.
Start == [open |-> FALSE, out |-> <<>>]
Pass(acc, c) ==
    IF acc.open THEN [open |-> FALSE, out |-> Append(acc.out, Stands(c))]
    ELSE IF c = Back THEN [acc EXCEPT !.open = TRUE] ELSE [acc EXCEPT !.out = Append(@, c)]
PassAll(q, s, it) == IF s = {} THEN Start ELSE Pass(it[s \ {Max(s)}], q[Max(s)])
Passes(q) == CHOOSE it : it = [s \in SUBSET DOMAIN q |-> PassAll(q, s, it)]

LEMMA ResolvedPasses == ASSUME NEW q PROVE Resolved(q) = Passes(q)[DOMAIN q].out
<1>1. Resolved(q) = FoldLeft(Pass, Start, q).out
  BY DEF Resolved, Pass, Start
<1>2. FoldLeft(Pass, Start, q) = Passes(q)[DOMAIN q]
  BY DEF FoldLeft, MapThenFoldSet, Passes, PassAll
<1> QED
  BY <1>1, <1>2

LEMMA MinIs ==
    ASSUME NEW S, S \subseteq Int, NEW k \in S
    PROVE  /\ (\A y \in S : k <= y) => Min(S) = k
           /\ (\A y \in S : k >= y) => Max(S) = k
<1>1. ASSUME \A y \in S : k <= y
      PROVE  Min(S) = k
  <2>1. Min(S) \in S /\ \A y \in S : Min(S) <= y
    BY <1>1 DEF Min
  <2>2. Min(S) <= k /\ k <= Min(S) /\ Min(S) \in Int /\ k \in Int
    BY <1>1, <2>1
  <2> QED
    BY <2>2
<1>2. ASSUME \A y \in S : k >= y
      PROVE  Max(S) = k
  <2>1. Max(S) \in S /\ \A y \in S : Max(S) >= y
    BY <1>2 DEF Max
  <2>2. Max(S) <= k /\ k <= Max(S) /\ Max(S) \in Int /\ k \in Int
    BY <1>2, <2>1
  <2> QED
    BY <2>2
<1> QED
  BY <1>1, <1>2

LEMMA PassesShort ==
    ASSUME NEW q, DOMAIN q \in {{1}, {1, 2}}
    PROVE  \A s \in SUBSET DOMAIN q : Passes(q)[s] = PassAll(q, s, Passes(q))
<1> DEFINE D == DOMAIN q
           g == [s \in SUBSET D |-> IF s = {} THEN Start ELSE IF 2 \notin s THEN Pass(Start, q[1])
                                    ELSE IF 1 \notin s THEN Pass(Start, q[2])
                                    ELSE Pass(Pass(Start, q[1]), q[2])]
<1>1. Max({1}) = 1 /\ Max({2}) = 2 /\ Max({1, 2}) = 2
  <2>1. {1} \subseteq Int /\ {2} \subseteq Int /\ {1, 2} \subseteq Int
    OBVIOUS
  <2>2. (\A y \in {1} : 1 >= y) /\ (\A y \in {2} : 2 >= y) /\ (\A y \in {1, 2} : 2 >= y)
    OBVIOUS
  <2>3. 1 \in {1} /\ 2 \in {2} /\ 2 \in {1, 2}
    OBVIOUS
  <2> QED
    BY <2>1, <2>2, <2>3, MinIs
<1>2. ASSUME NEW s \in SUBSET D
      PROVE  g[s] = PassAll(q, s, g)
  <2>1. s \in {{}, {1}, {2}, {1, 2}}
    OBVIOUS
  <2>2. CASE s = {}
    BY <2>2 DEF PassAll
  <2>3. CASE s = {1}
    <3>1. s \ {1} = {} /\ {} \in SUBSET D
      BY <2>3
    <3>2. g[{}] = Start /\ g[s] = Pass(Start, q[1])
      BY <2>3, <3>1
    <3> HIDE DEF g
    <3> QED
      BY <1>1, <2>3, <3>1, <3>2 DEF PassAll
  <2>4. CASE s = {2}
    <3>1. s \ {2} = {} /\ {} \in SUBSET D
      BY <2>4
    <3>2. g[{}] = Start /\ g[s] = Pass(Start, q[2])
      BY <2>4, <3>1
    <3> HIDE DEF g
    <3> QED
      BY <1>1, <2>4, <3>1, <3>2 DEF PassAll
  <2>5. CASE s = {1, 2}
    <3>1. s \ {2} = {1} /\ {1} \in SUBSET D
      BY <2>5
    <3>2. g[{1}] = Pass(Start, q[1]) /\ g[s] = Pass(Pass(Start, q[1]), q[2])
      BY <2>5, <3>1
    <3> HIDE DEF g
    <3> QED
      BY <1>1, <2>5, <3>1, <3>2 DEF PassAll
  <2> QED
    BY <2>1, <2>2, <2>3, <2>4, <2>5
<1>3. g = [s \in SUBSET D |-> PassAll(q, s, g)]
  <2> DEFINE h == [s \in SUBSET D |-> PassAll(q, s, g)]
  <2>1. DOMAIN g = SUBSET D /\ DOMAIN h = SUBSET D /\ g = [s \in SUBSET D |-> g[s]]
    OBVIOUS
  <2>2. \A s \in SUBSET D : h[s] = PassAll(q, s, g)
    OBVIOUS
  <2> QED
    BY <1>2
<1> HIDE DEF g
<1> DEFINE f == Passes(q)
<1>4. f = [s \in SUBSET D |-> PassAll(q, s, f)]
  BY <1>3 DEF Passes
<1> HIDE DEF f, D
<1>5. \A s \in SUBSET D : f[s] = PassAll(q, s, f)
  BY <1>4
<1> QED
  BY <1>5 DEF f, D

LEMMA ResolvedShort ==
    /\ \A c : c # Back => Resolved(<<c>>) = <<c>>
    /\ \A x : Resolved(<<Back, x>>) = <<Stands(x)>>
<1>1. Max({1}) = 1 /\ Max({1, 2}) = 2
  <2>1. {1} \subseteq Int /\ {1, 2} \subseteq Int /\ 1 \in {1} /\ 2 \in {1, 2}
    OBVIOUS
  <2>2. (\A y \in {1} : 1 >= y) /\ (\A y \in {1, 2} : 2 >= y)
    OBVIOUS
  <2> QED
    BY <2>1, <2>2, MinIs
<1>2. {1} \ {1} = {} /\ {1, 2} \ {2} = {1}
  OBVIOUS
<1>3. ASSUME NEW c, c # Back
      PROVE  Resolved(<<c>>) = <<c>>
  <2> DEFINE q == <<c>>
  <2>1. DOMAIN q = {1} /\ q[1] = c
    OBVIOUS
  <2> HIDE DEF q
  <2>2. /\ Passes(q)[{}] = PassAll(q, {}, Passes(q))
        /\ Passes(q)[{1}] = PassAll(q, {1}, Passes(q))
    <3>1. {} \in SUBSET DOMAIN q /\ {1} \in SUBSET DOMAIN q /\ DOMAIN q \in {{1}, {1, 2}}
      BY <2>1
    <3> QED
      BY <3>1, PassesShort
  <2>3. Passes(q)[{1}] = Pass(Start, c)
    BY <1>1, <1>2, <2>1, <2>2 DEF PassAll
  <2>4. Pass(Start, c).out = <<c>>
    BY <1>3 DEF Pass, Start
  <2> QED
    BY <2>1, <2>3, <2>4, ResolvedPasses DEF q
<1>4. ASSUME NEW x
      PROVE  Resolved(<<Back, x>>) = <<Stands(x)>>
  <2> DEFINE q == <<Back, x>>
  <2>1. DOMAIN q = {1, 2} /\ q[1] = Back /\ q[2] = x
    OBVIOUS
  <2> HIDE DEF q
  <2>2. /\ Passes(q)[{}] = PassAll(q, {}, Passes(q))
        /\ Passes(q)[{1}] = PassAll(q, {1}, Passes(q))
        /\ Passes(q)[{1, 2}] = PassAll(q, {1, 2}, Passes(q))
    <3>1. {} \in SUBSET DOMAIN q /\ {1} \in SUBSET DOMAIN q /\ {1, 2} \in SUBSET DOMAIN q /\ DOMAIN q \in {{1}, {1, 2}}
      BY <2>1
    <3> QED
      BY <3>1, PassesShort
  <2>3. Passes(q)[{1}] = Pass(Start, Back)
    BY <1>1, <1>2, <2>1, <2>2 DEF PassAll
  <2>4. Passes(q)[{1, 2}] = Pass(Pass(Start, Back), x)
    <3> HIDE DEF Pass
    <3>1. PassAll(q, {1, 2}, Passes(q)) = Pass(Passes(q)[{1}], x)
      BY <1>1, <1>2, <2>1 DEF PassAll
    <3> QED
      BY <2>2, <2>3, <3>1
  <2>5. Pass(Start, Back) = [open |-> TRUE, out |-> <<>>]
    BY DEF Pass, Start
  <2>6. Pass(Pass(Start, Back), x).out = <<Stands(x)>>
    <3>1. Pass([open |-> TRUE, out |-> <<>>], x).out = Append(<<>>, Stands(x))
      BY DEF Pass
    <3>2. Append(<<>>, Stands(x)) = <<Stands(x)>>
      OBVIOUS
    <3> QED
      BY <2>5, <3>1, <3>2
  <2> QED
    BY <2>1, <2>4, <2>6, ResolvedPasses DEF q
<1> QED
  BY <1>3, <1>4

\* What an escape of the table stands for is what the language says.
LEMMA StandsForEscape ==
    ASSUME NEW x, NEW c \in Unescape(<<x>>)
    PROVE  Stands(x) = c
<1>1. PICK d \in EscapeTable : <<x>> = <<d[1]>> /\ c = d[2]
  BY DEF Unescape
<1>2. x = d[1]
  BY <1>1
<1> QED
  BY <1>1, <1>2 DEF Stands, EscapeTable, Back, Tick, Newline, Tab, Return, Zero

LEMMA SuffixOne ==
    ASSUME NEW S, NEW text \in Seq(S), NEW a, IsSuffix(<<a>>, text)
    PROVE  Len(text) \in Nat /\ Len(text) >= 1 /\ text[Len(text)] = a
<1> DEFINE u == Reverse(<<a>>)  w == Reverse(text)  n == Len(text)
<1>1. u = <<a>>
  BY DEF Reverse
<1>2. n \in Nat /\ w \in Seq(S) /\ Len(w) = n /\ (n >= 1 => w[1] = text[n])
  <2>1. n \in Nat /\ \A i \in 1 .. n : (n - i) + 1 \in 1 .. n
    BY LenProperties
  <2>2. \A i \in 1 .. n : text[(n - i) + 1] \in S
    BY <2>1
  <2> QED
    BY <2>1, <2>2 DEF Reverse
<1>3. IsPrefix(<<a>>, w)
  BY <1>1 DEF IsSuffix
<1> HIDE DEF u, w
<1>4. Len(w) >= 1 /\ w[1] = a
  BY <1>2, <1>3, PrefixOne
<1> QED
  BY <1>2, <1>4

\* A character literal means what is between its marks.
LEMMA CharMeans ==
    ASSUME NEW t \in Chars, NEW S, NEW text \in Seq(S), NEW token, token.kind = "literal", token.text = text,
           IsCharForm(t, text), Len(text) > Mark(t) + 1
    PROVE  Meaning(token) = <<IF t = "ByteChar" THEN "byte" ELSE "char", Resolved(Between(text, Mark(t), 1))>>
<1> DEFINE k == Mark(t)  n == Len(text)  O == Opens(text)
<1>1. n \in Nat /\ k \in {1, 2} /\ k \in Nat /\ DOMAIN text = 1 .. n /\ n > k + 1
  BY LenProperties DEF Mark
<1>2. text[k] = Tick /\ (t = "ByteChar" => text[1] = "b")
  <2>1. CASE t = "Char"
    <3>1. IsPrefix(<<Tick>>, text)
      BY <2>1 DEF IsCharForm
    <3> QED
      BY <2>1, <3>1, PrefixOne DEF Mark
  <2>2. CASE t = "ByteChar"
    <3>1. IsPrefix(<<"b", Tick>>, text)
      BY <2>2 DEF IsCharForm
    <3> QED
      BY <2>2, <3>1, PrefixTwo DEF Mark
  <2> QED
    BY <2>1, <2>2 DEF Chars
<1>3. text[n] = Tick
  <2>1. IsSuffix(<<Tick>>, text)
    BY DEF IsCharForm
  <2> QED
    BY <2>1, SuffixOne
<1>4. O \subseteq Int /\ k \in O /\ n \in O /\ (\A i \in O : k <= i /\ n >= i)
  <2>1. \A i \in O : i \in 1 .. n /\ text[i] \in {Quote, Tick}
    BY <1>1 DEF Opens
  <2>2. k \in O /\ n \in O
    BY <1>1, <1>2, <1>3 DEF Opens
  <2>3. t = "ByteChar" => 1 \notin O
    BY <1>2, <2>1 DEF Quote, Tick
  <2>4. \A i \in O : k <= i
    BY <2>1, <2>3 DEF Mark
  <2> QED
    BY <1>1, <2>1, <2>2, <2>4
<1>5. Min(O) = k /\ Max(O) = n /\ O # {}
  BY <1>4, MinIs
<1>6. text[1] = IF t = "ByteChar" THEN "b" ELSE Tick
  BY <1>2 DEF Mark
<1>7. Kind(token) = IF t = "ByteChar" THEN "byte" ELSE "char"
  BY <1>2, <1>5, <1>6 DEF Kind, Tick
<1>8. ~(k > 1 /\ text[k - 1] \in {"r", Hash})
  BY <1>6 DEF Mark, Hash
<1> HIDE DEF k, n, O
<1>9. Meaning(token) = <<Kind(token), Resolved(SubSeq(text, k + 1, n - 1))>>
  BY <1>5, <1>8 DEF Meaning, O
<1> QED
  BY <1>7, <1>9 DEF Between, k, n

\* A text with one character after its first.
LEMMA TailOne ==
    ASSUME NEW S, NEW q \in Seq(S), Len(q) >= 1, NEW x, Tail(q) = <<x>>
    PROVE  q = <<q[1], x>>
<1>1. Len(q) \in Nat /\ Len(Tail(q)) = Len(q) - 1 /\ Len(<<x>>) = 1 /\ <<x>>[1] = x
  BY LenProperties
<1>2. Len(q) = 2
  <2> DEFINE n == Len(q)  m == Len(Tail(q))
  <2>1. m = 1 /\ m = n - 1 /\ n \in Nat
    <3>1. Len(Tail(q)) = Len(<<x>>)
      OBVIOUS
    <3> QED
      BY <1>1, <3>1
  <2> HIDE DEF n, m
  <2>2. n = 2
    BY <2>1
  <2> QED
    BY <2>2 DEF n
<1>3. Tail(q)[1] = q[2]
  BY <1>2
<1>4. <<q[1], q[2]>> \in Seq(S) /\ Len(<<q[1], q[2]>>) = 2
  BY <1>2
<1>5. q = <<q[1], q[2]>>
  BY <1>2, <1>4
<1> QED
  BY <1>1, <1>3, <1>5

\* What a character is read from means it.
LEMMA ReadMeansChar ==
    ASSUME NEW t \in Chars, NEW token \in Sources, Takes(t, token) # None
    PROVE  \E c : /\ KeptChar(t, c) /\ Takes(t, token) = <<Value(t, <<c>>)>>
                  /\ Meaning(token) = <<IF t = "ByteChar" THEN "byte" ELSE "char", <<c>>>>
<1> DEFINE text == token.text  k == Mark(t)  inner == Between(text, k, 1)
<1>1. /\ token.kind = "literal" /\ IsCharForm(t, text)
      /\ Takes(t, token) = ReadChar(t, text) /\ ReadChar(t, text) # None
  BY DEF Takes, Chars
<1>2. text \in Seq(Range(text)) /\ IsText(text) /\ High \notin Range(text) /\ Len(text) \in Nat /\ k \in {1, 2}
  BY SourcesAssumption, LenProperties DEF IsText, Mark
<1>3. inner \notin {<<>>, <<Back>>}
  BY <1>1, SourcesAssumption DEF Chars, Mark
<1>4. inner \in Seq(Range(text)) /\ Len(inner) \in Nat /\ Len(inner) >= 1 /\ Len(text) > k + 1
  <2>1. inner \in Seq(Range(text)) /\ Len(inner) \in Nat /\ (Len(inner) = 0 => inner = <<>>)
    BY <1>2, EmptySeq, LenProperties DEF Between
  <2>2. Len(inner) >= 1
    BY <1>3, <2>1
  <2>3. Len(inner) >= 1 => Len(text) > k + 1
    BY <1>2 DEF Between
  <2> QED
    BY <2>1, <2>2, <2>3
<1>5. PICK c : KeptChar(t, c) /\ ReadChar(t, text) = <<Value(t, <<c>>)>>
  BY <1>1, <1>2, CharIsKept
<1> HIDE DEF inner, k
<1>6. Resolved(inner) = <<c>>
  <2>1. CASE Len(inner) = 1 /\ Bytes(inner[1]) = 1
    <3>1. ReadChar(t, text) = <<Value(t, inner)>>
      BY <2>1 DEF ReadChar, inner, k, Mark
    <3>2. inner = <<c>>
      BY <1>5, <3>1 DEF Value
    <3>3. c # Back
      BY <1>3, <3>2
    <3> QED
      BY <3>2, <3>3, ResolvedShort
  <2>2. CASE ~(Len(inner) = 1 /\ Bytes(inner[1]) = 1)
    <3> DEFINE u == Unescape(Tail(inner))
    <3>1. inner[1] = Back /\ u # {} /\ ReadChar(t, text) = <<Value(t, <<CHOOSE x \in u : TRUE>>)>>
      BY <1>1, <2>2 DEF ReadChar, inner, k, Mark
    <3>2. c \in u
      BY <1>5, <3>1 DEF Value
    <3>3. PICK d \in EscapeTable : Tail(inner) = <<d[1]>>
      BY <3>2 DEF Unescape
    <3>4. inner = <<inner[1], d[1]>>
      BY <1>4, <3>3, TailOne
    <3>5. inner = <<Back, d[1]>>
      BY <3>1, <3>4
    <3>6. Stands(d[1]) = c
      BY <3>2, <3>3, StandsForEscape
    <3> QED
      BY <3>5, <3>6, ResolvedShort
  <2> QED
    BY <2>1, <2>2
<1>7. Meaning(token) = <<IF t = "ByteChar" THEN "byte" ELSE "char", Resolved(inner)>>
  BY <1>1, <1>2, <1>4, CharMeans DEF inner, k
<1> QED
  BY <1>1, <1>5, <1>6, <1>7

\* What a character is emitted as means it.
LEMMA EmittedMeansChar ==
    ASSUME NEW t \in Chars, NEW c, KeptChar(t, c)
    PROVE  Meaning(Literal(NewChar(t, c))) = <<IF t = "ByteChar" THEN "byte" ELSE "char", <<c>>>>
<1> DEFINE text == NewChar(t, c)  e == Escaped(c, {Back, Tick}, "0")  token == Literal(text)
<1>1. /\ \E S : text \in Seq(S)
      /\ IsCharForm(t, text) /\ Between(text, Mark(t), 1) = e /\ Len(text) > Mark(t) + 1
      /\ \/ e = <<c>> /\ Bytes(c) = 1 /\ c # Back
         \/ \E x : e = <<Back, x>> /\ Unescape(<<x>>) = {c}
  BY NewCharForm
<1>2. token.kind = "literal" /\ token.text = text
  BY DEF Literal
<1> HIDE DEF text, e, token
<1>3. Resolved(e) = <<c>>
  <2>1. CASE e = <<c>> /\ c # Back
    BY <2>1, ResolvedShort
  <2>2. ASSUME NEW x, e = <<Back, x>>, Unescape(<<x>>) = {c}
        PROVE  Resolved(e) = <<c>>
    BY <2>2, ResolvedShort, StandsForEscape
  <2> QED
    BY <1>1, <2>1, <2>2
<1>4. Meaning(token) = <<IF t = "ByteChar" THEN "byte" ELSE "char", Resolved(Between(text, Mark(t), 1))>>
  BY <1>1, <1>2, CharMeans
<1> QED
  BY <1>1, <1>3, <1>4 DEF text, token

\* A text is its marks around what is between them.
LEMMA Rewrapped ==
    ASSUME NEW S, NEW a \in Seq(S), NEW z \in S, NEW text \in Seq(S),
           IsPrefix(a, text), IsSuffix(<<z>>, text), Len(text) > Len(a)
    PROVE  a \o Between(text, Len(a), 1) \o <<z>> = text
<1> DEFINE k == Len(a)  n == Len(text)  b == Between(text, k, 1)  new == a \o b \o <<z>>
<1>1. k \in Nat /\ n \in Nat /\ n > k /\ text[n] = z
  BY SuffixOne, LenProperties
<1>2. b \in Seq(S) /\ Len(b) = n - 1 - k /\ \A i \in 1 .. n - 1 - k : b[i] = text[k + i]
  BY <1>1 DEF Between
<1>3. \A i \in 1 .. k : a[i] = text[i]
  <2>1. k <= n /\ SubSeq(a, 1, k) = SubSeq(text, 1, k)
    BY DEF IsPrefix
  <2>2. \A i \in 1 .. k : SubSeq(a, 1, k)[i] = a[i]
    BY <1>1
  <2>3. \A i \in 1 .. k : SubSeq(text, 1, k)[i] = text[i]
    BY <1>1
  <2> QED
    BY <2>1, <2>2, <2>3
<1> HIDE DEF b, k, n
<1>4. new \in Seq(S) /\ Len(new) = n
  <2>1. Encloses(S, a, b, z)
    BY <1>2, Wrapped
  <2>2. new \in Seq(S) /\ Len(new) = k + Len(b) + 1
    BY <2>1 DEF new, k, Encloses
  <2> HIDE DEF new
  <2> QED
    BY <1>1, <1>2, <2>2
<1>5. ASSUME NEW i \in 1 .. n
      PROVE  new[i] = text[i]
  <2> DEFINE ab == a \o b
  <2>1. /\ ab \in Seq(S) /\ Len(ab) = n - 1
        /\ \A j \in 1 .. n - 1 : ab[j] = IF j <= k THEN a[j] ELSE b[j - k]
    BY <1>1, <1>2, ConcatProperties DEF k
  <2>2. <<z>> \in Seq(S) /\ Len(<<z>>) = 1 /\ <<z>>[1] = z
    OBVIOUS
  <2>3. new = ab \o <<z>>
    OBVIOUS
  <2> DEFINE c == <<z>>
  <2> HIDE DEF ab, new, c
  <2>4. i <= n - 1 => new[i] = ab[i]
    BY <1>1, <2>1, <2>2, <2>3, ConcatProperties DEF c
  <2>5. new[n] = z
    BY <1>1, <2>1, <2>2, <2>3, ConcatProperties DEF c
  <2>6. CASE i <= k
    BY <1>1, <1>3, <2>1, <2>4, <2>6
  <2>7. CASE i > k /\ i <= n - 1
    <3>1. i - k \in 1 .. n - 1 - k /\ k + (i - k) = i
      BY <1>1, <2>7
    <3> QED
      BY <1>1, <1>2, <2>1, <2>4, <2>7, <3>1
  <2>8. CASE i = n
    BY <1>1, <2>5, <2>8
  <2> QED
    BY <1>1, <2>6, <2>7, <2>8
<1> HIDE DEF new
<1> QED
  BY <1>4, <1>5, SeqEqual DEF n, new, b, k

\* ResolvedMeansTheSame: what a faithful type reads and emits again means what it meant to the
\* compiler (Parse and Unparse of literal.rs).
THEOREM MeaningIsKept == Spec => []ResolvedMeansTheSame
<1>1. ASSUME LitInv, phase = "emitted", source # None, ty \in Faithful
      PROVE  Meaning(stream[1]) = Meaning(source[1])
  <2>1. PICK token \in Sources : source = <<token>>
    BY <1>1 DEF LitInv, SourceInv
  <2>2. source[1] = token /\ value = Takes(ty, token) /\ Takes(ty, token) # None
    BY <1>1, <2>1 DEF LitInv, HeldInv
  <2>3. PICK v : Takes(ty, token) = <<v>> /\ KeptAs(ty, v)
    BY <1>1, <2>2, TakenIsKept
  <2>4. stream[1] = Emitted(v) /\ v.ty = ty
    BY <1>1, <2>2, <2>3 DEF LitInv, EmittedInv, KeptAs
  <2>5. IsText(token.text)
    BY SourcesAssumption DEF IsText
  <2>6. ASSUME NEW a, NEW b, a.kind = b.kind, a.text = b.text
        PROVE  Meaning(a) = Meaning(b)
    BY <2>6 DEF Meaning, Kind
  <2>7. CASE ty = "Bool"
    <3>1. token.kind = "ident" /\ v = Value("Bool", token.text) /\ token.text \in {<<"true">>, <<"false">>}
      BY <2>3, <2>7 DEF Takes, ReadBool, Chars, None
    <3>2. PICK b : token.text = <<b>>
      BY <3>1
    <3>3. v.value = <<b>> /\ v.ty = "Bool"
      BY <3>1, <3>2 DEF Value
    <3>4. Emitted(v).kind = "ident" /\ Emitted(v).text = <<b>>
      BY <3>3 DEF Emitted, Ident
    <3> QED
      BY <2>2, <2>4, <2>6, <3>1, <3>2, <3>4
  <2>8. CASE ty \in Chars
    <3>1. PICK c : /\ KeptChar(ty, c) /\ Takes(ty, token) = <<Value(ty, <<c>>)>>
                   /\ Meaning(token) = <<IF ty = "ByteChar" THEN "byte" ELSE "char", <<c>>>>
      BY <2>2, <2>8, ReadMeansChar
    <3>2. v.value = <<c>>
      BY <2>3, <3>1 DEF Value
    <3>3. Emitted(v) = Literal(NewChar(ty, c))
      BY <2>4, <2>8, <3>2 DEF Emitted, Chars
    <3> QED
      BY <2>2, <2>4, <2>8, <3>1, <3>3, EmittedMeansChar
  <2>9. CASE ty = "Integer"
    <3>1. token.kind = "literal" /\ ReadInteger(token.text) = <<v>>
      BY <2>3, <2>9 DEF Takes, ReadLit, Chars, None
    <3>2. Emitted(v).kind = "literal" /\ Emitted(v).text = token.text
      BY <2>5, <3>1, NumberIsEmitted
    <3> QED
      BY <2>2, <2>4, <2>6, <3>1, <3>2
  <2>10. CASE ty = "Float"
    <3>1. token.kind = "literal" /\ ReadFloat(token.text) = <<v>>
      BY <2>3, <2>10 DEF Takes, ReadLit, Chars, None
    <3>2. Emitted(v).kind = "literal" /\ Emitted(v).text = token.text
      BY <2>5, <3>1, NumberIsEmitted
    <3> QED
      BY <2>2, <2>4, <2>6, <3>1, <3>2
  <2>11. CASE ty = "CStr"
    <3> DEFINE text == token.text  open == <<"c", Quote>>  body == Between(text, 2, 1)
               S == Range(text) \cup {"c", Quote}
    <3>1. token.kind = "literal" /\ ReadQuoted("CStr", <<"c">>, text) = <<v>>
      BY <2>3, <2>11 DEF Takes, ReadLit, Chars, None
    <3>2. <<"c">> \o <<Quote>> = open /\ Len(<<"c">>) + 1 = 2
      BY OneAndOne
    <3>3. IsPrefix(open, text) /\ IsSuffix(<<Quote>>, text) /\ v = Value("CStr", body)
      BY <3>1, <3>2 DEF ReadQuoted, None
    <3>4. Len(text) > 2 /\ LexesQuoted(body)
      BY <3>3, SourcesAssumption
    <3>5. open \in Seq(S) /\ Quote \in S /\ text \in Seq(S) /\ Len(open) = 2
      <4>1. Seq(Range(text)) \subseteq Seq(S)
        OBVIOUS
      <4> QED
        BY <2>5, <4>1 DEF IsText
    <3>6. open \o body \o <<Quote>> = text
      <4> HIDE DEF open, S, text, body
      <4>1. open \o Between(text, Len(open), 1) \o <<Quote>> = text
        BY <3>3, <3>4, <3>5, Rewrapped
      <4> QED
        BY <3>5, <4>1 DEF body
    <3>7. v.ty = "CStr" /\ v.value = body
      BY <3>3 DEF Value
    <3>8. Emitted(v) = Literal(open \o body \o <<Quote>>)
      BY <3>4, <3>7 DEF Emitted
    <3>9. Emitted(v).kind = "literal" /\ Emitted(v).text = text
      BY <3>6, <3>8 DEF Literal
    <3> QED
      BY <2>2, <2>4, <2>6, <3>1, <3>9
  <2> QED
    BY <1>1, <2>7, <2>8, <2>9, <2>10, <2>11 DEF Faithful, Resolving, Chars
<1>2. LitInv => ResolvedMeansTheSame
  BY <1>1 DEF ResolvedMeansTheSame, EmittedMeansTheSame, Faithful
<1> QED
  BY <1>2, LiteralInvariant, PTL

-----------------------------------------------------------------------------
(* The properties.                                                         *)

\* TakenByOne: no token is taken by two of the literal types, whatever its text, so the order of
\* an enum's variants does not decide what a token is read as (parse_impl.rs).
THEOREM OneTypeTakes == Spec => []TakenByOne
<1>1. ASSUME LitInv, phase = "value", source # None, NEW u \in Types \ {ty}
      PROVE  Takes(u, source[1]) = None
  <2>1. PICK t \in Sources : source = <<t>>
    BY <1>1 DEF LitInv, SourceInv
  <2>2. source[1] = t /\ IsText(t.text)
    BY <2>1, SourcesAssumption DEF IsText
  <2>3. Takes(ty, t) # None /\ ty \in Types
    BY <1>1, <2>2 DEF LitInv, HeldInv
  <2>4. Takes(u, t) # None => u = ty
    BY <1>1, <2>2, <2>3, TakesBegins, GoesToOne
  <2> QED
    BY <1>1, <2>2, <2>4
<1>2. LitInv => TakenByOne
  BY <1>1 DEF TakenByOne
<1> QED
  BY <1>2, LiteralInvariant, PTL

\* ReadsBack: a type that resolves its token, or keeps it as it is, reads what it emits, and to
\* the same value (Unparse and Parse of literal.rs): for every text that the compiler makes.
THEOREM FaithfulReadBack == Spec => []ReadsBack
<1>1. LitInv => ReadsBack
  BY DEF LitInv, AgainInv, FailedInv, ReadsBack, Faithful
<1> QED
  BY <1>1, LiteralInvariant, PTL

\* ShownAsEmitted: Display and Unparse of a resolving type write the same text (display_impl.rs,
\* unparse_impl.rs).
THEOREM ShownIsEmitted == Spec => []ShownAsEmitted
<1>1. ASSUME LitInv, phase = "emitted", ty \in Resolving
      PROVE  Meaning(Literal(Display(value[1])))[2] = Meaning(stream[1])[2]
  <2>1. PICK v : /\ value = <<v>> /\ v.ty = ty
                 /\ ty = "Bool" => v.value \in {<<"true">>, <<"false">>}
    <3>1. CASE source # None
      <4>1. PICK t \in Sources : source = <<t>>
        BY <1>1, <3>1 DEF LitInv, SourceInv
      <4>2. value = Takes(ty, t) /\ Takes(ty, t) # None
        BY <1>1, <3>1, <4>1 DEF LitInv, HeldInv
      <4>3. PICK v : Takes(ty, t) = <<v>> /\ KeptAs(ty, v)
        BY <1>1, <4>2, TakenIsKept DEF Faithful
      <4> QED
        BY <4>2, <4>3 DEF KeptAs, Value
    <3>2. CASE source = None
      <4>1. PICK v \in Built : value = <<v>> /\ v.ty = ty
        BY <1>1, <3>2 DEF LitInv, HeldInv
      <4> QED
        BY <4>1, BuiltAssumption
    <3> QED
      BY <3>1, <3>2
  <2>2. value[1] = v /\ stream[1] = Emitted(v)
    BY <1>1, <2>1 DEF LitInv, EmittedInv
  <2>3. CASE ty = "Bool"
    <3>1. PICK b \in {"true", "false"} : v.value = <<b>>
      BY <2>1, <2>3
    <3>2. Display(v) = <<b>> /\ Emitted(v) = Ident(b)
      BY <2>1, <2>3, <3>1 DEF Display, Emitted
    <3>3. Opens(<<b>>) = {}
      <4>1. \A i \in DOMAIN <<b>> : <<b>>[i] = b
        OBVIOUS
      <4>2. b \notin {Quote, Tick}
        BY <3>1 DEF Quote, Tick
      <4> QED
        BY <4>1, <4>2 DEF Opens
    <3>4. Meaning(Literal(<<b>>))[2] = <<b>>
      BY <3>3 DEF Meaning, Literal
    <3>5. Meaning(Ident(b))[2] = <<b>>
      BY DEF Meaning, Ident
    <3> QED
      BY <2>2, <3>2, <3>4, <3>5
  <2>4. CASE ty \in Chars
    <3>1. Display(v) = NewChar(v.ty, v.value[1]) /\ Emitted(v) = Literal(NewChar(v.ty, v.value[1]))
      BY <2>1, <2>4 DEF Display, ShowChar, NewChar, Emitted, Chars
    <3> QED
      BY <2>2, <3>1
  <2>5. CASE ty \in {"Integer", "Float"}
    <3>1. Emitted(v) = Literal(Display(v))
      BY <2>1, <2>5 DEF Emitted
    <3> QED
      BY <2>2, <3>1
  <2> QED
    BY <1>1, <2>3, <2>4, <2>5 DEF Resolving, Chars
<1>2. LitInv => ShownAsEmitted
  BY <1>1 DEF ShownAsEmitted
<1> QED
  BY <1>2, LiteralInvariant, PTL
=============================================================================
