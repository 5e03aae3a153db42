--------------------------- MODULE LiteralClient ----------------------------
(***************************************************************************)
(* A program that reads a token as one of the literal types, shows the     *)
(* value, emits it and reads what it emitted; or that starts from a value  *)
(* it built itself, whose fields are public.                               *)
(***************************************************************************)
EXTENDS LiteralForms

CONSTANTS Sources,  \* the tokens that a source may hold
          Built     \* the values that a program may build

\* A source holds what the compiler took for a token: its text is not empty, a
\* C string's lexes between its quotes, a character's are not around nothing or
\* a lone backslash, and a byte beyond ASCII is written with an escape.
ASSUME SourcesAssumption ==
    \A t \in Sources :
        /\ t.text \in Seq(Range(t.text)) \ {<<>>}
        /\ High \notin Range(t.text)
        /\ IsPrefix(<<"c", Quote>>, t.text) => Len(t.text) > 2 /\ LexesQuoted(Between(t.text, 2, 1))
        /\ IsCharForm("Char", t.text) => Between(t.text, 1, 1) \notin {<<>>, <<Back>>}
        /\ IsCharForm("ByteChar", t.text) => Between(t.text, 2, 1) \notin {<<>>, <<Back>>}

\* A value has the fields of its type: a bool or one character is what it says.
ASSUME BuiltAssumption ==
    \A v \in Built :
        /\ v.ty \in Types
        /\ v.ty = "Bool" => v.value \in {<<"true">>, <<"false">>}

VARIABLES source,  \* the token to read, or None when the source is at its end
          stream,  \* the token stream at the literal
          ty,      \* the type that is read
          first,   \* the value that was read first, or was built
          value,   \* the value at hand, or None
          phase    \* what happened last

vars == <<source, stream, ty, first, value, phase>>

Init ==
    \/ /\ source \in {<<t>> : t \in Sources} \cup {None} /\ stream = source /\ ty \in Types
       /\ first = None /\ value = None /\ phase = "source"
    \/ /\ source = None /\ stream = <<>> /\ first \in {<<v>> : v \in Built} /\ value = first
       /\ ty = value[1].ty /\ phase = "value"

Token == stream[1]
Text == Token.text
Chars == {"Char", "ByteChar"}
AboutToRead == phase \in {"source", "emitted"}
Reading == AboutToRead /\ stream # <<>>

\* What a type makes of the token, Panic if its parser does.
Takes(t, token) ==
    CASE t = "Bool" -> IF token.kind = "ident" THEN ReadBool(token.text) ELSE None
      [] t \in Chars -> IF token.kind = "literal" /\ IsCharForm(t, token.text) THEN ReadChar(t, token.text) ELSE None
      [] OTHER -> IF token.kind = "literal" THEN ReadLit(t, token.text) ELSE None

Read ==
    /\ Reading
    /\ Takes(ty, Token) \notin {None, Panic}
    /\ value' = Takes(ty, Token)
    /\ first' = IF phase = "source" THEN value' ELSE first
    /\ stream' = Tail(stream)
    /\ phase' = IF phase = "source" THEN "value" ELSE "again"
    /\ UNCHANGED <<source, ty>>

\* next at the end of the input: every type reports Eof.
NothingToRead ==
    /\ AboutToRead
    /\ stream = <<>>
    /\ value' = None
    /\ phase' = "ended"
    /\ UNCHANGED <<source, stream, ty, first>>

\* The token has the form but no known content.
CharNotUnderstood == ty \in Chars /\ Token.kind = "literal" /\ IsCharForm(ty, Text) /\ ReadChar(ty, Text) = None

\* next, and push in front of what is left: the failure is of a literal.
HandBack ==
    /\ Reading
    /\ Takes(ty, Token) = None /\ ~CharNotUnderstood
    /\ stream' = <<Token>> \o Tail(stream)
    /\ value' = None
    /\ phase' = "failed"
    /\ UNCHANGED <<source, ty, first>>

\* next alone: the failure is Eof, and the token is gone.
GiveUp ==
    /\ Reading
    /\ CharNotUnderstood
    /\ stream' = Tail(stream)
    /\ value' = None
    /\ phase' = "ended"
    /\ UNCHANGED <<source, ty, first>>

PanicIn ==
    /\ Reading
    /\ Takes(ty, Token) = Panic
    /\ stream' = Tail(stream)
    /\ phase' = "panic"
    /\ UNCHANGED <<source, ty, first, value>>

Emit ==
    /\ phase = "value"
    /\ stream' = <<Emitted(value[1])>>
    /\ phase' = "emitted"
    /\ UNCHANGED <<source, ty, first, value>>

Next == Read \/ NothingToRead \/ HandBack \/ GiveUp \/ PanicIn \/ Emit
Spec == Init /\ [][Next]_vars

\* --- what a token means, by the reference of the language ---

\* Of the characters between the quotes: what is written with an escape is one character.
Stands(c) ==
    CASE c = "n" -> Newline [] c = "t" -> Tab [] c = "r" -> Return [] c = "0" -> Zero [] OTHER -> c
Resolved(body) ==
    LET Step(acc, c) ==
            IF acc.open
            THEN [open |-> FALSE, out |-> Append(acc.out, Stands(c))]
            ELSE IF c = Back THEN [acc EXCEPT !.open = TRUE] ELSE [acc EXCEPT !.out = Append(@, c)]
    IN  FoldLeft(Step, [open |-> FALSE, out |-> <<>>], body).out

Opens(text) == {i \in DOMAIN text : text[i] \in {Quote, Tick}}
\* The language's type of a token; raw or not, a string is a string.
Kind(token) ==
    LET text == token.text
    IN  IF token.kind # "literal" THEN token.kind
        ELSE IF Opens(text) = {} THEN IF "." \in Range(text) THEN "float" ELSE "int"
        ELSE IF text[1] = "b" THEN IF Tick = text[Min(Opens(text))] THEN "byte" ELSE "bytes"
        ELSE IF text[1] = "c" THEN "cstr"
        ELSE IF Tick = text[Min(Opens(text))] THEN "char" ELSE "str"
Meaning(token) ==
    LET text == token.text
        open == Min(Opens(text))
        raw == open > 1 /\ text[open - 1] \in {"r", Hash}
        last == Max(Opens(text))
    IN  IF token.kind # "literal" \/ Opens(text) = {} THEN <<Kind(token), text>>
        ELSE <<Kind(token), IF raw THEN SubSeq(text, open + 1, last - 1)
                            ELSE Resolved(SubSeq(text, open + 1, last - 1))>>

\* --- properties ---

\* A token is taken by one literal type at most: the order of an enum's variants does not
\* decide what a token is read as.
TakenByOne == phase = "value" /\ source # None => \A t \in Types \ {ty} : Takes(t, source[1]) = None

\* The types that resolve what they read, and what stores it as it was written.
Resolving == {"Bool", "Char", "ByteChar", "Integer", "Float"}

\* What is read and emitted again means what it meant.
EmittedMeansTheSame == phase = "emitted" /\ source # None => Meaning(stream[1]) = Meaning(source[1])
ResolvedMeansTheSame == ty \in Resolving \cup {"CStr"} => EmittedMeansTheSame

\* What is emitted is read by the same type again, to the same value.
ReadsBack ==
    ty \in Resolving \cup {"CStr"} /\ source # None =>
        phase # "panic" /\ (phase \in {"again", "failed", "ended"} /\ first # None => value = first)

\* A value is shown as it is emitted.
ShownAsEmitted == phase = "emitted" /\ ty \in Resolving => Meaning(Literal(Display(value[1])))[2] = Meaning(stream[1])[2]
=============================================================================
