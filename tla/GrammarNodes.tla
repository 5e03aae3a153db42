---------------------------- MODULE GrammarNodes ----------------------------
(***************************************************************************)
(* Constructors for the nodes of a grammar (see Grammar): one for each     *)
(* type of the library that implements Parse and each shape of derived     *)
(* type.  n, t, u and p are names of nodes, d is a pair of delimiters.     *)
(***************************************************************************)
Leaf(atoms) == [kind |-> "leaf", accepts |-> atoms]
IntegerOf(digits, fillers, alphanumerics, suffixes) ==
    [kind |-> "integer", digits |-> digits, fillers |-> fillers,
     alphanumerics |-> alphanumerics, suffixes |-> suffixes]
Tuple(nodes) == [kind |-> "tuple", of |-> nodes]
JointOf(nodes) == [kind |-> "joint", of |-> nodes]
OptionOf(n) == [kind |-> "option", of |-> n]
ResultOf(n) == [kind |-> "result", of |-> n]
SpannedOf(n) == [kind |-> "spanned", of |-> n]
AttemptOf(n) == [kind |-> "attempt", of |-> n]
VecOf(n) == [kind |-> "many", of |-> n]
PunctuatedBy(n, p) == [kind |-> "punctuated", of |-> n, punct |-> p]
UnorderedOf(t, u) == [kind |-> "unordered", t |-> t, u |-> u]

\* The delimiters of a group: the symbols of a text, or the tokens that are
\* groups with these delimiters.
TextDelims(open, close) == [open |-> open, close |-> close]
TokenDelims(groups) == [groups |-> groups]
GroupOf(n, d) == [kind |-> "group", of |-> n, delims |-> d]

Struct(fields) == [kind |-> "struct", fields |-> fields]
Enum(variants) == [kind |-> "enum", variants |-> variants]

Field(n) == [node |-> n, attr |-> "none", content |-> FALSE]
JointField(n) == [node |-> n, attr |-> "joint", content |-> FALSE]
AloneField(n) == [node |-> n, attr |-> "alone", content |-> FALSE]
DefaultField(n) == [node |-> n, attr |-> "default", content |-> FALSE]
GroupField(n) == [node |-> n, attr |-> "none", content |-> TRUE]
=============================================================================
