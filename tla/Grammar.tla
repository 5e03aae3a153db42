------------------------------ MODULE Grammar ------------------------------
(***************************************************************************)
(* Types that implement Parse, as nodes of a grammar, and what the derive  *)
(* macro (macro/attribute/adt.rs, substruct.rs) and the fixed combinators  *)
(* make of them: a list of items to run in order, each of which reads the  *)
(* stream.  A node refers to others by name, so types may be recursive.    *)
(***************************************************************************)
EXTENDS Spans, FiniteSetsExt

CONSTANT Rules    \* the grammar: a function from type names to nodes

NodeId == DOMAIN Rules

\* The delimiters of a group: the symbols around it in a text, or the tokens
\* that are groups with these delimiters.
DelimsType == IF TokenSource THEN [groups : SUBSET DOMAIN Content]
              ELSE [open : NodeId, close : NodeId]

\* A field of a derived type (see below).
FieldType == [node : NodeId, attr : {"none", "joint", "alone", "default"},
              content : BOOLEAN]

\* Numbers are scanned in texts only; among tokens they are literals, leaves.
IsNode(r) ==
    \/ r \in [kind : {"leaf"}, accepts : SUBSET Atom]
    \/ /\ ~TokenSource
       /\ r \in [kind : {"integer"}, digits : SUBSET Atom, fillers : SUBSET Atom,
                 alphanumerics : SUBSET Atom, suffixes : SUBSET Seq(Atom)]
    \/ r \in [kind : {"tuple", "joint"}, of : Seq(NodeId)]
    \/ r \in [kind : {"option", "result", "spanned", "attempt", "many"}, of : NodeId]
    \/ r \in [kind : {"punctuated"}, of : NodeId, punct : NodeId]
    \/ r \in [kind : {"unordered"}, t : NodeId, u : NodeId]
    \/ r \in [kind : {"group"}, of : NodeId, delims : DelimsType]
    \/ r \in [kind : {"struct"}, fields : Seq(FieldType)]
    \/ r \in [kind : {"enum"}, variants : Seq(Seq(FieldType))]

\* A field with content fields after it is a holder: its type has to have the
\* shape of a group (trait GroupShape).
HoldersAreGroups(fields) ==
    \A i \in 1 .. Len(fields) - 1 :
        ~fields[i].content /\ fields[i].attr # "default" /\ fields[i + 1].content =>
            Rules[fields[i].node].kind = "group"

ASSUME GrammarAssumption ==
    \A n \in NodeId :
        /\ IsNode(Rules[n])
        /\ Rules[n].kind = "struct" => HoldersAreGroups(Rules[n].fields)
        /\ Rules[n].kind = "enum" =>
              \A v \in DOMAIN Rules[n].variants : HoldersAreGroups(Rules[n].variants[v])

-----------------------------------------------------------------------------
(* Items: the statements of a generated or hand-written parse_stream. *)

SkipSep == [op |-> "skip"]                    \* let _ = skip_sep()
Spaced(joint) == [op |-> "spacing", joint |-> joint]  \* validate_spacing(joint)?
Together == [op |-> "together"]               \* if skip_sep() { return Err }
Parse(n) == [op |-> "parse", node |-> n]      \* N::parse_stream(stream)?
Default == [op |-> "default"]                 \* Default::default()

\* Group<T, O, C> and GroupShape::parse_group, around the items of the content.
\* Text reads open, content and close one after the other; the token source
\* takes the whole group as one atom and opens a stream on its contents.
GroupItems(delims, body) ==
    IF TokenSource
    THEN << [op |-> "group", groups |-> delims.groups, body |-> body] >>
    ELSE <<Parse(delims.open), SkipSep>> \o body \o <<SkipSep, Parse(delims.close)>>

TupleItems(nodes) == [i \in DOMAIN nodes |-> Parse(nodes[i])]

\* Joint<(A, B, ..)>: no separator between two of the parts.
JointItems(nodes) ==
    FlattenSeq([i \in DOMAIN nodes |->
        IF i < Len(nodes) THEN <<Parse(nodes[i]), Together>> ELSE <<Parse(nodes[i])>>])

-----------------------------------------------------------------------------
(***************************************************************************)
(* Fields of a derived type: [node, attr, content], where attr is the      *)
(* field's #[joint], #[alone] or #[default], if any, and content says that *)
(* it carries #[group(..)] naming the field its run of content fields      *)
(* follows, the holder.  (Groups within the content of a group are left    *)
(* out: the substruct is derived the same way.)                            *)
(***************************************************************************)
PlainItems(f) ==
    CASE f.attr = "default" -> <<Default>>
      [] f.attr = "joint"   -> <<Spaced(TRUE), Parse(f.node)>>
      [] f.attr = "alone"   -> <<Spaced(FALSE), Parse(f.node)>>
      [] f.attr = "none"    -> <<SkipSep, Parse(f.node)>>

\* The fields that generate_substruct moves into the holder fields[i].
Absorbed(fields, i) ==
    LET last == Max({j \in i .. Len(fields) :
                        \A k \in i + 1 .. j : fields[k].content})
    IN  SubSeq(fields, i + 1, last)

\* The substruct is derived as a struct of its own, its fields now plain.
SubstructItems(fields) ==
    FlattenSeq([i \in DOMAIN fields |-> PlainItems(fields[i])])

\* A holder is entered through parse_group, with no separator skipped first.
FieldItems(fields) ==
    FlattenSeq([i \in DOMAIN fields |->
        IF fields[i].content THEN <<>>
        ELSE IF fields[i].attr # "default" /\ Absorbed(fields, i) # <<>>
        THEN GroupItems(Rules[fields[i].node].delims,
                        SubstructItems(Absorbed(fields, i)))
        ELSE PlainItems(fields[i])])

-----------------------------------------------------------------------------
\* common_field_prefix_len: how many leading fields all variants share.
CommonFieldPrefixLen(variants) ==
    Max({n \in 0 .. Len(variants[1]) :
            \A v \in DOMAIN variants :
               /\ n <= Len(variants[v])
               /\ SubSeq(variants[v], 1, n) = SubSeq(variants[1], 1, n)})

\* Mutant of PrefixLen: the split point is not walked back.
PrefixLenTearing(variants) ==
    IF Len(variants) < 2 THEN 0 ELSE CommonFieldPrefixLen(variants)

\* The shared prefix an enum parses once: the split point is walked back until
\* no variant continues with a content field, which would tear a group apart.
\* An enum of fewer than two variants is not factored.
PrefixLen(variants) ==
    LET walked == {n \in 1 .. CommonFieldPrefixLen(variants) :
                      \A v \in DOMAIN variants :
                         ~(n < Len(variants[v]) /\ variants[v][n + 1].content)}
    IN  IF Len(variants) < 2 THEN 0 ELSE Max(walked \cup {0})

\* A variant that is exactly the prefix succeeds wherever the prefix does.
IsFallback(variants, v) ==
    PrefixLen(variants) > 0 /\ Len(variants[v]) = PrefixLen(variants)

Prefix(variants) == SubSeq(variants[1], 1, PrefixLen(variants))
Suffix(variants, v) ==
    SubSeq(variants[v], PrefixLen(variants) + 1, Len(variants[v]))

-----------------------------------------------------------------------------
\* The nodes whose parse_stream is a fixed list of items.
ItemKinds == {"struct", "tuple", "joint", "group"}

ItemsOf(r) ==
    CASE r.kind = "struct" -> FieldItems(r.fields)
      [] r.kind = "tuple"  -> TupleItems(r.of)
      [] r.kind = "joint"  -> JointItems(r.of)
      [] r.kind = "group"  -> GroupItems(r.delims, <<Parse(r.of)>>)

\* The code of each type, worked out once for the grammar as the macro does.
ItemNodes == {n \in NodeId : Rules[n].kind \in ItemKinds}
EnumNodes == {n \in NodeId : Rules[n].kind = "enum"}

TypeItems == [n \in ItemNodes |-> ItemsOf(Rules[n])]
SharedFields == [n \in EnumNodes |-> PrefixLen(Rules[n].variants)]
Fallbacks ==
    [n \in EnumNodes |->
        {v \in DOMAIN Rules[n].variants : IsFallback(Rules[n].variants, v)}]
PrefixItems == [n \in EnumNodes |-> FieldItems(Prefix(Rules[n].variants))]
SuffixItems ==
    [n \in EnumNodes |->
        [v \in DOMAIN Rules[n].variants |-> FieldItems(Suffix(Rules[n].variants, v))]]
=============================================================================
