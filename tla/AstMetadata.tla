----------------------------- MODULE AstMetadata -----------------------------
(***************************************************************************)
(* derive(Ast) (macro/ast.rs): the definition and the #[subast] list that  *)
(* the macro of a type hands to a visitor, and what the derive reports.    *)
(* A path is the sequence of its segments, "::" and "$crate" among them; a *)
(* type is the set of the paths that occur in it.  An attribute has a name *)
(* and the paths of its list; that of #[group(self.h)] is <<"h">>.         *)
(***************************************************************************)
EXTENDS Integers, SequencesExt

None == <<>>
\* The elements of s that are in T, in their order.
Sift(s, T) ==
    LET sifted[i \in 0..Len(s)] ==
            IF i = 0 THEN <<>>
            ELSE IF s[i] \in T THEN Append(sifted[i - 1], s[i]) ELSE sifted[i - 1]
    IN  sifted[Len(s)]

Attr(name, paths) == [name |-> name, paths |-> paths]
Named(attrs, names) == Sift(attrs, {a \in Range(attrs) : a.name \in names})
\* A field of an item, in a variant or, of a struct, in none.
Field(variant, name, ty, attrs) == [variant |-> variant, name |-> name, ty |-> ty, attrs |-> attrs]

\* --- the #[subast] list; an entry is a path with the alias it may have ---

Matchkey(e) == IF e.alias = None THEN Last(e.path) ELSE e.alias[1]
CrateRooted(path) == IF Head(path) = "crate" THEN <<"$crate">> \o Tail(path) ELSE path
PathIsRooted(path) == Head(path) = "::" \/ (Head(path) \notin {"self", "super"} /\ Len(path) >= 2)

Subast(item) == FlattenSeq([i \in DOMAIN Named(item.attrs, {"subast"}) |-> Named(item.attrs, {"subast"})[i].paths])
SubastReports(entries) ==
    {<<"not rooted", e.path>> : e \in {d \in Range(entries) : ~PathIsRooted(d.path)}}
        \cup {<<"same key", Matchkey(entries[i])>> :
                  i \in {j \in DOMAIN entries : \E k \in 1..(j - 1) : Matchkey(entries[k]) = Matchkey(entries[j])}}

\* --- the fields ---

FieldPaths(item) == UNION {item.fields[i].ty : i \in DOMAIN item.fields}
FieldHeadIdents(item) == UNION {Range(p) : p \in FieldPaths(item)}
AmbiguousLastIdents(item) == {Last(p) : p \in {q \in FieldPaths(item) : \E r \in FieldPaths(item) \ {q} : Last(r) = Last(q)}}

\* The definition without its attributes, but for the markers of its fields.
CleanedDefinition(item) ==
    [name |-> item.name,
     fields |-> [i \in DOMAIN item.fields |->
                     [item.fields[i] EXCEPT !.attrs = Named(@, {"seq", "opt", "skip"})]]]

\* What the macro of the type hands over.
Published(item) ==
    [ast |-> CleanedDefinition(item),
     subast |-> [i \in DOMAIN Subast(item) |-> <<CrateRooted(Subast(item)[i].path), Matchkey(Subast(item)[i])>>]]

Reports(item) ==
    SubastReports(Subast(item))
        \cup {<<"ambiguous", last>> : last \in AmbiguousLastIdents(item)}
        \cup {<<"matches no field", Matchkey(e)>> :
                  e \in {d \in Range(Subast(item)) : Matchkey(d) \notin FieldHeadIdents(item)}}
=============================================================================
