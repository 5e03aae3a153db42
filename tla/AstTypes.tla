------------------------------ MODULE AstTypes ------------------------------
(***************************************************************************)
(* The types that the fields of an AST are written with, and what the      *)
(* macros of visitor! read off them (macro/util.rs): the visited type that *)
(* a field holds, behind which wrappers, and the indicator with which the  *)
(* walk enters it.  A path is the sequence of its segments, a leading `::` *)
(* being a segment of its own.  Parentheses and invisible groups, which    *)
(* every function passes through, are left out.                            *)
(***************************************************************************)
EXTENDS Integers, SequencesExt, FiniteSetsExt

Named(path, args) == [k |-> "path", path |-> path, args |-> args]
TupleTy(elems) == [k |-> "tuple", elems |-> elems]
RefTo(mutable, elem) == [k |-> "ref", mutable |-> mutable, elem |-> elem]
\* An array or a slice.
RawOf(elem) == [k |-> "raw", elem |-> elem]

LastIdent(path) == path[Len(path)]

NoHead == [k |-> "none"]
\* A type in which nothing is followed: None of peel.
Leaf == [conts |-> <<>>, head |-> NoHead, sharedRef |-> FALSE]
Follows(p) == p.head.k # "none"
HeadOnly(head) == [conts |-> <<>>, head |-> head, sharedRef |-> FALSE]
Prepend(layer, p) == IF Follows(p) THEN [p EXCEPT !.conts = <<layer>> \o @] ELSE Leaf

\* The head of a type and the wrappers around it.  No container is known by name: a path
\* that is no user type is a wrapper if one of its arguments, the first, leads to a head.
RECURSIVE Peel(_, _)
Peel(ty, userTypes) ==
    CASE ty.k = "ref" ->
            LET p == Peel(ty.elem, userTypes)
            IN  IF Follows(p) THEN [p EXCEPT !.sharedRef = @ \/ ~ty.mutable] ELSE Leaf
      [] ty.k = "raw" -> Prepend("raw", Peel(ty.elem, userTypes))
      [] ty.k = "path" ->
            IF LastIdent(ty.path) \in userTypes
            THEN HeadOnly([k |-> "path", wrote |-> ty.path, args |-> ty.args])
            ELSE LET peeled == [i \in DOMAIN ty.args |-> Peel(ty.args[i], userTypes)]
                     leading == {i \in DOMAIN peeled : Follows(peeled[i])}
                 IN  IF leading = {} THEN Leaf ELSE Prepend("view", peeled[Min(leading)])
      [] ty.k = "tuple" ->
            IF \E i \in DOMAIN ty.elems : Follows(Peel(ty.elems[i], userTypes))
            THEN HeadOnly([k |-> "tuple", elems |-> ty.elems])
            ELSE Leaf

\* The indicators of syan::visit.
Here == [at |-> "here"]
Skip == [at |-> "skip"]
Thru(inner) == [at |-> "thru", inner |-> inner]
Slots(slots) == [at |-> "slots", slots |-> slots]

RECURSIVE Indicator(_, _)
\* Mutant of Indicator: references are peeled like parentheses.
IndicatorNoRef(ty, userTypes) ==
    LET p == Peel(ty, userTypes)
        inner == IF p.head.k = "path" THEN Here
                 ELSE Slots([i \in DOMAIN p.head.elems |-> Indicator(p.head.elems[i], userTypes)])
    IN  IF ~Follows(p) THEN Skip ELSE FoldLeft(LAMBDA acc, layer : Thru(acc), inner, p.conts)
\* Skip stands for the None of the code, which its callers turn into Skip.
Indicator(ty, userTypes) ==
    IF ty.k = "ref"
    THEN LET inner == Indicator(ty.elem, userTypes)
         IN  IF inner = Skip THEN Skip ELSE Thru(inner)
    ELSE LET p == Peel(ty, userTypes)
             inner == IF p.head.k = "path" THEN Here
                      ELSE Slots([i \in DOMAIN p.head.elems |-> Indicator(p.head.elems[i], userTypes)])
         IN  IF ~Follows(p) THEN Skip
             ELSE FoldLeft(LAMBDA acc, layer : Thru(acc), inner, p.conts)

\* The fields of a struct or of all variants of an enum.
ItemFields(def) == UNION {Range(def.variants[i]) : i \in DOMAIN def.variants}

\* The number of leading supers.
Ups(path) == LET others == {i \in DOMAIN path : path[i] # "super"}
             IN  IF others = {} THEN Len(path) ELSE Min(others) - 1

Unresolved == <<>>

\* Mutant of Absolutize: relative paths start at the type and not at its module.
AbsolutizeFromType(wrote, owner) ==
    CASE wrote[1] = "crate" -> wrote
      [] wrote[1] = "self" -> owner \o Tail(wrote)
      [] wrote[1] = "super" ->
            IF Ups(wrote) > Len(owner) THEN Unresolved
            ELSE SubSeq(owner, 1, Len(owner) - Ups(wrote)) \o SubSeq(wrote, Ups(wrote) + 1, Len(wrote))
      [] OTHER -> Unresolved

\* The written path as seen from the module of the type that owns the field.
Absolutize(wrote, owner) ==
    LET module == Front(owner)
    IN  CASE wrote[1] = "crate" -> wrote
          [] wrote[1] = "self" -> module \o Tail(wrote)
          [] wrote[1] = "super" ->
                IF Ups(wrote) > Len(module) THEN Unresolved
                ELSE SubSeq(module, 1, Len(module) - Ups(wrote)) \o SubSeq(wrote, Ups(wrote) + 1, Len(wrote))
          [] OTHER -> Unresolved

\* Whether a field that wrote this path can mean the type that the visitor knows by that one.
PathMayDenote(wrote, visited, owner) ==
    \/ Len(wrote) <= 1
    \/ LET abs == Absolutize(wrote, owner)
       IN  IF abs # Unresolved THEN abs = visited
           ELSE IsSuffix(SelectSeq(wrote, LAMBDA s : s # "::"), SelectSeq(visited, LAMBDA s : s # "::"))
=============================================================================
