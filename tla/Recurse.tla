------------------------------- MODULE Recurse -------------------------------
(***************************************************************************)
(* #[recurse] (macro/recurse.rs): a module of mutually recursive types has *)
(* its structural derives expanded, the types on a cycle selected, and is  *)
(* handed to decycle, which breaks the cycles of the impls' obligations.   *)
(***************************************************************************)
EXTENDS AstMetadata

CONSTANTS Modules,   \* the modules that carry the attribute, with a body or without
          Arguments  \* what stands in the attribute's parentheses

VARIABLES module,      \* the module, as it was written
          engine,      \* decycle's engine, or None
          next,        \* the item that is expanded next
          items,       \* what was expanded
          derived,     \* what each structural derive generated
          usedTraits,  \* the traits that a member of a cycle derives
          contracted,  \* where the impls to be contracted stand
          cycleGraph,  \* the members of a cycle
          output,      \* the items of the module that is emitted
          phase

vars == <<module, engine, next, items, derived, usedTraits, contracted, cycleGraph, output, phase>>

StructuralDerives == {"Parse", "Unparse", "Spanned"}
RoutedTraits == <<"Parse", "Unparse", "Spanned">>
ParseEngine(args) == IF args = <<>> THEN <<"ranked">> ELSE IF args = <<"structural">> THEN args ELSE None

\* --- derives and the attributes they read ---

DeriveList(attr) == IF attr.name \in {"derive", "macro_derive"} THEN Range(attr.paths) ELSE {}
NamesOneOf(path, names) == Last(path) \in names
DerivesAny(attrs, names) == \E i \in DOMAIN attrs : \E p \in DeriveList(attrs[i]) : NamesOneOf(p, names)

\* Mutant of StructuralHelpers: the list of what is taken off a substruct's fields.
HelpersOfSubstructs == {"group", "joint", "alone", "default", "syan", "seq", "opt", "skip"}
StructuralHelpers == {"group", "joint", "alone", "default"}

StripStructuralDerives(attrs) ==
    LET Left(a) ==
            IF a.name \in {"derive", "macro_derive"}
            THEN [a EXCEPT !.paths = Sift(@, {p \in Range(@) : ~NamesOneOf(p, StructuralDerives)})] ELSE a
        Stays(a) ==
            IF a.name \in {"derive", "macro_derive"} THEN a.paths # <<>> ELSE a.name \notin StructuralHelpers
        left == [i \in DOMAIN attrs |-> Left(attrs[i])]
    IN  Sift(left, {a \in Range(left) : Stays(a)})
WithoutHelpers(field) == [field EXCEPT !.attrs = Sift(@, {a \in Range(@) : a.name \notin StructuralHelpers})]

IsAdt(item) == item.kind \in {"enum", "struct"}
NaturalItem(item) ==
    [item EXCEPT !.attrs = StripStructuralDerives(@),
                 !.fields = [i \in DOMAIN @ |-> WithoutHelpers(@[i])]]

\* --- imports: the leaves of the tree, each with its path, its local name and what it binds ---

PruneUse(item) == [item EXCEPT !.leaves = {l \in @ : l.local \notin Range(RoutedTraits)}]
RewriteTraitImports(item) == IF item.kind = "use" THEN PruneUse(item) ELSE item

\* --- what the structural derives generate ---

Impl(trait, of, bounds) == [kind |-> "impl", trait |-> trait, of |-> of, bounds |-> bounds]
Has(field, name) == \E i \in DOMAIN field.attrs : field.attrs[i].name = name
Holds(h, f) == h.variant = f.variant /\ \E i \in DOMAIN f.attrs : f.attrs[i] = Attr("group", <<h.name>>)
Parsed(item) == Sift(item.fields, {f \in Range(item.fields) : ~Has(f, "default")})
Holders(item) == Sift(Parsed(item), {h \in Range(Parsed(item)) : \E f \in Range(item.fields) : Holds(h, f)})

\* The name of a group's struct: its shape, and the holder's, the type's and the variant's names in one.
Underscored(parts) == FoldLeft(LAMBDA name, part : name \o "_" \o part, Head(parts), Tail(parts))
NameParts(item, h) == IF h.variant = "" THEN <<h.name, item.name>> ELSE <<h.name, item.name, h.variant>>
Shape(trait) == IF trait = "Unparse" THEN "__SyanSubstructOfRef" ELSE "__SyanSubstructOfOwn"
\* Mutant of SubstructName: the variant is left out.
SubstructNameOfField(trait, item, h) == <<Shape(trait), Underscored(<<h.name, item.name>>)>>
SubstructName(trait, item, h) == <<Shape(trait), Underscored(NameParts(item, h))>>

\* A bound: the name at the head of the type, by which decycle knows the type, whether the type is
\* spelled by that name alone, and whether the derive sees it behind a reference.
Bound(ty, direct, ref) == [ty |-> ty, direct |-> direct, ref |-> ref]
\* Mutant of PeelRefs: the reference stays.
PeelNothing(b) == b
PeelRefs(b) == [b EXCEPT !.ref = FALSE]
BoundsOn(fields, byRef) ==
    {PeelRefs(Bound(<<Last(p)>>, Len(p) = 1, byRef)) : p \in UNION {f.ty : f \in fields}}

ExpandGrouped(trait, item) ==
    LET hs == Holders(item)
        names == [i \in DOMAIN hs |-> SubstructName(trait, item, hs[i])]
        plain == {f \in Range(Parsed(item)) : ~Has(f, "group") /\ f \notin Range(hs)}
    IN  [i \in DOMAIN hs |-> [kind |-> "substruct", name |-> names[i]]]
            \o [i \in DOMAIN hs |->
                    Impl(trait, names[i], BoundsOn({f \in Range(Parsed(item)) : Holds(hs[i], f)}, trait = "Unparse"))]
            \o <<Impl(trait, <<item.name>>, BoundsOn(plain, FALSE) \cup {Bound(n, TRUE, FALSE) : n \in Range(names)})>>
ExpandRouted(trait, item) ==
    IF trait = "Spanned" THEN <<Impl(trait, <<item.name>>, BoundsOn(Range(Parsed(item)), FALSE))>>
    ELSE ExpandGrouped(trait, item)

\* One derive of an item, after those before it: positions are those of the whole expansion.
ExpandOne(ex, item, trait) ==
    LET generated == ExpandRouted(trait, item)
        base == Len(ex.items)
        impls == {i \in DOMAIN generated : generated[i].kind = "impl"}
    IN  [items |-> ex.items \o generated,
         derived |-> Append(ex.derived,
             [owner |-> <<item.name>>, trait |-> trait, impls |-> {base + i : i \in impls},
              substructs |-> {generated[i].name : i \in DOMAIN generated \ impls}])]

\* --- the driver ---

Init ==
    /\ module \in Modules
    /\ engine \in {ParseEngine(a) : a \in Arguments}
    /\ next = 1 /\ items = <<>> /\ derived = <<>>
    /\ usedTraits = {} /\ contracted = {} /\ cycleGraph = {}
    /\ output = <<>> /\ phase = "expand"

Going == phase = "expand" /\ engine # None /\ module.body /\ next <= Len(module.items)
Item == module.items[next]
Taken == IsAdt(Item) /\ DerivesAny(Item.attrs, StructuralDerives)

Reject ==
    /\ phase = "expand" /\ engine = None
    /\ phase' = "rejected"
    /\ UNCHANGED <<module, engine, next, items, derived, usedTraits, contracted, cycleGraph, output>>

NoBody ==
    /\ phase = "expand" /\ engine # None /\ ~module.body
    /\ phase' = "emitted"
    /\ UNCHANGED <<module, engine, next, items, derived, usedTraits, contracted, cycleGraph, output>>

PassItem ==
    /\ Going /\ ~Taken
    /\ items' = Append(items, RewriteTraitImports(Item))
    /\ next' = next + 1
    /\ UNCHANGED <<module, engine, derived, usedTraits, contracted, cycleGraph, output, phase>>

\* Mutant of ExpandItem: the type keeps its derives.
ExpandItemInPlace ==
    /\ Going /\ Taken
    /\ LET ex == FoldLeft(LAMBDA e, t : IF DerivesAny(Item.attrs, {t}) THEN ExpandOne(e, Item, t) ELSE e,
                          [items |-> Append(items, Item), derived |-> derived], RoutedTraits)
       IN  items' = ex.items /\ derived' = ex.derived
    /\ next' = next + 1
    /\ UNCHANGED <<module, engine, usedTraits, contracted, cycleGraph, output, phase>>
ExpandItem ==
    /\ Going /\ Taken
    /\ LET ex == FoldLeft(LAMBDA e, t : IF DerivesAny(Item.attrs, {t}) THEN ExpandOne(e, Item, t) ELSE e,
                          [items |-> Append(items, NaturalItem(Item)), derived |-> derived], RoutedTraits)
       IN  items' = ex.items /\ derived' = ex.derived
    /\ next' = next + 1
    /\ UNCHANGED <<module, engine, usedTraits, contracted, cycleGraph, output, phase>>

\* The types that reach themselves over the bounds of impls, each known by its name alone, however
\* the bound spells it: decycle's analysis, external.
Impls(its) == {i \in DOMAIN its : its[i].kind = "impl"}
TypeGraph(its) ==
    UNION {{<<its[i].of, b.ty>> : b \in {c \in its[i].bounds : ~c.ref}} : i \in Impls(its)}
Onwards(graph, types) == {e[2] : e \in {d \in graph : d[1] \in types}}
Reaches(graph, x) ==
    LET reached[n \in Nat] ==
            IF n = 0 THEN Onwards(graph, {x}) ELSE reached[n - 1] \cup Onwards(graph, reached[n - 1])
    IN  reached[Cardinality({e[1] : e \in graph})]
OnCycle(graph) == {x \in {e[1] : e \in graph} : x \in Reaches(graph, x)}
CyclicTypes(its) == OnCycle(TypeGraph(its))

\* Mutant of SelectCycleMembers: the helper structs of groups do not join.
SelectWithoutSubstructs ==
    /\ phase = "expand" /\ engine # None /\ module.body /\ next > Len(module.items)
    /\ LET cycles == CyclicTypes(items)
           members == {d \in Range(derived) : d.owner \in cycles}
       IN  /\ usedTraits' = {d.trait : d \in members}
           /\ contracted' = UNION {{<<d.trait, i>> : i \in d.impls} : d \in members}
           /\ cycleGraph' = cycles
    /\ phase' = "selected"
    /\ UNCHANGED <<module, engine, next, items, derived, output>>
SelectCycleMembers ==
    /\ phase = "expand" /\ engine # None /\ module.body /\ next > Len(module.items)
    /\ LET cycles == CyclicTypes(items)
           members == {d \in Range(derived) : d.owner \in cycles}
       IN  /\ usedTraits' = {d.trait : d \in members}
           /\ contracted' = UNION {{<<d.trait, i>> : i \in d.impls} : d \in members}
           /\ cycleGraph' = cycles \cup UNION {d.substructs : d \in members}
    /\ phase' = "selected"
    /\ UNCHANGED <<module, engine, next, items, derived, output>>

\* The trait and the macro that decycle calls, each under the plain name in a namespace of its own.
Leaf(path, local, binds) == [path |-> path, local |-> local, binds |-> binds]
Use(leaves) == [kind |-> "use", leaves |-> leaves, decycle |-> FALSE]
Prelude ==
    LET used == Sift(RoutedTraits, usedTraits)
        TraitImport(t) == Use({Leaf(<<"syan", "decycle_traits", t>>, t, {"type"})})
        MacroImport(t) == [Use({Leaf(<<"syan", "__syan_decycle_" \o t>>, t, {"macro"})}) EXCEPT !.decycle = TRUE]
    IN  [i \in 1..2 * Len(used) |->
            IF i % 2 = 1 THEN TraitImport(used[(i + 1) \div 2]) ELSE MacroImport(used[i \div 2])]

EmitVerbatim ==
    /\ phase = "selected" /\ usedTraits = {}
    /\ output' = Prelude \o items
    /\ phase' = "emitted"
    /\ UNCHANGED <<module, engine, next, items, derived, usedTraits, contracted, cycleGraph>>

\* Handed to the engine with the graph; what the engine does is below.
EmitDecycled ==
    /\ phase = "selected" /\ usedTraits # {}
    /\ output' = Prelude \o items
    /\ phase' = "decycled"
    /\ UNCHANGED <<module, engine, next, items, derived, usedTraits, contracted, cycleGraph>>

Next == Reject \/ NoBody \/ PassItem \/ ExpandItem \/ SelectCycleMembers \/ EmitVerbatim \/ EmitDecycled
Spec == Init /\ [][Next]_vars

\* The impls that either engine adopts: of a trait it is given the macro of, for a type of the graph.
Adopted ==
    {i \in DOMAIN output :
        /\ phase = "decycled" /\ output[i].kind = "impl" /\ output[i].of \in cycleGraph
        /\ \E j \in DOMAIN output :
               output[j].kind = "use" /\ output[j].decycle /\ \E l \in output[j].leaves : l.local = output[i].trait}

\* What an engine makes of the output: an impl that it adopts loses the bounds that it can rank, those
\* on a type of the graph that is spelled by its name alone. The others stay what they are.
Ranked(b) == b.direct /\ ~b.ref /\ b.ty \in cycleGraph
Contracted ==
    [i \in DOMAIN output |->
        IF i \in Adopted THEN Impl(output[i].trait, output[i].of, {b \in output[i].bounds : ~Ranked(b)})
        ELSE output[i]]

\* What impls ask of each other: a type and its trait lead to the types of the bounds.
Obligations(its) ==
    UNION {{<<<<its[i].of, its[i].trait>>, <<b.ty, its[i].trait>>>> : b \in its[i].bounds} : i \in Impls(its)}

\* --- what rustc takes for a module ---

IsSequence(s) == s \in Seq(Range(s))
WrittenAttrs(attrs) == IsSequence(attrs) /\ \A a \in Range(attrs) : a = Attr(a.name, a.paths) /\ IsSequence(a.paths)
WrittenField(f) == f = Field(f.variant, f.name, f.ty, f.attrs) /\ WrittenAttrs(f.attrs)
\* Not modelled: the fields that variants share from the first on, which are parsed once for all of
\* them, and a group that stands in another.
Starts(item, i) == \A j \in 1..(i - 1) : item.fields[j].variant # item.fields[i].variant
StartsApart(item) ==
    \A i, j \in DOMAIN item.fields :
        LET f == item.fields[i]
            g == item.fields[j]
        IN  i # j /\ Starts(item, i) /\ Starts(item, j) => <<f.name, f.ty, f.attrs>> # <<g.name, g.ty, g.attrs>>
WrittenAdt(item) ==
    /\ item = [kind |-> item.kind, name |-> item.name, attrs |-> item.attrs, fields |-> item.fields]
    /\ WrittenAttrs(item.attrs)
    /\ IsSequence(item.fields) /\ \A f \in Range(item.fields) : WrittenField(f)
    /\ \A i, j \in DOMAIN item.fields :
           item.fields[i].variant = item.fields[j].variant /\ item.fields[i].name = item.fields[j].name => i = j
    /\ StartsApart(item) /\ \A h \in Range(Holders(item)) : ~Has(h, "group")
WrittenUse(item) == item = [Use(item.leaves) EXCEPT !.decycle = item.decycle]
\* An impl of one of the three traits; those of others are items of another kind. A name that is
\* written has one part, that of the struct of a group has a nonce beside its shape.
WrittenImpl(item) ==
    item.trait \in StructuralDerives /\ Len(item.of) = 1 /\ \A b \in item.bounds : ~b.ref /\ Len(b.ty) = 1
WrittenItem(item) ==
    /\ IsAdt(item) => WrittenAdt(item)
    /\ item.kind = "use" => WrittenUse(item)
    /\ item.kind = "impl" => WrittenImpl(item)
    /\ item.kind # "substruct"

\* No name is taken twice (E0428, E0252, E0255), nothing is implemented beside its derive (E0119), and
\* what the impls written by hand ask of each other comes to an end (E0275).
ASSUME ModulesAssumption == \A m \in Modules :
    /\ m.body \in BOOLEAN
    /\ IsSequence(m.items) /\ \A i \in DOMAIN m.items : WrittenItem(m.items[i])
    /\ \A i, j \in DOMAIN m.items :
           /\ IsAdt(m.items[i]) /\ IsAdt(m.items[j]) /\ i # j => m.items[i].name # m.items[j].name
           /\ m.items[i].kind = "use" /\ m.items[j].kind = "use" /\ i # j =>
                  \A l \in m.items[i].leaves, k \in m.items[j].leaves : l.local = k.local => l.binds \cap k.binds = {}
           /\ IsAdt(m.items[i]) /\ m.items[j].kind = "use" =>
                  \A l \in m.items[j].leaves : l.local = m.items[i].name => "type" \notin l.binds
           /\ IsAdt(m.items[i]) /\ m.items[j].kind = "impl" /\ m.items[j].of = <<m.items[i].name>> =>
                  ~DerivesAny(m.items[i].attrs, {m.items[j].trait})
    /\ OnCycle(Obligations(m.items)) = {}

\* --- properties ---

Finished == phase \in {"emitted", "decycled"}
Adts == {i \in DOMAIN module.items : IsAdt(module.items[i])}

\* Every derive that was written yields one impl, and a structural one is not derived again.
ImplementedOnce ==
    Finished /\ module.body => \A i \in Adts, t \in StructuralDerives :
        LET item == module.items[i]
            left == {j \in DOMAIN output : IsAdt(output[j]) /\ output[j].name = item.name
                                               /\ DerivesAny(output[j].attrs, {t})}
            impls == {j \in Impls(output) : output[j].trait = t /\ output[j].of = <<item.name>>}
        IN  DerivesAny(item.attrs, {t}) => Cardinality(left) + Cardinality(impls) = 1

\* What the names of groups' structs do not tell apart: an enum A with a variant V and a struct A_V are
\* joined to one, over holders of one name. The structs of one shape then clash (E0428).
JoinedAlike(a, h, b, k) ==
    Underscored(NameParts(a, h)) = Underscored(NameParts(b, k)) /\ NameParts(a, h) # NameParts(b, k)
GroupsTold ==
    \A i, j \in Adts : \A h \in Range(Holders(module.items[i])), k \in Range(Holders(module.items[j])) :
        ~JoinedAlike(module.items[i], h, module.items[j], k)

\* What is contracted by position are the impls that decycle finds by the graph: the generated
\* ones of the members of cycles and of the structs of their groups.
ContractedAgrees ==
    phase = "decycled" /\ GroupsTold =>
        contracted = {<<items[i].trait, i>> : i \in {j \in UNION {d.impls : d \in Range(derived)} :
                          items[j].of \in cycleGraph /\ items[j].trait \in usedTraits}}

\* No impl that is contracted asks for a type of the graph by a path of several segments, which could
\* not be ranked: the gap that recurse_core.rs records, though elsewhere it calls such a field a leaf.
SpelledDirectly == \A i \in Adopted : \A b \in output[i].bounds : b.ty \in cycleGraph => b.direct

\* Of a module that spells its cycles directly, no obligation that contraction leaves, of any impl,
\* leads back to itself.
CyclesBroken == Finished /\ SpelledDirectly => OnCycle(Obligations(Contracted)) = {}

\* A name is bound once in each namespace, be it by an import, by the prelude, by a type or by the
\* struct of a group, but for a type called like a trait that the prelude imports (E0255) and for
\* groups whose names are joined alike.
LikeTrait(n) == \E t \in usedTraits, i \in Adts : n = <<t>> /\ module.items[i].name = t
LikeGroup(n) ==
    \E i, j \in Adts : \E h \in Range(Holders(module.items[i])), k \in Range(Holders(module.items[j])) :
        /\ JoinedAlike(module.items[i], h, module.items[j], k)
        /\ \E t \in StructuralDerives : n = <<Shape(t), Underscored(NameParts(module.items[i], h))>>
NamesBoundOnce ==
    Finished =>
        LET Binds(i, space) ==
                CASE output[i].kind = "use" -> {<<l.local>> : l \in {k \in output[i].leaves : space \in k.binds}}
                  [] output[i].kind = "substruct" /\ space = "type" -> {output[i].name}
                  [] IsAdt(output[i]) /\ space = "type" -> {<<output[i].name>>}
                  [] OTHER -> {}
        IN  \A i, j \in DOMAIN output : \A space \in {"type", "macro"} :
                i # j => \A n \in Binds(i, space) \cap Binds(j, space) : LikeTrait(n) \/ LikeGroup(n)

\* derive(Ast), which stays on the type, hands a visitor what it does without #[recurse].
AstUnaffected ==
    Finished /\ module.body => \A i \in Adts :
        LET item == module.items[i]
        IN  DerivesAny(item.attrs, {"Ast"}) =>
                \E j \in DOMAIN output :
                    /\ output[j].kind = item.kind /\ output[j].name = item.name
                    /\ DerivesAny(output[j].attrs, {"Ast"})
                    /\ Published(output[j]) = Published(item) /\ Reports(output[j]) = Reports(item)
=============================================================================
