# A TLA+ model of syan

syan is a Rust crate for typed parsing: a grammar is a set of types, `derive(Parse)` (and the
library's combinators) turn a type into a recursive descent parser with backtracking, and the same
parser runs over text and over `proc_macro2` tokens. Values are written back by `Unparse`, located by
`Spanned` and walked by the visitors that `visitor!` generates; `#[recurse]` lets mutually recursive
types derive all of this. This directory holds TLA+ specifications of the parsing core and of what
is built around it, the TLC configurations that check them, and proofs that TLAPS checks.

Paths below are relative to the repository. `PROJECT.json` maps every definition to the lines it
translates and lists the runs, the mutants that each property must catch, the hazards and the
theorems.

## 1. The system

### The parsing core

| Component | Code | State | Operations | What makes it correct |
|---|---|---|---|---|
| Tape | `core/src/parse/tape.rs` | one-shot iterator, `buf`, `pos`, `extra` (pushed back), `saves` (open checkpoints), `done` | `next` `peek` `push` `checkpoint` `rollback` `commit`, and `release` inside them | it *is* a rewindable stream; holds served atoms only for scopes that may rewind; never polls a finished iterator again |
| Text sources | `core/src/source/string.rs`, `bytes.rs` | a tape, line and column | the stream trait; `skip_sep` eats whitespace | as the tape's |
| Token source | `core/src/source/proc_macro2.rs` | a tape, `is_joint`, `joint_saves` | the stream trait; `skip_sep` answers from `is_joint`; a group opens a stream of its own | the flag describes the position the stream is at, across every rewind, pushback and group |
| Stream conveniences | `core/src/parse/parse_stream.rs` | none | `dup` (transaction), `validate_spacing`, `get_error` | scopes nest and are all resolved |
| Combinators | `core/src/parse.rs`, `parse/parse.rs`, `parse/tuple.rs`, `nested/*.rs` | the Rust call stack | `parse_stream` of `Vec`, `Option`, `Result`, `Attempt`, `Joint`, `Unordered`, `Punctuated`, `Group`, tuples | returns what the type means as a grammar and leaves the stream there; returns at all |
| Derived parsers | `macro/attribute/adt.rs`, `substruct.rs` | generated code: the call stack | `parse_stream` of structs and enums, with `#[joint]`, `#[alone]`, `#[default]`, `#[group]`, shared-prefix factoring and the fallback variant | factoring and groups do not change what the type means |
| Spans and errors | `core/src/span.rs`, `error.rs` | the accumulator of `WithSpan`, the failures an enum collects | `migrate`, `WithSpan::parse_stream`, `from_alternatives` | a recorded span covers what was consumed; the failure reported is the farthest |
| Integer over text | `core/src/literal/parse_text_impl.rs` | atoms taken so far | two scanning loops that hand atoms back | what was handed back is in order |
| `Punctuated` as a list | `core/src/nested/punctuated.rs`, `SeqView` in `core/src/visit.rs` | the first item, and a vector of punctuations and items | `get` `get_mut` `first` `last` `push` `insert` `remove`, `retain_mut` and `view_iter_mut`, serialization | it is the sequence of its items; a walk shows each of them once; a punctuation stays with its item |

Everything is sequential and single-threaded. The hard behaviours come from *backtracking*: a stream
is consumed, rewound and handed back to by code at every level of a call stack, some of which
promises to rewind on failure (`Option`, `Attempt`, `Vec`, enum variants) and some of which promises
not to (`Result`, tuples, structs). Derived state (the spacing flag, the retained buffer, the end
marker, the checkpoint indices) must follow along each of these paths.

A call of `Parse::parse` enters the type's `parse_stream`; those call each other, `skip_sep`,
`validate_spacing` and `dup` on one `ParseStream`; the stream forwards to its `Tape`; the tape calls
the iterator. A token group is one atom of the outer stream and the source of an inner one.

### What is built around it

| Component | Code | State | Operations | What makes it correct |
|---|---|---|---|---|
| `Unparse` and `Spanned` of values | `core/src/parse/unparse.rs`, `span.rs`, `nested/*.rs`, `macro/attribute/adt.rs` | none | `unparse`, `span` of each combinator and derived type | three generated loops read the same fields: what is written parses back, the span is that of what was consumed |
| Literals over tokens | `core/src/literal.rs`, `literal/*.rs` | none | reading, showing and emitting eleven types | a token is one type's; a mismatch is handed back; a value survives the round trip |
| Visitors at run time | `core/src/visit.rs`, `macro/visitor/side.rs` | the call stack, the tree that hooks edit | `visit`, `visit_mut`, `Walk` through containers, the views of `#[seq]` and `#[opt]` fields | every visited node is offered once to every hook, in order |
| `visitor!` | `macro/visitor.rs`, `macro/visitor/` | the macro arguments carried from bounce to bounce; then the generated code | fetching definitions, deciding what each field becomes, resolving paths | each definition is fetched once and none is missing; the generated calls have an impl |
| `recurse` | `macro/recurse.rs`, `attribute/substruct.rs` | the expanded items, the impls to contract, the graph | expanding derives, selecting the members of cycles, emitting | the impls on a cycle are contracted and no others; nothing else about the types changes |
| `derive(Ast)` and attribute lookup | `macro/ast.rs`, `attribute/find.rs`, `util.rs` | none | what a type's macro publishes | a visitor sees the same type whatever other macros have rewritten it |

A visitor is made in two stages. At expansion time `visitor!` bounces between the macros that
`derive(Ast)` left beside each type, until it has the definitions it needs, and generates for each a
body of `Walk` calls. At run time that code, the library's `Walk` impls and the user's hooks call each
other, and hooks on the mutable side edit the tree under the walk's feet. `recurse` runs the derives
of the types of a module itself and passes the impls of those on a cycle to the external crate
`decycle`.

### Not modelled

| Component | Code | Why |
|---|---|---|
| Error kinds and messages, `UnionWith` | `core/src/error.rs` | only where a failure is reported bears on what a parser does |
| Symbols, `Token!` | `core/src/symbol.rs`, `macro/symbol.rs` | compile-time tables of names; a symbol is a leaf of the grammar |
| The hooks module, `impl_chain!`, method mode | `macro/visitor/side.rs` 459-659, `build_input.rs` 221-428, `model.rs` | delegation from one generated trait to another; the chain of modules that a walk goes through is modelled, and so is the driver that closures share, not the code that spells them |
| `MapView` | `core/src/visit.rs` 583-617 | kept for walks written by hand; nothing generated refers to it |
| Rendering of tokens | `macro/` | formatting |
| Tuple recursion helpers | `core/src/tuple.rs`, `decycle_traits.rs`, .. | type-level plumbing with no state |
| Benchmarks | `bench/` | they measure the program |

## 2. The modules

```
RewindableStream          what the ParseStream trait promises (abstract)
      ^  implemented by
TapeClient  <-- TapeOps   one tape under an arbitrary well-behaved client
      ^
TapeProofs <-- TapeOpsProofs   the theorems about it, from lemmas about the tape's methods

TapeOps <-- SourceOps <-- Spans <-- Grammar <-- Parser <-- PegReference <-- ParsedValues <-- MCTextParser,
            streams       places    types       the call    the meaning      writing and      MCTokenParser
               ^                    as items    stack       of a grammar     locating values  (with GrammarNodes)
               |                       ^           ^
            ParserLemmas <-------------|-----------|
                                       ParserProofs            the theorems about every parse

SequenceView              what the SeqView trait promises (abstract)
      ^  implemented by
PunctuatedClient  <-- PunctuatedOps      one list in the hands of a visitor
      ^
PunctuatedProofs          the theorems about it        (MCPunctuated: its constants for TLC)

LiteralForms <-- LiteralClient <-- MCLiteral           literals over tokens
                       ^
                 LiteralProofs                         the theorems about them

TypeClosure               what the generator of visitors is promised (abstract)
      ^  implemented by
VisitorDiscovery          the exchange of macro calls
      ^         ^
      |         MCVisitorDiscovery, with the types it leads to from VisitorLower
DiscoveryProofs           the theorems about it

AstTypes <-- VisitorLower <-- VisitorWalk <-- MCVisitorWalk
types of     what a field     a walk with
fields       becomes          editing hooks

AstMetadata <-- Recurse <-- MCRecurse                  #[recurse], and what derive(Ast) makes of it
                   ^
             RecurseProofs                             the theorems about it
```

**TapeOps** has one operator per method of `Tape`, on a record with the fields of the struct. They
are functions so that the same definitions run inside the client, inside the parser and inside the
proofs. `iter` is the iterator: `left` is what it yields up to its first `None`, `late` what it would
yield if it were polled again after that (Rust lets an iterator do so), `ended` that it has returned
`None`. Rust's slices of `buf` by absolute index become `SubSeq`; a `pos` beyond `buf` would be a
panic in Rust and is what `CursorsOrdered` excludes.

**TapeClient** lets a client call anything the trait allows at any time: `next`, `peek`, `push` of
any atom, `checkpoint`, and `rollback` or `commit` of *any* open checkpoint, which leaks those inside
it, as an early return or a caught panic between `dup`'s checkpoint and its resolution does.
`answer` is the last answer given.

**RewindableStream** is the trait with no implementation: `rest` is what is ahead, `marks` what was
ahead at each open checkpoint. The refinement mapping in `TapeClient` computes both from the tape:
the pushed-back atoms, reversed, then `buf` from the cursor, then the rest of the iterator unless the
end was seen.

**SourceOps** puts what each source adds around the tape. `StreamPush` goes to the tape only and
leaves `isJoint` alone, `StreamRollback` restores the flag from `jointSaves`, as the code does. The
text sources ignore both.

**Spans** has the span type of each kind of source and what the library does with any of them. A
place is the way to an atom: its position, and before it those of the groups around it. A text span is
its `loc`, which column follows, and a `line` that is 1 for every real place and 0 for the default
span, which has the `loc` of the first character. A token
span is the default or a pair of places; on a stable compiler no two spans join, so `migrate` keeps
the start of the first and the end of the second.

**Grammar** translates a type into the *items* its generated or hand-written parser runs: skip a
separator, check spacing, parse a type, fill in a default, enter a group. `FieldItems` is
`extract_parse` with the substruct of a `#[group]` folded in, `PrefixLen` the split point that
`extract_parse_inner` finds for an enum, walked back so that no group is torn from its contents.
`Rules` is the grammar, a function from names to nodes, so that types can be recursive.
**GrammarNodes** has a constructor for each node.

**Parser** runs a call of `Parse::parse` one step at a time. `frames` is the call stack, `ret` what
the callee handed back, `streams` the stream of the call and those of the token groups it is inside
of. One action per thing a `parse_stream` does: a leaf's `next` and `push`, one turn of a scanning
loop, `dup`'s checkpoint with the entry into the closure (`Dups`), `dup`'s resolution (`CloseDup`),
and for each combinator its entry and its handling of what comes back. `?` is `ItemReturned`: a
failure leaves the function at once and the stream where it is. An error is the span it points at:
`Err(span)`. A frame of kind `spanned` is a `WithSpan`: its `SubStream` forwards every call to the
stream it wraps and widens an accumulator whenever `next` serves an atom, which is what `Witnessed`
does to all such frames around the stream, and only them: a group's contents are read from a stream of
their own. Nothing that parses reads the recorded span, so the value leaves it out and the properties
look at the accumulator when its `T` has returned.

**PegReference** is the meaning of a grammar, with no stream, tape or transaction: a recursive
function from the atoms and a position to a value and a position (a parsing expression grammar), in
which a failure has a position too, because only some types promise to rewind, and the span it is
reported at. It shares with the
parser only how a struct or a group becomes items. It has no shared prefix and no spacing flag: an
enum is its first variant that parses from the start, and spacing is read off the source.
Parsed values carry places, those of their leaves and of the delimiters of token groups.

**ParsedValues** is what the library does with a value afterwards. `Emit` is `Unparse` over tokens:
fields in order, without the defaulted ones, the run of `#[group]` fields inside one token. A symbol
is written alone, so its token is not glued to the next. `SpanOf` is `Spanned`: folds of `migrate`
from the default span for tuples, collections and derived types, the delimiters for a group, input
order for `Unordered`. Both read a value along the items of its type, as its parser did, but each is
translated from the loop that generates it.

**PunctuatedOps** has one operator per method of `Punctuated`, on its representation: nothing, or
the first item and a vector of pairs of a punctuation and the item behind it. Indices are from 0 as in
the code, so `vec[index - 1]` is `rest[index]`. An assignment through the reference of `get_mut` is
`ListSet`. `ToWire` and `FromWire` are the serde form.

**PunctuatedClient** is a visitor that was handed the list: between walks it calls any method, and it
may start `retain_mut`, whose turns are `RetainItem` (the callback rewrites the element or not, and
keeps it or not), or `view_iter_mut`, whose `next` is `IterItem`. The references that an iterator
yielded stay alive as long as its borrow, so that they may be written through later, in any order
(`EditYielded`). While a walk runs, Rust's borrow of the list lets nothing else at it. `before` and
`offered` are ghosts: the items when the walk began and those it has shown. **SequenceView** is the
trait's promise on a plain sequence; the refinement mapping forgets the representation, and keeps of a
walk how many items it has passed.

**LiteralForms** has what each of the eleven literal types reads from the text of a token, and how a
value is shown and emitted. A text is a sequence of characters, among which a suffix and the letter of
an escape are one each. **LiteralClient** reads the token at hand as any of the types, or the end of the
input (`NothingToRead`), or starts from a value
that a program built (the fields are public), emits it and reads what it emitted. A character literal
that has the form but no known contents is consumed and reported as the end of the input (`GiveUp`), a
raw string that makes the parser
slice out of range panics (`PanicIn`); everything else that does not fit is taken and handed back
(`HandBack`). What the
compiler guarantees of a token's text, and the types of what a program builds, are assumptions of the
module (`SourcesAssumption`, `BuiltAssumption`).

**VisitorDiscovery** has one action per macro that is expanded: `visitor!` itself with a base or
without (`EntryWithBase`, `EntryWithoutBase`), the base's answer, a type's answer, `Look` for each type
that the answer leads to, `Record`, and the next bounce or the generator. Its state is what the macro
passes along in its arguments: `@fetching`, `@done`, `@rest`, `@inherited`. Which types a type leads to
is a constant; MCVisitorDiscovery takes it from `VisitorLower`. **TypeClosure** is the promise, with no
order and no queue: found is closed under "leads to" when the generator runs.

**AstTypes** reads the type of a field: the head behind the wrappers (`Peel`), the indicator that a
`Walk` call is spelled with, and whether a written path can mean a visited type (`Absolutize`,
`PathMayDenote`). **VisitorLower** decides with them what a field becomes: nothing, a `Walk` call, a view,
or an error at expansion time (`Accepts`), and which definitions have to be fetched for it.

**VisitorWalk** runs that code. `stack` is the call stack, `tree` the value; a value knows its real types,
the generated code only what was spelled, so that a wrong reading of a path or a wrapper shows as a
node that is missed or a call that fits no impl. `CallHook` is a hook, which may put other contents into the
node; `ViewBegin` hands a hook the slot of a `#[seq]` or `#[opt]` field, of which it may make another
(`SeqEdits`, `OptEdits`); `ViewRetain` and `RetainStep` are a hook that calls `SeqView::retain_mut`. `log` is what was offered
to whom. `Met` is the reference: the nodes that stand in a value by its real types.

**AstMetadata** is `derive(Ast)` as seen by a visitor: the definition without its attributes, the
`#[subast]` list rooted at `$crate`, and the complaints. **Recurse** expands a module item by item
(`PassItem`, `ExpandItem`), selects the members of cycles and emits. What decycle analyses and adopts is
external: `CyclicTypes` are the types that reach themselves by the bounds of impls, where a bound is on
the last segment of the path that it spells; `Adopted` are the impls
of a trait whose macro it was given, for a type of the graph; and `Contracted` takes from those the bounds
that can be ranked, which are the ones on a type of the graph that is spelled by its name alone.

## 3. The runs

| Run | Question | Bounds |
|---|---|---|
| `tape` | Under any client, is the tape a rewindable stream that retains and polls no more than it may? | 2 atoms; every iterator of at most 3 atoms that may come back to life with 1 more; 2 pushed-back atoms; 2 nested checkpoints |
| `text` | Does every combinator and shape of derived type over text return, with the value (or the place of the failure) and position the grammar means, and is the value's span that of what it was parsed from? | 10 types on every text of at most 4 of 6 characters and 5 longer texts; the integer on every text of at most 5 of 4 characters |
| `tokens` | Does the spacing flag describe the position, across rewinds, pushbacks and groups, is the parse what the grammar means, and does what `Unparse` writes parse back? | 7 types on every stream of at most 4 of 9 tokens that a compiler can produce (a punctuation is glued only to another) and 3 longer streams |
| `list` | Is a `Punctuated` under any visitor the sequence of its items, also during a walk, with the punctuations kept and through serialization? | every list of at most 3 of 3 items and 2 punctuations, equal ones included |
| `literals` | Is a token one type's at most, and what survives the round trip through a value and its emitter? | every literal type against tokens with every prefix, contents of at most 4 characters that cover quotes, escapes and wide characters, 0 to 2 hashes; built values of the types whose contents a program is free to choose |
| `walk` | Does the generated code offer every visited node once to every hook, through every kind of field, while hooks edit? | 2 modules, the second extending the first; trees of up to six nested nodes; 4 visitors; both sides; 1 edit |
| `discovery` | Does the exchange of macro calls end with the closure of what was listed, each definition fetched once? | 7 mutually recursive types by 2 paths each; any 1 or 2 of them listed in either order; no base, or a base with 3 sets of heads |
| `recurse` | Are exactly the impls on a cycle contracted, is no cycle left that is spelled directly, are no names bound twice but for the clashes that section 5 tells of, and is nothing else changed? | every module of two types with 6 and 3 shapes of fields, 4 mixes of derives each, 2 of imports, with a hand-written impl or without; a module without a body, one without cycles, one in which groups' names are joined alike, one with a type called like a trait; both engines and an unknown one |
| `stale_spacing` `group_remainder` `farthest_failure` `string_escapes` | The findings of section 5. | one type each over tokens; the last on the instance of `literals` |

Why these are enough. In the tape, three atoms put one before the outer checkpoint, one between the
checkpoints and one after, so every order of the cursors occurs, a release can drain a proper part of
`buf`, and two pushbacks can straddle a checkpoint; a third nested scope would repeat the relation of
the second to the first. In the parsers, every kind of node and every transition of it is reached,
alternatives fail after one, two and three consumed atoms, transactions nest up to five deep (a list
in a group in a recursive enum), and the longer inputs make loops repeat and groups nest.

A list of three items has a first, a middle and a last one: each branch of `insert` and `remove` is
taken with items on both sides, and a walk can drop the first, the last and two in a row. Items may be
equal, as in a parsed list, so that a walk that skips one is not excused by another.

The definitions of `walk` reach their nodes through a Vec, a Box, a map, an array, a tuple within a Vec, a
shared reference, an alias, unlisted types, relative paths and both views, and have fields that must
not be entered (skipped ones, and a type of another module with a visited name). One edit is enough to
remove, insert or replace at every point of a walk; a second would meet the loop in a state that a
first one can leave as well. In `discovery` two listed types give a queue with something in it before
the first answer, and the grammar has self-loops, a shared leaf and a cycle of four. Modules of two
types are enough for `recurse`: cycles of one and of two types, through a group, through a type whose
impl is written by hand, or only through a defaulted field, which makes none.

The tape, list and literal runs explore clients, the walk explores visitors that edit, the parser runs,
`discovery` and `recurse` explore inputs: the execution of one input is deterministic there, and
the nondeterminism is in `Init`. The literal and recurse programs stop after their last phase, so these
runs do not check for deadlock; in all others a state that cannot go on is reported, and the last state
has a stutter of its own. Between them the runs fire every action.

**Properties of the tape and the parser.** `ImplementsRewindableStream` is the refinement; `CursorsOrdered`, `RetentionScoped`
and `NeverPolledAfterEnd` are what the module documentation of `tape.rs` promises about the
representation. `ScopesNest`: the open checkpoints of every stream are those of the running
transactions, in order, at every step and none is left at the end. `SourceInOrder`: what is still to
be served is always a suffix of the source, whatever was handed back. `SpacingAtPosition`:
`is_joint`, when consulted, is the spacing in front of the next atom. `MeansGrammar`: the value, or
the place of the failure, and the final position are the reference's. `SpanCoversConsumed`: when the
`T` of a `WithSpan` has parsed, the span recorded reaches to the last atom that `T` consumed (and for
tokens from the first), across rewinds, pushbacks, groups and `WithSpan`s inside. `CallReturns`: every call ends.

`EmittedParsesBack`: what a parsed value is written as is parsed to that value again, all of it,
whatever alternative, order, group or default the value came by and however the source was spaced. It
is about the types in which nothing asks for spacing, which values do not keep. `SpanMeetsConsumed`: the
span folded for a value is that of what it was parsed from. For text that is the place of the last
atom that is no separator; the first place of a text ties with the default span, and either of the two
may come out. For tokens it is from the first to the last, or into the last one if that is a group.

**Of the list.** `ImplementsSequenceView` is the refinement. `WalkOffersEach`: the items shown and those
ahead are, at every turn of a walk and whatever it drops, the items there were when it began; the
`unsafe` block of `SeqIterMut` rests on it. `WireRoundTrips`: what is serialized is accepted and the same
again. `PunctsStayInFront`: an item that is behind another before and after an edit keeps the
punctuation in front of it.

**Of literals.** `TakenByOne`: no two types take a token, so that the order of an enum's variants does not
matter. `ResolvedMeansTheSame`, `ReadsBack` and `ShownAsEmitted`: for the types that resolve what they read,
and for `CStr`, the token emitted means what the one read meant, by the language's rules, reads back
to the same value, and is shown as it is emitted.

**Of visitors.** `WalkOffersAll`: when a walk is over, each hook has been offered the nodes of its type
that stand in the tree, by the types the fields really have, once each and in order. `WalkFits`: no
`Walk` call meets a value that its indicator has no impl for. `ClosuresShareTheWalk`: a node is offered to
all closures of a tuple before any of them gets another. `WalkReturns`: every walk ends.
`FetchedOnce`: no definition is recorded twice. `Closed`: when code is generated, whatever a recorded
type leads to is recorded. `Generates`: the bounces end. `ImplementsTypeClosure` is the refinement.

**Of recurse.** `ImplementedOnce`: a derive that was written yields one impl, by the attribute or by the
compiler. `ContractedAgrees`: the impls marked by their position are those that the graph leads decycle
to, where groups have names that can be told apart (`GroupsTold`). `CyclesBroken`: where no contracted impl has
a bound on a type of the graph through a module (`SpelledDirectly`), no obligation that is left, of
contracted impls or of others, leads back to itself. `NamesBoundOnce`: types, imports,
the prelude and the structs of groups do not collide, but for a type called like a trait that the prelude
imports (`LikeTrait`) and groups whose names are joined alike (`LikeGroup`). The instance has modules
with each of the exceptions: without any one of them TLC finds the property violated. `AstUnaffected`: `derive(Ast)` publishes and reports
what it would without the attribute.

**Fairness.** `WF_vars(Step)` on the parser's whole next-state relation, `WF_vars(Next)` on the walk and
on discovery, and none elsewhere. A parse and a walk
are one thread of sequential code that calls nothing that blocks, and the compiler expands a macro call
that it meets, so that each takes its next step whenever it has one is all that is assumed. `Terminated` is the stutter after the return, so a run
that stopped anywhere else would be reported as a deadlock.

## 4. The proofs

### The tape

`TapeProofs` proves about `TapeClient`, for every set of atoms, every iterator (any length, any
behaviour after the end) and every bound:

| Theorem | Property |
|---|---|
| `TypeCorrect` | `TypeOK`, in particular that no index leaves `buf` and no end marker is parked in it |
| `CursorsStayOrdered` | `CursorsOrdered` |
| `RetentionStaysScoped` | `RetentionScoped` |
| `IteratorLeftAloneAfterEnd` | `NeverPolledAfterEnd` |
| `RefinesRewindableStream` | `ImplementsRewindableStream` |

All follow from `TapeInvariant`: `Spec => []IInv`, where `IInv` says that the tape is typed, its
cursors are ordered, its retention is scoped, and `done` holds exactly if the iterator has ended. None
of the parts is inductive alone. Ordered cursors need scoped retention, because `release` drains `buf`
by `pos` and would leave the saves beyond its end if it ran with a scope open. Scoped retention needs
ordered cursors, because a rollback to the outermost scope must land on a `pos` that a release can
drain. `NeverPolledAfterEnd` needs `done` to agree with the iterator. The typing needs all of it for
the indices.

The argument goes method by method: one lemma per operator of `TapeOps` (`NextPreservesInv`,
`RollbackPreservesInv`, ..) states that it takes a tape with the invariant to one with it and leaves
an ended iterator alone. `release` runs in the middle of a method, where retention is not yet scoped;
`UnreleasedInv` is the invariant without that part, and `ReleaseEstablishesInv` the fact that a release
restores it. `StepPreservesIInv` has one step per action. The assumptions are those of the modules:
`NoAtom` is no atom, iterators yield atoms, the bounds are numbers.

The refinement needs, for each method, what it makes of what is ahead and of what was ahead at every open
checkpoint (`NextView`, `RollbackView`, `CommitView`, .., in `TapeOpsProofs`). Those lemmas argue in terms
of `Held`, the part of the view that is already in the tape: a pull from the iterator moves its first atom
to the end of `Held` and the view stays (`PullKeepsHeld`), serving takes the first of the view whether it
was pushed back (`PushedBackIsFirst`) or is in `buf` (`HeldIsFirst`), and a release drops from `buf` only
what lies before `pos` (`ReleaseKeepsView`). A rollback to a checkpoint that is not the innermost leaves the marks of
those outside it (`OuterMarks`). `AbstractNext` then maps each action to the one of the same name.

### The list

`PunctuatedProofs` proves about `PunctuatedClient`, for every set of items and punctuations, lists of
any length and every visitor:

| Theorem | Property |
|---|---|
| `TypeCorrect` | `TypeOK` |
| `WalksAreExact` | `WalkOffersEach` |
| `WireIsLossless` | `WireRoundTrips` |
| `RefinesSequenceView` | `ImplementsSequenceView` |
| `PunctsAreKept` | `PunctsStayInFront` |

`SetReplaces`, `InsertInserts`, `RemoveRemoves`, `PushInserts` and `LastIsAtTheEnd` state for each method which
sequence it makes of the items; each splits on whether the first item is concerned, and its two halves
are lemmas about a first item and a vector of pairs (`InsertFirst`, `InsertInRest`, ..). The invariant
is `IInv`: the types, `WalkOffersEach`, and `WalkInside`, that a walk never passes the end and an
iterator's end is the list's; without it `get_mut` at the walk's index may find nothing, and the walk
would show that. `WalkStepKeepsInv` is the turn of a walk: showing the next item moves it from those
ahead to those shown (`ShowNext`), writing over it changes nothing ahead (`SetBehind`), and dropping it
brings the next one to its index (`RemoveReached`). `AbstractNext` maps each action to one of the
sequence's, `last` and `last_mut` of an empty list to a read of nothing and a stutter. The assumptions
are that the absent answer is no item, that the default punctuation is one, and that the client starts
with a list.

`PunctsAreKept` is a step property, about items that occur once before and after the step: a pair of a
punctuation and the item behind it is never taken apart, and the only pair that an edit makes is that of the item it inserts. For each
method a lemma says where the pairs go (`SetKeeps`, `InsertKeeps`, `RemoveKeeps`, `RetainKeeps`), over a lemma
about bare sequences (`KeepsIfInserted`, ..); an item that becomes the first loses its punctuation and is
the one case that the property excepts, since nothing is in front of it.

### Discovery

`DiscoveryProofs` proves about `VisitorDiscovery`, for any types, definitions, requests and bases:

| Theorem | Property |
|---|---|
| `TypeCorrect` | `TypeOK` |
| `OnceEach` | `FetchedOnce` |
| `ClosedWhenGenerated` | `Closed` |
| `Implements` | `ImplementsTypeClosure` |

What was met is one sequence: `done`, then what is being fetched, then `rest`. A step moves a border
within it (`HeadMoves`) or appends a path whose key it does not have. `Inductive` is `Spec => []IInv`,
where `IInv` says that no key occurs twice in that sequence, that whatever a recorded type leads to is in it,
that what the type being looked at leads to is in it or still to be looked at, and that everything in it
was asked for or is led to from what is recorded. `FetchedOnce` alone is not inductive, because `Look` compares with `done` and `rest`
only and `Record` appends what is in neither. `Closed` needs the second part, the refinement the last.

The module's assumptions are that a request lists a type or more, each once, that a visitor without a
base inherits nothing, and that fields lead to types that have a definition. The theorems have two more
hypotheses, which the code leaves to its callers. `KeysTell`: `norm_path` tells paths apart.
`LeadsElsewhere`: no type leads to itself under another name; `seen` does not contain the type that is
being fetched, so that such a type is fetched again. TLC evaluates both on the instance of the run.

### The parser

`ParserProofs` proves about `Parser`, for every grammar, every call, both kinds of source and sources of any
length:

| Theorem | Property |
|---|---|
| `ParserInvariant` | `IInv`, the inductive invariant |
| `ScopesAlwaysNest` | `ScopesNest` |
| `SourceStaysInOrder` | `SourceInOrder` |
| `SpacingStaysAtPosition` | `SpacingAtPosition`, of grammars without `Result` |

They rest on the two halves of `ParserLemmas`. One is about the translation of types: `GrammarCode` says that the
program of every type and of every variant, behind any shared prefix, is a sequence of well-formed items, which takes that a substruct
is taken out of a list of fields where it was put in (`AbsorbedFields`, `SubstructItemsType`) and that the split point of
an enum's variants lies within their fields (`PrefixLenBound`). The other has one lemma per operator of
`SourceOps` and of the tape below it (`NextStream`, `HandedBackStream`, `RollbackStream`, ..): the stream still serves a suffix
of its source, its other scopes are what they were, and what its flag and the saved flags say is right
or not as before.

`IInv` has five parts, and none is inductive alone. `FramesInv`: each frame of the call stack is
one of a combinator with the fields it needs, its node is in the grammar, a frame that counts on its
callee to rewind called a `dup`, and every `dup` belongs to the stream that its depth among the groups gives. `ControlInv`: there
are as many streams as groups entered, what runs is on the last of them, and what a scanning loop has
taken, before what the stream still serves, is a suffix of the source; without this part handing
back the digits of a failed integer could leave the stream out of order. `StreamsInv`: each stream keeps the invariant of
its tape and serves a suffix of its source. `ScopesNest` is the property itself: a resolution by `CloseDup` commits or
rolls back the innermost checkpoint only because of it. `FlagsInv`: the saved flags are right at their
checkpoints, and the flag at the position, unless a failure is on its way up.

The last clause is what makes the spacing flag hard. `push` leaves the flag of the atom that it hands
back, so the flag is wrong between a leaf's mismatch and the rollback that restores it. `Failing` says when that is:
a failure is being returned to a frame that does not rewind first (`RewindsFirst`). Until the rollback only
returns happen, because `?` leaves every frame at once; the frames that do not pass a failure on
are those of `RewindsFirst`, whose callee was a `dup`, and `Result<T, E>`, which calls its `E` from where its `T` stopped.
`NoneCatches`, the hypothesis of `SpacingStaysAtPosition`, excludes that one type, and `stale_spacing`
(section 5) shows that it must.

`NextPreservesIInv` has one case per action, each a lemma of its own (`ParseLeafStep`, `DupStep`, `CloseDupStep`,
`EnterGroupStep`, `ItemReturnedStep`, ..). Most actions return, call or stay on the same stream: `ReturnStep`, `CallStep`
and `StayStep` keep all five parts given what the action does to the top frame. The assumptions are
`GrammarAssumption` (nodes are well-formed; the holders of `#[group]` fields are groups, as the bound
`GroupShape` in the generated code demands; integers are parsed by scanning over text only), that calls name
nodes of the grammar (`JobsAssumption`) and that sources are sequences of atoms (`SourceAssumption`).

### Literals over tokens

`LiteralProofs` proves about `LiteralClient`, for any tokens that a compiler makes, of any length, and any
built values:

| Theorem | Property |
|---|---|
| `OneTypeTakes` | `TakenByOne` |
| `MeaningIsKept` | `ResolvedMeansTheSame` |
| `FaithfulReadBack` | `ReadsBack` |
| `ShownIsEmitted` | `ShownAsEmitted` |

`TakesBegins` finds the first two characters, and whether there is a point, of whatever a type takes; no two types agree on
them (`GoesToOne`). This holds of a number because taking off its suffix leaves its first character, unless
the suffix was all there was (`UnsuffixedBegins`). `TakenIsKept` says what values the faithful types read (those
that resolve their token, and `CStr`), and `KeptReadsBack` that each of them is read back from the token it
is emitted as: a number because value and suffix together are the text again, a character because every escape that is written is one of the
table (`NewCharForm`, `CharReadsBack`), a C string because its contents lexed between quotes before. The
invariant, `LitInv`, says which of these facts is at hand in each phase: it is what the two readings of
`ReadsBack`, which are two steps apart, have in common. `MeaningIsKept` also needs what the fold `Resolved`
makes of the contents of a character, which are at most an escape: the recursive function that the fold is
defined by is shown to exist on the indices of a text of one or two (`PassesShort`), and evaluated
(`ResolvedShort`); for the other types the token emitted is the token read.

The assumptions are what rustc's lexer guarantees (a token is not empty, `c"` begins a C string that is closed
and whose inner quotes are escaped, a character literal is not empty nor a lone backslash, bytes beyond
ASCII are escaped) and that a built `Bool` is true or false. TLC evaluates them on the instance of the run.

### `recurse`

`RecurseProofs` proves about `Recurse`, for modules of any length, with any types, derives, groups, imports
and impls written by hand, and either engine:

| Theorem | Property |
|---|---|
| `RecurseInvariant` | `RecInv`, the inductive invariant |
| `RecurseImplementsOnce` | `ImplementedOnce` |
| `RecurseContracts` | `ContractedAgrees` |
| `RecurseBreaksCycles` | `CyclesBroken` |
| `RecurseBindsOnce` | `NamesBoundOnce` |
| `RecurseLeavesAst` | `AstUnaffected` |

The expansion keeps its records by position: `derived` has, for every derive, the places of its impls in one
sequence that grows item by item. No property is inductive over that, and the program does not keep what would
make one so: where each place came from. `RecInv` says that there is a function that tells it. `Stage` is
that function's specification: `from` maps each place of `items` to a triple, the written item,
the derive and the number within what that derive generated; different places have different
origins; each origin that there should be by now has its place; and `derived` is what reading the places back off `from`
gives (`DerivedFrom`). Adding the output of one derive is one lemma, `PlacesGrow`, which `StageRewrites` uses for the type
that stays behind and `StageExpands` for each of its derives; the fold over the derives is unfolded once
(`DeriveAllIs`). The existential in `RecInv` ranges over functions of any shape, which TLC cannot enumerate, so it is the
five properties that TLC checks, and `RecInv` that is proved.

What single derives generate is `Expansion`: structs and impls of groups, then the impl of the type, which
is the last; names are distinct because the holders are distinct fields (`HoldersAre`, `GroupedIs`). `OriginIs`
combines the two: every item of the output is either a written one, rewritten, or one of the things of an
`Expansion`. From there:

* `ImplementedOnce`: an impl of a derived trait for a type can only be the last of that derive's
  (`ImplIs`), and its origin has one place (`ImplsAgree`).
* `NamesBoundOnce`: a name is that of a leaf or a type, which is one word, or that of a group's struct, which
  has a nonce beside it and tells its derive and, unless it is joined like another, its type and its holder
  (`GroupsOnce`, `LikeGroup`). The prelude binds the names of the traits, of
  which the imports have been cleared (`ItemBindsOther`), but not the types (`LikeTrait`).
* `ContractedAgrees`: what is contracted by position is in the graph by construction. That no generated impl of the
  graph is forgotten needs that a group's struct is on a cycle only when the type that owns it is
  (`OwnerOnCycle`): nothing but the owner's own impl asks for it. That is what `GroupsTold` is for: of two
  types whose groups have one struct, either may be on the cycle.
* `CyclesBroken`: a circle among the obligations that are left is one of the graph of types as well (`CycleMapped`), since no bound is
  behind a reference (`ImplAsks`). A generated impl on it is adopted (`UsedAdopted`), because its trait is one that
  a member of the cycle derives: the type's own, or that of the type that asks for the struct of its group
  (`OwnerAsks`). An adopted impl keeps only bounds that could not be ranked, and by `SpelledDirectly` those lead out of
  the graph. So all impls on the circle were written by hand (`CycleInOther`), and those make no circle.
* `AstUnaffected`: the lists of attributes are sieved twice, once by the macro and once by `derive(Ast)`;
  the sieves commute (`SiftTwice`), so that what is left for `derive(Ast)` is what was there.

About graphs, `Reaches` computes so many rounds as there are sources; `ReachesIsLeast` shows that this is the least set closed
under the edges, because a round either finds a new source or is the last. Sequences are filtered by `Sift`, the same recursion on the length as
`SelectSeq`, which the prover does not unfold.

All of it rests on `ModulesAssumption`, which says what rustc takes for a module: no two types of
one name (E0428), no two imports of one name in a namespace (E0252), no impl beside a derive of the
same trait (E0119), impls written by hand whose own obligations come to an end (E0275), fields of a variant with
distinct names, no import of a type's name (E0255), and no type with the name of a struct that the macro
generates, which holds a nonce. It says two things
that rustc does not. The bounds of impls written by hand are on types
themselves, not on references to them: decycle's graph has no edge for a bound on a reference, which is
why the derive peels them off (`peel_refs`), and an impl that asks for `&T` by hand is outside of what is
proved. And no two variants of a type share their first field, nor does one group stand in another: the
struct of a shared prefix is named without a variant, and neither is modelled here. TLC evaluates the assumption on the
instance of the run.

What the macro does not keep is in the properties, not in the assumption: `GroupsTold` and `SpelledDirectly` stand in front of
`ContractedAgrees` and `CyclesBroken`, and `NamesBoundOnce` names the two clashes it does not exclude. Modules
with them are in the instance.

### What is only model-checked

* What a parse means (`MeansGrammar`), the spans recorded and folded (`SpanCoversConsumed`, `SpanMeetsConsumed`)
  and the round trip of values (`EmittedParsesBack`): `PegReference` and `ParsedValues` are recursive operators on the grammar,
  and a proof would go by induction on the parse, which is out of the prover's reach.
* The walk (`WalkOffersAll`, `WalkFits`, `ClosuresShareTheWalk`): `AstTypes` and `VisitorWalk` read types
  and values recursively.
* Liveness (`CallReturns`, `WalkReturns`, `Generates`), which the prover does not do.

## 5. Where the code and its documentation differ

* **`stale_spacing`.** `proc_macro2.rs` says of `is_joint` that "it is derived state that must be
  restored alongside the tape". `push` does not restore it: after a mismatched token is handed back
  the flag is that token's. Where a rewind follows nothing is seen, but `Result<T, E>` continues after
  a failure without one, so that `plus: Plus, r: Result<Plus, E>, #[joint] eq: Eq` asks for the
  spacing of the wrong token.
* **`group_remainder`.** The README gives the syntax of `GroupParen<T, S>` as `(` `T` `)`, but over
  tokens the contents are not checked to be used up: `(a =)` parses as a group of one `a`. Over text
  the closing delimiter is itself parsed, and the same input is refused.
* **`farthest_failure`.** `from_alternatives` says "farthest failure wins", and that `migrate` is the source's own
  rule of "which position reaches further" (`error.rs:32-33`). Over tokens `migrate` compares no positions:
  it keeps the start of the first span and the end of the last (`proc_macro2.rs:36-44`), and what a reader is
  pointed to is the start (`proc_macro2.rs:54-58`). And in both sources a leaf that fails at the end of the input
  fails at `Span::default()`, which is no place of a token, and the start of a text. Of the variants
  `+`, `a a` and `a = a`, on `a =`, the first token is reported, though the second variant got past it and the
  third to the end. Over text the fold does find the farthest place, unless that is the end: of `x y ,` and
  `x x`, on `xy`, the second is reported, at offset 1.
* **`string_escapes`.** `literal.rs` promises forms that can be parsed "and `Unparse` back", and says that
  the string forms keep their escapes unresolved. `Str` and `ByteStr` emit what they keep through
  `Literal::string` and `byte_string`, which escape it once more: `"\n"` comes back as `"\\n"`.

The passing runs state what holds next to these, and stay clear of them. `MeansGrammar` compares the
place of a failure with a reference in which the end of the input counts
as the default span and tokens fold from the first to the last (`AllFailedAt`), as in the code;
`ResolvedMeansTheSame` is about the types that resolve what they read; the properties of `recurse` name the
modules that they except.

Further places where the code does not do what the repository says. No run reports them; the passing runs show the
behaviour, state it as an exception, or have instances without it:

* A character literal with an escape outside the table (`'\x41'`), or with contents of more than
  one byte (`'é'`), is consumed, and the failure is `Eof` at the default span (`GiveUp`). `error.rs:97` has `Eof` for "Input ended
  where something was still expected", and `error.rs:103` has `Literal` for one that "was malformed". The enum
  around it rewinds, a `Result` does not.
* "A tuple of visitors is a visitor: every element sees every node, in one traversal" (`side.rs:398`;
  `visitor_composition.rs:59` asserts counts under that message, which two traversals give as well). The tuple's
  methods forward to each element, which descends by itself: the subtree of each node is walked once per
  member, one after the other. Only closures share one walk.
* The name of a group's struct joins the names of the holder, the type and the variant with underscores
  (`substruct.rs:55-63`), all under the nonce of the attribute. `group_substruct_names.rs:70-71` says that "a struct and an
  enum in the same module still cannot collide with each other": an enum `A` with a variant `V` and a struct
  `A_V` beside it, with holders of one name, do (`LikeGroup`). Rust's casing conventions keep them apart, the macro
  does not.
* `recurse_core.rs:193-194` says that "a foreign field sharing a cycle type's last segment is a leaf
  (membership keys on the FIRST path segment)", and `recurse.rs:293-294` speaks of "only single-segment references". The
  graph is read from the derives' bounds and knows a type by the last segment of its path: a
  field `m::A` of `A` puts `A` on a cycle, and the bound on `m::A` cannot be ranked (`SpelledDirectly`).
  `recurse_core.rs:396-405` records the latter, of an edge that is spelled through a re-export, as a KNOWN GAP.
* A program may build a `CStr` or `CStrRaw` whose contents hold a quote; it is emitted as a plain string, though
  `literal.rs:1` has each form parse back.
* A field of an unlisted type that names a visited type by a relative path (`super::ast::Expr`) from another module is
  silently not walked: it is kept with `$crate` and never equals the visited path. `util.rs:442-444` declines such routes,
  `util.rs:458-459` has them walked.
* A reference inside a wrapper (`Vec<&Expr>`) gets an indicator that
  no impl fits: references are accounted for, as `util.rs:311-312` asks, only around the whole type.
* Discovery fetches a type that leads to itself under an alias twice, though `discover.rs:4` excludes "self (already
  in `done`)", and takes paths into two crates that differ only in `$crate` for one, though `entry.rs:166-167` has
  `a::Cast` and `b::Cast` distinct.
* `#[recurse]` prunes an import that is bound to `Parse`, `Unparse` or `Spanned` even when no member of a
  cycle derives that trait, and then nothing imports it again, though `recurse.rs:345-347` says it is
  re-supplied.

And places that surprise, of which the repository says nothing else, or records them itself:

* In front of the delimiters of a `#[group]` holder the derive skips no separator (`adt.rs:184`), so over
  text `x (y)` does not parse where `x(y)` and `x( y )` do.
* `WithSpan`'s accumulator keeps what was read and given back. The source records this for rollbacks as a
  known limitation; a leaf's mismatch inside an `Option` is enough: `WithSpan<(x, Option<y>)>` on `x,` ends
  at the comma.
* The folds of `Spanned` start from the default span, so a value that is the first character of a text,
  and nothing else, gets the default's line and column.
* Over tokens the span of a struct that ends with the contents of a `#[group]` ends inside the group and not at its closing
  delimiter. `SpanMeetsConsumed` therefore allows "into the last token".
* `Unparse` over tokens writes every symbol as a token of its own, so that a value with a `#[joint]`
  field does not parse back.
* A `Vec` of items that may consume nothing never ends (`parse.rs:32`).
* The loop that counts the hashes of a raw string takes the quote behind them too (`parse_impl.rs:179`), so
  that no raw string is ever read, as the comment above it knows; `r""` makes the parser slice out of range
  (`PanicIn`).
* `#[recurse]` does not recognise a derive under a renamed import, and it leaves `#[syan]` on the type
  that it emits, which is a helper attribute of the derives it has removed.
* A type that is called like a trait which a member of a cycle derives (`Spanned`) clashes with the
  import that `#[recurse]` puts in front of the module (`recurse.rs:262-265`, E0255).

## 6. Abstractions

Characters and tokens are members of a small set, and what a leaf accepts is a set of them. Not
modelled in the parser: the kinds and messages of errors, line and column arithmetic, `#[group]` inside the
contents of a `#[group]`, generics and bounds. `Box<T>`, arrays and `PhantomData` parse as the type
inside, a tuple and the empty tuple. The stream record has two fields the code has not: `source`, the
atoms it was made from, and `origin`, the place of the group they are the contents of. Properties
refer to them, and spans are computed from them: an atom carries its span through every pushback, and
by `SourceInOrder` that span is its stream's position.

Values are written to tokens only, to a sink that does not fail; `Unparse` to text goes through strings.
`(+ =)` is the group that `(+=)` is written as.

A literal's text is short, and an escape's letter, a suffix and a wide character are one symbol each;
that the compiler accepts a token is assumed of the tokens given, not checked.

In `visitor!` a path is the sequence of its segments, a type a tree of paths, tuples, references and
arrays; parentheses and invisible groups, which every function passes through, are left out, as are
generics of visited types in the walk. Errors at expansion time are modelled as what is
not accepted. Macro hygiene and the spelling of generated names are left out.

In `recurse` a type is the set of the paths in it, a use tree the set of its leaves (nested prefixes and
visibility do not matter to what it binds), and the impl of a derive its trait, its type and the types
it bounds, each known by the last segment of its path. Contents marked `#[default]` get no bound. Not modelled: the structs of
prefixes that variants share, and groups within groups. decycle's analysis and its two engines are external: the graph is closed over the bounds,
and an adopted impl loses those that can be ranked.

## 7. Plan

1. `WalkFits` from the typing of `VisitorLower`, if its readings of a type can be stated without recursion.
2. The hooks module of a visitor (`side.rs` 459-659) and `impl_chain!`: that delegation from ancestors
   reaches every method once; then generic visitors (method mode).
3. `UnionWith` and the kinds of errors, as far as they decide which failure is kept.
