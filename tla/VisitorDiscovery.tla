-------------------------- MODULE VisitorDiscovery --------------------------
(***************************************************************************)
(* How visitor! collects the definitions it needs (macro/visitor/entry.rs, *)
(* build_input.rs).  A macro sees only its own tokens, so the state bounces*)
(* between macros: each type's derive(Ast) left a macro that appends its   *)
(* definition and calls __visitor_build, which records it, looks through   *)
(* the types its fields lead to, and calls the macro of the next type.  A  *)
(* base module's macro answers in the same way with what it visits.        *)
(***************************************************************************)
EXTENDS Naturals, Sequences, Functions

CONSTANTS Paths,           \* the paths that types are named by
          Key(_),          \* norm_path: what paths are compared by
          HeadOf(_),       \* the last segment of a path
          Followed(_, _),  \* followed_intermediates of the type at a path, for a set of methods
          Requests         \* the arguments of visitor!, with what the base's macro would answer

VARIABLES request,    \* @visited and @base
          inherited,  \* @inherited: the heads that came from the base
          fetching,   \* @fetching: the type whose definition comes with the next bounce
          done,       \* @done: the paths of the definitions recorded so far, in order
          rest,       \* @rest: the paths still to fetch
          looking,    \* what followed_intermediates returned and has not been looked at
          phase       \* which macro is expanded next, or what __visitor_build is at

vars == <<request, inherited, fetching, done, rest, looking, phase>>

\* A visitor without a base has none to ask.
Request(types, based, heads) == [types |-> types, based |-> based, heads |-> heads]

\* visitor! lists a type or more, each once, and only a base has heads to hand down.
ASSUME Requested ==
    \A r \in Requests :
        /\ r.types \in Seq(Paths) /\ r.types # <<>>
        /\ \A i, j \in DOMAIN r.types : Key(r.types[i]) = Key(r.types[j]) => i = j
        /\ r.based \in BOOLEAN /\ (~r.based => r.heads = {})

MethodsOf(types, heads) == {HeadOf(types[i]) : i \in DOMAIN types} \cup heads
Methods == MethodsOf(request.types, inherited)

\* A type leads to types that have a definition.
ASSUME FollowedExists ==
    \A r \in Requests, p \in Paths : Followed(p, MethodsOf(r.types, r.heads)) \in Seq(Paths)

\* What discovery needs and does not establish: norm_path tells the paths apart, and no type
\* leads to itself under another name.
KeysTell == \A p, q \in Paths : Key(p) = Key(q) => p = q
LeadsElsewhere ==
    \A r \in Requests, p \in Paths :
        \A q \in Range(Followed(p, MethodsOf(r.types, r.heads))) : Key(q) # Key(p)

KeysIn(paths) == {Key(paths[i]) : i \in DOMAIN paths}

Nothing == <<>>

Init ==
    /\ request \in Requests
    /\ inherited = {} /\ fetching = Nothing
    /\ done = <<>> /\ rest = <<>> /\ looking = <<>>
    /\ phase = "entry"

\* The base is asked first, and no type is fetched yet.
EntryWithBase ==
    /\ phase = "entry" /\ request.based
    /\ rest' = request.types
    /\ phase' = "base"
    /\ UNCHANGED <<request, inherited, fetching, done, looking>>

EntryWithoutBase ==
    /\ phase = "entry" /\ ~request.based
    /\ fetching' = <<Head(request.types)>>
    /\ rest' = Tail(request.types)
    /\ phase' = "ast"
    /\ UNCHANGED <<request, inherited, done, looking>>

\* Mutant of BaseAnswers: what the base visits is not kept.
BaseForgets ==
    /\ phase = "base"
    /\ phase' = "next"
    /\ UNCHANGED <<request, inherited, fetching, done, rest, looking>>

\* base::__syan_visited appends @inh; there is no definition for this bounce to record.
BaseAnswers ==
    /\ phase = "base"
    /\ inherited' = request.heads
    /\ phase' = "next"
    /\ UNCHANGED <<request, fetching, done, rest, looking>>

\* The type's macro appends @ast and @subast, and __visitor_build asks what they lead to.
TypeAnswers ==
    /\ phase = "ast"
    /\ looking' = Followed(fetching[1], Methods)
    /\ phase' = "look"
    /\ UNCHANGED <<request, inherited, fetching, done, rest>>

\* Mutant of Look: what is already waiting to be fetched is not regarded as seen.
LookDoneOnly ==
    /\ phase = "look" /\ looking # <<>>
    /\ rest' = IF Key(Head(looking)) \in KeysIn(done) THEN rest ELSE Append(rest, Head(looking))
    /\ looking' = Tail(looking)
    /\ UNCHANGED <<request, inherited, fetching, done, phase>>

\* Mutant of Look: a type that was seen stays the next to look at.
LookStuck ==
    /\ phase = "look" /\ looking # <<>>
    /\ IF Key(Head(looking)) \in KeysIn(done) \cup KeysIn(rest)
       THEN UNCHANGED <<rest, looking>>
       ELSE rest' = Append(rest, Head(looking)) /\ looking' = Tail(looking)
    /\ UNCHANGED <<request, inherited, fetching, done, phase>>

\* Whoever is not yet recorded and not waiting is queued: `seen` holds the keys of both.
Look ==
    /\ phase = "look" /\ looking # <<>>
    /\ rest' = IF Key(Head(looking)) \in KeysIn(done) \cup KeysIn(rest)
               THEN rest ELSE Append(rest, Head(looking))
    /\ looking' = Tail(looking)
    /\ UNCHANGED <<request, inherited, fetching, done, phase>>

\* Mutant of Record: @fetching is carried on.
RecordKeeps ==
    /\ phase = "look" /\ looking = <<>>
    /\ done' = Append(done, fetching[1])
    /\ phase' = "next"
    /\ UNCHANGED <<request, inherited, fetching, rest, looking>>

Record ==
    /\ phase = "look" /\ looking = <<>>
    /\ done' = Append(done, fetching[1])
    /\ fetching' = Nothing
    /\ phase' = "next"
    /\ UNCHANGED <<request, inherited, rest, looking>>

FetchNext ==
    /\ phase = "next" /\ rest # <<>>
    /\ fetching' = <<Head(rest)>>
    /\ rest' = Tail(rest)
    /\ phase' = "ast"
    /\ UNCHANGED <<request, inherited, done, looking>>

\* Mutant of Generate: it does not wait for the types that are queued.
GenerateEarly ==
    /\ phase = "next"
    /\ phase' = "generate"
    /\ UNCHANGED <<request, inherited, fetching, done, rest, looking>>

Generate ==
    /\ phase = "next" /\ rest = <<>>
    /\ phase' = "generate"
    /\ UNCHANGED <<request, inherited, fetching, done, rest, looking>>

Stopped == phase = "generate" /\ UNCHANGED vars

Next ==
    \/ EntryWithBase \/ EntryWithoutBase
    \/ BaseAnswers \/ TypeAnswers
    \/ Look \/ Record \/ FetchNext \/ Generate
    \/ Stopped

\* The compiler expands a macro call that it meets.
Spec == Init /\ [][Next]_vars /\ WF_vars(Next)

TypeOK ==
    /\ request.types \in Seq(Paths) /\ request.based \in BOOLEAN
    /\ inherited \in {{}, request.heads}
    /\ fetching \in {<<p>> : p \in Paths} \cup {Nothing}
    /\ done \in Seq(Paths) /\ rest \in Seq(Paths) /\ looking \in Seq(Paths)
    /\ phase \in {"entry", "base", "ast", "look", "next", "generate"}
    /\ fetching # Nothing <=> phase \in {"ast", "look"}

\* --- properties ---

\* No definition is recorded twice: the module has one Walk impl for each.
FetchedOnce == \A i, j \in DOMAIN done : Key(done[i]) = Key(done[j]) => i = j

\* When the module is generated every type that a recorded one leads to is recorded as well:
\* visit_value finds the definition of each type it drills into.
Closed ==
    phase = "generate" =>
        \A i \in DOMAIN done : Range(Followed(done[i], Methods)) \subseteq Range(done)

\* The exchange of bounces ends.
Generates == <>(phase = "generate")

\* It implements the closure of what was listed under "leads to".
Asked == [types |-> Paths, listed |-> Range(request.types),
          methods |-> MethodsOf(request.types, request.heads)]
Leads(t, what) == Range(Followed(t, what.methods))
Closure == INSTANCE TypeClosure WITH
               asked <- Asked, found <- Range(done), finished <- phase = "generate"
ImplementsTypeClosure == Closure!Spec
=============================================================================
