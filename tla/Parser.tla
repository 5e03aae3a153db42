------------------------------- MODULE Parser -------------------------------
(***************************************************************************)
(* A call of Parse::parse, step by step: the parse_stream functions of the *)
(* combinators (core/src/parse, core/src/nested) and of derived types      *)
(* (macro/attribute/adt.rs) call each other on one stream, which opens an  *)
(* inner stream for the contents of a token group.  frames is the call     *)
(* stack, ret what the callee handed back to the frame on top of it.       *)
(***************************************************************************)
EXTENDS Grammar

CONSTANT Jobs    \* the calls: which type is parsed from which atoms

ASSUME JobsAssumption ==
    \A j \in Jobs : j.root \in NodeId /\ j.input \in Seq(Atom)

VARIABLES job,      \* the call
          streams,  \* the stream of the call, then those of the groups entered
          frames,   \* the call stack, innermost last
          ret       \* Running, or what the last callee returned

vars == <<job, streams, frames, ret>>

-----------------------------------------------------------------------------
Running == [tag |-> "run"]
Ok(v) == [tag |-> "ok", val |-> v]
Err(span) == [tag |-> "err", at |-> span]
Sep(found) == [tag |-> "sep", found |-> found]

ItemsFrame(items) ==
    [kind |-> "items", items |-> items, pc |-> 1, acc |-> <<>>, peeked |-> DefaultSpan]
SkipFrame == [kind |-> "skip", found |-> FALSE]
DupFrame(raw) == [kind |-> "dup", raw |-> raw, level |-> Len(streams)]

\* The frame of a call of n's parse_stream.
Enter(n) ==
    IF n \in ItemNodes
    THEN ItemsFrame(TypeItems[n])
    ELSE [kind |-> Rules[n].kind, node |-> n, step |-> 0, acc |-> <<>>]

Top == Last(frames)
Rule == Rules[Top.node]
Current == Last(streams)

Runs(kind) == frames # <<>> /\ Top.kind = kind /\ ret = Running
Resumes(kind) == frames # <<>> /\ Top.kind = kind /\ ret.tag \in {"ok", "err"}

SetStream(s) == streams' = Append(Front(streams), s)

\* Mutant of Witnessed: of nested WithSpans only the innermost sees the atom.
WitnessedInside(fs) ==
    LET Watches(i) == fs[i].kind = "spanned" /\ fs[i].level = Len(streams)
    IN  [i \in DOMAIN fs |->
            IF Watches(i) /\ \A j \in i + 1 .. Len(fs) : ~Watches(j)
            THEN [fs[i] EXCEPT !.acc = Widened(fs[i].acc, NextSpan(Current))]
            ELSE fs[i]]

\* Callers fs after a next: every WithSpan among them that wraps this stream
\* has widened its accumulator, whatever then becomes of the atom.
Witnessed(fs) ==
    [i \in DOMAIN fs |->
        IF fs[i].kind = "spanned" /\ fs[i].level = Len(streams)
        THEN [fs[i] EXCEPT !.acc = Widened(fs[i].acc, NextSpan(Current))]
        ELSE fs[i]]

Returns(r) ==
    /\ frames' = Front(frames)
    /\ ret' = r
    /\ UNCHANGED job

\* The function called next before it returned.
ReturnsHavingRead(r) ==
    /\ frames' = Witnessed(Front(frames))
    /\ ret' = r
    /\ UNCHANGED job

\* The frame on top becomes fs, whose last one runs.
Becomes(fs) ==
    /\ frames' = Front(frames) \o fs
    /\ ret' = Running
    /\ UNCHANGED job

BecomesHavingRead(fs) ==
    /\ frames' = Witnessed(Front(frames)) \o fs
    /\ ret' = Running
    /\ UNCHANGED job

\* dup: a checkpoint, then the closure, here the frame g, above fs.
Dups(fs, g) ==
    /\ SetStream(StreamCheckpoint(Current))
    /\ Becomes(fs \o <<DupFrame(StreamDepth(Current)), g>>)

-----------------------------------------------------------------------------
Init ==
    /\ job \in Jobs
    /\ streams = <<StreamNew(job.input, <<>>)>>
    /\ frames = <<Enter(job.root)>>
    /\ ret = Running

\* A symbol or a character: next, handed back on a mismatch.  At the end of the
\* input the failure is at the default span.
ParseLeaf ==
    /\ Runs("leaf")
    /\ LET served == StreamNext(Current)
       IN  \/ /\ served.atom \in Rule.accepts
              /\ SetStream(served.stream)
              /\ ReturnsHavingRead(Ok(<<"atom", served.atom, NextPlace(Current)>>))
           \/ /\ served.atom \in Atom \ Rule.accepts
              /\ SetStream(StreamPush(served.stream, served.atom))
              /\ ReturnsHavingRead(Err(NextSpan(Current)))
           \/ /\ served.atom = NoAtom
              /\ SetStream(served.stream)
              /\ Returns(Err(DefaultSpan))

\* Mutant of PushBack: the atoms are handed back first one first.
PushBackForwards(s, atoms) == [s EXCEPT !.tape.extra = @ \o atoms]

\* The atoms a scan took, each handed back with push from the last one to the
\* first: "push prepends".
PushBack(s, atoms) == [s EXCEPT !.tape.extra = @ \o Reverse(atoms)]

\* Integer over text, one turn of a loop at a time: first the digits, among
\* which underscores may stand, ..
ScanDigits ==
    /\ Runs("integer")
    /\ LET looked == StreamPeek(Current)
           goesOn == looked.atom \in Rule.digits \cup Rule.fillers
           number == \E i \in DOMAIN Top.acc : Top.acc[i] \in Rule.digits
       IN  \/ /\ goesOn
              /\ SetStream(StreamNext(looked.stream).stream)
              /\ BecomesHavingRead(<<[Top EXCEPT !.acc = Append(Top.acc, looked.atom)]>>)
           \/ /\ ~goesOn /\ number
              /\ SetStream(looked.stream)
              /\ Becomes(<<[kind |-> "suffix", node |-> Top.node,
                            value |-> Top.acc, acc |-> <<>>]>>)
           \/ /\ ~goesOn /\ ~number
              /\ LET before == PushBack(looked.stream, Top.acc)
                 IN  SetStream(before) /\ Returns(Err(NextSpan(before)))

\* .. then the letters and digits that follow, which all go back if together
\* they are not one of the suffixes.
ScanSuffix ==
    /\ Runs("suffix")
    /\ LET looked == StreamPeek(Current)
           goesOn == looked.atom \in Rule.alphanumerics
           suffix == Top.acc \in Rule.suffixes
       IN  \/ /\ goesOn
              /\ SetStream(StreamNext(looked.stream).stream)
              /\ BecomesHavingRead(<<[Top EXCEPT !.acc = Append(Top.acc, looked.atom)]>>)
           \/ /\ ~goesOn
              /\ SetStream(IF suffix THEN looked.stream
                           ELSE PushBack(looked.stream, Top.acc))
              /\ Returns(Ok(<<"integer", Top.value,
                              IF suffix THEN Top.acc ELSE <<>> >>))

\* skip_sep.  Text: one turn of the loop over whitespace.  Tokens: the flag.
RunSkipSep ==
    /\ Runs("skip")
    /\ LET looked == StreamPeek(Current)
       IN  \/ /\ TokenSource
              /\ Returns(Sep(~Current.isJoint))
              /\ UNCHANGED streams
           \/ /\ ~TokenSource /\ looked.atom \in Whitespace
              /\ SetStream(StreamNext(looked.stream).stream)
              /\ Becomes(<<[Top EXCEPT !.found = TRUE]>>)
           \/ /\ ~TokenSource /\ looked.atom \notin Whitespace
              /\ SetStream(looked.stream)
              /\ Returns(Sep(Top.found))

-----------------------------------------------------------------------------
(* Items in order; the first that fails ends the function, as ? does, and *)
(* leaves the stream where it is.                                          *)

Item == Top.items[Top.pc]
Stepped(v) == [Top EXCEPT !.pc = Top.pc + 1, !.acc = Top.acc \o v]

RunItem ==
    /\ Runs("items") /\ Top.pc <= Len(Top.items)
    /\ \/ /\ Item.op \in {"skip", "together"}
          /\ Becomes(<<Top, SkipFrame>>)
          /\ UNCHANGED streams
       \/ /\ Item.op = "spacing"
          /\ SetStream(StreamPeek(Current).stream)
          /\ Becomes(<<[Top EXCEPT !.peeked = NextSpan(Current)], SkipFrame>>)
       \/ /\ Item.op = "default"
          /\ Becomes(<<Stepped(<<<<"default">>>>)>>)
          /\ UNCHANGED streams
       \/ /\ Item.op = "parse"
          /\ Becomes(<<Top, Enter(Item.node)>>)
          /\ UNCHANGED streams

\* A group of the token source: the whole group is consumed before its
\* contents are read, and put back only if it is not a group of this kind.
EnterGroup ==
    /\ Runs("items") /\ Top.pc <= Len(Top.items) /\ Item.op = "group"
    /\ LET served == StreamNext(Current)
       IN  \/ /\ served.atom \in Item.groups
              /\ streams' = Front(streams)
                            \o <<served.stream,
                                 StreamNew(Content[served.atom], NextPlace(Current))>>
              /\ BecomesHavingRead(<<Top, ItemsFrame(Item.body)>>)
           \/ /\ served.atom \in Atom \ Item.groups
              /\ SetStream(StreamPush(served.stream, served.atom))
              /\ ReturnsHavingRead(Err(NextSpan(Current)))
           \/ /\ served.atom = NoAtom
              /\ SetStream(served.stream)
              /\ Returns(Err(DefaultSpan))

\* Whether the separator found or not found there makes the item fail.
WrongSpacing(found) ==
    \/ Item.op = "spacing" /\ found = Item.joint
    \/ Item.op = "together" /\ found

SepReturned ==
    /\ frames # <<>> /\ Top.kind = "items" /\ ret.tag = "sep"
    /\ \/ /\ WrongSpacing(ret.found)
          /\ SetStream(StreamPeek(Current).stream)
          /\ Returns(Err(IF Item.op = "spacing"
                         THEN Migrate(Top.peeked, NextSpan(Current))
                         ELSE NextSpan(Current)))
       \/ /\ ~WrongSpacing(ret.found)
          /\ Becomes(<<Stepped(<<>>)>>)
          /\ UNCHANGED streams

\* The stream of a group goes away with the call that made it, read to its end
\* or not.
ItemReturned ==
    /\ Resumes("items")
    /\ streams' = IF Item.op = "group" THEN Front(streams) ELSE streams
    /\ \/ /\ ret.tag = "ok"
          /\ Becomes(<<Stepped(<<IF Item.op = "group"
                                 THEN <<"group", Delimiters(Current.origin, Current.source), ret.val>>
                                 ELSE ret.val>>)>>)
       \/ ret.tag = "err" /\ Returns(ret)

ItemsDone ==
    /\ Runs("items") /\ Top.pc > Len(Top.items)
    /\ Returns(Ok(<<"items", Top.acc>>))
    /\ UNCHANGED streams

-----------------------------------------------------------------------------
\* Mutant of CloseDup: only a failure closes the scope.
CloseDupOnFailure ==
    /\ Resumes("dup")
    /\ SetStream(IF ret.tag = "ok" THEN Current
                 ELSE StreamRollback(Current, Top.raw))
    /\ Returns(ret)

\* The end of dup: commit what succeeded, rewind what failed.
CloseDup ==
    /\ Resumes("dup")
    /\ SetStream(IF ret.tag = "ok" THEN StreamCommit(Current, Top.raw)
                 ELSE StreamRollback(Current, Top.raw))
    /\ Returns(ret)

\* Attempt<T>: the error of a rewound T surfaces.
ParseAttempt ==
    /\ Runs("attempt")
    /\ Dups(<<>>, Enter(Rule.of))

\* WithSpan<T, S>: T on a SubStream, which forwards every call to this stream
\* and widens an accumulator by the span of every atom that next serves (see
\* Witnessed).  No parser reads the span it records, so the value leaves it out;
\* from, which the code has not, is where T started.
ParseSpanned ==
    \/ /\ Runs("spanned")
       /\ Becomes(<<[kind |-> "spanned", level |-> Len(streams),
                     from |-> Position(Current), acc |-> <<>>], Enter(Rule.of)>>)
       /\ UNCHANGED streams
    \/ /\ Resumes("spanned")
       /\ Returns(IF ret.tag = "ok" THEN Ok(<<"spanned", ret.val>>) ELSE ret)
       /\ UNCHANGED streams

\* Option<T>: the error of a rewound T becomes None.
ParseOption ==
    \/ /\ Runs("option")
       /\ Dups(<<Top>>, Enter(Rule.of))
    \/ /\ Resumes("option")
       /\ Returns(Ok(IF ret.tag = "ok" THEN <<"some", ret.val>> ELSE <<"none">>))
       /\ UNCHANGED streams

\* Result<T, E>: the error is a value, and nothing is rewound.
ParseResult ==
    \/ /\ Runs("result")
       /\ Becomes(<<Top, Enter(Rule.of)>>)
       /\ UNCHANGED streams
    \/ /\ Resumes("result")
       /\ Returns(Ok(IF ret.tag = "ok" THEN <<"ok", ret.val>> ELSE <<"err", ret.at>>))
       /\ UNCHANGED streams

\* Vec<T> and the other collections: separators are skipped before every item
\* but the first, inside the transaction that tries for it.
ParseMany ==
    \/ /\ Runs("many")
       /\ Dups(<<Top>>, ItemsFrame(IF Top.acc = <<>> THEN <<Parse(Rule.of)>>
                                   ELSE <<SkipSep, Parse(Rule.of)>>))
    \/ /\ Resumes("many") /\ ret.tag = "ok"
       /\ Becomes(<<[Top EXCEPT !.acc = Append(Top.acc, ret.val)]>>)
       /\ UNCHANGED streams
    \/ /\ Resumes("many") /\ ret.tag = "err"
       /\ Returns(Ok(<<"many", Top.acc>>))
       /\ UNCHANGED streams

\* Punctuated<Item, Punct>: a punctuation counts only with the item after it.
ParsePunctuated ==
    \/ /\ Runs("punctuated")
       /\ Dups(<<Top>>, ItemsFrame(
              IF Top.acc = <<>> THEN <<Parse(Rule.of)>>
              ELSE <<SkipSep, Parse(Rule.punct), SkipSep, Parse(Rule.of)>>))
    \/ /\ Resumes("punctuated") /\ ret.tag = "ok"
       /\ Becomes(<<[Top EXCEPT !.acc = Append(Top.acc, ret.val)]>>)
       /\ UNCHANGED streams
    \/ /\ Resumes("punctuated") /\ ret.tag = "err"
       /\ Returns(Ok(<<"many", Top.acc>>))
       /\ UNCHANGED streams

\* Unordered<T, U>: T U in a transaction, else U T, which is not one.
ParseUnordered ==
    \/ /\ Runs("unordered")
       /\ Dups(<<[Top EXCEPT !.step = 1]>>, ItemsFrame(TupleItems(<<Rule.t, Rule.u>>)))
    \/ /\ Resumes("unordered") /\ Top.step = 1 /\ ret.tag = "err"
       /\ Becomes(<<[Top EXCEPT !.step = 2], ItemsFrame(TupleItems(<<Rule.u, Rule.t>>))>>)
       /\ UNCHANGED streams
    \/ /\ Resumes("unordered") /\ (Top.step = 2 \/ ret.tag = "ok")
       /\ Returns(IF ret.tag = "ok"
                  THEN Ok(<<IF Top.step = 1 THEN "tu" ELSE "ut", ret.val>>)
                  ELSE ret)
       /\ UNCHANGED streams

-----------------------------------------------------------------------------
(* Derived enums.  Step 0 parses the shared prefix, step v tries variant v.*)

VariantsFrame(n, step) ==
    [kind |-> "variants", node |-> n, step |-> step, acc |-> <<>>, errors |-> <<>>]

\* The shared prefix, if any, is parsed once, in an outer transaction.
ParseEnum ==
    /\ Runs("enum")
    /\ \/ /\ SharedFields[Top.node] > 0
          /\ Dups(<<>>, VariantsFrame(Top.node, 0))
       \/ /\ SharedFields[Top.node] = 0
          /\ Becomes(<<VariantsFrame(Top.node, 1)>>)
          /\ UNCHANGED streams

ParsePrefix ==
    /\ Runs("variants") /\ Top.step = 0
    /\ Becomes(<<Top, ItemsFrame(PrefixItems[Top.node])>>)
    /\ UNCHANGED streams

TryVariant ==
    /\ Runs("variants") /\ Top.step \in DOMAIN Rule.variants
    /\ \/ /\ Top.step \in Fallbacks[Top.node]
          /\ Returns(Ok(<<"variant", Top.step, Top.acc>>))
          /\ UNCHANGED streams
       \/ /\ Top.step \notin Fallbacks[Top.node]
          /\ Dups(<<Top>>, ItemsFrame(SuffixItems[Top.node][Top.step]))

NoVariantLeft ==
    /\ Runs("variants") /\ Top.step > Len(Rule.variants)
    /\ Returns(Err(FromAlternatives(Top.errors)))
    /\ UNCHANGED streams

\* Mutant of VariantReturned: a variant that failed is tried again.
VariantReturnedToItself ==
    /\ Resumes("variants")
    /\ UNCHANGED streams
    /\ \/ /\ Top.step = 0 /\ ret.tag = "ok"
          /\ Becomes(<<[Top EXCEPT !.step = 1, !.acc = ret.val[2]]>>)
       \/ /\ Top.step > 0 /\ ret.tag = "ok"
          /\ Returns(Ok(<<"variant", Top.step, Top.acc \o ret.val[2]>>))
       \/ /\ ret.tag = "err"
          /\ Becomes(<<Top>>)

VariantReturned ==
    /\ Resumes("variants")
    /\ UNCHANGED streams
    /\ \/ /\ Top.step = 0 /\ ret.tag = "ok"
          /\ Becomes(<<[Top EXCEPT !.step = 1, !.acc = ret.val[2]]>>)
       \/ /\ Top.step = 0 /\ ret.tag = "err"
          /\ Returns(ret)
       \/ /\ Top.step > 0 /\ ret.tag = "ok"
          /\ Returns(Ok(<<"variant", Top.step, Top.acc \o ret.val[2]>>))
       \/ /\ Top.step > 0 /\ ret.tag = "err"
          /\ Becomes(<<[Top EXCEPT !.step = Top.step + 1,
                                   !.errors = Append(Top.errors, ret.at)]>>)

-----------------------------------------------------------------------------
Finished == frames = <<>>

\* The call has returned.
Terminated == Finished /\ UNCHANGED vars

Step ==
    \/ ParseLeaf \/ ScanDigits \/ ScanSuffix \/ RunSkipSep
    \/ RunItem \/ EnterGroup \/ SepReturned \/ ItemReturned \/ ItemsDone
    \/ CloseDup
    \/ ParseAttempt \/ ParseSpanned \/ ParseOption \/ ParseResult
    \/ ParseMany \/ ParsePunctuated \/ ParseUnordered
    \/ ParseEnum \/ ParsePrefix \/ TryVariant \/ NoVariantLeft \/ VariantReturned

Next == Step \/ Terminated

\* A parse is one thread of sequential code that nothing else holds up: as long
\* as it has a next step it takes it.
Spec == Init /\ [][Next]_vars /\ WF_vars(Step)

-----------------------------------------------------------------------------
(* Properties of the streams of a parse, whatever is parsed. *)

\* The running calls of dup on a stream, as their places on the call stack.
ScopesOn(level) ==
    {i \in DOMAIN frames : frames[i].kind = "dup" /\ frames[i].level = level}

\* Every open checkpoint of a stream belongs to one running dup and they nest:
\* commit and rollback never meet a token out of order (the debug_asserts of
\* tape.rs) and none is left open when the call returns; the token source's
\* joint_saves has a flag for each.
ScopesNest ==
    \A level \in DOMAIN streams :
        LET depth == StreamDepth(streams[level])
        IN  /\ {frames[i].raw : i \in ScopesOn(level)} = 0 .. depth - 1
            /\ \A i, j \in ScopesOn(level) : i < j => frames[i].raw < frames[j].raw
            /\ TokenSource => Len(streams[level].jointSaves) = depth

\* "A failed transaction also cannot reorder atoms" (tape.rs, module doc): what
\* a stream has yet to serve is always a suffix of what it was made from, with
\* nothing doubled and nothing out of order.
SourceInOrder ==
    \A level \in DOMAIN streams :
        IsSuffix(Unread(streams[level]), streams[level].source)

\* When spacing is asked for, is_joint is the spacing in the source in front of
\* the next atom: "it is derived state that must be restored alongside the
\* tape" (proc_macro2.rs, struct Stream).
SpacingAtPosition ==
    TokenSource /\ Runs("skip") =>
        Current.isJoint = JointAt(Current.source, Position(Current))
=============================================================================
