SPECIFICATION Spec
CONSTANTS
    Atom <- Chars
    NoAtom = "None"
    TokenSource = FALSE
    Whitespace = {" "}
    Joint = {}
    Content <- NoGroups
    Rules <- TextRules
    Jobs <- TextJobs
INVARIANTS
    SourceInOrder
    MeansGrammar
    SpanCoversConsumed
    SpanMeetsConsumed
PROPERTIES
    CallReturns
