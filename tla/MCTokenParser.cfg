SPECIFICATION Spec
CONSTANTS
    Atom <- Tokens
    NoAtom = "None"
    TokenSource = TRUE
    Whitespace = {}
    Joint <- Glued
    Content <- Contents
    Rules <- TokenRules
    Jobs <- TokenJobs
INVARIANTS
    ScopesNest
    SpacingAtPosition
    MeansGrammar
    SpanCoversConsumed
    SpanMeetsConsumed
    EmittedParsesBack
