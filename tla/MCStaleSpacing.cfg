SPECIFICATION Spec
CONSTANTS
    Atom <- Tokens
    NoAtom = "None"
    TokenSource = TRUE
    Whitespace = {}
    Joint <- Glued
    Content <- Contents
    Rules <- ResultRules
    Jobs <- RootJobs
INVARIANT SpacingAtPosition
