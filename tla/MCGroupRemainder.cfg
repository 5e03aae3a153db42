SPECIFICATION Spec
CONSTANTS
    Atom <- Tokens
    NoAtom = "None"
    TokenSource = TRUE
    Whitespace = {}
    Joint <- Glued
    Content <- Contents
    Rules <- ArgumentRules
    Jobs <- RootJobs
INVARIANT GroupReadToEnd
