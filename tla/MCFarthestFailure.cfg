SPECIFICATION Spec
CONSTANTS
    Atom <- Tokens
    NoAtom = "None"
    TokenSource = TRUE
    Whitespace = {}
    Joint <- Glued
    Content <- Contents
    Rules <- AlternativeRules
    Jobs <- AlternativeJobs
INVARIANT FarthestReported
