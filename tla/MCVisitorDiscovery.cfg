SPECIFICATION Spec
CONSTANTS
    Paths <- MCPaths
    Key <- MCKey
    HeadOf <- LastIdent
    Followed <- MCFollowed
    Requests <- MCRequests
    Defs <- MCDefs
INVARIANTS TypeOK FetchedOnce Closed
PROPERTIES Generates ImplementsTypeClosure
