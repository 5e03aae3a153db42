CONSTANTS
    Defs <- MCDefs
    Chain <- MCChain
    Trees <- MCTrees
    Visitors <- MCVisitors
    Sides = {TRUE, FALSE}
    NewNode <- MCNewNode
    MaxEdits = 1
SPECIFICATION Spec
INVARIANTS
    WalkOffersAll
    WalkFits
    ClosuresShareTheWalk
PROPERTY WalkReturns
