CONSTANTS
    Modules <- MCModules
    Arguments <- MCArguments
SPECIFICATION Spec
INVARIANTS
    ImplementedOnce
    ContractedAgrees
    CyclesBroken
    NamesBoundOnce
    AstUnaffected
CHECK_DEADLOCK FALSE
