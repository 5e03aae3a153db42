SPECIFICATION Spec
CONSTANTS
    Sources <- MCSources
    Built <- MCBuilt
INVARIANTS TakenByOne ResolvedMeansTheSame ReadsBack ShownAsEmitted
CHECK_DEADLOCK FALSE
