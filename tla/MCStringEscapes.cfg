SPECIFICATION Spec
CONSTANTS
    Sources <- MCSources
    Built <- MCBuilt
INVARIANTS EmittedMeansTheSame
CHECK_DEADLOCK FALSE
