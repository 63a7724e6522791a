\* The exit promised when the ErrorBudget trips.
CONSTANTS
    Creators <- One
    NoCreator = NoCreator
    InScope <- Nobody
    UseFollowing = FALSE
    Feed <- JustDm
    Revocable = TRUE
    MaxEvents = 1
    MaxQueue = 1
    MaxSigints = 0
SPECIFICATION Spec
INVARIANTS
    UnrecoverableExit
