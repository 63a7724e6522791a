\* -uf, subscriptions, a revoked token, two Ctrl+C: every way out.
CONSTANTS
    Creators <- One
    NoCreator = NoCreator
    InScope <- Nobody
    UseFollowing = TRUE
    Feed <- Subs
    Revocable = TRUE
    MaxEvents = 1
    MaxQueue = 1
    MaxSigints = 2
SPECIFICATION Spec
INVARIANTS
    ExitCodeTruthful
    
