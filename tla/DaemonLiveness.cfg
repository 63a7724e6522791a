\* -uf under fair scheduling: what must eventually happen.
CONSTANTS
    Creators <- One
    NoCreator = NoCreator
    InScope <- Nobody
    UseFollowing = TRUE
    Feed <- Nobody
    Revocable = FALSE
    MaxEvents = 0
    MaxQueue = 1
    MaxSigints = 1
SPECIFICATION FairSpec
PROPERTIES
    Ends
    WorkServed
    Unhides
