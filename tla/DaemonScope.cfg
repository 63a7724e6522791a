\* -u alice, bob out of scope: the queue and every safety property.
CONSTANTS
    Creators <- Two
    NoCreator = NoCreator
    InScope <- One
    UseFollowing = FALSE
    Feed <- JustDm
    Revocable = FALSE
    MaxEvents = 1
    MaxQueue = 2
    MaxSigints = 1
SPECIFICATION Spec
INVARIANTS
    TypeOK
    NoOrphans
    AcceptedWorkFinished
PROPERTIES
    ImplementsWorkQueue
