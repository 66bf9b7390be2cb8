SPECIFICATION FairSpec
CONSTANTS
    InitialCorpus <- MCCorpus
    WorkerCalls <- MCCalls
    Scenes <- EveryScene
    MaxDials = 2
    MaxFaults = 1
INVARIANTS
    TypeOK
    InStep
    BeliefsAgree
    NoPlainCredentials
    ClearForgotten
    PostsAccounted
PROPERTY CallsEnd
