SPECIFICATION Spec
CONSTANTS
    InitialCorpus <- MCCorpus
    WorkerCalls <- MCCalls
    Scenes <- LateScene
    MaxDials = 2
    MaxFaults = 1
INVARIANT OneReplyOwed
