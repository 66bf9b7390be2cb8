SPECIFICATION FairSpec
CONSTANTS
    Clients = {c1, c2}
    Config <- DefaultConfig
    InitialCorpus <- MCCorpus
    Commands <- MCCommands
    Articles <- MCArticles
    MaxCommands = 2
INVARIANTS
    PostboxAgrees
    JoinedAll
PROPERTIES
    FiledStays
    ShutdownEnds
    PostsAnswered
