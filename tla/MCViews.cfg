SPECIFICATION ViewsSpec
CONSTANTS
    ma = ma
    mb = mb
    mc = mc
    md = md
    open = open
    void = void
    Topics = {"set", "threads", "panes", "setup", "match", "list", "drafts", "ranges", "parts"}
    MaxNumber = 4
    MaxPieces = 2
    MessageIds <- Ids
    NoId = NoId
    MaxReferences = 2
    MaxDepth = 2
    ThreadInputs <- MCThreadInputs
    Headers <- MCHeaders
    Chunks <- MCChunks
    GroupLists <- MCGroupLists
    EmptyGroups = {void}
    FilterReach <- MCFilterReach
    MaxFilter = 2
    BodyLines <- MCBodyLines
    OverlayLines <- MCOverlayLines
    ListHeight = 3
    BodyHeight = 2
    OverlayHeight = 2
    MarkOnOpen = TRUE
    Keyboards <- MCKeyboards
    MaxReplies = 6
    MaxLoads = 1
    Invocations <- MCInvocations
    Files <- MCFiles
    MaxDials = 2
    Characters = {"*", "?", "x", "y"}
    Trials <- MCTrials
    Subscriptions <- MCSubscriptions
    Catalogue <- MCCatalogue
    MaxLen = 5
    Words = {"From:", "Newsgroups:", "Subject:", "Path:", "x", " ", "."}
    Drafts <- MCDrafts
    Top = 5
    Messages <- MCMessages
    MaxNesting = 2
    MaxParts = 3
INVARIANTS
    RangesNormal
    Forest
    ThreadsWhole
    PanesTypeOK
    RowsAccounted
    CredentialsStayHome
    PatternsAsMeant
    TypedIsShown
    ChunksCover
    PartsAccounted
PROPERTIES
    ImplementsSet
    PlaceKept
CHECK_DEADLOCK FALSE
