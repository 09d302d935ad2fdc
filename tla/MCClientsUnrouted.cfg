CONSTANTS
    i1 = i1
    i2 = i2
    Invocations = {i1, i2}
    Commands = {"v1", "v2", "odd"}
    Owned = {"v1", "v2"}
    Foreign = {"theirs"}
    InstallRequests = {}
    Situations <- MCSituations
    Personal = {"v"}
    Urls <- MCUrls
    Values = {"v"}
    Split = TRUE
    Dispatches = {"main"}
    MaxParts = 3
    N = 4
    Window = 3
    Texts <- MCTexts
    Indices = {0, 1}
    MaxPieces = 1
    MaxContent = 1
    MaxArguments = 1
    CodexChunks <- MCCodexChunks
    OpenAIChunks <- MCOpenAIChunks
SPECIFICATION MCSpec
INVARIANT PromptsMeetTheRoute
CHECK_DEADLOCK FALSE
