CONSTANTS
    i1 = i1
    i2 = i2
    Invocations = {i1, i2}
    Commands = {"v1", "v2", "odd"}
    Owned = {"v1", "v2"}
    Foreign = {"theirs"}
    InstallRequests <- MCRequests
    Situations <- MCSituations
    Personal = {"v"}
    Urls <- MCUrls
    Values = {"v"}
    Split = TRUE
    Dispatches = {"main"}
    MaxParts = 3
    N = 7
    Window = 3
    Texts <- MCTexts
    Indices = {0, 1}
    MaxPieces = 3
    MaxContent = 2
    MaxArguments = 2
    CodexChunks <- MCCodexChunks
    OpenAIChunks <- MCOpenAIChunks
SPECIFICATION MCSpec
INVARIANT InstallInv
INVARIANT SettingsSurvive
INVARIANT RivalsAreNamed
INVARIANT GatesAreClosed
PROPERTY StoreKeepsItsParts
INVARIANT NoTokenIsCut
INVARIANT HeldIsBounded
INVARIANT AnswerIsWhole
CHECK_DEADLOCK FALSE
