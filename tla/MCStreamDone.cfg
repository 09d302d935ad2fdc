SPECIFICATION MCStreamSpec
CONSTANTS
    N = 7
    Window = 3
    Texts <- MCTexts
    Indices = {0, 1}
    MaxPieces = 3
    MaxContent = 2
    MaxArguments = 2
    CodexChunks <- MCCodexChunks
    OpenAIChunks <- MCOpenAIChunks
INVARIANT DoneIsLast
CHECK_DEADLOCK FALSE
