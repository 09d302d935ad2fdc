CONSTANTS
    r1 = r1
    r2 = r2
    a = a
    b = b
    v1 = v1
    v2 = v2
    s1 = s1
    s2 = s2
    s3 = s3
    Requests = {r1, r2}
    Sessions = {a, b}
    Values = {v1, v2}
    Bodies <- MCBodies
    MaxRemovers = 2
    MaxChunks = 5
    Signatures = {s1, s2, s3}
    Thinking <- MCThinking
    Size <- MCSize
    MaxEntries = 2
    MaxBytes = 4
    Contents <- MCContents
    Shown <- MCShown
    Empty <- MCEmpty
    PII = {v1}
    Note = Note
    Redactor = "works"
    MaxItems = 4
    MaxAsks = 3
SPECIFICATION MCSpec
INVARIANT ServerInv
INVARIANT WireIsSigned
INVARIANT ConversationInv
PROPERTY AnswerIsComplete
PROPERTY RequestIsAnswered
PROPERTY StreamEndsWell
PROPERTY LastUsedAreKept
CHECK_DEADLOCK FALSE
