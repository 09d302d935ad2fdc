CONSTANTS
    Length <- MCLength
    Matches <- MCUrlMatches
    OpfSpans <- MCNoSpans
    KnerSpans <- MCNoSpans
    Exclusions <- MCUrlExcluded
SPECIFICATION MergeSpec
INVARIANT SwallowedIsMasked
CHECK_DEADLOCK FALSE
