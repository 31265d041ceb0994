\* Unmarshal of a length close to the largest int: postIndex wraps negative.
CONSTANTS
    W = 15
    H = 8
    Chunks <- MCChunks
    MaxChunks = 4
    UnknownFields <- MCUnknownFields
SPECIFICATION Spec
INVARIANT NoPanic
CHECK_DEADLOCK FALSE
