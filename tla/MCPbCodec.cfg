\* Round trip and unknown-field skipping of every message of pb.pb.go.
CONSTANTS
    W = 15
    H = 8
    Chunks <- MCChunks
    MaxChunks = 4
    UnknownFields <- MCUnknownFields
SPECIFICATION Spec
INVARIANT DecodedReencodes
INVARIANT UnknownSkipped
CHECK_DEADLOCK FALSE
