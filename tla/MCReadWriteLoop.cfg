\* A peer sending two requests, CloseRead, CloseWrite, a read error and a
\* frame that does not decode; one server push; one non-net write error.
CONSTANTS
    MaxRequests = 2
    MaxPushes = 1
    Ctrls = {"CloseRead", "CloseWrite"}
    MaxWriteErrors = 1
    DecodeErrors = TRUE
SPECIFICATION Spec
INVARIANT TypeOK
PROPERTIES ExitReleases ReplyDelivered WriteHalfEnds
\* Both goroutines end once the connection is closed.
CHECK_DEADLOCK FALSE
