\* Two gateways, two crashes, MayOnline clock skew and failure replies.
CONSTANTS
    g1 = g1
    g2 = g2
    M = M
    A = A
    B = B
    C = C
    None = None
    Gateways <- MCGateways
    Nodes <- MCNodes
    NodeOrder <- MCNodeOrder
    IDC <- MCIDC
    InitMaster = M
    MaxCrashes = 2
    ClockSkew = TRUE
    FailReply = TRUE
SPECIFICATION Spec
PROPERTY FailoverEnds
\* The watch goroutines idle once every node event is handled.
CHECK_DEADLOCK FALSE
