SPECIFICATION Spec
CONSTANTS
    Conns = {1}
    Requests <- MCRequests
    MaxRequests = 2
    MaxPieces = 2
    Ports = {1, 2}
    Taken <- MCTaken
    MaxSignals = 1
INVARIANT
    AnsweredAsSent
PROPERTIES
    PostsReachClients
    CaughtByCutLineEnds
    RequestEnds
    FinishIsHeeded
CHECK_DEADLOCK FALSE
