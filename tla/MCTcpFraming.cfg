SPECIFICATION FairSpec
CONSTANTS
    Lens = {1, 3, 4}
    ReplyLens = {2}
    MaxMessages = 2
    MaxMessageSize = 3
    InitialBufSize = 4
    SocketBuffer = 6
INVARIANTS
    FramesExact
PROPERTIES
    FramesDelivered
CHECK_DEADLOCK FALSE
