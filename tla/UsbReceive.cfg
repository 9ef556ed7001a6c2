SPECIFICATION Spec
CONSTANTS
    MAX_PACKETS = 2
    FrameLen = 2
    QueueLen = 3
    PARSER_CACHE_LEN = 6
    Window = 4
    MaxTotal = 3
    MaxChunks = 2
    MaxRequests = 3
INVARIANTS FramesIntact CleanRequestsWhole PacketsUsedOnce
PROPERTIES IsFrameLine SentRequestsHandled
