\* One sender, queues of one, and all it may say.
SPECIFICATION FairSpec
CONSTANTS
    Senders = {1}
    Incoming <- MCChatter
    Unlinked = Unlinked
    SendQueueMax = 1
    IncomingMax = 2
    HEARTBEAT_INTERVAL_SECONDS = 1
    MISSED_HEARTBEAT_LIMIT = 2
    MAX_DISPATCH_ATTEMPTS = 2
    TotalBlocks = 3
    BasePort = 9000
    MaxSessions = 3
    MaxFeeds = 2
INVARIANTS
    OneLossPerMessage
PROPERTIES
    OnlyHeardSendersPlanned
    DispatchEnds
