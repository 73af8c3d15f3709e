SPECIFICATION Spec
CONSTANTS
    Senders = {1, 4}
    Incoming = {}
    Unlinked = Unlinked
    SendQueueMax = 1
    IncomingMax = 1
    HEARTBEAT_INTERVAL_SECONDS = 1
    MISSED_HEARTBEAT_LIMIT = 1
    MAX_DISPATCH_ATTEMPTS = 2
    TotalBlocks = 3
    BasePort = 9000
    MaxSessions = 2
    MaxFeeds = 1
INVARIANTS
    TypeOK
    OneAssignmentPerSender
    BlocksAccountedFor
    BlocksReachSendersOnce
    TrackedUntilComplete
