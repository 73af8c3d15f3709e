\* Liveness, hence no symmetry: two connections of one sender.
SPECIFICATION FairSpec
CONSTANTS
    Senders = {s1}
    Conns = {c1, c2}
    Bodies = {b}
    GoodHash = good
    BadHash = bad
    None = None
    SendQueueMax = 1
    IncomingMax = 1
    MaxMessages = 2
    MaxSends = 1
PROPERTIES
    FailedWriteEndsHandler
    DepartedClientForgotten
    StopForgetsPeers
\* The server may be stopped for good.
CHECK_DEADLOCK FALSE
