\* Two connections with several messages each way: reconnects whose clean-ups
\* run in any order, full queues, writes in flight, and the refinement of IpcPort.
SPECIFICATION Spec
CONSTANTS
    Senders = {s1, s2}
    Conns = {c1, c2}
    Bodies = {b}
    GoodHash = good
    BadHash = bad
    None = None
    SendQueueMax = 1
    IncomingMax = 1
    MaxMessages = 2
    MaxSends = 2
INVARIANTS
    TypeOK
    RegisteredPeerIsServed
    NewestConnectionRegistered
    AcceptedInOrder
    OnlyGreetedSendersHeard
PROPERTIES
    Implements
\* The server may be stopped for good.
CHECK_DEADLOCK FALSE
SYMMETRY Symmetry
