SPECIFICATION Spec
CONSTANTS
    FileSizes <- MCFileSizes
    ConfigFiles <- MCConfigFiles
    Rosters <- MCRosters
    Environments <- MCEnvironments
    Paths <- MCPaths
    WatchRoot <- MCWatchRoot
    FloatBits = 4
INVARIANTS
    EveryByteSentOnce
    BlockPlansAreTransmitted
    BlockCountExactInFloats
    FilepathStaysInside
\* A session is planned once; when its shards are transmitted nothing is left to do.
CHECK_DEADLOCK FALSE
