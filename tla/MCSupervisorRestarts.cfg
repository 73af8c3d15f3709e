\* One child, long enough for several windows; shutdown in both ways.
SPECIFICATION FairSpec
CONSTANTS
    Children = {c1}
    Backoff <- ShortBackoff
    MaxRestarts = 3
    Window = 5
    Grace = 1
    Alongside = TRUE
    MaxTime = 11
INVARIANTS
    TypeOK
    SpawnRateBounded
    OnlyCrashLoopDegrades
PROPERTIES
    NoSpawnAfterStop
    BackoffInterrupted
    ShutdownCompletes
\* The clock stops at its bound, and a degraded child is left alone.
CHECK_DEADLOCK FALSE
