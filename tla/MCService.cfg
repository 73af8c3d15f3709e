\* The service with two senders, from the configuration to the exit.
SPECIFICATION FairServiceSpec
CONSTANTS
    Children = {c1, c2}
    Backoff <- ShortBackoff
    MaxRestarts = 2
    Window = 2
    Grace = 2
    Alongside = FALSE
    MaxTime = 1
    ConfigFiles <- MCConfigFiles
    Environments <- MCEnvironments
    SocketPaths <- MCSocketPaths
INVARIANTS
    NothingLeftAlive
    CleanExit
    ExitTellsFailure
PROPERTIES
    UsesSupervisor
    KilledOnlyAfterGrace
    ServiceEnds
\* The service ends.
CHECK_DEADLOCK FALSE
