\* Files that main does not expect.
SPECIFICATION ServiceSpec
CONSTANTS
    Children = {c1}
    Backoff <- ShortBackoff
    MaxRestarts = 2
    Window = 2
    Grace = 1
    Alongside = FALSE
    MaxTime = 1
    ConfigFiles <- MCConfigFiles
    Environments <- MCEnvironments
    SocketPaths <- MCSocketPaths
INVARIANTS
    BadConfigExits78
CHECK_DEADLOCK FALSE
