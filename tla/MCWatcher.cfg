\* Two files share a queue of one event.
SPECIFICATION FairSpec
CONSTANTS
    Paths <- TwoPaths
    Debounce = 2
    KernelMax = 1
    MaxVersion = 2
INVARIANTS
    TypeOK
    ChangeNeverForgotten
PROPERTIES
    SettledBeforeEmitted
    FinalVersionReachesDispatch
    CloseWakesReader
\* When no file changes any more nothing is left to do.
CHECK_DEADLOCK FALSE
