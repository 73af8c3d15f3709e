\* The watched directory is removed, and then the service is stopped.
SPECIFICATION FairSpec
CONSTANTS
    Paths <- OnePath
    Debounce = 1
    KernelMax = 2
    MaxVersion = 1
PROPERTIES
    StopWakesReader
CHECK_DEADLOCK FALSE
