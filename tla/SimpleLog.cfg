CONSTANTS
    Threads = {t1, t2}
    MaxLines = 3
SPECIFICATION Spec
INVARIANTS
    TypeOK
    LinesKept
    FileNotTakenFromWriter
    ShutdownDrains
PROPERTIES
    EveryLineIsWritten
    EveryLineIsFlushed
    ShutdownReturns
CHECK_DEADLOCK FALSE
