CONSTANTS
    Flushers <- OneFlusher
    MaxLines = 1
    LogLimit = 2
SPECIFICATION FairSpec
INVARIANTS
    DoneOnce
    OneTerminal
    QuietWhenOver
    LinesOnce
PROPERTY
    JobWindsUp
CHECK_DEADLOCK FALSE
