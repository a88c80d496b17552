SPECIFICATION FairTimerSpec
CONSTANTS
    m = m  u = u  e1 = e1  e2 = e2
    Main = m  None = None
    User <- MainAndOther
    Adder <- OnlyMain
    Entry <- TwoEntries
    MaxIdx = 2
    MaxAborts = 1
    CallbackInsists = FALSE
INVARIANTS RemovedIsQuiet TimerInv
PROPERTIES CalledBeforeAbort FreeCompletes
CHECK_DEADLOCK FALSE
