\* Two threads are enough for one to exit between open and read.
SPECIFICATION Spec
CONSTANTS
    Threads = {t1, t2}
    Leader = t1
    MaxIO = 1
    MaxWalks = 1
    None = None
INVARIANT ExitIsTolerated
CHECK_DEADLOCK FALSE
