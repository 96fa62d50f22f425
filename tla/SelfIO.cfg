\* Three threads, two walks: a thread can exit, and another start, at any
\* point of a walk and between two of them.
SPECIFICATION Spec
CONSTANTS
    Threads = {t1, t2, t3}
    Leader = t1
    MaxIO = 2
    MaxWalks = 2
    None = None
INVARIANTS
    SumIsBracketed
    NoLiveTaskMeansGone
\* A process that is gone is not scraped again.
CHECK_DEADLOCK FALSE
