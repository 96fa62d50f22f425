\* A pid that is reused at any time, and reads that may all fail.
CONSTANTS
    p1 = p1
    NoPid = NoPid
    Pids = {p1}
    Retention = 2
    MaxTime = 3
    Fallible = {"Pids", "NewProcess", "Name", "CreateTime", "Cmdline", "Percent",
                "Times", "MemoryInfo", "IOCounters", "SelfIO", "Environ", "PodUID"}
SPECIFICATION Spec
INVARIANTS
    TypeOK
    ExportedIsNewest
    LiveNeverInactive
    StaleActiveIsSuperseded
    WithinRetention
    ForeignAtMostOnce
    OwnBaseline
PROPERTIES
    HistoryIsAppendOnly
    ImplementsActiveSeries
