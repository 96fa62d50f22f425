\* Logs of up to three lines; attempts that answer at once, after 20 seconds or
\* not at all.
CONSTANTS
    Lines <- MCLines
    MaxLines = 3
    MaxInt64 = 9
    TopFrames = 2
    Labels = {"core.zip"}
    None = None
    HttpTimeout = 60
    RetryBackoff = 1
    Latencies = {0, 40, 60}
    FetchTimeout = 120
    Nodes = {"n1", "n2"}
    All = "all"
    Now = 1000
    ReportTimeout = 180
    Submissions <- MCSubmissions
    Commands <- MCCommands
SPECIFICATION PageSpec
INVARIANTS
    WindowIsHull
    PhasesPaired
    FramesAreLowest
    ExitZeroIsComplete
    FleetTablesAreFlagged
    AcceptedWindowIsQueried
    FailureIsExplained
