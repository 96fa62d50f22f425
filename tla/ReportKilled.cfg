\* A Prometheus that does not answer, or answers slowly.
CONSTANTS
    Lines = {}
    MaxLines = 0
    MaxInt64 = 9
    TopFrames = 2
    Labels = {"core.zip"}
    None = None
    HttpTimeout = 60
    RetryBackoff = 1
    Latencies = {0, 40, 60}
    FetchTimeout = 120
    Nodes = {"n1", "n2"}
    All = "all"
    Now = 1000
    ReportTimeout = 180
    Submissions <- MCSubmissions
    Commands = {}
SPECIFICATION PageSpec
INVARIANT ErrorTextIsShown
