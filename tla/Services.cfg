\* Linux: two configurations, every command may fail.  Windows: on a console
\* and under the SCM, up to two requests in flight.
CONSTANTS
    MaxRequests = 2
    k1 = k1
    k2 = k2
    Configs = {k1, k2}
    NoUnit = NoUnit
    Torn = Torn
    MaxRelease = 3
    Failing = {"check", "write", "reload", "enable", "disable", "remove", "unload", "status", "dpkg", "fetch", "restart"}
SPECIFICATION ServicesSpec
INVARIANTS
    InstallTakesHold
    UpdateTakesEffect
    UninstallLeavesNothing
    ErrorReachesExit
    StoppedMeansReturned
    InstalledIntervalRuns
PROPERTIES
    StopEndsProcess
    ListenerFailureEnds
    StoppedServiceIsRemoved
