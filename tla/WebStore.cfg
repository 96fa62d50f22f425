\* Two clients, every file operation may fail, one crash; fair
\* scheduling.
CONSTANTS
    h1 = h1
    NoHost = NoHost
    Hosts = {h1}
    c1 = c1
    c2 = c2
    NoClient = NoClient
    Clients = {c1, c2}
    Requests <- MCRequests
    Files <- MCFiles
    IOFails = TRUE
    MaxCrashes = 1
SPECIFICATION FairSpec
INVARIANTS
    NoDuplicates
PROPERTIES
    ImplementsUrlList
    Answered
