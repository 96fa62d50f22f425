\* Installing again with another configuration.
CONSTANTS
    k1 = k1
    k2 = k2
    Configs = {k1, k2}
    NoUnit = NoUnit
    Torn = Torn
    MaxRelease = 3
    Failing = {}
SYMMETRY Symmetry
SPECIFICATION DeploySpec
INVARIANTS
    InstallRunsConfig
