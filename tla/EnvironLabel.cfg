CONSTANTS
    maxEnvironVars = 3
    maxEnvironValueLen = 256
    maxEnvironBytes = 600
    Environs <- MCEnvirons
SPECIFICATION Spec
INVARIANTS
    EnvironFits
    FlagMeansOmitted
    OmittedWouldNotFit
