\* Two overlapping scrapes, three jobs in two pods, two of one label.
CONSTANTS
    g1 = g1
    g2 = g2
    long1 = long1
    long2 = long2
    short = short
    cut = cut
    u1 = u1
    u2 = u2
    NoJob = NoJob
    NoUID = NoUID
    Gathers = {g1, g2}
    ActiveSets <- MCActiveSets
    Answers <- MCAnswers
    Label <- MCLabel
    IsCut <- MCIsCut
SYMMETRY Symmetry
SPECIFICATION Spec
INVARIANTS
    NoDuplicateSeries
    KnownJobsExported
    RequestsOfOwnPod
    CutsAreCounted
