\* Only create times may be unreadable.
CONSTANTS
    p1 = p1
    NoPid = NoPid
    Pids = {p1}
    Retention = 2
    MaxTime = 3
    Fallible = {"CreateTime"}
SPECIFICATION Spec
INVARIANTS
    NewcomerInheritsNothing
