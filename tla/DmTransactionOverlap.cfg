SPECIFICATION Spec
CONSTANTS
    p = p
    c = c
    q = q
    dm = dm
    java = java
    Instances = {p, q}
    None = None
    Parent <- FlatParent
    Values = {2}
    Default = 1
    Threads = {dm, java}
    KindsOf <- KindsByThread
    Overlap = TRUE
    BeginMayFail = FALSE
    CommitMayFail = FALSE
    WriteFaults = {}
    MaxOps = 2
INVARIANT NotifiedWhenComplete
CHECK_DEADLOCK FALSE
