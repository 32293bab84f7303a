SPECIFICATION Spec
CONSTANTS
    p = p
    c = c
    q = q
    dm = dm
    java = java
    Instances = {p, c, q}
    None = None
    Parent <- NestedParent
    Values = {2}
    Default = 1
    Threads = {dm}
    KindsOf <- AllKinds
    Overlap = FALSE
    BeginMayFail = FALSE
    CommitMayFail = TRUE
    WriteFaults = {"Set", "Add", "Delete", "Operate", "Complete", "JniAdd"}
    MaxOps = 4
INVARIANTS TypeOK InstancesMatchDb NotifiedIsTrue AssertionsHold
PROPERTY FailureChangesNothing
