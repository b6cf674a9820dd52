CONSTANTS
    Candidates = {m1, m2, m3}
    Flushes = {f1, f2}
    MaxItems = 2
    DecisionItems = 1
    MaxReroutes = 1
    MaxRuns = 2
    MaxCancels = 1
SPECIFICATION FairSpec
INVARIANTS
    BatchSafe
PROPERTIES
    SeenBeforeLeaving
    ConsideredUnlessStopped
CHECK_DEADLOCK FALSE
