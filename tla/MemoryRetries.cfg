CONSTANTS
    Jobs = {j1, j2}
    Workers = {w1, w2}
    Contents = {a, b}
    NoJob = NoJob
    MaxRuns = 3
    MaxFailures = 1
    MaxFaults = 1
SPECIFICATION FairSpec
INVARIANTS
    MemorySafe
PROPERTIES
    EveryJobEnds
