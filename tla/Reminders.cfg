CONSTANTS
    i1 = i1
    i2 = i2
    q1 = q1
    j1 = j1
    j2 = j2
    NoItem = NoItem
    Items = {i1, i2, q1}
    Query = {q1}
    Jobs = {j1, j2}
    Interval = 2
    Retry <- MCRetry
    MaxWait = 2
    MaxFailures = 1
    MaxEdits = 1
    MaxSends = 2
    MaxRuns = 2
    Limit = 1
    Faults = {"send"}
SPECIFICATION Spec
INVARIANTS
    RemindersSafe

    
SYMMETRY ReminderSymmetry
