CONSTANTS
    i1 = i1
    i2 = i2
    q1 = q1
    j1 = j1
    j2 = j2
    NoItem = NoItem
    Items = {i1, q1}
    Query = {q1}
    Jobs = {j1}
    Interval = 2
    MaxWait = 2
    Retry <- MCRetry
    MaxFailures = 2
    MaxEdits = 0
    MaxSends = 0
    MaxRuns = 2
    Limit = 1
    Faults = {"crash", "ack_lost", "save", "send", "llm"}
SPECIFICATION FairSpec
PROPERTIES
    EveryItemRuns
