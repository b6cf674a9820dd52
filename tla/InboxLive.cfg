CONSTANTS
    m1 = m1
    m2 = m2
    m3 = m3
    w1 = w1
    w2 = w2
    group = group
    friend = friend
    NoMessage = NoMessage
    Messages = {m1, m2}
    SessionOf <- MCPrivate
    Limit <- MCLimitOne
    EventTime <- MCEventTime
    Urgent = {m1, m2}
    Chatter = {}
    Wanted = {}
    Gated = {}
    Priorities = {0}
    Workers = {w1}
    MaxRuns = 2
    LeaseDuration = 1
    ReplayWindow = 1
    RetryDelay <- MCRetryDelay
    MaxDelay = 1
    MaxAttempts = 1
    MaxDbFaults = 1
    Faults = {"crash"}
SPECIFICATION FairSpec
PROPERTIES
    EveryMessageSettles
    Implements
