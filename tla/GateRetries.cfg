CONSTANTS
    s1 = s1
    s2 = s2
    s3 = s3
    Sends = {s1, s3}
    Alternatives = {s3}
    FailureWindow = 3
    DropCooldown = 2
    MaximumDelay = 2
    Delay <- MCDelay
    MaxRuns = 3
    MaxMoves = 2
    Env = {"deadline", "signal", "leave"}
    Socks = {a1}
    Calls = {c1, c2}
    NoSock = NoSock
    NoCall = NoCall
    MaxClock = 1
    MaxConnects = 1
SPECIFICATION MCSpec
INVARIANTS
    
    GateSafe
PROPERTIES
    DeadLinkDropped
    EverySendEnds
