CONSTANTS
    m1 = m1
    m2 = m2
    m3 = m3
    w1 = w1
    w2 = w2
    group = group
    friend = friend
    NoMessage = NoMessage
    Messages = {m1}
    SessionOf <- MCGroup
    Limit <- MCLimit
    EventTime <- MCEventTime
    Urgent = {}
    Chatter = {m1}
    Wanted = {m1}
    Gated = {m1}
    Priorities = {0, 1}
    Workers = {w1, w2}
    MaxRuns = 2
    LeaseDuration = 1
    ReplayWindow = 1
    RetryDelay <- MCRetryDelay
    MaxDelay = 2
    MaxAttempts = 2
    MaxDbFaults = 1
    Faults = {"crash", "ack_lost", "send", "llm"}
    v1 = v1
    v2 = v2
    Videos = {v1, v2}
    MaxParts = 2
    InboxAttempts = 2
    MaxFaults = 3
    LastSecond = 3
    Regretted = {1}
    Window = 2
    Threshold = 2
    CacheSize = 1
    MaxLapses = 1
    MaxReloads = 1
    Overhead = 8
    Markup = 2
    Minimum = 16
    Reserve = 40
    Conversations <- MCConversations
    Limits = {20, 41, 60, 80, 100, 140, 200, 300}
    Output = 10
    Chunks <- MCChunks
    Timeout = 2
    u1 = u1
    u2 = u2
    Urls = {u1, u2}
    Refused = {u2}
    Stability = 1
    NetworkIdle = 1
    Budget = 2
    LoadingStable = 4
    PageTimeout = 3
    Hardest = 4
    MaxChanges = 2
    x1 = x1
    x2 = x2
    Servers <- MCServers
    RequiredServers = {x2}
    Capacity = 2
    MaxAsked = 4
    MaxUnasked = 1
    Mails <- MCMails
    MaxBackups = 2
    MaxMedia = 2
    Settings <- MCSettings
    Defaults <- MCDefaults
    HasKeys = TRUE
    SearchTime = 6
    OwnTime = 2
    LeastTime = 1
    MostTime = 4
    CloseTime = 1
    MaxSaves = 1
    GroupLogs <- MCLogs
    Talk = "talk"
    Unreadable = {"picture"}
    Parcels <- MCParcels
    PageSize = 2
    MaxPages = 3
    MaxCrashes = 1
    MaxRefusals = 1
SPECIFICATION PathSpec
INVARIANTS
    
    DeliverySafe
    DisclosuresGo
    HistorySafe
    ClientSafe
    
    
    ResolverSafe
    
    FileIsFound
PROPERTIES
    ContextHoldsMessage
    StreamIsNotCut
SYMMETRY WorkerSymmetry
