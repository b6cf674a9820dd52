CONSTANTS
    b1 = b1
    r1 = r1
    r2 = r2
    Browsers = {b1}
    Requests = {r1, r2}
    MaxSessions = 2
    MaxSecrets = 3
    SessionTTL = 1
    AccessTTL = 1
    MaxFailures = 1
    LoginWindow = 1
    LoginBlock = 1
    MaxTime = 1
    MaxFaults = 1
    MaxRestarts = 1
    MaxCommit = 3
    MaxKills = 2
SPECIFICATION MCSpec
INVARIANTS
    SessionsSafe
    BrowsersKeepUp
    
    
SYMMETRY ConsoleSymmetry
