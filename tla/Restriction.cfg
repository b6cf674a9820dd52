CONSTANTS
    s1 = s1
    s2 = s2
    j1 = j1
    j2 = j2
    p1 = p1
    Sessions = {s1, s2}
    Duration = 1
    Window = 1
    Refusals = 2
    Loops = 2
    MaxMessages = 3
    MaxTime = 2
    MaxRetries = 1
    MaxFaults = 1
    MaxRestarts = 1
    MaxReleases = 1
    Plugins = {p1}
    Changes = {j1, j2}
    MaxProfiles = 2
    MaxChanges = 3
    MaxUnwritten = 1
    MaxReloads = 1
SPECIFICATION MCSpec
INVARIANTS
    NothingSentToRestricted
    
    ConsoleSafe
SYMMETRY OwnerSymmetry
CHECK_DEADLOCK FALSE
