CONSTANTS
    PageSize = 2
    MaxSent = 5
    MaxDrops = 2
    MaxFaults = 1
    Env = {"live", "partial", "db"}
SPECIFICATION FairBackfill
INVARIANTS
    BackfillSafe

    
CHECK_DEADLOCK FALSE
