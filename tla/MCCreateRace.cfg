SPECIFICATION MemSpec
CONSTANTS
    Batches <- MCCreateRace
    Tokens <- MCTokens
    Ids = {"x", "y"}
    Members0 <- MCMembers0
    Accounts0 <- MCAccounts0
    Default = "default"
    MaxFaults = 0
    MemoryBatches <- MCNoBatches
    SafeIdPart <- MCSafe
    ClaimLimit = 500
    CanonicalLimit = 100
PROPERTIES CreatedRunsKept
CHECK_DEADLOCK FALSE
