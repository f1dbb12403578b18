SPECIFICATION MemSpec
CONSTANTS
    Batches <- MCBatches
    Tokens <- MCTokens
    Ids = {"x"}
    Members0 <- MCMembers0
    Accounts0 <- MCAccounts0
    Default = "default"
    MaxFaults = 1
    MemoryBatches <- MCMemoryBatches
    SafeIdPart <- MCSafe
    ClaimLimit = 500
    CanonicalLimit = 100
INVARIANTS StepsStayInProject   RunsVouchForTheirMemory
PROPERTY RecordsKeepTheirProject
CHECK_DEADLOCK FALSE
