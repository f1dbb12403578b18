SPECIFICATION Spec
CONSTANTS
    NoContract = NoContract
    NoCapability = NoCapability
    NoRegion = NoRegion
    Unset = Unset
    NoSpan = NoSpan
    MaxUnits = 100
    MaxScale = 2
    MaxDepth = 3
    MaxExcerpt = 8
    MaxInteger = 9
    MaxNesting = 3
    Asserts <- MCAsserts
    Contracts <- MCContracts
    RawProposals <- MCRawProposals
    MaxAskFaults = 0
    Plans <- MCWrapped
    Altered <- MCAltered
    MaxNow = 0
INVARIANT AcceptedIsAsserted
CHECK_DEADLOCK FALSE
