SPECIFICATION Spec
CONSTANTS
    NoContract = NoContract
    NoCapability = NoCapability
    NoRegion = NoRegion
    Unset = Unset
    NoSpan = NoSpan
    MaxUnits = 100
    MaxScale = 2
    MaxDepth = 3
    MaxExcerpt = 8
    MaxInteger = 9
    MaxNesting = 3
    Asserts <- MCAsserts
    Contracts <- MCContracts
    RawProposals <- MCRawProposals
    MaxAskFaults = 0
    Plans <- MCUndeclared
    Altered <- MCAltered
    MaxNow = 0
INVARIANT AdmittedCyclesAreDeclared
CHECK_DEADLOCK FALSE
