SPECIFICATION Spec
CONSTANTS
    NoContract = NoContract
    NoCapability = NoCapability
    NoRegion = NoRegion
    Unset = Unset
    NoSpan = NoSpan
    MaxUnits = 100
    MaxScale = 2
    MaxDepth = 3
    MaxExcerpt = 8
    MaxInteger = 9
    MaxNesting = 3
    Asserts <- MCAsserts
    Contracts <- MCContracts
    RawProposals <- MCRawProposals
    MaxAskFaults = 1
    Plans <- MCPlans
    Altered <- MCAltered
    MaxNow = 3
INVARIANTS AdmittedEdgesFit CrossingIsEarned ReproducedMeansIntact  AcceptedIsAsserted OneDigestPerMeaning
CHECK_DEADLOCK FALSE
