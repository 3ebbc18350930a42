SPECIFICATION Spec
CONSTANTS
    Ids <- SmallIds
    Roots <- TwoRoots
    Contents <- SmallContents
    MaxDocuments = 3
    MaxUrls = 5
    EmitBatchSize = 2
    HostOffset = 8
INVARIANT LastmodIsUtc
