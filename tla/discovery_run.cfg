SPECIFICATION JobSpec
CONSTANTS
    Sources <- TwoSources
    Pages <- TwoLists
    Paged <- TheApi
    MaxPages = 2
    QueueMax = 2
    BatchSize = 2
    Stop = Stop
    Environments <- SomeEnvironments
    MaxBacklog = 2
INVARIANT JobTypeOK
INVARIANT Conserved
INVARIANT SuccessIsComplete
INVARIANT ExitTells
INVARIANT RowTells
PROPERTY OneBatchUnpublished
PROPERTY KeepsPromise
PROPERTY RunEnds
