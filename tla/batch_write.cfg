SPECIFICATION Spec
CONSTANTS
    Jobs = {"one", "two"}
    Pages = {"p", "q"}
    Sources = {"api", "map"}
    Batches <- SmallBatches
    MaxBatches = 2
    Times = {1, 2}
INVARIANT BatchTypeOK
INVARIANT TablesAgree
INVARIANT RowsTellHistory
PROPERTY NoSilentPending
