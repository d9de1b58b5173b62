\* Every range of two transactions, under every selection.  The conversion
\* ends when the range is converted or has failed.
CONSTANTS
    RangeLength = 2
    Transaction <- MCTransaction
    Selection <- MCSelection
SPECIFICATION TransformationSpec
CHECK_DEADLOCK FALSE
INVARIANTS
    TimestampsAreParallel
    TablesAreIndependent
    WellFormedTransactionsConvert
    CountsMatchRows
    DetailsJoinChanges
    SignaturesAreAttributed
    OnlyTwinKeysCollide
