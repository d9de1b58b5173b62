\* One attempt whose first upload of a part fails once.
CONSTANTS
    Attempt = {a1}
    Batches <- MCBatches
    MaxPartFailures = 1
    MaxRestFailures = 0
    MaxCrashes = 0
    NoDirectory = NoDirectory
SPECIFICATION Spec
CHECK_DEADLOCK FALSE
INVARIANT RecordsInTheirDirectory
