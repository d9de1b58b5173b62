\* Two attempts at a batch of a full chunk and a shorter one, with publishes
\* that report an error and a crash.
CONSTANTS
    RecordCount = 3
    ChunkSize = 2
    Attempt = {a1, a2}
    MaxFailures = 2
    MaxCrashes = 1
SPECIFICATION FairSpec
CHECK_DEADLOCK FALSE
INVARIANTS
    PublisherTypeOK
    ReturnedMeansStored
    DuplicatesHaveAReason
PROPERTIES
    ImplementsPublication
    AttemptsReturn
