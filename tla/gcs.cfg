\* Two attempts at every ascending batch of up to four records in three half
\* hours, with a failed upload of a part, one of the rest, and a crash.
CONSTANTS
    Attempt = {a1, a2}
    Batches <- MCBatches
    MaxPartFailures = 1
    MaxRestFailures = 1
    MaxCrashes = 1
    NoDirectory = NoDirectory
SPECIFICATION FairSpec
CHECK_DEADLOCK FALSE
INVARIANTS
    OneObjectPerDirectory
    ObjectsAreWhole
    FinishedMeansStored
PROPERTIES
    EventuallyFinished
