\* Two hours, three objects that come when they like and one of which may hold a
\* displaced row, one retry of a task (the DAG has two), a lost contact and a rerun.
CONSTANTS
    Hour = {1, 2}
    Row = {1, 2, 3}
    HourOf <- MCHourOf
    ObjectName = {"a", "b", "c"}
    DirectoryOf <- MCDirectoryOf
    Uploads <- MCUploads
    MaxTries = 2
    MaxFailures = 2
    MaxLost = 1
    MaxReruns = 1
SPECIFICATION FairSpec
CHECK_DEADLOCK FALSE
INVARIANTS
    LoaderTypeOK
    FinalIsOneLoad
    DoneIsCopied
PROPERTIES
    CopiedHoursStay
    HoursSettle
