\* Five versions on one day, three signatures of one of them, two of which the
\* merge takes for duplicates; two rows lost, late or delivered twice, one failure.
CONSTANTS
    Version = {0, 1, 2, 3, 4}
    Day = {0}
    Stamp <- MCStamp
    BlockOf <- MCBlockOf
    Table = {"transactions", "signatures"}
    Expected <- MCExpected
    SignatureKey <- MCSignatureKey
    MaxIrregular = 2
    MaxFailures = 1
SPECIFICATION FairSpec
CHECK_DEADLOCK FALSE
INVARIANTS
    BackfillRequestsTheGaps
PROPERTIES
    GapsClose
    NoRowDisappears
    CleanDayIsComplete
