\* One day with a block; the block's row may get lost.
CONSTANTS
    Version = {0, 1}
    Day = {0}
    Stamp <- MCStampOneDay
    BlockOf <- MCBlockOfOneDay
    Table = {"transactions", "blocks", "events"}
    Expected <- MCExpectedBlocks
    SignatureKey <- MCNoSignatures
    MaxIrregular = 1
    MaxFailures = 0
SPECIFICATION Spec
CHECK_DEADLOCK FALSE
PROPERTIES
    MissingBlocksAreReported
