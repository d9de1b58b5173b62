\* One instance, a backfilled version and a longer range, no fault but a stream that
\* ends early.
CONSTANTS
    MaxVersion = 2
    Worker = {w1}
    MessageId = {1, 2}
    Inbox <- MCInboxBackfill
    TableCount = 2
    Undecodable = {}
    MaxFaults = 0
    NoMessage = NoMessage
SPECIFICATION ExtractionSpec
INVARIANT AckedMeansExtracted
