\* Two instances and two neighbouring ranges that share a version; the second
\* holds a transaction that never becomes a record.  One fault.  No symmetry:
\* some of the properties are temporal.
CONSTANTS
    MaxVersion = 2
    Worker = {w1, w2}
    MessageId = {1, 2}
    Inbox <- MCInbox
    TableCount = 2
    Undecodable = {2}
    MaxFaults = 1
    NoMessage = NoMessage
SPECIFICATION ExtractionFairSpec
INVARIANTS
    ExtractionTypeOK
    AckedIsComplete
    FailedRangePublishesNothing
    TablesFillInOrder
PROPERTIES
    HealthyRangesSettle
    SignalledWorkerStops
    ImplementsDelivery
