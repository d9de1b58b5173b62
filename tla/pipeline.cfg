\* A chain of two versions, one stop of the coordinator, one instance and one
\* fault; two messages are all the coordinator can send within these bounds.
CONSTANTS
    MaxVersion = 1
    Step = 1
    MaxLag = 0
    MaxStops = 1
    NoRange = NoRange
    Worker = {w1}
    MessageId = {1, 2}
    Inbox <- MCInbox
    TableCount = 1
    Undecodable = {}
    MaxFaults = 1
    NoMessage = NoMessage
SPECIFICATION PipelineFairSpec
INVARIANTS
    NoVersionFallsThrough
    ResumptionLosesNothing
PROPERTIES
    EveryVersionIndexed
