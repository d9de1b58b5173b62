\* A chain of four versions cut in ranges of two steps, two stops and polls
\* that lag by up to one version.
CONSTANTS
    MaxVersion = 3
    Step = 2
    MaxLag = 1
    MaxStops = 2
    NoRange = NoRange
SPECIFICATION FairSpec
INVARIANTS
    TypeOK
    NothingBehindIsMissing
    ResumptionIsSound
PROPERTIES
    ImplementsFeed
    EveryVersionHandled
