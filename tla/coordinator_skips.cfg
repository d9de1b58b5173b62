\* No stops and no lag: the chain alone decides what is polled.
CONSTANTS
    MaxVersion = 3
    Step = 2
    MaxLag = 0
    MaxStops = 0
    NoRange = NoRange
SPECIFICATION Spec
INVARIANT PreviousEndIsIndexed
