SPECIFICATION Spec
CONSTANTS
    Bad = Bad
    Streams <- MCStreams
    Questions <- RouteQuestions
    Boundaries <- MCBoundaries
    Numbers <- MCNumbers
    ValueLimit = 5
    UdpMaximum = 3
    MaxPayload = 2
    MaxEntries = 3
    Second = 4
CHECK_DEADLOCK FALSE
INVARIANT ScopeBoundsAdvertisement
