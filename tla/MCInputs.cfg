SPECIFICATION Spec
CONSTANTS
    Bad = Bad
    Streams <- MCStreams
    Questions <- MCQuestions
    Boundaries <- MCBoundaries
    Numbers <- MCNumbers
    ValueLimit = 5
    UdpMaximum = 3
    MaxPayload = 2
    MaxEntries = 3
    Second = 4
INVARIANT StreamDecodedAsWhole
INVARIANT RoutesStayApart
INVARIANT PolicyChecksAgree
INVARIANT CompiledConfigClosed
INVARIANT WayBackIsOpen
INVARIANT ErrorsComeHome
INVARIANT AnswersComplete
INVARIANT RateHolds
CHECK_DEADLOCK FALSE
