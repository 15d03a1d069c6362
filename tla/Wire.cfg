CONSTANTS
    BasicCount = 2
    FieldLists <- MCFieldLists
    Trailers = {28, 44, 12}
    MaxSizes = {3, 11, 12, 64}
    Ideal = TRUE
    Base = 2
    PrefixLen = 2
    TgtCap = 3
    Streams <- MCStreams
    Mins = {1, 2}
    MaxStarts = 2
    Invites <- MCInvites
    Locals <- MCLocals
    MaxSizeI = 12
    MaxSizeR = 64
SPECIFICATION MCSpec
CHECK_DEADLOCK FALSE
INVARIANTS ReadsWhatWasSent MatchesProtocol Transparent
           Agreement InitiatorIsLast
PROPERTIES AllArrives BothEnd
