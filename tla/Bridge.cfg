SPECIFICATION MCFairSpec
CONSTANTS
    SENTINEL = SENTINEL
    NoItem = NoItem
    Kind = {"input"}
    MaxOutput = 3
    MaxChat = 2
    MaxIncoming = 1
INVARIANTS
    TypeOK RelayHasPrefix StopFlushesOutput
PROPERTIES
    ImplementsStream StopEndsThread OutputArrives ChatArrives
