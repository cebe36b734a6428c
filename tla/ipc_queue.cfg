SPECIFICATION FairSpec
CONSTANTS
    Workers = {w1, w2, w3, w4}
    Message = {m1}
    NoMessage = NoMessage
    MAX_MESSAGE_QUEUE_COUNT = 2
    ChannelCapacity = 1
    USIZE_MAX = 9
    MaxFaults = 3
INVARIANTS TypeOK CapacityRespected CountCoversOutstanding DriftBounded
PROPERTIES WedgedForever SendReturns
CHECK_DEADLOCK FALSE
