SPECIFICATION Spec
CONSTANTS
    Workers = {w1, w2, w3}
    Message = {m1}
    NoMessage = NoMessage
    MAX_MESSAGE_QUEUE_COUNT = 2
    ChannelCapacity = 2
    USIZE_MAX = 5
    MaxFaults = 0
INVARIANT EmptyQueueAccepts
CHECK_DEADLOCK FALSE
SYMMETRY Symmetry
