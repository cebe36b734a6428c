SPECIFICATION FairSpec
CONSTANTS
    Workers = {w1, w2}
    Segment = {s1, s2, s3}
    Garbage = {g1}
    NoContent = NoContent
    MAX_MESSAGE_QUEUE_COUNT = 2
    ChannelCapacity = 1
    USIZE_MAX = 5
    MaxFaults = 1
    OapForgets = FALSE
    BufferSize = 2
PROPERTIES DeliversAtMostOnceInOrder OutageBlocksNoWorker EventuallyReported
