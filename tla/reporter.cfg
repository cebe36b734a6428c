SPECIFICATION FairSpec
CONSTANTS
    Segment = {s1, s2, s3}
    Garbage = {g1}
    NoContent = NoContent
    OapForgets = TRUE
    BufferSize = 2
INVARIANTS TypeOK EveryAcceptedSegmentIsSomewhere CollectedOnceInOrder RegisteredBeforeReport
PROPERTIES ChannelKeepsPromise ForgottenForever EventuallyHanded KeepsReceiving
