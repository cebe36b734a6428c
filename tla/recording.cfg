SPECIFICATION Spec
CONSTANTS
    k1 = k1
    k2 = k2
    v = v
    q = q
    option = option
    IntBits = 4
    CurlResponse = TRUE
    MaxSpans = 2
    TraceIds <- MCTraceIds
    OwnId <- MCOwnId
    Headers <- MCHeaders
    Calls <- MCCalls
    Uris <- MCUris
    Urls <- MCUrls
    Responses <- MCResponses
    Services <- MCServices
    Garbage <- MCGarbage
    Dirty <- MCDirty
INVARIANTS TypeOK TraceContinues CommandIsTold CleanSegmentsAreRead
CHECK_DEADLOCK FALSE
