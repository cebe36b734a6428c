SPECIFICATION Spec
CONSTANTS
    Coroutines = {c1, c2}
    Fds = {1, 2}
    Calls <- MCCalls
    host = "host"
    proxy = "proxy"
    MaxRequests = 2
    MaxCalls = 2
CHECK_DEADLOCK FALSE
INVARIANTS CallsAreTransparent UnsampledAreSilent SpansLeadToTheServer
PROPERTIES SentSpansAreComplete
