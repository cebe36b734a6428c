SPECIFICATION Spec
CONSTANTS
    NoSegment = NoSegment
    SpanTotal = 2
    MaxRequests = 3
    MaxCalls = 3
INVARIANTS TypeOK SentOncePerRequest SpansAreNumbered KeyZeroIsCurrent EntryFailsOnlyWhenSwitched
CHECK_DEADLOCK FALSE
