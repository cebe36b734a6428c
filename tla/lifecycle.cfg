SPECIFICATION FairSpec
CONSTANTS
    Workers = {w1, w2}
    Services = {hello_skywalking, shop}
    Tails = {none, heap}
    MaxStarts = 2
INVARIANTS TypeOK SegmentsNameTheirReporter
PROPERTIES ReportersEnd
CHECK_DEADLOCK FALSE
