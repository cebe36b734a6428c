SPECIFICATION Spec
CONSTANTS
    Item = {s1, s2}
    Capacity = 3
INVARIANTS CountMatches RecvAllNeverWaits
PROPERTIES ImplementsBatchQueue
