SPECIFICATION FairSpec
CONSTANTS
    Docs = {d1}
    Titles = {x1, x2}
    Contents = {c1, c2}
    TextLayer = {c1}
    Scans = {c1}
    Requests = {r1}
    Workers = {w1}
    MaxQueue = 1
    None = None
INVARIANTS PendingIsOwed VectorIsCurrent
PROPERTIES PendingIsAnswered
CHECK_DEADLOCK FALSE
