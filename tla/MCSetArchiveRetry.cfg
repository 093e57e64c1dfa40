SPECIFICATION FairSpec
CONSTANTS
    Docs = {d1}
    ArtifactIds = {a1}
    Hits = {h1}
    LinkHits = {}
    Builders = {b1}
    MaxDocs = 0
    Mishaps = {"lapse", "loss"}
    MaxQueue = 1
    None = None
INVARIANTS BuildOwed
PROPERTY AbandonedIsTakenUp
CHECK_DEADLOCK FALSE
