SPECIFICATION Spec
CONSTANTS
    Docs = {d1}
    ArtifactIds = {a1}
    Hits = {h1}
    LinkHits = {h1}
    Builders = {b1, b2}
    MaxDocs = 1
    Mishaps = {}
    MaxQueue = 1
    None = None
CONSTRAINT LinkMeetsOneBuild
SYMMETRY Symmetry
INVARIANT RecordTellsFile
CHECK_DEADLOCK FALSE
