SPECIFICATION Spec
CONSTANTS
    Docs = {d1, d2}
    ArtifactIds = {a1}
    Hits = {h1}
    LinkHits = {h1}
    Builders = {b1, b2}
    MaxDocs = 2
    Mishaps = {}
    MaxQueue = 1
    None = None
SYMMETRY Symmetry
PROPERTY ExposesPublicOnly
CHECK_DEADLOCK FALSE
