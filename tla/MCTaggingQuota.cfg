SPECIFICATION MCSpec
CONSTANTS
    Docs <- MCDocs
    Tags = {t1, t2}
    Users = {u1}
    Owned <- MCOwned
    Writable <- MCWritable
    Archives <- MCArchives
    Trees <- MCTrees
    Extracted <- MCExtract
    Uploads <- MCUploads
    Size <- MCSize
    Ext <- MCExt
    Master = {"pdf", "zip"}
    Default = None
    Setting = {"pdf", "exe"}
    Quota = 3
    MaxEntries = 3
    MaxTotal = 5
    MaxEntry = 3
    MaxDepth = 1
    Keys = {k1}
    CrossDevice = TRUE
    Requests = {r1, r2}
    None = None
SYMMETRY Symmetry
PROPERTY QuotaCountsTrash
CHECK_DEADLOCK FALSE
