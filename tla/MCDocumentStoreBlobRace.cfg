(* The sweep against a single upload. *)
SPECIFICATION MCSpec
CONSTANTS
    Domains = {D1}
    Hashes = {h1}
    Names = {n1}
    DocIds = {d1}
    Requests = {r1}
    Purgers = {}
    Sweeper = sweeper
    MaxVersion = 2
    None = None
    r1 = r1
    d1 = d1
    h1 = h1
INVARIANT BlobsPresent
CHECK_DEADLOCK FALSE
