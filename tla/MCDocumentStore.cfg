(* Uploads over two contents, one name and two documents, the sweep and a purge *)
(* beside them, and the sweep's progress.                                      *)
SPECIFICATION MCSpec
CONSTANTS
    Domains = {D1}
    Hashes = {h1, h2}
    Names = {n1}
    DocIds = {d1, d2}
    Requests = {r1, r2}
    Purgers = {k1}
    Sweeper = sweeper
    MaxVersion = 3
    None = None
    r1 = r1
    d1 = d1
    h1 = h1
INVARIANTS ActiveUnique HistoryGapless LostOnlyIfTorn IInv
PROPERTIES ActiveGoesOnlyIfRescued OrphansReclaimed
CHECK_DEADLOCK FALSE
