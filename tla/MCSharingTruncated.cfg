SPECIFICATION MCSpec
CONSTANTS
    Domains = {"m1", "m2"}
    Images = {}
    Texts = {}
    Library <- MCLibrary
    Forms <- MCForms
    Posted <- MCPosted
    Selections <- MCSelections
    Moving = {2}
    Changing = {"m1"}
    MaxSetDocs = 1
    MaxRows = 2
    MaxPosition = 1
    LinkLimits <- MCLimits
    Picks <- MCPicks
    Requests = {r1, r2}
    Links = {l1, l2}
    Arts = {a1}
    Ids = {e1}
    Files = {f1, f2}
    Shelf <- MCShelf
    Sent <- MCSent
    Fading = {1}
    Leaving = {"m2"}
    Questions <- MCQuestions
    PageSize = 1
    None = None
SYMMETRY Symmetry
INVARIANT NeverTruncated
CHECK_DEADLOCK FALSE
