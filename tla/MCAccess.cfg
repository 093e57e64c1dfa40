SPECIFICATION MCSpec
CONSTANTS
    Users = {o, u}
    Owner = o
    Assigned = {"admin"}
    Invites = {i1}
    Mailed = {i1}
    Quotas = {2}
    MaxQuota = 1
    Logins = {u}
    Passwords = {p1, p2}
    MaxCodes = 2
    MaxSlugs = 1
    Accounts = {u, w}
    Tgs = {t1, t2}
    Tokens = {k1, k2}
    Requests = {r1, r2}
    None = None
SYMMETRY Symmetry
INVARIANTS AccessTypeOK OneOwner DormantUntilConfirmed LinkedByBoth
PROPERTIES InviteLetsInOnceUnlessRaced SettingsStandUnlessRaced CodeClearedUnlessRaced PasswordStandsUnlessRaced LinkStandsUnlessRaced
CHECK_DEADLOCK FALSE
