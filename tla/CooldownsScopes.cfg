CONSTANTS
    Accounts = {"acct1", "acct2"}
    Requests = {r1, r2}
    r1 = r1
    r2 = r2
    Waits = {1}
    Shorts = {2}
    Hints = {FALSE}
    MaxRetries = 0
    MaxTime = 1
    MaxLogins = 0
    MaxReloads = 0
SPECIFICATION Spec
SYMMETRY Symmetry
CHECK_DEADLOCK FALSE
INVARIANTS
    CooldownBounded
    RequestScopesCleared
