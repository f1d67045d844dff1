CONSTANTS
    Accounts = {"acct"}
    Requests = {r1, r2}
    r1 = r1
    r2 = r2
    Waits = {2}
    Shorts = {1}
    Hints = {TRUE, FALSE}
    MaxRetries = 1
    MaxTime = 2
    MaxLogins = 1
    MaxReloads = 1
SPECIFICATION Spec
SYMMETRY Symmetry
CHECK_DEADLOCK FALSE
INVARIANTS
    TypeOK
    WaitHonored
PROPERTIES
    NoSendIntoWait
    OnlyCurrentCredentialCools
