CONSTANTS
    MaxAttempts = 2
    Modes = {"serial"}
    MaxRoutes = 1
SPECIFICATION Spec
CHECK_DEADLOCK FALSE
INVARIANT BilledOnce
