CONSTANTS
    MaxAttempts = 3
    Modes = {"serial", "race"}
    MaxRoutes = 2
SPECIFICATION Spec
CHECK_DEADLOCK FALSE
INVARIANTS
    BilledByAnswer
    OutcomeRecorded
