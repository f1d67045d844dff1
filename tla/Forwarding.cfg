CONSTANTS
    Upstreams <- MCUpstreams
    Rank <- MCRank
    Pos <- MCPos
    Provider <- MCProvider
    Modes <- MCModes
    LastGroup = 2
    AccountProviders = {"codex"}
    RoundRobin = TRUE
    MaxRetries = 1
    Failures = {"timeout", "neterr", "busy", "reject", "denied", "held"}
    Hanging = {"codex1"}
SPECIFICATION Spec
INVARIANTS
    TypeOK
    PriorityOrder
    ExhaustiveFailover
    FailureExplained
    RepairIsolation
PROPERTIES
    ImplementsFailover
