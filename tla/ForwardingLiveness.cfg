CONSTANTS
    Upstreams <- MCUpstreams
    Rank <- FlatRank
    Pos <- MCPos
    Provider <- MCProvider
    Modes <- MCModes
    LastGroup = 1
    AccountProviders = {"codex"}
    RoundRobin = FALSE
    MaxRetries = 1
    Failures = {"timeout", "busy"}
    Hanging = {"codex1"}
SPECIFICATION Spec
INVARIANTS
    ConcurrencyBound
PROPERTIES
    EventuallyAnswered
    HungCandidateOvertaken
