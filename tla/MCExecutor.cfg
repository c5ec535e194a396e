SPECIFICATION Spec
CONSTANTS
    Providers = {"a", "n"}
    Models = {"small", "mid", "large"}
    Slots = {0, 1}
    ProviderThreshold = 2
    ProviderCooldown = 1
    CredentialCooldown = 1
    QuotaScale = 1
    ModelCooldown = 1
    TerminalProbe = 1
    TerminalMaxScale = 1
    ForbiddenThreshold = 1
    RetryDelays = {0, 1}
    Requests = {"r"}
    Named <- NoTargets
    Routes <- AroundKeyless
    KeyOrder <- MCKeyOrder
    Window <- MCWindow
    MaxAttempts = 3
    TotalBudget = 2
    Backoffs = {1}
    RetryAfterMax = 1
    RetryOn429 = TRUE
    FallbackEnabled = TRUE
    Scoring = TRUE
    Answers = {"rate_limited", "credential_invalid", "context_overflow", "invalid_request"}
    BodyFaults = TRUE
INVARIANTS AuditTellsTruth EveryMoveIsAnnounced
PROPERTIES KeepsContract
