SPECIFICATION Spec
CONSTANTS
    Providers = {"a"}
    Models = {"mid"}
    Slots = {0}
    ProviderThreshold = 1
    ProviderCooldown = 1
    CredentialCooldown = 1
    QuotaScale = 1
    ModelCooldown = 1
    TerminalProbe = 1
    TerminalMaxScale = 1
    ForbiddenThreshold = 1
    RetryDelays = {0}
    Requests = {"r1"}
    Named <- OneTarget
    Routes <- NoTargets
    KeyOrder <- OneKey
    Window <- MCWindow
    MaxAttempts = 2
    TotalBudget = 2
    Backoffs = {1}
    RetryAfterMax = 1
    RetryOn429 = TRUE
    FallbackEnabled = TRUE
    Scoring = FALSE
    Answers = {"credential_invalid"}
    BodyFaults = TRUE
INVARIANTS ReservationHasOwner
