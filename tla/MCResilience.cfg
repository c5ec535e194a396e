SPECIFICATION Spec
CONSTANTS
    m1 = m1
    m2 = m2
    c1 = c1
    c2 = c2
    c3 = c3
    Providers = {"p"}
    Models = {m1, m2}
    Slots = {0}
    ProviderThreshold = 2
    ProviderCooldown = 2
    CredentialCooldown = 1
    QuotaScale = 2
    ModelCooldown = 1
    TerminalProbe = 1
    TerminalMaxScale = 2
    ForbiddenThreshold = 2
    RetryDelays = {0}
    Callers = {c1, c2, c3}
    FileFaults = FALSE
SYMMETRY Symmetry
INVARIANTS CircuitShape SlotShape ReservationHasOwner RestartKeepsPenalties
PROPERTIES NoPenaltyExtension
