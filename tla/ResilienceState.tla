--------------------------- MODULE ResilienceState ---------------------------
(***************************************************************************)
(* The runtime state of open_free_router.resilience.ResilienceManager and  *)
(* the effect of each of its operations, as operators other modules step   *)
(* with: Resilience.tla drives them with concurrent callers and a state    *)
(* file, Executor.tla with whole requests.                                 *)
(*                                                                         *)
(* The manager keeps three layers of penalty: a circuit per provider, a    *)
(* state per credential slot of a provider, a lockout per model of a       *)
(* provider.  An entry missing from one of its dictionaries behaves as the *)
(* dataclass's defaults do, so every layer is a total function here.       *)
(*                                                                         *)
(* Time.  The code stores absolute deadlines and compares them with        *)
(* time.time(); here every deadline is the number of ticks left until it   *)
(* passes, 0 once it has, and Tick (in the driving modules) counts down.   *)
(*                                                                         *)
(* Left out: the reason strings, the quota observations and the time of    *)
(* the last success.  They order and score candidates and word the         *)
(* refusals; they never decide whether an attempt is admitted.             *)
(***************************************************************************)
EXTENDS Naturals, FiniteSets

CONSTANTS
    Providers, Models, Slots,
    ProviderThreshold,      \* consecutive failures that open a circuit
    ProviderCooldown,       \* ticks a circuit stays open
    CredentialCooldown,     \* ticks of cooldown after a 429 without a delay
    QuotaScale,             \* its multiplier when the 429 reads as quota
    ModelCooldown,          \* ticks of a model's first lockout
    TerminalProbe,          \* ticks before a terminal slot's first probe
    TerminalMaxScale,       \* cap of that window's exponential growth
    ForbiddenThreshold,     \* distinct forbidden models that convict a slot
    RetryDelays             \* delays an upstream may declare; 0 is "none"

\* The bounds __init__ enforces with max().
ASSUME LimitsAssumption ==
    /\ ProviderThreshold \in Nat \ {0}
    /\ QuotaScale \in Nat \ {0}
    /\ TerminalMaxScale \in Nat \ {0}
    /\ ForbiddenThreshold \in Nat \ {0}
ASSUME TimesAssumption ==
    /\ ProviderCooldown \in Nat
    /\ CredentialCooldown \in Nat
    /\ ModelCooldown \in Nat
    /\ TerminalProbe \in Nat
    /\ RetryDelays \subseteq Nat
ASSUME ModelsAssumption == IsFiniteSet(Models)

VARIABLES prov, cred, mdl
resVars == <<prov, cred, mdl>>

-----------------------------------------------------------------------------
(* What classify_failure says of a response.                               *)

ProviderFailures   == {"provider_unavailable", "transport_error"}
RateLimits         == {"rate_limited", "quota_exhausted"}
CredentialTerminal == {"credential_invalid", "credits_exhausted"}
ModelLockouts      == {"model_forbidden", "model_unavailable", "context_overflow"}
FailureKinds == ProviderFailures \cup RateLimits \cup CredentialTerminal
                  \cup ModelLockouts \cup {"invalid_request"}

-----------------------------------------------------------------------------
(* The three kinds of record.                                              *)

Closed     == [state |-> "closed", failures |-> 0, left |-> 0, probe |-> FALSE]
Ready      == [state |-> "ready", left |-> 0, convictions |-> 0,
               probe |-> FALSE, forbidden |-> {}]
NoLockout  == [failures |-> 0, left |-> 0]

CircuitRecords == [state : {"closed", "open", "half_open"},
                   failures : 0..ProviderThreshold, left : Nat, probe : BOOLEAN]
CredentialRecords == [state : {"ready", "cooldown", "terminal"}, left : Nat,
                      convictions : 0..4, probe : BOOLEAN,
                      forbidden : SUBSET Models]
LockoutRecords == [failures : 0..4, left : Nat]

ResilienceTypeOK ==
    /\ prov \in [Providers -> CircuitRecords]
    /\ cred \in [Providers \X Slots -> CredentialRecords]
    /\ mdl  \in [Providers \X Models -> LockoutRecords]

ResilienceInit ==
    /\ prov = [p \in Providers |-> Closed]
    /\ cred = [k \in Providers \X Slots |-> Ready]
    /\ mdl  = [k \in Providers \X Models |-> NoLockout]

\* Shapes every operation keeps; see CircuitShape and SlotShape.
GoodCircuit(r) ==
    /\ r.probe <=> r.state = "half_open"
    /\ r.state = "closed" <=> r.failures < ProviderThreshold
    /\ r.state # "open" => r.left = 0
GoodSlot(c) ==
    /\ c.probe => c.state = "terminal"
    /\ c.state # "terminal" => Cardinality(c.forbidden) < ForbiddenThreshold
    /\ c.state = "terminal" <=> c.convictions > 0
    /\ c.state = "ready" => c.left = 0
Sound(circuits, credentials, lockouts) ==
    /\ circuits \in [Providers -> CircuitRecords]
    /\ credentials \in [Providers \X Slots -> CredentialRecords]
    /\ lockouts \in [Providers \X Models -> LockoutRecords]
    /\ \A p \in Providers : GoodCircuit(circuits[p])
    /\ \A k \in Providers \X Slots : GoodSlot(credentials[k])

Least(a, b) == IF a < b THEN a ELSE b
Greatest(a, b) == IF a < b THEN b ELSE a

\* 2 ** max(0, n - 1) for the counters the code caps at 4.
Doubled(n) == CASE n <= 1 -> 1 [] n = 2 -> 2 [] n = 3 -> 4 [] OTHER -> 8

\* The window a terminal slot waits before its next recovery probe.
TerminalWindow(n) == TerminalProbe * Least(TerminalMaxScale, Doubled(n))

-----------------------------------------------------------------------------
(* can_attempt.  The gates are asked in the order credential, model,       *)
(* provider; a gate that lets the attempt pass also tidies its layer, so a *)
(* call refused by a later gate still leaves what the earlier ones did.    *)

\* Mutant: a stopped slot is a one-way door.
StoppedForGood(p, s) == cred[<<p, s>>].state = "terminal" \/ cred[<<p, s>>].left > 0
CredentialBlocks(p, s) == cred[<<p, s>>].state # "ready" /\ cred[<<p, s>>].left > 0
ModelBlocks(p, m) == mdl[<<p, m>>].left > 0
ProviderBlocks(p) ==
    \/ prov[p].state = "half_open" /\ prov[p].probe
    \/ prov[p].state = "open" /\ prov[p].left > 0

Admits(p, m, s) ==
    ~CredentialBlocks(p, s) /\ ~ModelBlocks(p, m) /\ ~ProviderBlocks(p)

\* An attempt admitted now would be its circuit's or its slot's one probe.
TakesProviderProbe(p)      == prov[p].state = "open"
TakesCredentialProbe(p, s) == cred[<<p, s>>].state = "terminal"

\* A cooldown that has run out is forgotten by the first call that sees it.
Thawed(c) == IF c.state = "cooldown" THEN [c EXCEPT !.state = "ready"] ELSE c

\* A terminal slot is reserved by starting its window over.
Reserved(c) ==
    IF c.state = "terminal"
    THEN [c EXCEPT !.left = TerminalWindow(c.convictions), !.probe = TRUE]
    ELSE Thawed(c)

GateAdmit(p, m, s) ==
    /\ Admits(p, m, s)
    /\ prov' = IF TakesProviderProbe(p)
               THEN [prov EXCEPT ![p].state = "half_open", ![p].probe = TRUE]
               ELSE prov
    /\ cred' = [cred EXCEPT ![<<p, s>>] = Reserved(@)]
    /\ mdl'  = [mdl EXCEPT ![<<p, m>>] = NoLockout]

GateRefuse(p, m, s) ==
    \/ CredentialBlocks(p, s) /\ UNCHANGED resVars
    \/ /\ ~CredentialBlocks(p, s)
       /\ ModelBlocks(p, m) \/ ProviderBlocks(p)
       /\ cred' = [cred EXCEPT ![<<p, s>>] = Thawed(@)]
       /\ mdl'  = IF ModelBlocks(p, m) THEN mdl
                  ELSE [mdl EXCEPT ![<<p, m>>] = NoLockout]
       /\ UNCHANGED prov

-----------------------------------------------------------------------------
(* record_failure, layer by layer.                                         *)

\* Mutant: the probe is not given back.
CountsOnly(r) == [r EXCEPT !.failures = Least(ProviderThreshold, @ + 1)]
Counted(r) == [r EXCEPT !.failures = Least(ProviderThreshold, @ + 1), !.probe = FALSE]

\* A failure opens a half-open circuit at once, any other at the threshold;
\* one that is open already keeps its time.
Trips(r) ==
    \/ r.state = "half_open"
    \/ /\ ~(r.state = "open" /\ r.left > 0)
       /\ Counted(r).failures >= ProviderThreshold

\* An answer of any other kind proves that the transport works.
CircuitAfter(r, kind) ==
    IF kind \in ProviderFailures
    THEN IF Trips(r)
         THEN [Counted(r) EXCEPT !.state = "open", !.left = ProviderCooldown]
         ELSE Counted(r)
    ELSE IF r.state = "half_open" THEN Closed ELSE r

\* Mutant: one model too many.
ConvictsLate(models) == Cardinality(models) > ForbiddenThreshold
Convicts(models) == Cardinality(models) >= ForbiddenThreshold

\* 403: the slot is convicted once enough distinct models agree.
Forbidden(c, m) ==
    LET seen == IF Cardinality(c.forbidden) < ForbiddenThreshold
                THEN c.forbidden \cup {m} ELSE c.forbidden
        n    == Greatest(1, c.convictions)
        suspect == [c EXCEPT !.forbidden = seen]
    IN  IF c.state # "terminal" /\ Convicts(seen)
        THEN [suspect EXCEPT !.state = "terminal", !.convictions = n,
                             !.left = TerminalWindow(n)]
        ELSE suspect

\* 401, 402: the slot stops; a failed recovery probe doubles its window.
Convicted(c) ==
    LET n == IF c.state = "terminal" THEN Least(4, c.convictions + 1) ELSE 1
    IN  IF c.state # "terminal" \/ c.probe
        THEN [Ready EXCEPT !.state = "terminal", !.convictions = n,
                           !.left = TerminalWindow(n)]
        ELSE c

\* 429: a cooldown, unless the slot is stopped or already cooling down.
CooledDown(c, kind, delay) ==
    LET ticks == IF delay > 0 THEN delay
                 ELSE IF kind = "quota_exhausted"
                      THEN CredentialCooldown * QuotaScale
                      ELSE CredentialCooldown
    IN  IF c.state = "terminal" \/ (c.state = "cooldown" /\ c.left > 0)
        THEN c
        ELSE [Ready EXCEPT !.state = "cooldown", !.left = ticks]

\* Mutant: the probe stays reserved.
StillReserved(c) == c
Released(c) == [c EXCEPT !.probe = FALSE]

\* Whatever the failure was, it gives back the slot's recovery probe.
CredentialAfter(c, m, kind, delay) ==
    CASE kind = "model_forbidden" -> Forbidden(Released(c), m)
      [] kind \in CredentialTerminal -> Released(Convicted(c))
      [] kind \in RateLimits -> CooledDown(Released(c), kind, delay)
      [] OTHER -> Released(c)

\* Mutant: a failure that was already under way extends the lockout.
LockoutExtended(r, kind) ==
    LET n == Least(4, r.failures + 1)
    IN  IF kind \in ModelLockouts
        THEN [failures |-> n, left |-> ModelCooldown * Doubled(n)]
        ELSE r
LockoutAfter(r, kind) ==
    LET n == Least(4, r.failures + 1)
    IN  IF kind \in ModelLockouts /\ r.left = 0
        THEN [failures |-> n, left |-> ModelCooldown * Doubled(n)]
        ELSE r

RecordFailure(p, m, s, kind, delay) ==
    /\ prov' = [prov EXCEPT ![p] = CircuitAfter(@, kind)]
    /\ cred' = [cred EXCEPT ![<<p, s>>] = CredentialAfter(@, m, kind, delay)]
    /\ mdl'  = [mdl EXCEPT ![<<p, m>>] = LockoutAfter(@, kind)]

-----------------------------------------------------------------------------
(* record_success, reset, and the passing of time.                         *)

RecordSuccess(p, m, s) ==
    /\ prov' = [prov EXCEPT ![p] = Closed]
    /\ cred' = [cred EXCEPT ![<<p, s>>] = Ready]
    /\ mdl'  = [mdl EXCEPT ![<<p, m>>] = NoLockout]

ResetProvider(p) ==
    /\ prov' = [prov EXCEPT ![p] = Closed]
    /\ cred' = [k \in DOMAIN cred |-> IF k[1] = p THEN Ready ELSE cred[k]]
    /\ mdl'  = [k \in DOMAIN mdl |-> IF k[1] = p THEN NoLockout ELSE mdl[k]]

ResetModel(p, m) ==
    /\ mdl' = [mdl EXCEPT ![<<p, m>>] = NoLockout]
    /\ UNCHANGED <<prov, cred>>

\* One tick off every running timer of a layer.
Aged(layer) ==
    [k \in DOMAIN layer |-> [layer[k] EXCEPT !.left = IF @ > 0 THEN @ - 1 ELSE 0]]

AgePenalties == prov' = Aged(prov) /\ cred' = Aged(cred) /\ mdl' = Aged(mdl)

\* The passing of time changes something.
Runs(layer) == \E k \in DOMAIN layer : layer[k].left > 0
TimersRunning == Runs(prov) \/ Runs(cred) \/ Runs(mdl)

-----------------------------------------------------------------------------
(* The state file.  SavedX is what _load_state makes of a layer that       *)
(* _state_document wrote: penalties still running, and no reservation - a  *)
(* probe cannot survive the process that took it.                          *)

\* Mutant: the reservation is restored with the circuit.
SavedWithProbe(r) == r
SavedCircuit(r) ==
    IF r.state \in {"open", "half_open"} /\ r.left > 0
    THEN [r EXCEPT !.state = "open", !.probe = FALSE] ELSE Closed
SavedCredential(c) ==
    IF c.state = "terminal" \/ (c.state = "cooldown" /\ c.left > 0)
    THEN [c EXCEPT !.probe = FALSE]
    ELSE [Ready EXCEPT !.forbidden = c.forbidden]
SavedLockout(r) == IF r.left > 0 THEN r ELSE NoLockout

Saved(circuits, credentials, lockouts) ==
    [prov |-> [p \in DOMAIN circuits |-> SavedCircuit(circuits[p])],
     cred |-> [k \in DOMAIN credentials |-> SavedCredential(credentials[k])],
     mdl  |-> [k \in DOMAIN lockouts |-> SavedLockout(lockouts[k])]]

=============================================================================
