------------------------------ MODULE Resilience ------------------------------
(***************************************************************************)
(* ResilienceManager under concurrent use: request threads (Callers) ask   *)
(* can_attempt, talk to an upstream and report what happened; an operator  *)
(* resets penalties; the process is restarted and reloads its state file.  *)
(* Every operation holds the manager's lock, so each is one step; anything *)
(* may happen between a caller's admission and its report.                 *)
(*                                                                         *)
(* A caller here always reports.  Executor.tla models the code that calls  *)
(* the manager, and finds where it does not.                               *)
(***************************************************************************)
EXTENDS ResilienceState

CONSTANTS
    Callers,        \* threads using the manager
    FileFaults      \* whether the state file's writes and reads may fail

ASSUME FileFaultsAssumption == FileFaults \in BOOLEAN

VARIABLES
    calls,          \* the attempt each caller has in flight
    disk            \* the state file, as _load_state would read it now
vars == <<resVars, calls, disk>>

NoCall == [at |-> "none"]
\* held: the recovery probes this attempt reserved when it was admitted.
Attempts == [at : Providers \X Models \X Slots,
             held : SUBSET {"provider", "credential"}]

ProviderOf(c) == calls[c].at[1]
ModelOf(c)    == calls[c].at[2]
SlotOf(c)     == calls[c].at[3]
InFlight(c)   == calls[c] # NoCall

TypeOK ==
    /\ ResilienceTypeOK
    /\ calls \in [Callers -> Attempts \cup {NoCall}]
    /\ disk.prov \in [Providers -> CircuitRecords]
    /\ disk.cred \in [Providers \X Slots -> CredentialRecords]
    /\ disk.mdl  \in [Providers \X Models -> LockoutRecords]

Init ==
    /\ ResilienceInit
    /\ calls = [c \in Callers |-> NoCall]
    /\ disk = Saved(prov, cred, mdl)

-----------------------------------------------------------------------------
\* _persist_locked: the file is replaced atomically; an I/O error is
\* swallowed and leaves the old one.
Persist == \/ disk' = Saved(prov', cred', mdl')
           \/ FileFaults /\ UNCHANGED disk

PersistIf(changed) == IF changed THEN Persist ELSE UNCHANGED disk

\* What can_attempt saves: thawed cooldowns, reserved slots and forgotten
\* lockouts, not a circuit that became half-open.
\* Mutant: the reservation of a slot is not saved.
SavesLockouts == PersistIf(mdl' # mdl)
SavesAsk == PersistIf(cred' # cred \/ mdl' # mdl)

\* can_attempt lets the attempt pass.
Admit(c, p, m, s) ==
    /\ ~InFlight(c)
    /\ GateAdmit(p, m, s)
    /\ calls' = [calls EXCEPT ![c] =
          [at |-> <<p, m, s>>,
           held |-> {h \in {"provider", "credential"} :
                       \/ h = "provider" /\ TakesProviderProbe(p)
                       \/ h = "credential" /\ TakesCredentialProbe(p, s)}]]
    /\ SavesAsk

\* can_attempt refuses: the caller goes on to another candidate.
Refuse(c, p, m, s) ==
    /\ ~InFlight(c)
    /\ GateRefuse(p, m, s)
    /\ SavesAsk
    /\ UNCHANGED calls

\* The attempt of c comes back as a failure.
Fail(c, kind, delay) ==
    /\ InFlight(c)
    /\ RecordFailure(ProviderOf(c), ModelOf(c), SlotOf(c), kind, delay)
    /\ PersistIf(resVars' # resVars)
    /\ calls' = [calls EXCEPT ![c] = NoCall]

Succeed(c) ==
    /\ InFlight(c)
    /\ RecordSuccess(ProviderOf(c), ModelOf(c), SlotOf(c))
    /\ PersistIf(resVars' # resVars)
    /\ calls' = [calls EXCEPT ![c] = NoCall]

\* record_quota stores a new observation, which rewrites the whole file.
RecordQuota(c) ==
    /\ InFlight(c)
    /\ UNCHANGED <<resVars, calls>>
    /\ Persist

\* An operator lifts a provider's penalties, or one model's lockout.
Reset(p) ==
    /\ ResetProvider(p) \/ \E m \in Models : ResetModel(p, m)
    /\ Persist
    /\ UNCHANGED calls

\* The process dies and comes back: its requests are gone, its penalties
\* are those of the file.
Restart ==
    /\ prov' = disk.prov
    /\ cred' = disk.cred
    /\ mdl'  = disk.mdl
    /\ calls' = [c \in Callers |-> NoCall]
    /\ UNCHANGED disk

\* The file cannot be read at start: it is set aside and the manager begins
\* without penalties (_quarantine_corrupt_state).
RestartUnreadable ==
    /\ FileFaults
    /\ prov' = [p \in Providers |-> Closed]
    /\ cred' = [k \in Providers \X Slots |-> Ready]
    /\ mdl'  = [k \in Providers \X Models |-> NoLockout]
    /\ calls' = [c \in Callers |-> NoCall]
    /\ disk' = Saved(prov', cred', mdl')

Tick ==
    /\ TimersRunning
    /\ AgePenalties
    /\ disk' = Saved(Aged(disk.prov), Aged(disk.cred), Aged(disk.mdl))
    /\ UNCHANGED calls

Ask(c) == \E p \in Providers, m \in Models, s \in Slots :
              Admit(c, p, m, s) \/ Refuse(c, p, m, s)
Report(c) == \/ \E kind \in FailureKinds, delay \in RetryDelays : Fail(c, kind, delay)
             \/ Succeed(c)

Next ==
    \/ \E c \in Callers : Ask(c) \/ Report(c) \/ RecordQuota(c)
    \/ \E p \in Providers : Reset(p)
    \/ Restart
    \/ RestartUnreadable
    \/ Tick

Spec == Init /\ [][Next]_vars

\* Time passes and every attempt comes back (each is bounded by the connect,
\* first-byte and request timeouts); nobody has to ask, reset or restart.
LiveSpec == Spec /\ WF_vars(Tick) /\ \A c \in Callers : WF_vars(Report(c))

-----------------------------------------------------------------------------
(* Properties.                                                             *)

\* A circuit never reaches a shape the gate cannot leave: half-open means
\* exactly that a probe is out, closed that the threshold is not reached,
\* and only an open one has a time to wait for.
CircuitShape == \A p \in Providers : GoodCircuit(prov[p])

\* A slot holds a recovery probe only while stopped, a slot in service
\* never has as much evidence against it as convicts one, and a slot is
\* stopped exactly when it has a conviction count.
SlotShape == \A k \in Providers \X Slots : GoodSlot(cred[k])

\* resilience.py:446 "so the reservation can never outlive the attempt that
\* took it": whoever blocks everybody else is still out there.
ReservationHasOwner ==
    /\ \A p \in Providers : prov[p].probe =>
          \E c \in Callers : InFlight(c) /\ ProviderOf(c) = p /\ "provider" \in calls[c].held
    /\ \A p \in Providers, s \in Slots : cred[<<p, s>>].probe =>
          \E c \in Callers : /\ InFlight(c) /\ ProviderOf(c) = p /\ SlotOf(c) = s
                             /\ "credential" \in calls[c].held

\* A restart neither lifts a penalty that is running nor brings back one
\* that was lifted - as long as the file's writes succeed.
RestartKeepsPenalties == disk = Saved(prov, cred, mdl)

\* CHANGELOG.md:218 "prevents duplicate in-flight failures from extending
\* active provider, credential or model penalties": while a penalty runs
\* nothing makes it longer, except that a stopped slot whose recovery probe
\* is out may start a new window.
PenaltiesOnlyShrink ==
    /\ \A p \in Providers : prov[p].left > 0 => prov'[p].left <= prov[p].left
    /\ \A k \in DOMAIN mdl : mdl[k].left > 0 => mdl'[k].left <= mdl[k].left
    /\ \A k \in DOMAIN cred :
          cred[k].left > 0 /\ cred'[k].state = cred[k].state /\ ~cred[k].probe
             => cred'[k].left <= cred[k].left
NoPenaltyExtension == [][PenaltiesOnlyShrink]_vars

\* docs/plans/failover-routing-policy.md:13 "always leave a way back": every
\* model of every provider is again and again open to some attempt, with
\* no reset and no restart.
WayBack == \A p \in Providers, m \in Models :
               []<>(\E s \in Slots : Admits(p, m, s))

=============================================================================
