--------------------------- MODULE ResilienceProofs ---------------------------
(***************************************************************************)
(* Theorems about Resilience.tla, for any providers, models, slots,        *)
(* callers, limits and times, and with or without faults of the state      *)
(* file.                                                                   *)
(***************************************************************************)
EXTENDS Resilience, ResilienceStateProofs

\* The inductive invariant: the layers in memory are typed and well shaped,
\* and so are those a restart would load.
IInv ==
    /\ Sound(prov, cred, mdl)
    /\ Sound(disk.prov, disk.cred, disk.mdl)
    /\ calls \in [Callers -> Attempts \cup {NoCall}]

\* Saving keeps the file sound, whether the write succeeds or not.
LEMMA PersistKeepsSound ==
    ASSUME Sound(disk.prov, disk.cred, disk.mdl), Sound(prov', cred', mdl'),
           Persist \/ UNCHANGED disk
    PROVE  Sound(disk'.prov, disk'.cred, disk'.mdl)
  BY SavedKeepsSound DEF Persist

\* An attempt in flight is one of a known target.
LEMMA InFlightTyped ==
    ASSUME calls \in [Callers -> Attempts \cup {NoCall}], NEW c \in Callers, InFlight(c)
    PROVE  ProviderOf(c) \in Providers /\ ModelOf(c) \in Models /\ SlotOf(c) \in Slots
  <1>1. calls[c].at \in Providers \X Models \X Slots
    BY DEF InFlight, Attempts
  <1> QED
    BY <1>1 DEF ProviderOf, ModelOf, SlotOf

\* The manager starts with no penalty and no attempt.
LEMMA InitIInv == Init => IInv
  <1> SUFFICES ASSUME Init PROVE IInv
    OBVIOUS
  <1>1. Sound(prov, cred, mdl)
    BY InitSound DEF Init
  <1>2. disk = Saved(prov, cred, mdl)
    BY DEF Init
  <1> QED
    BY <1>1, <1>2, SavedKeepsSound DEF Init, IInv

\* Every step keeps the inductive invariant.
LEMMA NextIInv == IInv /\ [Next]_vars => IInv'
  <1> SUFFICES ASSUME IInv, [Next]_vars PROVE IInv'
    OBVIOUS
  <1> USE DEF IInv
  <1>1. ASSUME NEW c \in Callers, NEW p \in Providers, NEW m \in Models, NEW s \in Slots,
               Admit(c, p, m, s)
        PROVE  IInv'
    <2>1. Sound(prov', cred', mdl')
      BY <1>1, AdmitKeepsSound DEF Admit
    <2>2. Persist \/ UNCHANGED disk
      BY <1>1 DEF Admit, SavesAsk, PersistIf
    <2>3. calls' \in [Callers -> Attempts \cup {NoCall}]
      BY <1>1 DEF Admit, Attempts
    <2> QED
      BY <2>1, <2>2, <2>3, PersistKeepsSound
  <1>2. ASSUME NEW c \in Callers, NEW p \in Providers, NEW m \in Models, NEW s \in Slots,
               Refuse(c, p, m, s)
        PROVE  IInv'
    <2>1. Sound(prov', cred', mdl')
      BY <1>2, RefuseKeepsSound DEF Refuse
    <2>2. Persist \/ UNCHANGED disk
      BY <1>2 DEF Refuse, SavesAsk, PersistIf
    <2> QED
      BY <1>2, <2>1, <2>2, PersistKeepsSound DEF Refuse
  <1>3. ASSUME NEW c \in Callers, NEW kind \in FailureKinds, NEW delay \in RetryDelays,
               Fail(c, kind, delay)
        PROVE  IInv'
    <2>1. ProviderOf(c) \in Providers /\ ModelOf(c) \in Models /\ SlotOf(c) \in Slots
      BY <1>3, InFlightTyped DEF Fail
    <2>2. delay \in Nat
      BY TimesAssumption
    <2>3. Sound(prov', cred', mdl')
      BY <1>3, <2>1, <2>2, FailureKeepsSound DEF Fail
    <2>4. Persist \/ UNCHANGED disk
      BY <1>3 DEF Fail, PersistIf
    <2>5. calls' \in [Callers -> Attempts \cup {NoCall}]
      BY <1>3 DEF Fail
    <2> QED
      BY <2>3, <2>4, <2>5, PersistKeepsSound
  <1>4. ASSUME NEW c \in Callers, Succeed(c) PROVE IInv'
    <2>1. ProviderOf(c) \in Providers /\ ModelOf(c) \in Models /\ SlotOf(c) \in Slots
      BY <1>4, InFlightTyped DEF Succeed
    <2>2. Sound(prov', cred', mdl')
      BY <1>4, <2>1, SuccessKeepsSound DEF Succeed
    <2>3. Persist \/ UNCHANGED disk
      BY <1>4 DEF Succeed, PersistIf
    <2>4. calls' \in [Callers -> Attempts \cup {NoCall}]
      BY <1>4 DEF Succeed
    <2> QED
      BY <2>2, <2>3, <2>4, PersistKeepsSound
  <1>5. ASSUME NEW c \in Callers, RecordQuota(c) PROVE IInv'
    BY <1>5, PersistKeepsSound DEF RecordQuota, resVars
  <1>6. ASSUME NEW p \in Providers, Reset(p) PROVE IInv'
    <2>1. Sound(prov', cred', mdl')
      BY <1>6, ResetKeepsSound DEF Reset
    <2> QED
      BY <1>6, <2>1, PersistKeepsSound DEF Reset
  <1>7. CASE Restart
    BY <1>7 DEF Restart
  <1>8. CASE RestartUnreadable
    <2>1. Sound(prov', cred', mdl')
      BY <1>8, FreshRecords, FreshShapes DEF RestartUnreadable, Sound
    <2>2. Sound(disk'.prov, disk'.cred, disk'.mdl)
      BY <1>8, <2>1, SavedKeepsSound DEF RestartUnreadable
    <2> QED
      BY <1>8, <2>1, <2>2 DEF RestartUnreadable
  <1>9. CASE Tick
    <2>1. Sound(prov', cred', mdl')
      BY <1>9, AgedKeepsSound DEF Tick, AgePenalties
    <2>2. Sound(Aged(disk.prov), Aged(disk.cred), Aged(disk.mdl))
      BY AgedKeepsSound
    <2>3. Sound(disk'.prov, disk'.cred, disk'.mdl)
      BY <1>9, <2>2, SavedKeepsSound DEF Tick
    <2> QED
      BY <1>9, <2>1, <2>3 DEF Tick
  <1>10. CASE UNCHANGED vars
    BY <1>10 DEF vars, resVars
  <1> QED
    BY <1>1, <1>2, <1>3, <1>4, <1>5, <1>6, <1>7, <1>8, <1>9, <1>10
       DEF Next, Ask, Report

\* The inductive invariant always holds.
LEMMA AlwaysIInv == Spec => []IInv
  BY InitIInv, NextIInv, PTL DEF Spec

\* Type correctness of the manager, its callers and its file.
THEOREM TypeCorrect == Spec => []TypeOK
  <1>1. IInv => TypeOK
    BY DEF IInv, Sound, TypeOK, ResilienceTypeOK
  <1> QED
    BY <1>1, AlwaysIInv, PTL

\* No sequence of admissions, answers, resets, restarts and lost writes
\* puts a circuit into a shape the gate cannot leave.
THEOREM CircuitsKeepShape == Spec => []CircuitShape
  <1>1. IInv => CircuitShape
    BY DEF IInv, Sound, CircuitShape
  <1> QED
    BY <1>1, AlwaysIInv, PTL

\* The same for the credential slots: no slot in service holds a probe or
\* evidence enough to convict it.
THEOREM SlotsKeepShape == Spec => []SlotShape
  <1>1. IInv => SlotShape
    BY DEF IInv, Sound, SlotShape
  <1> QED
    BY <1>1, AlwaysIInv, PTL

(* The state file, when its writes and reads succeed.                      *)

\* What the gate changes without saving, a circuit becoming half-open,
\* makes no difference to the file.
LEMMA HalfOpenIsNotSaved ==
    ASSUME Sound(prov, cred, mdl), NEW p \in Providers, NEW m \in Models, NEW s \in Slots,
           GateAdmit(p, m, s) \/ GateRefuse(p, m, s), cred' = cred, mdl' = mdl
    PROVE  Saved(prov', cred', mdl') = Saved(prov, cred, mdl)
  <1>1. CASE prov' = prov
    BY <1>1
  <1>2. CASE prov' # prov
    <2>1. /\ ~ProviderBlocks(p) /\ prov[p].state = "open"
          /\ prov' = [prov EXCEPT ![p].state = "half_open", ![p].probe = TRUE]
      BY <1>2 DEF GateAdmit, GateRefuse, Admits, TakesProviderProbe, resVars
    <2>2. prov[p] \in CircuitRecords /\ prov[p].left = 0 /\ DOMAIN prov = Providers
      BY <2>1 DEF Sound, ProviderBlocks, CircuitRecords
    <2>3. prov'[p].left = 0
      BY <2>1, <2>2 DEF CircuitRecords, Sound
    <2>4. \A q \in Providers : SavedCircuit(prov'[q]) = SavedCircuit(prov[q])
      <3>1. SavedCircuit(prov'[p]) = Closed /\ SavedCircuit(prov[p]) = Closed
        BY <2>2, <2>3 DEF SavedCircuit
      <3>2. \A q \in Providers : q # p => prov'[q] = prov[q]
        BY <2>1, <2>2
      <3> QED
        BY <3>1, <3>2
    <2>5. DOMAIN prov' = Providers
      BY <2>1, <2>2
    <2> QED
      BY <2>2, <2>4, <2>5 DEF Saved
  <1> QED
    BY <1>1, <1>2

\* Without faults, every step leaves the file as the state would be loaded.
LEMMA NextKeepsFile ==
    ASSUME ~FileFaults, IInv, RestartKeepsPenalties, [Next]_vars
    PROVE  RestartKeepsPenalties'
  <1> USE DEF RestartKeepsPenalties
  <1>1. ASSUME NEW p \in Providers, NEW m \in Models, NEW s \in Slots,
               GateAdmit(p, m, s) \/ GateRefuse(p, m, s), SavesAsk
        PROVE  disk' = Saved(prov', cred', mdl')
    <2>1. CASE cred' # cred \/ mdl' # mdl
      BY <1>1, <2>1 DEF SavesAsk, PersistIf, Persist
    <2>2. CASE cred' = cred /\ mdl' = mdl
      BY <1>1, <2>2, HalfOpenIsNotSaved DEF SavesAsk, PersistIf, IInv
    <2> QED
      BY <2>1, <2>2
  <1>2. ASSUME NEW c \in Callers, Ask(c) PROVE disk' = Saved(prov', cred', mdl')
    BY <1>1, <1>2 DEF Ask, Admit, Refuse
  <1>3. ASSUME NEW c \in Callers, Report(c) PROVE disk' = Saved(prov', cred', mdl')
    <2>1. PersistIf(resVars' # resVars)
      BY <1>3 DEF Report, Fail, Succeed
    <2> QED
      BY <2>1 DEF PersistIf, Persist, resVars
  <1>4. ASSUME NEW c \in Callers, RecordQuota(c) PROVE disk' = Saved(prov', cred', mdl')
    BY <1>4 DEF RecordQuota, Persist
  <1>5. ASSUME NEW p \in Providers, Reset(p) PROVE disk' = Saved(prov', cred', mdl')
    BY <1>5 DEF Reset, Persist
  <1>6. CASE Restart
    BY <1>6, SavedIdempotent DEF Restart, IInv
  <1>7. CASE RestartUnreadable
    BY <1>7 DEF RestartUnreadable
  <1>8. CASE Tick
    BY <1>8, SavedAged DEF Tick, AgePenalties, IInv
  <1>9. CASE UNCHANGED vars
    BY <1>9 DEF vars, resVars
  <1> QED
    BY <1>2, <1>3, <1>4, <1>5, <1>6, <1>7, <1>8, <1>9 DEF Next

\* A restart neither lifts a running penalty nor brings a lifted one back.
THEOREM FileKeepsPenalties == ~FileFaults /\ Spec => []RestartKeepsPenalties
  <1> SUFFICES ASSUME ~FileFaults PROVE Spec => []RestartKeepsPenalties
    OBVIOUS
  <1>1. Init => RestartKeepsPenalties
    BY DEF Init, RestartKeepsPenalties
  <1>2. IInv /\ RestartKeepsPenalties /\ [Next]_vars => RestartKeepsPenalties'
    BY NextKeepsFile
  <1> QED
    BY <1>1, <1>2, AlwaysIInv, PTL DEF Spec

(* Running penalties.                                                      *)

\* No step makes a running penalty longer, except that a slot's own probe
\* may.
LEMMA NextShrinksPenalties ==
    ASSUME IInv, RestartKeepsPenalties, [Next]_vars, ~FileFaults
    PROVE  PenaltiesOnlyShrink
  <1> DEFINE Circuits == \A p \in Providers : prov[p].left > 0 => prov'[p].left <= prov[p].left
             Lockouts == \A k \in Providers \X Models :
                             mdl[k].left > 0 => mdl'[k].left <= mdl[k].left
             Credentials == \A k \in Providers \X Slots :
                 cred[k].left > 0 /\ cred'[k].state = cred[k].state /\ ~cred[k].probe
                   => cred'[k].left <= cred[k].left
  <1>1. /\ \A p \in Providers : prov[p] \in CircuitRecords /\ GoodCircuit(prov[p])
        /\ \A k \in Providers \X Slots : cred[k] \in CredentialRecords /\ GoodSlot(cred[k])
        /\ \A k \in Providers \X Models : mdl[k] \in LockoutRecords
        /\ DOMAIN prov = Providers /\ DOMAIN cred = Providers \X Slots
        /\ DOMAIN mdl = Providers \X Models
    BY DEF IInv, Sound
  <1>2. /\ \A p \in Providers : prov[p].left \in Nat
        /\ \A k \in Providers \X Slots : cred[k].left \in Nat
        /\ \A k \in Providers \X Models : mdl[k].left \in Nat
    BY <1>1 DEF CircuitRecords, CredentialRecords, LockoutRecords
  <1>3. SUFFICES Circuits /\ Lockouts /\ Credentials
    BY <1>1 DEF PenaltiesOnlyShrink
  <1>4. ASSUME NEW p \in Providers, NEW m \in Models, NEW s \in Slots,
               GateAdmit(p, m, s) \/ GateRefuse(p, m, s)
        PROVE  Circuits /\ Lockouts /\ Credentials
    <2>1. Circuits
      BY <1>1, <1>2, <1>4 DEF GateAdmit, GateRefuse, CircuitRecords, resVars
    <2>2. Lockouts
      <3>1. mdl' = mdl \/ (~ModelBlocks(p, m) /\ mdl' = [mdl EXCEPT ![<<p, m>>] = NoLockout])
        BY <1>4 DEF GateAdmit, GateRefuse, Admits, resVars
      <3> QED
        BY <1>1, <1>2, <3>1 DEF ModelBlocks
    <2>3. Credentials
      <3>1. \/ cred' = cred
            \/ /\ ~CredentialBlocks(p, s)
               /\ \E c : cred' = [cred EXCEPT ![<<p, s>>] = c]
        BY <1>4 DEF GateAdmit, GateRefuse, Admits, resVars
      <3>2. ~CredentialBlocks(p, s) => cred[<<p, s>>].left = 0
        BY <1>1, <1>2 DEF CredentialBlocks, GoodSlot
      <3> QED
        BY <1>1, <1>2, <3>1, <3>2
    <2> QED
      BY <2>1, <2>2, <2>3
  <1>5. ASSUME NEW c \in Callers, NEW kind \in FailureKinds, NEW delay \in RetryDelays,
               Fail(c, kind, delay)
        PROVE  Circuits /\ Lockouts /\ Credentials
    <2> DEFINE p == ProviderOf(c)
               m == ModelOf(c)
               s == SlotOf(c)
    <2>1. p \in Providers /\ m \in Models /\ s \in Slots
      BY <1>5, InFlightTyped DEF Fail, IInv
    <2>2. RecordFailure(p, m, s, kind, delay)
      BY <1>5 DEF Fail
    <2> HIDE DEF p, m, s
    <2>3. Circuits
      <3>1. prov' = [prov EXCEPT ![p] = CircuitAfter(prov[p], kind)]
        BY <2>2 DEF RecordFailure
      <3>2. prov[p].left > 0 => CircuitAfter(prov[p], kind).left = prov[p].left
        BY <1>1, <2>1, CircuitKeepsTime
      <3> QED
        BY <1>1, <1>2, <2>1, <3>1, <3>2
    <2>4. Lockouts
      BY <1>1, <1>2, <2>1, <2>2 DEF RecordFailure, LockoutAfter
    <2>5. Credentials
      <3>1. cred' = [cred EXCEPT ![<<p, s>>] = CredentialAfter(cred[<<p, s>>], m, kind, delay)]
        BY <2>2 DEF RecordFailure
      <3>2. cred[<<p, s>>].left > 0 /\ ~cred[<<p, s>>].probe
              /\ CredentialAfter(cred[<<p, s>>], m, kind, delay).state = cred[<<p, s>>].state
            => CredentialAfter(cred[<<p, s>>], m, kind, delay).left = cred[<<p, s>>].left
        BY <1>1, <2>1, CredentialKeepsTime
      <3> QED
        BY <1>1, <1>2, <2>1, <3>1, <3>2
    <2> QED
      BY <2>3, <2>4, <2>5
  <1>6. ASSUME NEW c \in Callers, Succeed(c) PROVE Circuits /\ Lockouts /\ Credentials
    BY <1>1, <1>2, <1>6 DEF Succeed, RecordSuccess, Closed, Ready, NoLockout
  <1>7. ASSUME NEW p \in Providers, Reset(p) PROVE Circuits /\ Lockouts /\ Credentials
    <2>1. CASE ResetProvider(p)
      <3>1. /\ \A q \in Providers : prov'[q] = prov[q] \/ prov'[q] = Closed
            /\ \A k \in Providers \X Slots : cred'[k] = cred[k] \/ cred'[k] = Ready
            /\ \A k \in Providers \X Models : mdl'[k] = mdl[k] \/ mdl'[k] = NoLockout
        BY <1>1, <2>1 DEF ResetProvider
      <3> QED
        BY <1>2, <3>1 DEF Closed, Ready, NoLockout
    <2>2. ASSUME NEW m \in Models, ResetModel(p, m) PROVE Circuits /\ Lockouts /\ Credentials
      BY <1>1, <1>2, <2>2 DEF ResetModel, NoLockout
    <2> QED
      BY <1>7, <2>1, <2>2 DEF Reset
  <1>8. CASE Restart
    <2>1. /\ prov' = [p \in Providers |-> SavedCircuit(prov[p])]
          /\ cred' = [k \in Providers \X Slots |-> SavedCredential(cred[k])]
          /\ mdl' = [k \in Providers \X Models |-> SavedLockout(mdl[k])]
      BY <1>1, <1>8 DEF Restart, RestartKeepsPenalties, Saved
    <2> QED
      BY <1>1, <2>1, SavedShrinks
  <1>9. CASE Tick
    BY <1>1, <1>2, <1>9 DEF Tick, AgePenalties, Aged, CircuitRecords, CredentialRecords,
       LockoutRecords
  <1>10. CASE UNCHANGED resVars
    BY <1>2, <1>10 DEF resVars
  <1>11. ~RestartUnreadable
    BY DEF RestartUnreadable
  <1> QED
    BY <1>4, <1>5, <1>6, <1>7, <1>8, <1>9, <1>10, <1>11
       DEF Next, Ask, Report, Admit, Refuse, RecordQuota, vars

\* A failure that was already under way never extends a penalty, and no
\* restart does, whatever the interleaving of the callers.
THEOREM PenaltiesAreNotExtended == ~FileFaults /\ Spec => NoPenaltyExtension
  <1> SUFFICES ASSUME ~FileFaults PROVE Spec => NoPenaltyExtension
    OBVIOUS
  <1>1. IInv /\ RestartKeepsPenalties /\ [Next]_vars => PenaltiesOnlyShrink
    BY NextShrinksPenalties
  <1>2. Spec => []RestartKeepsPenalties
    BY FileKeepsPenalties
  <1> QED
    BY <1>1, <1>2, AlwaysIInv, PTL DEF Spec, NoPenaltyExtension

(* Reservations.                                                           *)

\* The file never holds a reservation.
FileHoldsNoProbe ==
    /\ \A p \in Providers : ~disk.prov[p].probe
    /\ \A k \in Providers \X Slots : ~disk.cred[k].probe

\* Nothing that is saved holds one.
LEMMA SavedHoldsNoProbe ==
    ASSUME NEW P, NEW C, NEW M, Sound(P, C, M)
    PROVE  /\ \A p \in Providers : ~Saved(P, C, M).prov[p].probe
           /\ \A k \in Providers \X Slots : ~Saved(P, C, M).cred[k].probe
  BY ProbesReleased DEF Saved, Sound

\* No step puts one into the file.
LEMMA NextHoldsNoProbe ==
    ASSUME IInv, IInv', FileHoldsNoProbe, [Next]_vars
    PROVE  FileHoldsNoProbe'
  <1>1. CASE disk' = disk
    BY <1>1 DEF FileHoldsNoProbe
  <1>2. CASE disk' = Saved(prov', cred', mdl')
    BY <1>2, SavedHoldsNoProbe DEF FileHoldsNoProbe, IInv
  <1>3. CASE Tick
    <2>1. Sound(Aged(disk.prov), Aged(disk.cred), Aged(disk.mdl))
      BY AgedKeepsSound DEF IInv
    <2> QED
      BY <1>3, <2>1, SavedHoldsNoProbe DEF FileHoldsNoProbe, Tick
  <1> QED
    BY <1>1, <1>2, <1>3 DEF Next, Ask, Report, Admit, Refuse, Fail, Succeed, RecordQuota,
       Reset, Restart, RestartUnreadable, SavesAsk, PersistIf, Persist, vars

\* The attempt of c holds a probe of the circuit of p, or of the slot s.
HoldsCircuit(c, p) == InFlight(c) /\ ProviderOf(c) = p /\ "provider" \in calls[c].held
HoldsSlot(c, p, s) == InFlight(c) /\ ProviderOf(c) = p /\ SlotOf(c) = s
                        /\ "credential" \in calls[c].held

\* Every step that leaves a probe reserved leaves its owner in flight.
LEMMA NextKeepsOwner ==
    ASSUME IInv, FileHoldsNoProbe, ReservationHasOwner, [Next]_vars
    PROVE  ReservationHasOwner'
  <1> DEFINE Circuits == \A p \in Providers : prov'[p].probe =>
                             \E c \in Callers : HoldsCircuit(c, p)'
             Credentials == \A p \in Providers, s \in Slots : cred'[<<p, s>>].probe =>
                                \E c \in Callers : HoldsSlot(c, p, s)'
  <1>1. /\ \A p \in Providers : prov[p] \in CircuitRecords /\ GoodCircuit(prov[p])
        /\ \A k \in Providers \X Slots : cred[k] \in CredentialRecords /\ GoodSlot(cred[k])
        /\ prov \in [Providers -> CircuitRecords]
        /\ cred \in [Providers \X Slots -> CredentialRecords]
    BY DEF IInv, Sound
  <1>2. /\ \A p \in Providers : prov[p].probe => \E c \in Callers : HoldsCircuit(c, p)
        /\ \A p \in Providers, s \in Slots : cred[<<p, s>>].probe =>
              \E c \in Callers : HoldsSlot(c, p, s)
    BY DEF ReservationHasOwner, HoldsCircuit, HoldsSlot
  <1>3. SUFFICES Circuits /\ Credentials
    BY DEF ReservationHasOwner, HoldsCircuit, HoldsSlot
  <1>4. ASSUME NEW c \in Callers, NEW p \in Providers, NEW m \in Models, NEW s \in Slots,
               Admit(c, p, m, s)
        PROVE  Circuits /\ Credentials
    <2>1. calls[c] = NoCall /\ calls \in [Callers -> Attempts \cup {NoCall}]
      BY <1>4 DEF Admit, InFlight, IInv
    <2>2. \A d \in Callers : d # c => calls'[d] = calls[d]
      BY <1>4, <2>1 DEF Admit
    <2>3. /\ calls'[c].at = <<p, m, s>>
          /\ TakesProviderProbe(p) => "provider" \in calls'[c].held
          /\ TakesCredentialProbe(p, s) => "credential" \in calls'[c].held
          /\ calls'[c] # NoCall
      BY <1>4, <2>1 DEF Admit, NoCall
    <2>4. Circuits
      <3>1. ASSUME NEW q \in Providers, prov'[q].probe PROVE \E d \in Callers : HoldsCircuit(d, q)'
        <4>1. CASE TakesProviderProbe(p) /\ q = p
          BY <2>3, <4>1 DEF HoldsCircuit, InFlight, ProviderOf
        <4>2. CASE ~(TakesProviderProbe(p) /\ q = p)
          <5>1. prov[q].probe
            BY <1>1, <1>4, <3>1, <4>2 DEF Admit, GateAdmit
          <5>2. PICK d \in Callers : HoldsCircuit(d, q)
            BY <1>2, <5>1
          <5> QED
            BY <2>1, <2>2, <5>2 DEF HoldsCircuit, InFlight, ProviderOf
        <4> QED
          BY <4>1, <4>2
      <3> QED
        BY <3>1
    <2>5. Credentials
      <3>1. ASSUME NEW q \in Providers, NEW t \in Slots, cred'[<<q, t>>].probe
            PROVE  \E d \in Callers : HoldsSlot(d, q, t)'
        <4>1. CASE TakesCredentialProbe(p, s) /\ q = p /\ t = s
          BY <2>3, <4>1 DEF HoldsSlot, InFlight, ProviderOf, SlotOf
        <4>2. CASE ~(TakesCredentialProbe(p, s) /\ q = p /\ t = s)
          <5>1. cred[<<q, t>>].probe
            <6>1. cred' = [cred EXCEPT ![<<p, s>>] = Reserved(cred[<<p, s>>])]
              BY <1>4 DEF Admit, GateAdmit
            <6>2. ~TakesCredentialProbe(p, s) =>
                    Reserved(cred[<<p, s>>]).probe = cred[<<p, s>>].probe
              BY <1>1 DEF TakesCredentialProbe, Reserved, Thawed, CredentialRecords
            <6> QED
              BY <1>1, <3>1, <4>2, <6>1, <6>2
          <5>2. PICK d \in Callers : HoldsSlot(d, q, t)
            BY <1>2, <5>1
          <5> QED
            BY <2>1, <2>2, <5>2 DEF HoldsSlot, InFlight, ProviderOf, SlotOf
        <4> QED
          BY <4>1, <4>2
      <3> QED
        BY <3>1
    <2> QED
      BY <2>4, <2>5
  <1>5. ASSUME calls' = calls,
               \A p \in Providers : prov'[p].probe => prov[p].probe,
               \A k \in Providers \X Slots : cred'[k].probe => cred[k].probe
        PROVE  Circuits /\ Credentials
    <2>1. \A c \in Callers, p \in Providers :
              /\ HoldsCircuit(c, p)' <=> HoldsCircuit(c, p)
              /\ \A s \in Slots : HoldsSlot(c, p, s)' <=> HoldsSlot(c, p, s)
      BY <1>5 DEF HoldsCircuit, HoldsSlot, InFlight, ProviderOf, SlotOf
    <2>2. Circuits
      <3> SUFFICES ASSUME NEW p \in Providers, prov'[p].probe
                   PROVE  \E c \in Callers : HoldsCircuit(c, p)'
        OBVIOUS
      <3>1. PICK c \in Callers : HoldsCircuit(c, p)
        BY <1>2, <1>5
      <3> QED
        BY <2>1, <3>1
    <2>3. Credentials
      <3> SUFFICES ASSUME NEW p \in Providers, NEW s \in Slots, cred'[<<p, s>>].probe
                   PROVE  \E c \in Callers : HoldsSlot(c, p, s)'
        OBVIOUS
      <3>1. PICK c \in Callers : HoldsSlot(c, p, s)
        BY <1>2, <1>5
      <3> QED
        BY <2>1, <3>1
    <2> QED
      BY <2>2, <2>3
  <1>6. ASSUME NEW c \in Callers, NEW p \in Providers, NEW m \in Models, NEW s \in Slots,
               Refuse(c, p, m, s)
        PROVE  Circuits /\ Credentials
    <2>1. prov' = prov /\ calls' = calls
      BY <1>6 DEF Refuse, GateRefuse, resVars
    <2>2. cred' = cred \/ cred' = [cred EXCEPT ![<<p, s>>] = Thawed(cred[<<p, s>>])]
      BY <1>6 DEF Refuse, GateRefuse, resVars
    <2>3. Thawed(cred[<<p, s>>]).probe = cred[<<p, s>>].probe
      BY <1>1 DEF Thawed, CredentialRecords
    <2> QED
      BY <1>1, <1>5, <2>1, <2>2, <2>3
  <1>7. ASSUME NEW c \in Callers, InFlight(c), calls' = [calls EXCEPT ![c] = NoCall],
               NEW r, NEW d, r.probe = FALSE, d.probe = FALSE,
               prov' = [prov EXCEPT ![ProviderOf(c)] = r],
               cred' = [cred EXCEPT ![<<ProviderOf(c), SlotOf(c)>>] = d]
        PROVE  Circuits /\ Credentials
    <2>1. ProviderOf(c) \in Providers /\ SlotOf(c) \in Slots
      BY <1>7, InFlightTyped DEF IInv
    <2>2. \A b \in Callers : b # c => calls'[b] = calls[b]
      BY <1>7 DEF IInv
    <2>3. Circuits
      <3>1. ASSUME NEW q \in Providers, prov'[q].probe PROVE \E b \in Callers : HoldsCircuit(b, q)'
        <4>1. q # ProviderOf(c) /\ prov[q].probe
          BY <1>1, <1>7, <2>1, <3>1
        <4>2. PICK b \in Callers : HoldsCircuit(b, q)
          BY <1>2, <4>1
        <4>3. b # c
          BY <4>1, <4>2 DEF HoldsCircuit
        <4> QED
          BY <2>2, <4>2, <4>3 DEF HoldsCircuit, InFlight, ProviderOf
      <3> QED
        BY <3>1
    <2>4. Credentials
      <3>1. ASSUME NEW q \in Providers, NEW t \in Slots, cred'[<<q, t>>].probe
            PROVE  \E b \in Callers : HoldsSlot(b, q, t)'
        <4>1. <<q, t>> # <<ProviderOf(c), SlotOf(c)>> /\ cred[<<q, t>>].probe
          BY <1>1, <1>7, <2>1, <3>1
        <4>2. PICK b \in Callers : HoldsSlot(b, q, t)
          BY <1>2, <4>1
        <4>3. b # c
          BY <4>1, <4>2 DEF HoldsSlot
        <4> QED
          BY <2>2, <4>2, <4>3 DEF HoldsSlot, InFlight, ProviderOf, SlotOf
      <3> QED
        BY <3>1
    <2> QED
      BY <2>3, <2>4
  <1>8. ASSUME NEW c \in Callers, NEW kind \in FailureKinds, NEW delay \in RetryDelays,
               Fail(c, kind, delay)
        PROVE  Circuits /\ Credentials
    <2>1. ProviderOf(c) \in Providers /\ SlotOf(c) \in Slots
      BY <1>8, InFlightTyped DEF Fail, IInv
    <2>2. /\ CircuitAfter(prov[ProviderOf(c)], kind).probe = FALSE
          /\ CredentialAfter(cred[<<ProviderOf(c), SlotOf(c)>>], ModelOf(c), kind, delay).probe
               = FALSE
      BY <1>1, <2>1, ProbesReleased
    <2> QED
      BY <1>7, <1>8, <2>2 DEF Fail, RecordFailure
  <1>9. ASSUME NEW c \in Callers, Succeed(c) PROVE Circuits /\ Credentials
    <2>1. Closed.probe = FALSE /\ Ready.probe = FALSE
      BY DEF Closed, Ready
    <2> QED
      BY <1>7, <1>9, <2>1 DEF Succeed, RecordSuccess
  <1>10. ASSUME NEW p \in Providers, Reset(p) PROVE Circuits /\ Credentials
    <2>1. /\ \A q \in Providers : prov'[q] = prov[q] \/ prov'[q] = Closed
          /\ \A k \in Providers \X Slots : cred'[k] = cred[k] \/ cred'[k] = Ready
      BY <1>1, <1>10 DEF Reset, ResetProvider, ResetModel
    <2> QED
      BY <1>5, <1>10, <2>1 DEF Reset, Closed, Ready
  <1>11. CASE Restart
    BY <1>11 DEF Restart, FileHoldsNoProbe
  <1>12. CASE RestartUnreadable
    BY <1>12 DEF RestartUnreadable, Closed, Ready
  <1>13. CASE Tick
    BY <1>1, <1>5, <1>13 DEF Tick, AgePenalties, Aged, CircuitRecords, CredentialRecords
  <1>14. CASE UNCHANGED vars \/ \E c \in Callers : RecordQuota(c)
    BY <1>5, <1>14 DEF vars, resVars, RecordQuota
  <1> QED
    BY <1>4, <1>6, <1>8, <1>9, <1>10, <1>11, <1>12, <1>13, <1>14 DEF Next, Ask, Report

\* A recovery probe never outlives the attempt that took it, even over a
\* restart from a file that missed writes.
THEOREM ReservationsHaveOwners == Spec => []ReservationHasOwner
  <1>1. Init => ReservationHasOwner /\ FileHoldsNoProbe
    <2> SUFFICES ASSUME Init PROVE ReservationHasOwner /\ FileHoldsNoProbe
      OBVIOUS
    <2>1. ReservationHasOwner
      BY DEF Init, ResilienceInit, ReservationHasOwner, Closed, Ready
    <2>2. Sound(prov, cred, mdl)
      BY InitSound DEF Init
    <2> QED
      BY <2>1, <2>2, SavedHoldsNoProbe DEF Init, FileHoldsNoProbe
  <1>2. IInv /\ IInv' /\ FileHoldsNoProbe /\ ReservationHasOwner /\ [Next]_vars
          => FileHoldsNoProbe' /\ ReservationHasOwner'
    BY NextHoldsNoProbe, NextKeepsOwner
  <1> QED
    BY <1>1, <1>2, AlwaysIInv, PTL DEF Spec
=============================================================================
