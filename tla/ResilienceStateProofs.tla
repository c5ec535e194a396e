--------------------------- MODULE ResilienceStateProofs ---------------------------
(***************************************************************************)
(* What each operation of ResilienceState.tla keeps, for any providers,    *)
(* models, slots, limits and times.                                        *)
(***************************************************************************)
EXTENDS ResilienceState, FiniteSetTheorems, TLAPS

(* What the operators on one record return.                                *)

\* The doubling of a capped counter is a number of windows.
LEMMA DoubledType == \A n \in 0..4 : Doubled(n) \in Nat
  BY DEF Doubled

\* The window of a stopped slot is a number of ticks.
LEMMA WindowType == \A n \in 0..4 : TerminalWindow(n) \in Nat
  <1> SUFFICES ASSUME NEW n \in 0..4 PROVE TerminalWindow(n) \in Nat
    OBVIOUS
  <1>1. Least(TerminalMaxScale, Doubled(n)) \in Nat
    BY DoubledType, LimitsAssumption DEF Least
  <1> QED
    BY <1>1, TimesAssumption DEF TerminalWindow

\* The records a reset or a success leaves behind.
LEMMA FreshRecords ==
    /\ Closed \in CircuitRecords
    /\ Ready \in CredentialRecords
    /\ NoLockout \in LockoutRecords
  BY LimitsAssumption DEF Closed, Ready, NoLockout, CircuitRecords,
     CredentialRecords, LockoutRecords

\* record_failure leaves a circuit a circuit.
LEMMA CircuitAfterType ==
    ASSUME NEW r \in CircuitRecords, NEW kind
    PROVE  CircuitAfter(r, kind) \in CircuitRecords
  <1>0. Least(ProviderThreshold, r.failures + 1) \in 0..ProviderThreshold
    BY LimitsAssumption DEF CircuitRecords, Least
  <1>1. Counted(r) \in CircuitRecords
    BY <1>0 DEF Counted, CircuitRecords
  <1>2. [Counted(r) EXCEPT !.state = "open", !.left = ProviderCooldown] \in CircuitRecords
    BY <1>1, TimesAssumption DEF CircuitRecords
  <1> QED
    BY <1>1, <1>2, FreshRecords DEF CircuitAfter

\* Convicting a slot gives it a conviction count and a window.
LEMMA StoppedType ==
    \A e \in CredentialRecords : \A n \in 1..4 :
        [e EXCEPT !.state = "terminal", !.convictions = n,
                  !.left = TerminalWindow(n)] \in CredentialRecords
  <1> SUFFICES ASSUME NEW e \in CredentialRecords, NEW n \in 1..4
               PROVE  [e EXCEPT !.state = "terminal", !.convictions = n,
                                !.left = TerminalWindow(n)] \in CredentialRecords
    OBVIOUS
  <1>1. TerminalWindow(n) \in Nat /\ n \in 0..4
    BY WindowType
  <1> HIDE DEF TerminalWindow
  <1>2. \A w \in Nat : [e EXCEPT !.state = "terminal", !.convictions = n, !.left = w]
                          \in CredentialRecords
    BY <1>1 DEF CredentialRecords
  <1> QED
    BY <1>1, <1>2

\* record_failure leaves a slot a slot.
LEMMA CredentialAfterType ==
    ASSUME NEW c \in CredentialRecords, NEW m \in Models, NEW kind, NEW delay \in Nat
    PROVE  CredentialAfter(c, m, kind, delay) \in CredentialRecords
  <1>1. Released(c) \in CredentialRecords
    BY DEF Released, CredentialRecords
  <1>2. ASSUME NEW d \in CredentialRecords PROVE Forbidden(d, m) \in CredentialRecords
    <2> DEFINE seen == IF Cardinality(d.forbidden) < ForbiddenThreshold
                       THEN d.forbidden \cup {m} ELSE d.forbidden
               n == Greatest(1, d.convictions)
               suspect == [d EXCEPT !.forbidden = seen]
    <2>1. seen \in SUBSET Models /\ n \in 1..4
      BY <1>2 DEF CredentialRecords, Greatest
    <2>2. suspect \in CredentialRecords
      BY <1>2, <2>1 DEF CredentialRecords
    <2>3. [suspect EXCEPT !.state = "terminal", !.convictions = n,
                          !.left = TerminalWindow(n)] \in CredentialRecords
      <3> HIDE DEF n, suspect
      <3> QED
        BY <2>1, <2>2, StoppedType
    <2> QED
      BY <2>2, <2>3 DEF Forbidden
  <1>3. Released(Convicted(c)) \in CredentialRecords
    <2> DEFINE n == IF c.state = "terminal" THEN Least(4, c.convictions + 1) ELSE 1
    <2>1. n \in 1..4
      BY DEF CredentialRecords, Least
    <2>2. [Ready EXCEPT !.state = "terminal", !.convictions = n,
                        !.left = TerminalWindow(n)] \in CredentialRecords
      <3> HIDE DEF n
      <3> QED
        BY <2>1, FreshRecords, StoppedType
    <2>3. Convicted(c) \in CredentialRecords
      BY <2>2 DEF Convicted
    <2> QED
      BY <2>3 DEF Released, CredentialRecords
  <1>4. ASSUME NEW d \in CredentialRecords PROVE CooledDown(d, kind, delay) \in CredentialRecords
    <2> DEFINE ticks == IF delay > 0 THEN delay
                        ELSE IF kind = "quota_exhausted"
                             THEN CredentialCooldown * QuotaScale
                             ELSE CredentialCooldown
    <2>1. ticks \in Nat
      BY TimesAssumption, LimitsAssumption
    <2>2. [Ready EXCEPT !.state = "cooldown", !.left = ticks] \in CredentialRecords
      BY <2>1, FreshRecords DEF CredentialRecords
    <2> QED
      BY <1>4, <2>2 DEF CooledDown
  <1> QED
    BY <1>1, <1>2, <1>3, <1>4 DEF CredentialAfter

\* record_failure leaves a lockout a lockout.
LEMMA LockoutAfterType ==
    ASSUME NEW r \in LockoutRecords, NEW kind
    PROVE  LockoutAfter(r, kind) \in LockoutRecords
  <1> DEFINE n == Least(4, r.failures + 1)
  <1>1. n \in 0..4
    BY DEF LockoutRecords, Least
  <1>2. ModelCooldown * Doubled(n) \in Nat
    BY <1>1, DoubledType, TimesAssumption
  <1> QED
    BY <1>1, <1>2 DEF LockoutAfter, LockoutRecords

(* The shapes CircuitShape and SlotShape speak of, record by record.       *)

\* No models are too few to convict, and any suspects can be counted.
LEMMA Counting ==
    /\ Cardinality({}) = 0
    /\ \A S \in SUBSET Models : Cardinality(S) \in Nat
  BY ModelsAssumption, FS_EmptySet, FS_Subset, FS_CardinalityType

\* The records a reset or a success leaves behind are well shaped.
LEMMA FreshShapes == GoodCircuit(Closed) /\ GoodSlot(Ready)
  BY LimitsAssumption, Counting DEF GoodCircuit, GoodSlot, Closed, Ready

\* A failure keeps a circuit's shape.
LEMMA CircuitAfterShape ==
    ASSUME NEW r \in CircuitRecords, GoodCircuit(r), NEW kind
    PROVE  GoodCircuit(CircuitAfter(r, kind))
  <1> DEFINE n == Least(ProviderThreshold, r.failures + 1)
  <1>1. /\ Counted(r).state = r.state /\ Counted(r).left = r.left
        /\ Counted(r).probe = FALSE /\ Counted(r).failures = n
        /\ Counted(r) \in CircuitRecords
    <2>1. n \in 0..ProviderThreshold
      BY LimitsAssumption DEF CircuitRecords, Least
    <2> HIDE DEF n
    <2> QED
      BY <2>1 DEF Counted, CircuitRecords, n
  <1>2. CASE kind \in ProviderFailures /\ Trips(r)
    <2>1. n = ProviderThreshold
      BY <1>1, <1>2, LimitsAssumption DEF Trips, GoodCircuit, CircuitRecords, Least
    <2> HIDE DEF n
    <2> QED
      BY <1>1, <1>2, <2>1, LimitsAssumption DEF CircuitAfter, GoodCircuit, CircuitRecords
  <1>3. CASE kind \in ProviderFailures /\ ~Trips(r)
    <2>1. r.state # "half_open" /\ CircuitAfter(r, kind) = Counted(r)
      BY <1>3 DEF Trips, CircuitAfter
    <2>2. CASE r.state = "closed"
      <3>1. n < ProviderThreshold
        BY <1>1, <1>3, <2>2, LimitsAssumption DEF Trips, CircuitRecords, Least
      <3> HIDE DEF n
      <3> QED
        BY <1>1, <2>1, <2>2, <3>1 DEF GoodCircuit, CircuitRecords
    <2>3. CASE r.state = "open"
      <3>1. n = ProviderThreshold
        BY <2>3, LimitsAssumption DEF GoodCircuit, CircuitRecords, Least
      <3> QED
        BY <1>1, <2>1, <2>3, <3>1 DEF GoodCircuit, CircuitRecords
    <2> QED
      BY <2>1, <2>2, <2>3 DEF CircuitRecords
  <1>4. CASE kind \notin ProviderFailures
    BY <1>4, FreshShapes DEF CircuitAfter
  <1> QED
    BY <1>2, <1>3, <1>4

\* A failure keeps a slot's shape: evidence that does not convict stays
\* below the threshold.
LEMMA CredentialAfterShape ==
    ASSUME NEW c \in CredentialRecords, GoodSlot(c),
           NEW m \in Models, NEW kind, NEW delay \in Nat
    PROVE  GoodSlot(CredentialAfter(c, m, kind, delay))
  <1>1. Released(c) \in CredentialRecords /\ GoodSlot(Released(c))
    BY DEF Released, CredentialRecords, GoodSlot
  <1>2. ASSUME NEW d \in CredentialRecords, GoodSlot(d), d.probe = FALSE
        PROVE  GoodSlot(Forbidden(d, m))
    <2> DEFINE seen == IF Cardinality(d.forbidden) < ForbiddenThreshold
                       THEN d.forbidden \cup {m} ELSE d.forbidden
               n == Greatest(1, d.convictions)
               suspect == [d EXCEPT !.forbidden = seen]
    <2>1. Cardinality(seen) \in Nat /\ n > 0
      BY <1>2, Counting DEF CredentialRecords, Greatest
    <2>2. CASE d.state # "terminal" /\ Convicts(seen)
      <3>1. Forbidden(d, m) = [suspect EXCEPT !.state = "terminal", !.convictions = n,
                                              !.left = TerminalWindow(n)]
        BY <2>2 DEF Forbidden
      <3> HIDE DEF n, seen
      <3> QED
        BY <1>2, <2>1, <3>1 DEF GoodSlot, CredentialRecords
    <2>3. CASE ~(d.state # "terminal" /\ Convicts(seen))
      <3>1. Forbidden(d, m) = suspect
        BY <2>3 DEF Forbidden
      <3>2. d.state # "terminal" => Cardinality(seen) < ForbiddenThreshold
        BY <2>1, <2>3, LimitsAssumption DEF Convicts
      <3> HIDE DEF seen
      <3> QED
        BY <1>2, <3>1, <3>2 DEF GoodSlot, CredentialRecords
    <2> QED
      BY <2>2, <2>3
  <1>3. GoodSlot(Released(Convicted(c)))
    <2> DEFINE n == IF c.state = "terminal" THEN Least(4, c.convictions + 1) ELSE 1
    <2>1. n > 0
      BY DEF CredentialRecords, Least
    <2>2. CASE c.state # "terminal" \/ c.probe
      <3>1. Convicted(c) = [Ready EXCEPT !.state = "terminal", !.convictions = n,
                                         !.left = TerminalWindow(n)]
        BY <2>2 DEF Convicted
      <3> HIDE DEF n
      <3> QED
        BY <2>1, <3>1 DEF Released, GoodSlot, Ready
    <2>3. CASE ~(c.state # "terminal" \/ c.probe)
      BY <2>3, <1>1 DEF Convicted
    <2> QED
      BY <2>2, <2>3
  <1>4. ASSUME NEW d \in CredentialRecords, GoodSlot(d)
        PROVE  GoodSlot(CooledDown(d, kind, delay))
    BY <1>4, FreshShapes, Counting, LimitsAssumption
       DEF CooledDown, GoodSlot, Ready, CredentialRecords
  <1>5. Released(c).probe = FALSE
    BY DEF Released, CredentialRecords
  <1> QED
    BY <1>1, <1>2, <1>3, <1>4, <1>5 DEF CredentialAfter

\* Admission keeps a slot's shape, whether it thaws or reserves it.
LEMMA ReservedShape ==
    ASSUME NEW c \in CredentialRecords, GoodSlot(c), ~(c.state # "ready" /\ c.left > 0)
           \/ c.state = "terminal"
    PROVE  Reserved(c) \in CredentialRecords /\ GoodSlot(Reserved(c))
  <1>1. CASE c.state = "terminal"
    <2>1. TerminalWindow(c.convictions) \in Nat
      BY WindowType DEF CredentialRecords
    <2>2. \A w \in Nat : LET d == [c EXCEPT !.left = w, !.probe = TRUE]
                         IN  d \in CredentialRecords /\ GoodSlot(d)
      BY <1>1 DEF CredentialRecords, GoodSlot
    <2> QED
      BY <1>1, <2>1, <2>2 DEF Reserved
  <1>2. CASE c.state # "terminal"
    BY <1>2 DEF Reserved, Thawed, CredentialRecords, GoodSlot
  <1> QED
    BY <1>1, <1>2

\* What a refused call tidies keeps the slot's shape.
LEMMA ThawedShape ==
    ASSUME NEW c \in CredentialRecords, GoodSlot(c), ~(c.state # "ready" /\ c.left > 0)
    PROVE  Thawed(c) \in CredentialRecords /\ GoodSlot(Thawed(c))
  BY DEF Thawed, CredentialRecords, GoodSlot

\* What the state file keeps of a record is a well-shaped record.
LEMMA SavedRecords ==
    /\ \A r \in CircuitRecords :
          GoodCircuit(r) => SavedCircuit(r) \in CircuitRecords /\ GoodCircuit(SavedCircuit(r))
    /\ \A c \in CredentialRecords :
          GoodSlot(c) => SavedCredential(c) \in CredentialRecords /\ GoodSlot(SavedCredential(c))
    /\ \A r \in LockoutRecords : SavedLockout(r) \in LockoutRecords
  <1>1. ASSUME NEW r \in CircuitRecords, GoodCircuit(r)
        PROVE  SavedCircuit(r) \in CircuitRecords /\ GoodCircuit(SavedCircuit(r))
    BY <1>1, FreshRecords, FreshShapes DEF SavedCircuit, CircuitRecords, GoodCircuit
  <1>2. ASSUME NEW c \in CredentialRecords, GoodSlot(c)
        PROVE  SavedCredential(c) \in CredentialRecords /\ GoodSlot(SavedCredential(c))
    <2>1. CASE c.state = "terminal" \/ (c.state = "cooldown" /\ c.left > 0)
      BY <1>2, <2>1 DEF SavedCredential, CredentialRecords, GoodSlot
    <2>2. CASE ~(c.state = "terminal" \/ (c.state = "cooldown" /\ c.left > 0))
      <3>1. SavedCredential(c) = [Ready EXCEPT !.forbidden = c.forbidden]
        BY <2>2 DEF SavedCredential
      <3>2. c.forbidden \in SUBSET Models /\ Cardinality(c.forbidden) < ForbiddenThreshold
        BY <1>2, <2>2 DEF CredentialRecords, GoodSlot
      <3>3. \A S \in SUBSET Models : [Ready EXCEPT !.forbidden = S] \in CredentialRecords
        BY FreshRecords DEF CredentialRecords
      <3>4. GoodSlot(SavedCredential(c))
        BY <3>1, <3>2 DEF GoodSlot, Ready
      <3> QED
        BY <3>1, <3>2, <3>3, <3>4
    <2> QED
      BY <2>1, <2>2
  <1>3. \A r \in LockoutRecords : SavedLockout(r) \in LockoutRecords
    BY FreshRecords DEF SavedLockout
  <1> QED
    BY <1>1, <1>2, <1>3

\* A tick keeps the type and the shape of every layer.
LEMMA AgedRecords ==
    /\ \A P \in [Providers -> CircuitRecords] :
          /\ Aged(P) \in [Providers -> CircuitRecords]
          /\ \A p \in Providers : GoodCircuit(P[p]) => GoodCircuit(Aged(P)[p])
    /\ \A C \in [Providers \X Slots -> CredentialRecords] :
          /\ Aged(C) \in [Providers \X Slots -> CredentialRecords]
          /\ \A k \in Providers \X Slots : GoodSlot(C[k]) => GoodSlot(Aged(C)[k])
    /\ \A M \in [Providers \X Models -> LockoutRecords] :
          Aged(M) \in [Providers \X Models -> LockoutRecords]
  <1>1. \A n \in Nat : (IF n > 0 THEN n - 1 ELSE 0) \in Nat
    OBVIOUS
  <1>2. \A r \in CircuitRecords : \A w \in Nat : [r EXCEPT !.left = w] \in CircuitRecords
    BY DEF CircuitRecords
  <1>3. \A c \in CredentialRecords : \A w \in Nat : [c EXCEPT !.left = w] \in CredentialRecords
    BY DEF CredentialRecords
  <1>4. \A l \in LockoutRecords : \A w \in Nat : [l EXCEPT !.left = w] \in LockoutRecords
    BY DEF LockoutRecords
  <1>5. ASSUME NEW P \in [Providers -> CircuitRecords]
        PROVE  /\ Aged(P) \in [Providers -> CircuitRecords]
               /\ \A p \in Providers : GoodCircuit(P[p]) => GoodCircuit(Aged(P)[p])
    BY <1>1, <1>2 DEF Aged, GoodCircuit, CircuitRecords
  <1>6. ASSUME NEW C \in [Providers \X Slots -> CredentialRecords]
        PROVE  /\ Aged(C) \in [Providers \X Slots -> CredentialRecords]
               /\ \A k \in Providers \X Slots : GoodSlot(C[k]) => GoodSlot(Aged(C)[k])
    BY <1>1, <1>3 DEF Aged, GoodSlot, CredentialRecords
  <1>7. ASSUME NEW M \in [Providers \X Models -> LockoutRecords]
        PROVE  Aged(M) \in [Providers \X Models -> LockoutRecords]
    BY <1>1, <1>4 DEF Aged, LockoutRecords
  <1> QED
    BY <1>5, <1>6, <1>7
(* What each operation keeps.                                              *)

\* Replacing one record of each layer by a good one keeps them sound.
LEMMA UpdatesKeepSound ==
    ASSUME NEW P, NEW C, NEW M, Sound(P, C, M),
           NEW p \in Providers, NEW k \in Providers \X Slots, NEW j \in Providers \X Models,
           NEW r \in CircuitRecords, GoodCircuit(r),
           NEW c \in CredentialRecords, GoodSlot(c),
           NEW l \in LockoutRecords
    PROVE  Sound([P EXCEPT ![p] = r], [C EXCEPT ![k] = c], [M EXCEPT ![j] = l])
  BY DEF Sound

\* Admission keeps the layers sound: it half-opens a circuit only when its
\* time is over, and reserves or thaws the slot.
LEMMA AdmitKeepsSound ==
    ASSUME Sound(prov, cred, mdl), NEW p \in Providers, NEW m \in Models, NEW s \in Slots,
           GateAdmit(p, m, s)
    PROVE  Sound(prov', cred', mdl')
  <1> DEFINE half == [prov[p] EXCEPT !.state = "half_open", !.probe = TRUE]
             circuit == IF TakesProviderProbe(p) THEN half ELSE prov[p]
             slot == Reserved(cred[<<p, s>>])
  <1>1. /\ prov[p] \in CircuitRecords /\ GoodCircuit(prov[p])
        /\ cred[<<p, s>>] \in CredentialRecords /\ GoodSlot(cred[<<p, s>>])
    BY DEF Sound
  <1>2. circuit \in CircuitRecords /\ GoodCircuit(circuit)
    <2>1. CASE TakesProviderProbe(p)
      <3>1. prov[p].state = "open" /\ prov[p].left = 0
        BY <1>1, <2>1 DEF GateAdmit, Admits, ProviderBlocks, TakesProviderProbe, CircuitRecords
      <3>2. half \in CircuitRecords /\ GoodCircuit(half)
        BY <1>1, <3>1 DEF CircuitRecords, GoodCircuit
      <3> QED
        BY <2>1, <3>2
    <2> QED
      BY <1>1, <2>1
  <1>3. slot \in CredentialRecords /\ GoodSlot(slot)
    BY <1>1, ReservedShape DEF GateAdmit, Admits, CredentialBlocks
  <1>4. /\ prov' = [prov EXCEPT ![p] = circuit]
        /\ cred' = [cred EXCEPT ![<<p, s>>] = slot]
        /\ mdl' = [mdl EXCEPT ![<<p, m>>] = NoLockout]
    BY DEF GateAdmit, Sound
  <1> HIDE DEF circuit, slot
  <1> QED
    BY <1>2, <1>3, <1>4, UpdatesKeepSound, FreshRecords

\* A refused call keeps the layers sound.
LEMMA RefuseKeepsSound ==
    ASSUME Sound(prov, cred, mdl), NEW p \in Providers, NEW m \in Models, NEW s \in Slots,
           GateRefuse(p, m, s)
    PROVE  Sound(prov', cred', mdl')
  <1> DEFINE slot == Thawed(cred[<<p, s>>])
             lockout == IF ModelBlocks(p, m) THEN mdl[<<p, m>>] ELSE NoLockout
  <1>1. /\ prov[p] \in CircuitRecords /\ GoodCircuit(prov[p])
        /\ cred[<<p, s>>] \in CredentialRecords /\ GoodSlot(cred[<<p, s>>])
        /\ mdl[<<p, m>>] \in LockoutRecords
    BY DEF Sound
  <1>2. CASE CredentialBlocks(p, s) /\ UNCHANGED resVars
    BY <1>2 DEF resVars
  <1>3. CASE ~CredentialBlocks(p, s) /\ ~(CredentialBlocks(p, s) /\ UNCHANGED resVars)
    <2>1. slot \in CredentialRecords /\ GoodSlot(slot)
      BY <1>1, <1>3, ThawedShape DEF CredentialBlocks
    <2>2. lockout \in LockoutRecords
      BY <1>1, FreshRecords
    <2>3. /\ prov' = [prov EXCEPT ![p] = prov[p]]
          /\ cred' = [cred EXCEPT ![<<p, s>>] = slot]
          /\ mdl' = [mdl EXCEPT ![<<p, m>>] = lockout]
      BY <1>3 DEF GateRefuse, Sound
    <2> HIDE DEF slot, lockout
    <2> QED
      BY <1>1, <2>1, <2>2, <2>3, UpdatesKeepSound
  <1> QED
    BY <1>2, <1>3 DEF GateRefuse

\* So does recording a failure.
LEMMA FailureKeepsSound ==
    ASSUME Sound(prov, cred, mdl), NEW p \in Providers, NEW m \in Models, NEW s \in Slots,
           NEW kind, NEW delay \in Nat, RecordFailure(p, m, s, kind, delay)
    PROVE  Sound(prov', cred', mdl')
  <1>1. /\ prov[p] \in CircuitRecords /\ GoodCircuit(prov[p])
        /\ cred[<<p, s>>] \in CredentialRecords /\ GoodSlot(cred[<<p, s>>])
        /\ mdl[<<p, m>>] \in LockoutRecords
    BY DEF Sound
  <1>2. /\ CircuitAfter(prov[p], kind) \in CircuitRecords
        /\ GoodCircuit(CircuitAfter(prov[p], kind))
    BY <1>1, CircuitAfterType, CircuitAfterShape
  <1>3. /\ CredentialAfter(cred[<<p, s>>], m, kind, delay) \in CredentialRecords
        /\ GoodSlot(CredentialAfter(cred[<<p, s>>], m, kind, delay))
    BY <1>1, CredentialAfterType, CredentialAfterShape
  <1>4. LockoutAfter(mdl[<<p, m>>], kind) \in LockoutRecords
    BY <1>1, LockoutAfterType
  <1>5. /\ prov' = [prov EXCEPT ![p] = CircuitAfter(prov[p], kind)]
        /\ cred' = [cred EXCEPT ![<<p, s>>] = CredentialAfter(cred[<<p, s>>], m, kind, delay)]
        /\ mdl' = [mdl EXCEPT ![<<p, m>>] = LockoutAfter(mdl[<<p, m>>], kind)]
    BY DEF RecordFailure
  <1> QED
    BY <1>2, <1>3, <1>4, <1>5, UpdatesKeepSound

\* So does recording a success.
LEMMA SuccessKeepsSound ==
    ASSUME Sound(prov, cred, mdl), NEW p \in Providers, NEW m \in Models, NEW s \in Slots,
           RecordSuccess(p, m, s)
    PROVE  Sound(prov', cred', mdl')
  BY UpdatesKeepSound, FreshRecords, FreshShapes DEF RecordSuccess

\* So do both resets.
LEMMA ResetKeepsSound ==
    ASSUME Sound(prov, cred, mdl), NEW p \in Providers,
           ResetProvider(p) \/ \E m \in Models : ResetModel(p, m)
    PROVE  Sound(prov', cred', mdl')
  <1>1. CASE ResetProvider(p)
    BY <1>1, FreshRecords, FreshShapes DEF ResetProvider, Sound
  <1>2. ASSUME NEW m \in Models, ResetModel(p, m) PROVE Sound(prov', cred', mdl')
    BY <1>2, FreshRecords DEF ResetModel, Sound
  <1> QED
    BY <1>1, <1>2

\* So does a tick, on any sound layers.
LEMMA AgedKeepsSound ==
    ASSUME NEW P, NEW C, NEW M, Sound(P, C, M)
    PROVE  Sound(Aged(P), Aged(C), Aged(M))
  BY AgedRecords DEF Sound

\* What is saved of sound layers is sound.
LEMMA SavedKeepsSound ==
    ASSUME NEW P, NEW C, NEW M, Sound(P, C, M)
    PROVE  LET d == Saved(P, C, M) IN Sound(d.prov, d.cred, d.mdl)
  BY SavedRecords DEF Saved, Sound

\* The layers start sound.
LEMMA InitSound == ResilienceInit => Sound(prov, cred, mdl)
  BY FreshRecords, FreshShapes DEF ResilienceInit, Sound

(* The state file: loading twice, or a tick before loading, is no          *)
(* different from loading once.                                            *)

\* Loading a record that was loaded changes nothing.
LEMMA SavedTwice ==
    /\ \A r \in CircuitRecords : SavedCircuit(SavedCircuit(r)) = SavedCircuit(r)
    /\ \A c \in CredentialRecords : SavedCredential(SavedCredential(c)) = SavedCredential(c)
    /\ \A r \in LockoutRecords : SavedLockout(SavedLockout(r)) = SavedLockout(r)
  <1>1. ASSUME NEW r \in CircuitRecords PROVE SavedCircuit(SavedCircuit(r)) = SavedCircuit(r)
    BY DEF SavedCircuit, CircuitRecords, Closed
  <1>2. ASSUME NEW c \in CredentialRecords
        PROVE  SavedCredential(SavedCredential(c)) = SavedCredential(c)
    BY DEF SavedCredential, CredentialRecords, Ready
  <1>3. ASSUME NEW r \in LockoutRecords PROVE SavedLockout(SavedLockout(r)) = SavedLockout(r)
    BY DEF SavedLockout, LockoutRecords, NoLockout
  <1> QED
    BY <1>1, <1>2, <1>3

\* A record loaded after a tick is the same whether it was saved before it.
LEMMA SavedTick ==
    /\ \A r \in CircuitRecords : GoodCircuit(r) =>
          SavedCircuit([SavedCircuit(r) EXCEPT !.left = IF @ > 0 THEN @ - 1 ELSE 0])
            = SavedCircuit([r EXCEPT !.left = IF @ > 0 THEN @ - 1 ELSE 0])
    /\ \A c \in CredentialRecords : GoodSlot(c) =>
          SavedCredential([SavedCredential(c) EXCEPT !.left = IF @ > 0 THEN @ - 1 ELSE 0])
            = SavedCredential([c EXCEPT !.left = IF @ > 0 THEN @ - 1 ELSE 0])
    /\ \A r \in LockoutRecords :
          SavedLockout([SavedLockout(r) EXCEPT !.left = IF @ > 0 THEN @ - 1 ELSE 0])
            = SavedLockout([r EXCEPT !.left = IF @ > 0 THEN @ - 1 ELSE 0])
  <1>1. ASSUME NEW r \in CircuitRecords, GoodCircuit(r)
        PROVE  SavedCircuit([SavedCircuit(r) EXCEPT !.left = IF @ > 0 THEN @ - 1 ELSE 0])
                 = SavedCircuit([r EXCEPT !.left = IF @ > 0 THEN @ - 1 ELSE 0])
    <2> DEFINE aged == [r EXCEPT !.left = IF @ > 0 THEN @ - 1 ELSE 0]
               quiet == [r EXCEPT !.state = "open", !.probe = FALSE]
    <2>1. CASE r.state = "open" /\ r.left > 0
      <3>1. SavedCircuit(r) = quiet
        BY <2>1 DEF SavedCircuit
      <3>2. SavedCircuit([quiet EXCEPT !.left = IF @ > 0 THEN @ - 1 ELSE 0])
              = SavedCircuit(aged)
        BY <2>1 DEF SavedCircuit, CircuitRecords
      <3> QED
        BY <3>1, <3>2
    <2>2. CASE ~(r.state = "open" /\ r.left > 0)
      <3>1. r.left = 0
        BY <1>1, <2>2 DEF GoodCircuit, CircuitRecords
      <3>2. SavedCircuit(r) = Closed
        BY <3>1 DEF SavedCircuit
      <3>3. [Closed EXCEPT !.left = IF @ > 0 THEN @ - 1 ELSE 0] = Closed
        BY DEF Closed
      <3>4. SavedCircuit(aged) = Closed
        BY <3>1 DEF SavedCircuit, CircuitRecords
      <3>5. SavedCircuit(Closed) = Closed
        BY DEF SavedCircuit, Closed
      <3> QED
        BY <3>2, <3>3, <3>4, <3>5
    <2> QED
      BY <2>1, <2>2
  <1>2. ASSUME NEW c \in CredentialRecords, GoodSlot(c)
        PROVE  SavedCredential([SavedCredential(c) EXCEPT !.left = IF @ > 0 THEN @ - 1 ELSE 0])
                 = SavedCredential([c EXCEPT !.left = IF @ > 0 THEN @ - 1 ELSE 0])
    <2> DEFINE aged == [c EXCEPT !.left = IF @ > 0 THEN @ - 1 ELSE 0]
               quiet == [c EXCEPT !.probe = FALSE]
               fresh == [Ready EXCEPT !.forbidden = c.forbidden]
    <2>1. CASE c.state = "terminal" \/ (c.state = "cooldown" /\ c.left > 0)
      <3>1. SavedCredential(c) = quiet
        BY <2>1 DEF SavedCredential
      <3>2. SavedCredential([quiet EXCEPT !.left = IF @ > 0 THEN @ - 1 ELSE 0])
              = SavedCredential(aged)
        BY <2>1 DEF SavedCredential, CredentialRecords
      <3> QED
        BY <3>1, <3>2
    <2>2. CASE ~(c.state = "terminal" \/ (c.state = "cooldown" /\ c.left > 0))
      <3>1. c.left = 0 /\ c.state # "terminal"
        BY <1>2, <2>2 DEF GoodSlot, CredentialRecords
      <3>2. SavedCredential(c) = fresh
        BY <2>2 DEF SavedCredential
      <3>3. /\ [fresh EXCEPT !.left = IF @ > 0 THEN @ - 1 ELSE 0].state = "ready"
            /\ [fresh EXCEPT !.left = IF @ > 0 THEN @ - 1 ELSE 0].forbidden = c.forbidden
        BY DEF Ready
      <3>4. SavedCredential([fresh EXCEPT !.left = IF @ > 0 THEN @ - 1 ELSE 0]) = fresh
        BY <3>3 DEF SavedCredential
      <3>5. SavedCredential(aged) = fresh
        BY <3>1 DEF SavedCredential, CredentialRecords
      <3> QED
        BY <3>2, <3>4, <3>5
    <2> QED
      BY <2>1, <2>2
  <1>3. ASSUME NEW r \in LockoutRecords
        PROVE  SavedLockout([SavedLockout(r) EXCEPT !.left = IF @ > 0 THEN @ - 1 ELSE 0])
                 = SavedLockout([r EXCEPT !.left = IF @ > 0 THEN @ - 1 ELSE 0])
    BY DEF SavedLockout, LockoutRecords, NoLockout
  <1> QED
    BY <1>1, <1>2, <1>3

\* The same for whole layers.
LEMMA SavedIdempotent ==
    ASSUME NEW P, NEW C, NEW M, Sound(P, C, M)
    PROVE  LET d == Saved(P, C, M) IN Saved(d.prov, d.cred, d.mdl) = d
  BY SavedTwice DEF Saved, Sound

\* The same for whole layers.
LEMMA SavedAged ==
    ASSUME NEW P, NEW C, NEW M, Sound(P, C, M)
    PROVE  LET d == Saved(P, C, M)
           IN  Saved(Aged(d.prov), Aged(d.cred), Aged(d.mdl)) = Saved(Aged(P), Aged(C), Aged(M))
  BY SavedTick DEF Saved, Sound, Aged

(* Running penalties.                                                      *)

\* A failure leaves a running circuit's time alone.
LEMMA CircuitKeepsTime ==
    ASSUME NEW r \in CircuitRecords, GoodCircuit(r), r.left > 0, NEW kind
    PROVE  CircuitAfter(r, kind).left = r.left
  <1>1. r.state = "open"
    BY DEF GoodCircuit
  <1>2. ~Trips(r)
    BY <1>1 DEF Trips
  <1>3. Counted(r).left = r.left
    BY DEF Counted, CircuitRecords
  <1> QED
    BY <1>1, <1>2, <1>3 DEF CircuitAfter

\* A failure leaves a running slot's time alone, unless the slot's probe is
\* out or the failure stops the slot.
LEMMA CredentialKeepsTime ==
    ASSUME NEW c \in CredentialRecords, GoodSlot(c), c.left > 0, ~c.probe,
           NEW m, NEW kind, NEW delay,
           CredentialAfter(c, m, kind, delay).state = c.state
    PROVE  CredentialAfter(c, m, kind, delay).left = c.left
  <1>1. c.state \in {"cooldown", "terminal"}
    BY DEF GoodSlot, CredentialRecords
  <1>2. /\ Released(c).state = c.state /\ Released(c).left = c.left
        /\ Released(c).convictions = c.convictions
    BY DEF Released, CredentialRecords
  <1>3. CASE kind = "model_forbidden"
    <2> DEFINE seen == IF Cardinality(Released(c).forbidden) < ForbiddenThreshold
                       THEN Released(c).forbidden \cup {m} ELSE Released(c).forbidden
               suspect == [Released(c) EXCEPT !.forbidden = seen]
    <2>1. CredentialAfter(c, m, kind, delay) = Forbidden(Released(c), m)
      BY <1>3 DEF CredentialAfter, CredentialTerminal, RateLimits
    <2>2. suspect.left = c.left /\ suspect.state = c.state
      BY DEF Released, CredentialRecords
    <2>3. CASE Released(c).state # "terminal" /\ Convicts(seen)
      <3>1. Forbidden(Released(c), m).state = "terminal"
        BY <2>3 DEF Forbidden, Released, CredentialRecords
      <3> QED
        BY <1>2, <2>1, <2>3, <3>1
    <2>4. CASE ~(Released(c).state # "terminal" /\ Convicts(seen))
      BY <2>1, <2>2, <2>4 DEF Forbidden
    <2> QED
      BY <2>3, <2>4
  <1>4. CASE kind \in CredentialTerminal
    <2>1. CredentialAfter(c, m, kind, delay) = Released(Convicted(c))
      BY <1>4 DEF CredentialAfter, CredentialTerminal, RateLimits
    <2>2. CASE c.state = "terminal"
      <3>1. Convicted(c) = c
        BY <2>2 DEF Convicted
      <3> QED
        BY <1>2, <2>1, <3>1
    <2>3. CASE c.state # "terminal"
      <3>1. Released(Convicted(c)).state = "terminal"
        BY <2>3 DEF Convicted, Released, Ready
      <3> QED
        BY <2>1, <2>3, <3>1
    <2> QED
      BY <2>2, <2>3
  <1>5. CASE kind \in RateLimits
    <2>1. CredentialAfter(c, m, kind, delay) = CooledDown(Released(c), kind, delay)
      BY <1>5 DEF CredentialAfter, CredentialTerminal, RateLimits
    <2>2. CooledDown(Released(c), kind, delay) = Released(c)
      BY <1>1, <1>2 DEF CooledDown
    <2> QED
      BY <1>2, <2>1, <2>2
  <1>6. CASE kind # "model_forbidden" /\ kind \notin CredentialTerminal /\ kind \notin RateLimits
    BY <1>2, <1>6 DEF CredentialAfter
  <1> QED
    BY <1>3, <1>4, <1>5, <1>6

\* Loading a record never gives it more time.
LEMMA SavedShrinks ==
    /\ \A r \in CircuitRecords : SavedCircuit(r).left <= r.left
    /\ \A c \in CredentialRecords : SavedCredential(c).left <= c.left
    /\ \A r \in LockoutRecords : SavedLockout(r).left <= r.left
  <1>1. ASSUME NEW r \in CircuitRecords PROVE SavedCircuit(r).left <= r.left
    BY DEF SavedCircuit, CircuitRecords, Closed
  <1>2. ASSUME NEW c \in CredentialRecords PROVE SavedCredential(c).left <= c.left
    BY DEF SavedCredential, CredentialRecords, Ready
  <1>3. ASSUME NEW r \in LockoutRecords PROVE SavedLockout(r).left <= r.left
    BY DEF SavedLockout, LockoutRecords, NoLockout
  <1> QED
    BY <1>1, <1>2, <1>3

(* Reservations.                                                           *)

\* Whoever reports, and whatever, gives back the probes of the circuit and
\* the slot; and no probe is saved.
LEMMA ProbesReleased ==
    /\ \A r \in CircuitRecords : \A kind :
          GoodCircuit(r) => CircuitAfter(r, kind).probe = FALSE
    /\ \A c \in CredentialRecords : \A m, kind, delay :
          GoodSlot(c) => CredentialAfter(c, m, kind, delay).probe = FALSE
    /\ \A r \in CircuitRecords : SavedCircuit(r).probe = FALSE
    /\ \A c \in CredentialRecords : SavedCredential(c).probe = FALSE
  <1>1. ASSUME NEW r \in CircuitRecords, NEW kind, GoodCircuit(r)
        PROVE  CircuitAfter(r, kind).probe = FALSE
    <2>1. CASE kind \in ProviderFailures
      BY <2>1 DEF CircuitAfter, Counted, CircuitRecords
    <2>2. CASE kind \notin ProviderFailures
      BY <1>1, <2>2 DEF CircuitAfter, Closed, GoodCircuit, CircuitRecords
    <2> QED
      BY <2>1, <2>2
  <1>2. ASSUME NEW c \in CredentialRecords, NEW m, NEW kind, NEW delay, GoodSlot(c)
        PROVE  CredentialAfter(c, m, kind, delay).probe = FALSE
    <2>1. Released(c).probe = FALSE
      BY DEF Released, CredentialRecords
    <2>2. Forbidden(Released(c), m).probe = FALSE
      BY DEF Forbidden, Released, CredentialRecords
    <2>3. Released(Convicted(c)).probe = FALSE
      BY DEF Released, Convicted, Ready, CredentialRecords
    <2>4. CooledDown(Released(c), kind, delay).probe = FALSE
      BY <2>1 DEF CooledDown, Ready
    <2> QED
      BY <2>1, <2>2, <2>3, <2>4 DEF CredentialAfter
  <1>3. \A r \in CircuitRecords : SavedCircuit(r).probe = FALSE
    BY DEF SavedCircuit, CircuitRecords, Closed
  <1>4. \A c \in CredentialRecords : SavedCredential(c).probe = FALSE
    BY DEF SavedCredential, CredentialRecords, Ready
  <1> QED
    BY <1>1, <1>2, <1>3, <1>4
=============================================================================
