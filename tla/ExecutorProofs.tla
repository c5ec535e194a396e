--------------------------- MODULE ExecutorProofs ---------------------------
(***************************************************************************)
(* Theorems about Executor.tla, for any plans, keys, limits and answers,   *)
(* and any number of requests over one manager.                            *)
(*                                                                         *)
(* The invariants speak of one request at a time, as a predicate of the    *)
(* values of its variables: c is its pc, p its plan, t its position in it, *)
(* k its slots, tr its trail and a its audit trail.  A step of one request *)
(* leaves those of the others alone.                                       *)
(***************************************************************************)
EXTENDS Executor, ResilienceStateProofs, SequenceTheorems

AttemptRecords == [at : 1..MaxAttempts, slot : Slots, kind : Outcomes]
RowRecords == [to : 0..MaxAttempts, after : 0..MaxAttempts, outcome : Verdicts]
AuditRecords == [rows : Seq(RowRecords), pending : Nat]

\* The variables are functions of the requests.
Typed ==
    /\ pc \in [Requests -> Phases]
    /\ rest \in [Requests -> Seq(Targets)]
    /\ plan \in [Requests -> Seq(Targets)]
    /\ ti \in [Requests -> 0..MaxAttempts]
    /\ keys \in [Requests -> Seq(Slots)]
    /\ trail \in [Requests -> Seq(AttemptRecords)]
    /\ wait \in [Requests -> Nat]
    /\ budget \in [Requests -> 0..TotalBudget]
    /\ audit \in [Requests -> AuditRecords]

AtCandidate == {"gate", "retry", "flying", "after"}

\* A request stands within its plan, and starts with nothing done.
Placed(c, p, t, tr, a) ==
    /\ c \in {"idle", "planning"} => t = 0 /\ tr = <<>> /\ a = NoAudit
    /\ c = "idle" => p = <<>>
    /\ c # "planning" => Len(p) <= MaxAttempts /\ t <= Len(p)
    /\ c \in AtCandidate => t > 0

\* The slots from the current one on are untried at this candidate.
Untried(k, t, tr) == \A i \in DOMAIN tr : tr[i].at = t =>
                        \A j \in DOMAIN k : k[j] # tr[i].slot
TriedOnce(t, tr) == \A i, j \in DOMAIN tr :
    i # j /\ tr[i].at = t /\ tr[j].at = t => tr[i].slot # tr[j].slot
KeysFresh(c, t, k, tr) ==
    /\ c \in {"gate", "retry", "flying"} => IsInjective(k)
    /\ c = "gate" => Untried(k, t, tr)
    /\ c \in {"retry", "flying"} => k # <<>> /\ Untried(Tail(k), t, tr)

\* What the trail says of where the request is.
TrailFits(c, t, k, tr) ==
    /\ Len(tr) <= MaxAttempts
    /\ \A i \in DOMAIN tr : tr[i].at <= t
    /\ \A i \in DOMAIN tr : tr[i].at = t => Last(tr).at = t
    /\ c = "flying" => tr # <<>> /\ Last(tr) = [at |-> t, slot |-> Head(k), kind |-> "pending"]
    /\ c = "retry" => /\ tr # <<>> /\ TriedOnce(t, tr)
                      /\ Last(tr) = [at |-> t, slot |-> Head(k), kind |-> "rate_limited"]

\* What the newest outcome allows the request to do next.
MayGoOn(c, t, tr) ==
    tr # <<>> =>
       /\ c \notin {"flying", "done"} => Last(tr).kind \notin {"pending", "success"}
       /\ c = "next" \/ (c \in {"gate", "after"} /\ Last(tr).at < t) =>
             Last(tr).kind \notin {"credential_invalid", "invalid_request", "stalled"}
       /\ c = "gate" /\ Last(tr).at = t =>
             Last(tr).kind \in RateLimits \cup CredentialTerminal

\* The candidate a decision switched to is behind the request.
Over(c, t, to) == c = "done" \/ to < t \/ (to = t /\ c \in {"next", "after"})
NotTried(tr, row) == \A i \in DOMAIN tr : i > row.after => tr[i].at # row.to

\* What the rows of the audit trail say.
RowsHold(c, t, tr, a) ==
    /\ a.pending <= Len(a.rows)
    /\ a.pending # 0 => a.rows[a.pending].outcome = "open"
    /\ \A n \in DOMAIN a.rows :
          /\ a.rows[n].outcome = "success" =>
                c = "done" /\ tr # <<>> /\ Last(tr).kind = "success" /\ Last(tr).at = a.rows[n].to
          /\ a.rows[n].outcome = "budget_exhausted" \/ (a.rows[n].outcome = "open" /\ n # a.pending) =>
                Over(c, t, a.rows[n].to) /\ NotTried(tr, a.rows[n])

\* What the pending row says: it was not tried, unless its candidate is the
\* current one, whose attempts settle it.
PendingHolds(c, t, tr, a) ==
    a.pending # 0 =>
       /\ c \in AtCandidate => a.rows[a.pending].to <= t
       /\ c \in AtCandidate /\ a.rows[a.pending].to < t => NotTried(tr, a.rows[a.pending])
       /\ c = "next" => a.rows[a.pending].to <= t + 1 /\ NotTried(tr, a.rows[a.pending])
       /\ c = "done" => \/ NotTried(tr, a.rows[a.pending])
                        \/ tr # <<>> /\ Last(tr).kind = "pending"

\* A decision that goes on somewhere was written after n attempts.
Announces(a, n) == \E i \in DOMAIN a.rows : a.rows[i].after = n /\ a.rows[i].to # 0
MovesAnnounced(c, t, tr, a) ==
    /\ \A i \in 1 .. Len(tr) - 1 :
          tr[i].at # tr[i + 1].at \/ tr[i].slot = tr[i + 1].slot => Announces(a, i)
    /\ c = "retry" => Announces(a, Len(tr))
    /\ tr # <<>> /\ (c = "next" \/ (c \in {"gate", "after"} /\ Last(tr).at < t)) =>
          Announces(a, Len(tr))

Good(c, p, t, k, tr, a) ==
    /\ Placed(c, p, t, tr, a)
    /\ KeysFresh(c, t, k, tr)
    /\ TrailFits(c, t, k, tr)
    /\ MayGoOn(c, t, tr)
    /\ RowsHold(c, t, tr, a)
    /\ PendingHolds(c, t, tr, a)
    /\ MovesAnnounced(c, t, tr, a)

\* The inductive invariant.
IInv ==
    /\ Sound(prov, cred, mdl)
    /\ Typed
    /\ \A r \in Requests : Good(pc[r], plan[r], ti[r], keys[r], trail[r], audit[r])

-----------------------------------------------------------------------------
(* What the operators on one request's values return.                      *)

\* A trail with one more attempt.
LEMMA AppendedTrail ==
    ASSUME NEW tr \in Seq(AttemptRecords), NEW x \in AttemptRecords
    PROVE  /\ Append(tr, x) \in Seq(AttemptRecords)
           /\ Append(tr, x) # <<>>
           /\ Len(Append(tr, x)) = Len(tr) + 1
           /\ DOMAIN Append(tr, x) = 1 .. Len(tr) + 1
           /\ \A i \in DOMAIN tr : Append(tr, x)[i] = tr[i]
           /\ Append(tr, x)[Len(tr) + 1] = x
           /\ Last(Append(tr, x)) = x
           /\ DOMAIN tr = 1 .. Len(tr)
  <1> DEFINE e == Append(tr, x)
  <1>1. /\ e \in Seq(AttemptRecords) /\ e # <<>> /\ Len(e) = Len(tr) + 1
        /\ \A i \in 1 .. Len(tr) : e[i] = tr[i]
        /\ e[Len(tr) + 1] = x
    BY AppendProperties
  <1>2. DOMAIN e = 1 .. Len(e) /\ DOMAIN tr = 1 .. Len(tr)
    BY SMTT(30), <1>1, LenProperties
  <1> QED
    BY <1>1, <1>2 DEF Last

Outcome(tr, kind) == [tr EXCEPT ![Len(tr)].kind = kind]

\* A trail whose newest attempt has got its outcome.
LEMMA EndedTrail ==
    ASSUME NEW tr \in Seq(AttemptRecords), tr # <<>>, NEW kind \in Outcomes
    PROVE  LET e == Outcome(tr, kind)
           IN  /\ e \in Seq(AttemptRecords)
               /\ e # <<>>
               /\ Len(e) = Len(tr)
               /\ DOMAIN e = DOMAIN tr
               /\ \A i \in DOMAIN tr : e[i].at = tr[i].at /\ e[i].slot = tr[i].slot
               /\ Last(e).kind = kind
               /\ Last(e).at = Last(tr).at /\ Last(e).slot = Last(tr).slot
               /\ Last(e) \in AttemptRecords
  <1> DEFINE n == Len(tr)
             x == [tr[n] EXCEPT !.kind = kind]
             e == [tr EXCEPT ![n] = x]
  <1>1. n \in 1 .. Len(tr) /\ DOMAIN tr = 1 .. Len(tr) /\ tr[n] \in AttemptRecords
    BY EmptySeq, LenProperties, ElementOfSeq
  <1>2. x \in AttemptRecords /\ x.at = tr[n].at /\ x.slot = tr[n].slot /\ x.kind = kind
    BY <1>1 DEF AttemptRecords
  <1>3. /\ e \in Seq(AttemptRecords) /\ Len(e) = Len(tr)
        /\ \A j \in 1 .. Len(tr) : e[j] = IF j = n THEN x ELSE tr[j]
    <2> HIDE DEF x
    <2> QED
      BY <1>1, <1>2, ExceptSeq
  <1>4. DOMAIN e = 1 .. Len(e)
    BY <1>3, LenProperties
  <1>5. e # <<>>
    BY <1>1, <1>3, EmptySeq
  <1>6. Outcome(tr, kind) = e
    BY DEF Outcome
  <1> HIDE DEF e, x
  <1> QED
    BY <1>1, <1>2, <1>3, <1>4, <1>5, <1>6 DEF Last

\* Closing the pending row changes no row's destination or place.
LEMMA SettledAudit ==
    ASSUME NEW a \in AuditRecords, a.pending <= Len(a.rows), NEW o \in Verdicts
    PROVE  /\ Settled(a, o) \in AuditRecords
           /\ Settled(a, o).pending = 0
           /\ DOMAIN Settled(a, o).rows = DOMAIN a.rows
           /\ Len(Settled(a, o).rows) = Len(a.rows)
           /\ \A n \in DOMAIN a.rows :
                 /\ Settled(a, o).rows[n].to = a.rows[n].to
                 /\ Settled(a, o).rows[n].after = a.rows[n].after
                 /\ Settled(a, o).rows[n].outcome =
                       IF n = a.pending THEN o ELSE a.rows[n].outcome
  <1>1. a.rows \in Seq(RowRecords) /\ a.pending \in Nat
    BY DEF AuditRecords
  <1>2. Len(a.rows) \in Nat /\ DOMAIN a.rows = 1 .. Len(a.rows)
    BY <1>1, LenProperties
  <1>3. CASE a.pending = 0
    BY <1>1, <1>2, <1>3 DEF Settled
  <1>4. CASE a.pending # 0
    <2> DEFINE n == a.pending
               x == [a.rows[n] EXCEPT !.outcome = o]
               e == [a.rows EXCEPT ![n] = x]
    <2>1. n \in 1 .. Len(a.rows) /\ a.rows[n] \in RowRecords
      BY <1>1, <1>2, <1>4, ElementOfSeq
    <2>2. x \in RowRecords /\ x.to = a.rows[n].to /\ x.after = a.rows[n].after /\ x.outcome = o
      BY <2>1 DEF RowRecords
    <2>3. /\ e \in Seq(RowRecords) /\ Len(e) = Len(a.rows)
          /\ \A j \in 1 .. Len(a.rows) : e[j] = IF j = n THEN x ELSE a.rows[j]
      <3> HIDE DEF x
      <3> QED
        BY <1>1, <2>1, <2>2, ExceptSeq
    <2>4. DOMAIN e = 1 .. Len(e)
      BY <2>3, LenProperties
    <2>5. Settled(a, o) = [rows |-> e, pending |-> 0]
      BY <1>4 DEF Settled
    <2> HIDE DEF e, x
    <2> QED
      BY <1>2, <2>2, <2>3, <2>4, <2>5 DEF AuditRecords
  <1> QED
    BY <1>3, <1>4

\* A decision adds one row, pending unless it goes nowhere.
LEMMA DecidedAudit ==
    ASSUME NEW a \in AuditRecords, NEW to \in 0..MaxAttempts, NEW n \in 0..MaxAttempts
    PROVE  /\ Decided(a, to, n) \in AuditRecords
           /\ Decided(a, to, n).pending = IF to = 0 THEN a.pending ELSE Len(a.rows) + 1
           /\ DOMAIN Decided(a, to, n).rows = 1 .. Len(a.rows) + 1
           /\ Len(Decided(a, to, n).rows) = Len(a.rows) + 1
           /\ DOMAIN a.rows = 1 .. Len(a.rows)
           /\ \A i \in DOMAIN a.rows : Decided(a, to, n).rows[i] = a.rows[i]
           /\ Decided(a, to, n).rows[Len(a.rows) + 1] =
                 [to |-> to, after |-> n,
                  outcome |-> IF to = 0 THEN "no_candidate" ELSE "open"]
  <1> DEFINE x == [to |-> to, after |-> n, outcome |-> IF to = 0 THEN "no_candidate" ELSE "open"]
             e == Append(a.rows, x)
  <1>1. a.rows \in Seq(RowRecords) /\ a.pending \in Nat /\ x \in RowRecords
    BY DEF AuditRecords, RowRecords, Verdicts
  <1>2. /\ e \in Seq(RowRecords) /\ Len(e) = Len(a.rows) + 1
        /\ \A i \in 1 .. Len(a.rows) : e[i] = a.rows[i]
        /\ e[Len(a.rows) + 1] = x
    <2> HIDE DEF x
    <2> QED
      BY <1>1, AppendProperties
  <1>3. DOMAIN e = 1 .. Len(e) /\ DOMAIN a.rows = 1 .. Len(a.rows) /\ Len(a.rows) \in Nat
    BY <1>1, <1>2, LenProperties
  <1>4. CASE to = 0
    <2>1. Decided(a, to, n) = [a EXCEPT !.rows = e]
      BY <1>4 DEF Decided
    <2>2. /\ Decided(a, to, n).rows = e /\ Decided(a, to, n).pending = a.pending
          /\ Decided(a, to, n) \in AuditRecords
      <3> HIDE DEF e
      <3> QED
        BY <1>2, <2>1 DEF AuditRecords
    <2> HIDE DEF e
    <2> QED
      BY <1>2, <1>3, <1>4, <2>2
  <1>5. CASE to # 0
    <2>1. Decided(a, to, n) = [rows |-> e, pending |-> Len(a.rows) + 1]
      BY <1>5 DEF Decided
    <2> HIDE DEF e
    <2> QED
      BY <1>2, <1>3, <1>5, <2>1 DEF AuditRecords
  <1> QED
    BY <1>4, <1>5

-----------------------------------------------------------------------------
(* What each step keeps, on one request's values.                          *)

\* Facts about any trail and audit trail the steps need.
LEMMA ValueFacts ==
    ASSUME NEW tr \in Seq(AttemptRecords), NEW a \in AuditRecords
    PROVE  /\ Len(tr) \in Nat /\ DOMAIN tr = 1 .. Len(tr)
           /\ \A i \in DOMAIN tr : tr[i] \in AttemptRecords /\ tr[i].at \in Nat
           /\ tr # <<>> => Len(tr) \in DOMAIN tr /\ Last(tr) = tr[Len(tr)]
           /\ a.rows \in Seq(RowRecords) /\ a.pending \in Nat
           /\ Len(a.rows) \in Nat /\ DOMAIN a.rows = 1 .. Len(a.rows)
           /\ \A n \in DOMAIN a.rows : a.rows[n] \in RowRecords /\ a.rows[n].to \in Nat
  <1>1. Len(tr) \in Nat /\ DOMAIN tr = 1 .. Len(tr) /\ (tr # <<>> => Len(tr) \in Nat \ {0})
    BY LenProperties, EmptySeq
  <1>2. \A i \in DOMAIN tr : tr[i] \in AttemptRecords
    BY <1>1, ElementOfSeq
  <1>3. a.rows \in Seq(RowRecords) /\ a.pending \in Nat
    BY DEF AuditRecords
  <1>4. Len(a.rows) \in Nat /\ DOMAIN a.rows = 1 .. Len(a.rows)
    BY <1>3, LenProperties
  <1>5. \A n \in DOMAIN a.rows : a.rows[n] \in RowRecords
    BY <1>3, <1>4, ElementOfSeq
  <1>6. \A x \in AttemptRecords : x.at \in Nat
    BY PolicyAssumption DEF AttemptRecords
  <1>7. \A x \in RowRecords : x.to \in Nat
    BY PolicyAssumption DEF RowRecords
  <1> QED
    BY <1>1, <1>2, <1>3, <1>4, <1>5, <1>6, <1>7 DEF Last

\* A request that has done nothing yet.
LEMMA GoodFresh ==
    ASSUME NEW c \in {"idle", "planning", "next", "done"}, NEW p \in Seq(Targets), NEW k,
           c = "idle" => p = <<>>, c # "planning" => Len(p) <= MaxAttempts
    PROVE  Good(c, p, 0, k, <<>>, NoAudit)
  <1>1. Len(<<>>) = 0 /\ DOMAIN <<>> = {} /\ Len(p) \in Nat
    BY EmptySeq, LenProperties
  <1>2. NoAudit.rows = <<>> /\ NoAudit.pending = 0
    BY DEF NoAudit
  <1>3. Placed(c, p, 0, <<>>, NoAudit)
    BY <1>1 DEF Placed, AtCandidate
  <1>4. KeysFresh(c, 0, k, <<>>)
    BY DEF KeysFresh
  <1>5. TrailFits(c, 0, k, <<>>)
    BY <1>1, PolicyAssumption DEF TrailFits
  <1>6. MayGoOn(c, 0, <<>>)
    BY DEF MayGoOn
  <1>7. RowsHold(c, 0, <<>>, NoAudit)
    BY <1>1, <1>2 DEF RowsHold
  <1>8. PendingHolds(c, 0, <<>>, NoAudit)
    BY <1>2 DEF PendingHolds
  <1>9. MovesAnnounced(c, 0, <<>>, NoAudit)
    BY <1>1 DEF MovesAnnounced
  <1> QED
    BY <1>3, <1>4, <1>5, <1>6, <1>7, <1>8, <1>9 DEF Good

\* Rows that stay in place keep what they announce.
LEMMA AnnouncesKept ==
    ASSUME NEW a, NEW b, DOMAIN a.rows \subseteq DOMAIN b.rows,
           \A n \in DOMAIN a.rows :
              b.rows[n].to = a.rows[n].to /\ b.rows[n].after = a.rows[n].after
    PROVE  \A m : Announces(a, m) => Announces(b, m)
  <1> SUFFICES ASSUME NEW m, NEW n \in DOMAIN a.rows,
                      a.rows[n].after = m, a.rows[n].to # 0
               PROVE  Announces(b, m)
    BY DEF Announces
  <1> QED
    BY DEF Announces

\* The loop over the candidates ends, with or without a word on the budget.
LEMMA GoodLoopEnds ==
    ASSUME NEW p, NEW t \in Nat, NEW k, NEW tr \in Seq(AttemptRecords), NEW a \in AuditRecords,
           Good("next", p, t, k, tr, a)
    PROVE  /\ Good("done", p, t, k, tr, a)
           /\ Good("done", p, t, k, tr, Settled(a, "budget_exhausted"))
  <1> USE DEF Good
  <1>1. ASSUME NEW b \in {a, Settled(a, "budget_exhausted")}
        PROVE  Good("done", p, t, k, tr, b)
    <2>0. /\ a.pending <= Len(a.rows) /\ "budget_exhausted" \in Verdicts
      BY DEF RowsHold, Verdicts
    <2>1. /\ b.pending \in {0, a.pending}
          /\ DOMAIN b.rows = DOMAIN a.rows /\ Len(b.rows) = Len(a.rows)
          /\ \A n \in DOMAIN a.rows :
                /\ b.rows[n].to = a.rows[n].to /\ b.rows[n].after = a.rows[n].after
                /\ \/ b.rows[n].outcome = a.rows[n].outcome /\ (n = a.pending => b.pending = n)
                   \/ b.rows[n].outcome = "budget_exhausted" /\ n = a.pending /\ b.pending = 0
      BY <2>0, SettledAudit, ValueFacts
    <2>2. /\ a.pending \in Nat /\ Len(a.rows) \in Nat
          /\ a.pending # 0 => a.pending \in DOMAIN a.rows
      BY <2>0, ValueFacts
    <2>3. Placed("done", p, t, tr, b)
      BY DEF Placed, AtCandidate
    <2>4. KeysFresh("done", t, k, tr) /\ TrailFits("done", t, k, tr) /\ MayGoOn("done", t, tr)
      BY DEF KeysFresh, TrailFits, MayGoOn
    <2>5. RowsHold("done", t, tr, b)
      <3>1. /\ b.pending <= Len(b.rows) /\ (b.pending # 0 => b.rows[b.pending].outcome = "open")
        BY <2>0, <2>1, <2>2 DEF RowsHold
      <3>2. ASSUME NEW n \in DOMAIN b.rows
            PROVE  /\ b.rows[n].outcome # "success"
                   /\ b.rows[n].outcome = "budget_exhausted"
                        \/ (b.rows[n].outcome = "open" /\ n # b.pending) =>
                      NotTried(tr, b.rows[n])
        BY <2>1, <2>2 DEF RowsHold, PendingHolds, NotTried
      <3> QED
        BY <3>1, <3>2 DEF RowsHold, Over
    <2>6. PendingHolds("done", t, tr, b)
      BY <2>1, <2>2 DEF PendingHolds, NotTried, AtCandidate
    <2>7. MovesAnnounced("done", t, tr, b)
      <3>1. \A m : Announces(a, m) => Announces(b, m)
        BY <2>1, AnnouncesKept
      <3> QED
        BY <3>1 DEF MovesAnnounced
    <2> QED
      BY <2>3, <2>4, <2>5, <2>6, <2>7
  <1> QED
    BY <1>1

\* The next candidate, without slots or with some.
LEMMA GoodTaken ==
    ASSUME NEW p, NEW t \in Nat, NEW k, NEW tr \in Seq(AttemptRecords), NEW a \in AuditRecords,
           Good("next", p, t, k, tr, a), Len(p) \in Nat, t < Len(p)
    PROVE  /\ Good("next", p, t + 1, k, tr, a)
           /\ \A q : IsInjective(q) => Good("gate", p, t + 1, q, tr, a)
  <1> USE DEF Good
  <1>0. /\ a.pending \in Nat /\ DOMAIN a.rows = 1 .. Len(a.rows) /\ Len(a.rows) \in Nat
        /\ \A n \in DOMAIN a.rows : a.rows[n].to \in Nat
        /\ a.pending # 0 => a.rows[a.pending].to \in Nat
        /\ Len(tr) \in Nat /\ DOMAIN tr = 1 .. Len(tr)
        /\ \A i \in DOMAIN tr : tr[i].at \in Nat /\ tr[i].at <= t
        /\ tr # <<>> => Last(tr).at \in Nat /\ Last(tr).at <= t
    BY ValueFacts DEF TrailFits, RowsHold
  <1>1. ASSUME NEW c \in {"next", "gate"}, NEW q, c = "gate" => IsInjective(q)
        PROVE  Good(c, p, t + 1, q, tr, a)
    <2>1. Placed(c, p, t + 1, tr, a)
      BY DEF Placed, AtCandidate
    <2>2. KeysFresh(c, t + 1, q, tr)
      BY <1>0, <1>1 DEF KeysFresh, Untried
    <2>3. TrailFits(c, t + 1, q, tr)
      BY <1>0 DEF TrailFits
    <2>4. MayGoOn(c, t + 1, tr)
      BY <1>0 DEF MayGoOn
    <2>5. RowsHold(c, t + 1, tr, a)
      BY <1>0 DEF RowsHold, Over
    <2>6. PendingHolds(c, t + 1, tr, a)
      BY <1>0 DEF PendingHolds, AtCandidate
    <2>7. MovesAnnounced(c, t + 1, tr, a)
      BY <1>0 DEF MovesAnnounced
    <2> QED
      BY <2>1, <2>2, <2>3, <2>4, <2>5, <2>6, <2>7
  <1> QED
    BY <1>1

\* No slot of the candidate is tried any more.
LEMMA GoodStopped ==
    ASSUME NEW c \in {"gate", "retry"}, NEW p, NEW t \in Nat, NEW k,
           NEW tr \in Seq(AttemptRecords), NEW a \in AuditRecords, Good(c, p, t, k, tr, a)
    PROVE  Good("after", p, t, k, tr, a)
  <1> USE DEF Good
  <1>1. Placed("after", p, t, tr, a) /\ KeysFresh("after", t, k, tr) /\ TrailFits("after", t, k, tr)
    BY DEF Placed, KeysFresh, TrailFits, AtCandidate
  <1>2. MayGoOn("after", t, tr)
    BY DEF MayGoOn, TrailFits
  <1>3. RowsHold("after", t, tr, a)
    BY DEF RowsHold, Over
  <1>4. PendingHolds("after", t, tr, a)
    BY DEF PendingHolds, AtCandidate
  <1>5. MovesAnnounced("after", t, tr, a)
    BY DEF MovesAnnounced, TrailFits
  <1> QED
    BY <1>1, <1>2, <1>3, <1>4, <1>5

\* The slots after the first one.
LEMMA TailFacts ==
    ASSUME NEW k \in Seq(Slots), k # <<>>
    PROVE  /\ Tail(k) \in Seq(Slots) /\ Head(k) \in Slots
           /\ 1 \in DOMAIN k /\ Head(k) = k[1]
           /\ \A j \in DOMAIN Tail(k) :
                 j \in Nat /\ j + 1 \in DOMAIN k /\ j + 1 # 1 /\ Tail(k)[j] = k[j + 1]
           /\ IsInjective(k) => IsInjective(Tail(k))
           /\ Len(k) > 1 => Tail(k) # <<>>
  <1>1. Len(k) \in Nat \ {0} /\ DOMAIN k = 1 .. Len(k)
    BY EmptySeq, LenProperties
  <1>2. /\ Tail(k) \in Seq(Slots) /\ Head(k) \in Slots /\ Len(Tail(k)) = Len(k) - 1
        /\ \A j \in 1 .. Len(Tail(k)) : Tail(k)[j] = k[j + 1]
    BY HeadTailProperties
  <1>3. DOMAIN Tail(k) = 1 .. Len(Tail(k))
    BY <1>2, LenProperties
  <1>4. Head(k) = k[1]
    OBVIOUS
  <1>5. \A j \in DOMAIN Tail(k) : j \in Nat /\ j + 1 \in DOMAIN k /\ j + 1 # 1 /\ Tail(k)[j] = k[j + 1]
    BY <1>1, <1>2, <1>3
  <1>6. IsInjective(k) => IsInjective(Tail(k))
    BY <1>5 DEF IsInjective
  <1>7. Len(k) > 1 => Tail(k) # <<>>
    <2>1. Len(<<>>) = 0
      BY EmptySeq
    <2> QED
      BY SMTT(30), <1>1, <1>2, <2>1
  <1> QED
    BY <1>1, <1>2, <1>4, <1>5, <1>6, <1>7

\* An attempt starts.
LEMMA GoodLaunched ==
    ASSUME NEW c \in {"gate", "retry"}, NEW p, NEW t \in 1..MaxAttempts,
           NEW k \in Seq(Slots), k # <<>>, NEW tr \in Seq(AttemptRecords),
           NEW a \in AuditRecords, Good(c, p, t, k, tr, a), Len(tr) < MaxAttempts
    PROVE  Good("flying", p, t, k,
                Append(tr, [at |-> t, slot |-> Head(k), kind |-> "pending"]), a)
  <1> DEFINE x == [at |-> t, slot |-> Head(k), kind |-> "pending"]
             e == Append(tr, x)
  <1> USE DEF Good
  <1>1. x \in AttemptRecords /\ x.at = t /\ x.slot = Head(k) /\ x.kind = "pending"
    BY TailFacts DEF AttemptRecords, Outcomes
  <1>2. /\ e \in Seq(AttemptRecords) /\ e # <<>> /\ Len(e) = Len(tr) + 1
        /\ DOMAIN e = 1 .. Len(tr) + 1 /\ DOMAIN tr = 1 .. Len(tr) /\ Len(tr) \in Nat
        /\ \A i \in DOMAIN tr : e[i] = tr[i] /\ tr[i].at \in Nat /\ tr[i].at <= t
        /\ e[Len(tr) + 1] = x /\ Last(e) = x
        /\ tr # <<>> => Len(tr) \in DOMAIN tr /\ Last(tr) = tr[Len(tr)]
    <2> HIDE DEF x
    <2> QED
      BY <1>1, AppendedTrail, ValueFacts DEF TrailFits
  <1>3. /\ a.pending \in Nat /\ DOMAIN a.rows = 1 .. Len(a.rows) /\ Len(a.rows) \in Nat
        /\ \A n \in DOMAIN a.rows : a.rows[n].to \in Nat
        /\ a.pending # 0 => a.pending \in DOMAIN a.rows
        /\ t \in Nat /\ MaxAttempts \in Nat
    BY ValueFacts, PolicyAssumption DEF RowsHold
  <1>4. ASSUME NEW row, row.to \in Nat, row.to < t, NotTried(tr, row)
        PROVE  NotTried(e, row)
    <2> SUFFICES ASSUME NEW i \in DOMAIN e, i > row.after PROVE e[i].at # row.to
      BY DEF NotTried
    <2>1. CASE i \in DOMAIN tr
      BY <1>2, <1>4, <2>1 DEF NotTried
    <2>2. CASE i = Len(tr) + 1
      BY <1>1, <1>2, <1>3, <1>4, <2>2
    <2> QED
      BY <1>2, <2>1, <2>2
  <1> HIDE DEF x, e
  <1>5. Placed("flying", p, t, e, a)
    BY DEF Placed, AtCandidate
  <1>6. KeysFresh("flying", t, k, e)
    <2>1. IsInjective(k)
      BY DEF KeysFresh
    <2>2. ASSUME NEW i \in DOMAIN e, e[i].at = t, NEW j \in DOMAIN Tail(k)
          PROVE  Tail(k)[j] # e[i].slot
      <3>1. /\ j + 1 \in DOMAIN k /\ j + 1 # 1 /\ Tail(k)[j] = k[j + 1]
            /\ 1 \in DOMAIN k /\ Head(k) = k[1]
        BY TailFacts
      <3>2. CASE i \in DOMAIN tr
        <4>1. e[i] = tr[i]
          BY <1>2, <3>2
        <4> QED
          BY <2>2, <3>1, <3>2, <4>1 DEF KeysFresh, Untried
      <3>3. CASE i = Len(tr) + 1
        BY <1>1, <1>2, <2>1, <3>1, <3>3 DEF IsInjective
      <3> QED
        BY <1>2, <3>2, <3>3
    <2> QED
      BY <2>1, <2>2 DEF KeysFresh, Untried
  <1>7. TrailFits("flying", t, k, e)
    <2>1. \A i \in DOMAIN e : e[i].at <= t
      BY <1>1, <1>2, <1>3
    <2>2. Len(e) <= MaxAttempts
      BY <1>2, <1>3
    <2> QED
      BY <1>1, <1>2, <2>1, <2>2 DEF TrailFits, x
  <1>8. MayGoOn("flying", t, e)
    BY DEF MayGoOn
  <1>9. RowsHold("flying", t, e, a)
    <2>1. ASSUME NEW n \in DOMAIN a.rows,
                 a.rows[n].outcome = "budget_exhausted" \/ (a.rows[n].outcome = "open" /\ n # a.pending)
          PROVE  Over("flying", t, a.rows[n].to) /\ NotTried(e, a.rows[n])
      <3>1. a.rows[n].to < t /\ NotTried(tr, a.rows[n])
        BY <2>1 DEF RowsHold, Over
      <3> QED
        BY <1>3, <1>4, <3>1 DEF Over
    <2> QED
      BY <2>1 DEF RowsHold
  <1>10. PendingHolds("flying", t, e, a)
    BY <1>3, <1>4 DEF PendingHolds, AtCandidate
  <1>11. MovesAnnounced("flying", t, e, a)
    <2>1. ASSUME NEW i \in 1 .. Len(e) - 1, e[i].at # e[i + 1].at \/ e[i].slot = e[i + 1].slot
          PROVE  Announces(a, i)
      <3>0. i \in Nat /\ Len(tr) \in Nat /\ i <= Len(tr)
        BY <1>2
      <3>1. CASE i < Len(tr)
        <4>1. e[i] = tr[i] /\ e[i + 1] = tr[i + 1] /\ i \in 1 .. Len(tr) - 1
          BY SMTT(30), <1>2, <3>1
        <4> QED
          BY <2>1, <4>1 DEF MovesAnnounced
      <3>2. CASE i = Len(tr)
        <4>1. tr # <<>> /\ e[i] = Last(tr) /\ e[i + 1] = x /\ Len(tr) \in DOMAIN tr
          BY <1>2, <3>2, EmptySeq
        <4>2. CASE c = "gate" /\ Last(tr).at = t
          <5>1. Last(tr).slot # k[1]
            BY <1>2, <4>1, <4>2, TailFacts DEF KeysFresh, Untried
          <5> QED
            BY <1>1, <2>1, <4>1, <4>2, <5>1, TailFacts
        <4>3. CASE c = "gate" /\ Last(tr).at # t
          BY <1>2, <1>3, <3>2, <4>1, <4>3 DEF MovesAnnounced
        <4>4. CASE c = "retry"
          BY <3>2, <4>4 DEF MovesAnnounced
        <4> QED
          BY <4>2, <4>3, <4>4
      <3> QED
        BY <3>0, <3>1, <3>2
    <2> QED
      BY <2>1 DEF MovesAnnounced
  <1> QED
    BY <1>5, <1>6, <1>7, <1>8, <1>9, <1>10, <1>11 DEF e, x

\* The manager refuses a slot.
LEMMA GoodSkipped ==
    ASSUME NEW p, NEW t \in Nat, NEW k \in Seq(Slots), k # <<>>, NEW tr, NEW a,
           Good("gate", p, t, k, tr, a)
    PROVE  Good("gate", p, t, Tail(k), tr, a)
  <1>1. KeysFresh("gate", t, Tail(k), tr)
    BY TailFacts DEF Good, KeysFresh, Untried
  <1> QED
    BY <1>1 DEF Good, TrailFits

(* Audit trails none of whose unsettled rows is about an attempt.          *)

\* Every row still open, or closed by the budget, is of a candidate up to
\* a position and was not tried.
Shut(b, upto, tr) ==
    /\ b.pending <= Len(b.rows)
    /\ b.pending # 0 => b.rows[b.pending].outcome = "open"
    /\ \A n \in DOMAIN b.rows :
          /\ b.rows[n].outcome # "success"
          /\ b.rows[n].outcome \in {"open", "budget_exhausted"} =>
                b.rows[n].to <= upto /\ NotTried(tr, b.rows[n])

\* Settling by an attempt either closes the pending row or does nothing.
LEMMA SettledByAudit ==
    ASSUME NEW a \in AuditRecords, a.pending <= Len(a.rows),
           a.pending # 0 => a.rows[a.pending].outcome = "open",
           NEW t, NEW o \in Verdicts
    PROVE  LET b == SettledBy(a, t, o)
           IN  /\ b \in AuditRecords /\ b.pending \in {0, a.pending}
               /\ b.pending # 0 => b.rows[b.pending].outcome = "open"
               /\ DOMAIN b.rows = DOMAIN a.rows /\ Len(b.rows) = Len(a.rows)
               /\ \A n \in DOMAIN a.rows :
                     /\ b.rows[n].to = a.rows[n].to /\ b.rows[n].after = a.rows[n].after
                     /\ \/ /\ n = a.pending /\ a.rows[n].to = t
                           /\ b.rows[n].outcome = o /\ b.pending = 0
                        \/ /\ n # a.pending \/ a.rows[n].to # t
                           /\ b.rows[n].outcome = a.rows[n].outcome
  <1>1. a.pending \in Nat /\ Len(a.rows) \in Nat /\ DOMAIN a.rows = 1 .. Len(a.rows)
    BY LenProperties DEF AuditRecords
  <1>2. CASE a.pending # 0 /\ a.rows[a.pending].to = t
    <2>1. SettledBy(a, t, o) = Settled(a, o)
      BY <1>2 DEF SettledBy
    <2> QED
      BY <1>2, <2>1, SettledAudit
  <1>3. CASE ~(a.pending # 0 /\ a.rows[a.pending].to = t)
    <2>1. SettledBy(a, t, o) = a
      BY <1>3 DEF SettledBy
    <2>2. \A n \in DOMAIN a.rows : n # 0
      BY <1>1
    <2> QED
      BY <1>3, <2>1, <2>2
  <1> QED
    BY <1>2, <1>3

\* An attempt that failed settles the pair it is the destination of.
LEMMA FailureShuts ==
    ASSUME NEW p, NEW t \in Nat, NEW k, NEW tr \in Seq(AttemptRecords), NEW a \in AuditRecords,
           Good("flying", p, t, k, tr, a)
    PROVE  /\ Shut(SettledBy(a, t, "failed"), t - 1, tr)
           /\ SettledBy(a, t, "failed") \in AuditRecords
           /\ \A m : Announces(a, m) => Announces(SettledBy(a, t, "failed"), m)
  <1> DEFINE b == SettledBy(a, t, "failed")
  <1>1. /\ a.pending <= Len(a.rows) /\ (a.pending # 0 => a.rows[a.pending].outcome = "open")
        /\ "failed" \in Verdicts
    BY DEF Good, RowsHold, Verdicts
  <1>2. /\ b \in AuditRecords /\ b.pending \in {0, a.pending}
        /\ b.pending # 0 => b.rows[b.pending].outcome = "open"
        /\ DOMAIN b.rows = DOMAIN a.rows /\ Len(b.rows) = Len(a.rows)
        /\ \A n \in DOMAIN a.rows :
              /\ b.rows[n].to = a.rows[n].to /\ b.rows[n].after = a.rows[n].after
              /\ \/ n = a.pending /\ a.rows[n].to = t /\ b.rows[n].outcome = "failed" /\ b.pending = 0
                 \/ (n # a.pending \/ a.rows[n].to # t) /\ b.rows[n].outcome = a.rows[n].outcome
    BY <1>1, SettledByAudit
  <1>3. /\ a.pending \in Nat /\ Len(a.rows) \in Nat /\ DOMAIN a.rows = 1 .. Len(a.rows)
        /\ \A n \in DOMAIN a.rows : a.rows[n].to \in Nat /\ n # 0
    BY ValueFacts
  <1> HIDE DEF b
  <1>4. ASSUME NEW n \in DOMAIN a.rows
        PROVE  /\ b.rows[n].outcome # "success"
               /\ b.rows[n].outcome \in {"open", "budget_exhausted"} =>
                     b.rows[n].to <= t - 1 /\ NotTried(tr, b.rows[n])
    <2>1. CASE n = a.pending
      <3>1. a.rows[n].to <= t /\ (a.rows[n].to < t => NotTried(tr, a.rows[n]))
        BY <1>3, <2>1 DEF Good, PendingHolds, AtCandidate
      <3> QED
        BY SMTT(30), <1>1, <1>2, <1>3, <2>1, <3>1 DEF NotTried
    <2>2. CASE n # a.pending
      <3>1. /\ a.rows[n].outcome # "success"
            /\ a.rows[n].outcome \in {"open", "budget_exhausted"} =>
                  a.rows[n].to < t /\ NotTried(tr, a.rows[n])
        BY <2>2 DEF Good, RowsHold, Over
      <3> QED
        BY SMTT(30), <1>2, <1>3, <2>2, <3>1 DEF NotTried
    <2> QED
      BY <2>1, <2>2
  <1>5. Shut(b, t - 1, tr)
    BY <1>1, <1>2, <1>3, <1>4 DEF Shut
  <1>6. \A m : Announces(a, m) => Announces(b, m)
    BY <1>2, AnnouncesKept
  <1> QED
    BY <1>2, <1>5, <1>6 DEF b

\* So does an attempted candidate, when its slots are over.
LEMMA NotedShuts ==
    ASSUME NEW p, NEW t \in Nat, NEW k, NEW tr \in Seq(AttemptRecords), NEW a \in AuditRecords,
           Good("after", p, t, k, tr, a),
           NEW b, b = IF tr # <<>> /\ Last(tr).at = t THEN SettledBy(a, t, "failed") ELSE a
    PROVE  /\ Shut(b, t, tr)
           /\ b \in AuditRecords
           /\ \A m : Announces(a, m) => Announces(b, m)
  <1>1. /\ a.pending <= Len(a.rows) /\ (a.pending # 0 => a.rows[a.pending].outcome = "open")
        /\ "failed" \in Verdicts
    BY DEF Good, RowsHold, Verdicts
  <1>2. /\ a.pending \in Nat /\ Len(a.rows) \in Nat /\ DOMAIN a.rows = 1 .. Len(a.rows)
        /\ \A n \in DOMAIN a.rows : a.rows[n].to \in Nat /\ n # 0
        /\ DOMAIN tr = 1 .. Len(tr)
    BY ValueFacts
  <1>3. /\ b \in AuditRecords /\ b.pending \in {0, a.pending}
        /\ b.pending # 0 => b.rows[b.pending].outcome = "open"
        /\ DOMAIN b.rows = DOMAIN a.rows /\ Len(b.rows) = Len(a.rows)
        /\ \A n \in DOMAIN a.rows :
              /\ b.rows[n].to = a.rows[n].to /\ b.rows[n].after = a.rows[n].after
              /\ b.rows[n].outcome \in {"failed", a.rows[n].outcome}
              /\ n = a.pending /\ a.rows[n].to = t /\ tr # <<>> /\ Last(tr).at = t =>
                    b.rows[n].outcome = "failed"
    <2>1. CASE tr # <<>> /\ Last(tr).at = t
      <3>1. b = SettledBy(a, t, "failed")
        BY <2>1
      <3> QED
        BY <1>1, <3>1, SettledByAudit
    <2>2. CASE ~(tr # <<>> /\ Last(tr).at = t)
      BY <1>1, <2>2
    <2> QED
      BY <2>1, <2>2
  <1>4. ASSUME NEW n \in DOMAIN a.rows
        PROVE  /\ b.rows[n].outcome # "success"
               /\ b.rows[n].outcome \in {"open", "budget_exhausted"} =>
                     b.rows[n].to <= t /\ NotTried(tr, b.rows[n])
    <2>1. CASE n = a.pending
      <3>1. a.rows[n].to <= t /\ (a.rows[n].to < t => NotTried(tr, a.rows[n]))
        BY <1>2, <2>1 DEF Good, PendingHolds, AtCandidate
      <3>2. ASSUME a.rows[n].to = t, b.rows[n].outcome # "failed"
            PROVE  NotTried(tr, a.rows[n])
        <4>1. tr = <<>> \/ Last(tr).at # t
          BY <1>3, <2>1, <3>2
        <4>2. \A i \in DOMAIN tr : tr[i].at # t
          BY <1>2, <4>1, EmptySeq DEF Good, TrailFits
        <4> QED
          BY <3>2, <4>2 DEF NotTried
      <3>3. a.rows[n].outcome = "open"
        BY <1>1, <1>2, <2>1
      <3> QED
        BY <1>2, <1>3, <3>1, <3>2, <3>3 DEF NotTried
    <2>2. CASE n # a.pending
      <3>1. /\ a.rows[n].outcome # "success"
            /\ a.rows[n].outcome \in {"open", "budget_exhausted"} =>
                  a.rows[n].to <= t /\ NotTried(tr, a.rows[n])
        BY <1>2, <2>2 DEF Good, RowsHold, Over
      <3> QED
        BY <1>3, <3>1 DEF NotTried
    <2> QED
      BY <2>1, <2>2
  <1>5. Shut(b, t, tr)
    BY <1>1, <1>2, <1>3, <1>4 DEF Shut
  <1>6. \A m : Announces(a, m) => Announces(b, m)
    <2>1. /\ DOMAIN a.rows \subseteq DOMAIN b.rows
          /\ \A n \in DOMAIN a.rows :
                b.rows[n].to = a.rows[n].to /\ b.rows[n].after = a.rows[n].after
      BY <1>3
    <2> QED
      BY ONLY <2>1, AnnouncesKept
  <1> QED
    BY <1>3, <1>5, <1>6

\* Closing the pending row of a shut audit trail keeps it shut.
LEMMA SettledShuts ==
    ASSUME NEW tr \in Seq(AttemptRecords), NEW b \in AuditRecords, NEW upto, Shut(b, upto, tr)
    PROVE  /\ Shut(Settled(b, "budget_exhausted"), upto, tr)
           /\ Settled(b, "budget_exhausted") \in AuditRecords
           /\ \A m : Announces(b, m) => Announces(Settled(b, "budget_exhausted"), m)
  <1> DEFINE d == Settled(b, "budget_exhausted")
  <1>1. b.pending <= Len(b.rows) /\ "budget_exhausted" \in Verdicts
    BY DEF Shut, Verdicts
  <1>2. /\ d \in AuditRecords /\ d.pending = 0
        /\ DOMAIN d.rows = DOMAIN b.rows /\ Len(d.rows) = Len(b.rows)
        /\ \A n \in DOMAIN b.rows :
              /\ d.rows[n].to = b.rows[n].to /\ d.rows[n].after = b.rows[n].after
              /\ d.rows[n].outcome = IF n = b.pending THEN "budget_exhausted" ELSE b.rows[n].outcome
    BY <1>1, SettledAudit
  <1>3. \A n \in DOMAIN b.rows : n # 0 /\ Len(b.rows) \in Nat
    BY ValueFacts
  <1> HIDE DEF d
  <1>4. ASSUME NEW n \in DOMAIN d.rows
        PROVE  /\ d.rows[n].outcome # "success"
               /\ d.rows[n].outcome \in {"open", "budget_exhausted"} =>
                     d.rows[n].to <= upto /\ NotTried(tr, d.rows[n])
    BY <1>2, <1>3 DEF Shut, NotTried
  <1>5. Shut(d, upto, tr)
    <2>1. Len(b.rows) \in Nat
      BY ValueFacts
    <2> QED
      BY <1>2, <1>4, <2>1 DEF Shut
  <1>6. \A m : Announces(b, m) => Announces(d, m)
    BY <1>2, AnnouncesKept
  <1> QED
    BY <1>2, <1>5, <1>6 DEF d

\* Adding a decision, after all attempts so far, keeps it shut up to the
\* decision's destination; and announces the next move if it goes anywhere.
LEMMA DecidedShuts ==
    ASSUME NEW tr \in Seq(AttemptRecords), NEW b \in AuditRecords, NEW upto \in Int,
           Shut(b, upto, tr), NEW to \in 0..MaxAttempts, to = 0 \/ upto <= to, Len(tr) <= MaxAttempts
    PROVE  LET d == Decided(b, to, Len(tr))
           IN  /\ Shut(d, IF to = 0 THEN upto ELSE to, tr)
               /\ d \in AuditRecords
               /\ \A m : Announces(b, m) => Announces(d, m)
               /\ to # 0 => Announces(d, Len(tr))
               /\ to # 0 => /\ d.rows[d.pending].to = to
                            /\ \A n \in DOMAIN d.rows :
                                  n # d.pending /\ d.rows[n].outcome \in {"open", "budget_exhausted"}
                                     => d.rows[n].to <= upto
  <1> DEFINE d == Decided(b, to, Len(tr))
             last == Len(b.rows) + 1
  <1>0. /\ Len(tr) \in 0..MaxAttempts /\ MaxAttempts \in Nat /\ DOMAIN tr = 1 .. Len(tr)
        /\ b.pending \in Nat /\ Len(b.rows) \in Nat
        /\ \A n \in DOMAIN b.rows : b.rows[n].to \in Nat
    BY ValueFacts, PolicyAssumption
  <1>1. /\ d \in AuditRecords
        /\ d.pending = IF to = 0 THEN b.pending ELSE last
        /\ DOMAIN d.rows = 1 .. last /\ Len(d.rows) = last
        /\ DOMAIN b.rows = 1 .. Len(b.rows)
        /\ \A i \in DOMAIN b.rows : d.rows[i] = b.rows[i]
        /\ d.rows[last] = [to |-> to, after |-> Len(tr),
                           outcome |-> IF to = 0 THEN "no_candidate" ELSE "open"]
    BY <1>0, DecidedAudit
  <1> HIDE DEF d
  <1>2. \A n \in DOMAIN d.rows : n = last \/ n \in DOMAIN b.rows
    BY <1>0, <1>1
  <1>3. NotTried(tr, d.rows[last])
    BY <1>0, <1>1 DEF NotTried
  <1>4. Shut(d, IF to = 0 THEN upto ELSE to, tr)
    <2>1. ASSUME NEW n \in DOMAIN d.rows
          PROVE  /\ d.rows[n].outcome # "success"
                 /\ d.rows[n].outcome \in {"open", "budget_exhausted"} =>
                       d.rows[n].to <= (IF to = 0 THEN upto ELSE to) /\ NotTried(tr, d.rows[n])
      <3>1. CASE n = last
        BY <1>0, <1>1, <1>3, <3>1
      <3>2. CASE n \in DOMAIN b.rows
        <4>1. d.rows[n] = b.rows[n] /\ b.rows[n].to \in Nat
          BY <1>0, <1>1, <3>2
        <4>2. /\ b.rows[n].outcome # "success"
              /\ b.rows[n].outcome \in {"open", "budget_exhausted"} =>
                    b.rows[n].to <= upto /\ NotTried(tr, b.rows[n])
          BY <3>2 DEF Shut
        <4>3. to \in Int /\ (to = 0 \/ upto <= to)
          BY <1>0
        <4> QED
          BY <4>1, <4>2, <4>3
      <3> QED
        BY <1>2, <3>1, <3>2
    <2>2. d.pending <= Len(d.rows) /\ (d.pending # 0 => d.rows[d.pending].outcome = "open")
      <3>1. CASE to = 0
        <4>1. b.pending # 0 => b.pending \in DOMAIN b.rows /\ b.rows[b.pending].outcome = "open"
          BY <1>0, <1>1 DEF Shut
        <4> QED
          BY SMTT(30), <1>0, <1>1, <3>1, <4>1 DEF Shut
      <3>2. CASE to # 0
        BY <1>0, <1>1, <3>2
      <3> QED
        BY <3>1, <3>2
    <2> QED
      BY <2>1, <2>2 DEF Shut
  <1>5. \A m : Announces(b, m) => Announces(d, m)
    <2>1. DOMAIN b.rows \subseteq DOMAIN d.rows
      BY <1>0, <1>1
    <2>2. \A n \in DOMAIN b.rows :
             d.rows[n].to = b.rows[n].to /\ d.rows[n].after = b.rows[n].after
      BY <1>1
    <2> QED
      BY <2>1, <2>2, AnnouncesKept
  <1>6. to # 0 => Announces(d, Len(tr))
    BY SMTT(30), <1>0, <1>1 DEF Announces
  <1>7. to # 0 => /\ d.rows[d.pending].to = to
                  /\ \A n \in DOMAIN d.rows :
                        n # d.pending /\ d.rows[n].outcome \in {"open", "budget_exhausted"}
                           => d.rows[n].to <= upto
    BY SMTT(30), <1>0, <1>1, <1>2 DEF Shut
  <1> QED
    BY <1>1, <1>4, <1>5, <1>6, <1>7 DEF d

(* An attempt gets its outcome.                                            *)

\* e is the trail tr, its newest attempt answered.
Answered(tr, e, t, k, kind) ==
    /\ e \in Seq(AttemptRecords) /\ e # <<>> /\ Len(e) = Len(tr)
    /\ DOMAIN e = DOMAIN tr /\ DOMAIN tr = 1 .. Len(tr) /\ Len(tr) \in Nat
    /\ Last(e) = [at |-> t, slot |-> Head(k), kind |-> kind]
    /\ \A i \in DOMAIN tr : e[i].at = tr[i].at /\ e[i].slot = tr[i].slot
    /\ \A row : NotTried(tr, row) => NotTried(e, row)
    /\ \A s : Untried(s, t, tr) => Untried(s, t, e)
    /\ TriedOnce(t, tr) => TriedOnce(t, e)
    /\ Len(e) <= MaxAttempts
    /\ \A i \in DOMAIN e : e[i].at <= t

\* The outcome changes what the trail says of no candidate, slot or move.
LEMMA OutcomeKeeps ==
    ASSUME NEW p, NEW t \in Nat, NEW k, NEW tr \in Seq(AttemptRecords), NEW a,
           Good("flying", p, t, k, tr, a), NEW kind \in Outcomes
    PROVE  Answered(tr, Outcome(tr, kind), t, k, kind)
  <1> DEFINE e == Outcome(tr, kind)
  <1>1. tr # <<>> /\ Last(tr) = [at |-> t, slot |-> Head(k), kind |-> "pending"]
    BY DEF Good, TrailFits
  <1>2. /\ e \in Seq(AttemptRecords) /\ e # <<>> /\ Len(e) = Len(tr) /\ DOMAIN e = DOMAIN tr
        /\ \A i \in DOMAIN tr : e[i].at = tr[i].at /\ e[i].slot = tr[i].slot
        /\ Last(e).kind = kind /\ Last(e).at = t /\ Last(e).slot = Head(k)
        /\ Last(e) \in AttemptRecords
    BY <1>1, EndedTrail
  <1> HIDE DEF e
  <1>3. Last(e) = [at |-> t, slot |-> Head(k), kind |-> kind]
    BY <1>2 DEF AttemptRecords
  <1>4. DOMAIN tr = 1 .. Len(tr) /\ Len(tr) \in Nat
    BY LenProperties
  <1>5. /\ \A row : NotTried(tr, row) => NotTried(e, row)
        /\ \A s : Untried(s, t, tr) => Untried(s, t, e)
        /\ TriedOnce(t, tr) => TriedOnce(t, e)
    BY <1>2 DEF NotTried, Untried, TriedOnce
  <1>6. Len(e) <= MaxAttempts /\ \A i \in DOMAIN e : e[i].at <= t
    BY <1>2 DEF Good, TrailFits
  <1> QED
    BY <1>2, <1>3, <1>4, <1>5, <1>6 DEF e, Answered

\* The moves up to the newest attempt stay announced.
LEMMA OutcomeMoves ==
    ASSUME NEW p, NEW t \in Nat, NEW k, NEW tr \in Seq(AttemptRecords), NEW a,
           Good("flying", p, t, k, tr, a), NEW kind \in Outcomes,
           NEW e, Answered(tr, e, t, k, kind), NEW b, \A m : Announces(a, m) => Announces(b, m)
    PROVE  \A i \in 1 .. Len(e) - 1 :
              e[i].at # e[i + 1].at \/ e[i].slot = e[i + 1].slot => Announces(b, i)
  <1> SUFFICES ASSUME NEW i \in 1 .. Len(e) - 1,
                      e[i].at # e[i + 1].at \/ e[i].slot = e[i + 1].slot
               PROVE  Announces(b, i)
    OBVIOUS
  <1>1. /\ Len(e) = Len(tr) /\ DOMAIN tr = 1 .. Len(tr) /\ Len(tr) \in Nat
        /\ \A j \in DOMAIN tr : e[j].at = tr[j].at /\ e[j].slot = tr[j].slot
    BY DEF Answered
  <1>2. i \in DOMAIN tr /\ i + 1 \in DOMAIN tr /\ i \in 1 .. Len(tr) - 1
    BY <1>1
  <1>3. Announces(a, i)
    BY <1>1, <1>2 DEF Good, MovesAnnounced
  <1> QED
    BY <1>3

\* A failure that ends the candidate, or only its slot.
LEMMA GoodFailed ==
    ASSUME NEW p, NEW t \in Nat, NEW k \in Seq(Slots), NEW tr \in Seq(AttemptRecords),
           NEW a \in AuditRecords, Good("flying", p, t, k, tr, a),
           NEW kind \in Outcomes \ {"pending", "success"}
    PROVE  /\ Good("after", p, t, k, Outcome(tr, kind), a)
           /\ kind \in RateLimits \cup CredentialTerminal /\ Len(k) > 1 =>
                 Good("gate", p, t, Tail(k), Outcome(tr, kind), a)
  <1> DEFINE e == Outcome(tr, kind)
  <1>0. Answered(tr, e, t, k, kind)
    BY OutcomeKeeps
  <1>1. \A i \in 1 .. Len(e) - 1 :
           e[i].at # e[i + 1].at \/ e[i].slot = e[i + 1].slot => Announces(a, i)
    BY <1>0, OutcomeMoves
  <1>2. ASSUME NEW c \in {"gate", "after"}, NEW q,
               c = "gate" => kind \in RateLimits \cup CredentialTerminal,
               c = "gate" => IsInjective(q) /\ Untried(q, t, tr)
        PROVE  Good(c, p, t, q, e, a)
    <2> HIDE DEF e
    <2>1. Placed(c, p, t, e, a)
      BY DEF Good, Placed, AtCandidate
    <2>2. KeysFresh(c, t, q, e)
      BY <1>0, <1>2 DEF KeysFresh, Answered
    <2>3. TrailFits(c, t, q, e)
      BY <1>0 DEF TrailFits, Answered
    <2>4. MayGoOn(c, t, e)
      BY <1>0, <1>2 DEF MayGoOn, Answered
    <2>5. RowsHold(c, t, e, a)
      BY <1>0 DEF Good, RowsHold, Over, Answered
    <2>6. PendingHolds(c, t, e, a)
      BY <1>0 DEF Good, PendingHolds, AtCandidate, Answered
    <2>7. MovesAnnounced(c, t, e, a)
      BY <1>0, <1>1 DEF MovesAnnounced, Answered
    <2> QED
      BY <2>1, <2>2, <2>3, <2>4, <2>5, <2>6, <2>7 DEF Good
  <1>3. k # <<>> /\ IsInjective(k) /\ Untried(Tail(k), t, tr)
    BY DEF Good, KeysFresh
  <1>4. IsInjective(Tail(k))
    BY <1>3, TailFacts
  <1> QED
    BY <1>2, <1>3, <1>4

\* The exception that leaves execute().
LEMMA GoodEscaped ==
    ASSUME NEW p, NEW t, NEW k, NEW tr, NEW a, Good("flying", p, t, k, tr, a)
    PROVE  Good("done", p, t, k, tr, a)
  <1>1. tr # <<>> /\ Last(tr).kind = "pending"
    BY DEF Good, TrailFits
  <1>2. PendingHolds("done", t, tr, a)
    BY <1>1 DEF PendingHolds, AtCandidate
  <1>3. RowsHold("done", t, tr, a)
    BY DEF Good, RowsHold, Over
  <1>4. Placed("done", p, t, tr, a) /\ KeysFresh("done", t, k, tr) /\ TrailFits("done", t, k, tr)
        /\ MayGoOn("done", t, tr) /\ MovesAnnounced("done", t, tr, a)
    BY DEF Good, Placed, KeysFresh, TrailFits, MayGoOn, MovesAnnounced, AtCandidate
  <1> QED
    BY <1>2, <1>3, <1>4 DEF Good

\* The answer the client gets.
LEMMA GoodOpened ==
    ASSUME NEW p, NEW t \in Nat, NEW k, NEW tr \in Seq(AttemptRecords), NEW a \in AuditRecords,
           Good("flying", p, t, k, tr, a)
    PROVE  Good("done", p, t, k, Outcome(tr, "success"), SettledBy(a, t, "success"))
  <1> DEFINE e == Outcome(tr, "success")
             b == SettledBy(a, t, "success")
  <1>0. "success" \in Outcomes /\ "success" \in Verdicts
    BY DEF Outcomes, Verdicts
  <1>1. Answered(tr, e, t, k, "success")
    BY <1>0, OutcomeKeeps
  <1>2. /\ a.pending <= Len(a.rows) /\ (a.pending # 0 => a.rows[a.pending].outcome = "open")
    BY DEF Good, RowsHold
  <1>3. /\ b \in AuditRecords /\ b.pending \in {0, a.pending}
        /\ b.pending # 0 => b.rows[b.pending].outcome = "open"
        /\ DOMAIN b.rows = DOMAIN a.rows /\ Len(b.rows) = Len(a.rows)
        /\ \A n \in DOMAIN a.rows :
              /\ b.rows[n].to = a.rows[n].to /\ b.rows[n].after = a.rows[n].after
              /\ \/ n = a.pending /\ a.rows[n].to = t /\ b.rows[n].outcome = "success" /\ b.pending = 0
                 \/ (n # a.pending \/ a.rows[n].to # t) /\ b.rows[n].outcome = a.rows[n].outcome
    BY <1>0, <1>2, SettledByAudit
  <1>4. /\ a.pending \in Nat /\ Len(a.rows) \in Nat /\ DOMAIN a.rows = 1 .. Len(a.rows)
        /\ \A n \in DOMAIN a.rows : a.rows[n].to \in Nat /\ n # 0
    BY ValueFacts
  <1>5. \A m : Announces(a, m) => Announces(b, m)
    BY <1>3, AnnouncesKept
  <1>6. \A i \in 1 .. Len(e) - 1 :
           e[i].at # e[i + 1].at \/ e[i].slot = e[i + 1].slot => Announces(b, i)
    <2> HIDE DEF b
    <2> QED
      BY <1>0, <1>1, <1>5, OutcomeMoves
  <1> HIDE DEF e, b
  <1>7. ASSUME NEW n \in DOMAIN a.rows
        PROVE  /\ b.rows[n].outcome = "success" => b.rows[n].to = t
               /\ b.rows[n].outcome \in {"open", "budget_exhausted"} => NotTried(e, b.rows[n])
    <2>1. CASE n = a.pending
      <3>1. a.rows[n].to <= t /\ (a.rows[n].to < t => NotTried(tr, a.rows[n]))
        BY <1>4, <2>1 DEF Good, PendingHolds, AtCandidate
      <3>2. a.rows[n].outcome = "open"
        BY <1>2, <1>4, <2>1
      <3>3. CASE a.rows[n].to = t
        BY <1>3, <2>1, <3>3
      <3>4. CASE a.rows[n].to < t
        <4>1. NotTried(e, a.rows[n])
          BY <1>1, <3>1, <3>4 DEF Answered
        <4> QED
          BY <1>3, <1>4, <3>2, <3>4, <4>1 DEF NotTried
      <3> QED
        BY <1>4, <3>1, <3>3, <3>4
    <2>2. CASE n # a.pending
      <3>1. /\ a.rows[n].outcome # "success"
            /\ a.rows[n].outcome \in {"open", "budget_exhausted"} => NotTried(e, a.rows[n])
        BY <1>1, <2>2 DEF Good, RowsHold, Answered
      <3> QED
        BY <1>3, <2>2, <3>1 DEF NotTried
    <2> QED
      BY <2>1, <2>2
  <1>8. Placed("done", p, t, e, b) /\ KeysFresh("done", t, k, e) /\ MayGoOn("done", t, e)
    BY DEF Good, Placed, KeysFresh, MayGoOn, AtCandidate
  <1>9. TrailFits("done", t, k, e)
    BY <1>1 DEF TrailFits, Answered
  <1>10. RowsHold("done", t, e, b)
    BY <1>1, <1>2, <1>3, <1>4, <1>7 DEF RowsHold, Over, Answered
  <1>11. PendingHolds("done", t, e, b)
    BY <1>2, <1>3, <1>4, <1>7 DEF PendingHolds, AtCandidate
  <1>12. MovesAnnounced("done", t, e, b)
    BY <1>6 DEF MovesAnnounced
  <1> QED
    BY <1>8, <1>9, <1>10, <1>11, <1>12 DEF Good, e, b

\* A 429 that is retried on the same slot, or would be if the wait fitted
\* the budget: the audit trail gets a decision for this candidate again.
LEMMA GoodRetried ==
    ASSUME NEW p, NEW t \in 1..MaxAttempts, NEW k \in Seq(Slots), NEW tr \in Seq(AttemptRecords),
           NEW a \in AuditRecords, Good("flying", p, t, k, tr, a), TriedOnce(t, tr),
           NEW d, d = Decided(SettledBy(a, t, "failed"), t, Len(tr))
    PROVE  /\ d \in AuditRecords
           /\ Good("retry", p, t, k, Outcome(tr, "rate_limited"), d)
           /\ Good("after", p, t, k, Outcome(tr, "rate_limited"), Settled(d, "budget_exhausted"))
  <1> DEFINE e == Outcome(tr, "rate_limited")
             b == SettledBy(a, t, "failed")
             f == Settled(d, "budget_exhausted")
  <1>0. "rate_limited" \in Outcomes /\ t \in Nat /\ t \in Int /\ t # 0 /\ t \in 0..MaxAttempts
    BY PolicyAssumption DEF Outcomes, FailureKinds, RateLimits
  <1>1. Answered(tr, e, t, k, "rate_limited")
    BY <1>0, OutcomeKeeps
  <1>2. Shut(b, t - 1, tr) /\ b \in AuditRecords /\ \A m : Announces(a, m) => Announces(b, m)
    BY <1>0, FailureShuts
  <1>3. Len(tr) <= MaxAttempts /\ k # <<>> /\ IsInjective(k) /\ Untried(Tail(k), t, tr)
    BY DEF Good, TrailFits, KeysFresh
  <1> HIDE DEF b
  <1>4. /\ Shut(d, t, tr) /\ d \in AuditRecords
        /\ \A m : Announces(b, m) => Announces(d, m)
        /\ Announces(d, Len(tr))
        /\ d.rows[d.pending].to = t
        /\ \A n \in DOMAIN d.rows :
              n # d.pending /\ d.rows[n].outcome \in {"open", "budget_exhausted"} => d.rows[n].to <= t - 1
    <2>1. d = Decided(b, t, Len(tr)) /\ t - 1 \in Int /\ t - 1 <= t
      BY <1>0 DEF b
    <2> QED
      BY <1>0, <1>2, <1>3, <2>1, DecidedShuts
  <1>5. Shut(f, t, tr) /\ f \in AuditRecords /\ (\A m : Announces(d, m) => Announces(f, m))
        /\ f.pending = 0
    <2>1. d.pending <= Len(d.rows) /\ "budget_exhausted" \in Verdicts
      BY <1>4 DEF Shut, Verdicts
    <2> QED
      BY <1>4, <2>1, SettledShuts, SettledAudit
  <1> HIDE DEF e, f
  <1>6. \A i \in 1 .. Len(e) - 1 :
           e[i].at # e[i + 1].at \/ e[i].slot = e[i + 1].slot => Announces(d, i) /\ Announces(f, i)
    <2>1. \A m : Announces(a, m) => Announces(d, m)
      BY <1>2, <1>4
    <2>2. \A m : Announces(a, m) => Announces(f, m)
      BY <2>1, <1>5
    <2>3. \A i \in 1 .. Len(e) - 1 :
           e[i].at # e[i + 1].at \/ e[i].slot = e[i + 1].slot => Announces(d, i)
      BY <1>0, <1>1, <2>1, OutcomeMoves
    <2>4. \A i \in 1 .. Len(e) - 1 :
           e[i].at # e[i + 1].at \/ e[i].slot = e[i + 1].slot => Announces(f, i)
      BY <1>0, <1>1, <2>2, OutcomeMoves
    <2> QED
      BY <2>3, <2>4
  <1>7. ASSUME NEW row, NotTried(tr, row) PROVE NotTried(e, row)
    BY <1>1, <1>7 DEF Answered
  <1>8. \A x \in {d, f} : \A n \in DOMAIN x.rows : x.rows[n].to \in Nat
    BY <1>4, <1>5, ValueFacts
  <1>9. Good("retry", p, t, k, e, d)
    <2>1. Placed("retry", p, t, e, d)
      BY DEF Good, Placed, AtCandidate
    <2>2. KeysFresh("retry", t, k, e)
      BY <1>1, <1>3 DEF KeysFresh, Answered
    <2>3. TrailFits("retry", t, k, e)
      BY <1>1 DEF TrailFits, Answered
    <2>4. MayGoOn("retry", t, e)
      BY <1>1 DEF MayGoOn, Answered
    <2>5. RowsHold("retry", t, e, d)
      BY <1>0, <1>4, <1>7, <1>8 DEF RowsHold, Over, Shut
    <2>6. PendingHolds("retry", t, e, d)
      BY <1>0, <1>4 DEF PendingHolds, AtCandidate
    <2>7. MovesAnnounced("retry", t, e, d)
      BY <1>1, <1>4, <1>6 DEF MovesAnnounced, Answered
    <2> QED
      BY <2>1, <2>2, <2>3, <2>4, <2>5, <2>6, <2>7 DEF Good
  <1>10. Good("after", p, t, k, e, f)
    <2>1. Placed("after", p, t, e, f)
      BY DEF Good, Placed, AtCandidate
    <2>2. KeysFresh("after", t, k, e)
      BY DEF KeysFresh
    <2>3. TrailFits("after", t, k, e)
      BY <1>1 DEF TrailFits, Answered
    <2>4. MayGoOn("after", t, e)
      BY <1>1 DEF MayGoOn, Answered
    <2>5. RowsHold("after", t, e, f)
      BY <1>0, <1>5, <1>7, <1>8 DEF RowsHold, Over, Shut
    <2>6. PendingHolds("after", t, e, f)
      BY <1>5 DEF PendingHolds
    <2>7. MovesAnnounced("after", t, e, f)
      BY <1>1, <1>6 DEF MovesAnnounced, Answered
    <2> QED
      BY <2>1, <2>2, <2>3, <2>4, <2>5, <2>6, <2>7 DEF Good
  <1> QED
    BY <1>4, <1>9, <1>10 DEF e, f

(* After the slots of a candidate.                                         *)

\* The request ends, its audit trail shut.
LEMMA GoodEnds ==
    ASSUME NEW p, NEW t \in Nat, NEW k, NEW tr \in Seq(AttemptRecords), NEW a,
           Good("after", p, t, k, tr, a), NEW b, NEW upto, Shut(b, upto, tr),
           \A m : Announces(a, m) => Announces(b, m), b.pending \in Nat,
           DOMAIN b.rows = 1 .. Len(b.rows), Len(b.rows) \in Nat
    PROVE  Good("done", p, t, k, tr, b)
  <1>1. Placed("done", p, t, tr, b) /\ KeysFresh("done", t, k, tr) /\ TrailFits("done", t, k, tr)
        /\ MayGoOn("done", t, tr)
    BY DEF Good, Placed, KeysFresh, TrailFits, MayGoOn, AtCandidate
  <1>2. RowsHold("done", t, tr, b)
    BY DEF Shut, RowsHold, Over
  <1>3. PendingHolds("done", t, tr, b)
    BY DEF Shut, PendingHolds, AtCandidate
  <1>4. MovesAnnounced("done", t, tr, b)
    BY DEF Good, MovesAnnounced
  <1> QED
    BY <1>1, <1>2, <1>3, <1>4 DEF Good

\* The request goes on, its audit trail shut but for a decision to go on.
LEMMA GoodGoesOn ==
    ASSUME NEW p, NEW t \in Nat, NEW k, NEW tr \in Seq(AttemptRecords), NEW a,
           Good("after", p, t, k, tr, a),
           NEW b \in AuditRecords, Shut(b, t + 1, tr), \A m : Announces(a, m) => Announces(b, m),
           \A n \in DOMAIN b.rows :
              n # b.pending /\ b.rows[n].outcome \in {"open", "budget_exhausted"} => b.rows[n].to <= t,
           tr # <<>> => Last(tr).kind \notin {"credential_invalid", "invalid_request", "stalled"},
           tr # <<>> => Announces(b, Len(tr))
    PROVE  Good("next", p, t, k, tr, b)
  <1>0. /\ b.pending \in Nat /\ DOMAIN b.rows = 1 .. Len(b.rows) /\ Len(b.rows) \in Nat
        /\ \A n \in DOMAIN b.rows : b.rows[n].to \in Nat
    BY ValueFacts
  <1>1. Placed("next", p, t, tr, b) /\ KeysFresh("next", t, k, tr) /\ TrailFits("next", t, k, tr)
    BY DEF Good, Placed, KeysFresh, TrailFits, AtCandidate
  <1>2. MayGoOn("next", t, tr)
    BY DEF Good, MayGoOn
  <1>3. RowsHold("next", t, tr, b)
    BY <1>0 DEF Shut, RowsHold, Over
  <1>4. PendingHolds("next", t, tr, b)
    BY <1>0 DEF Shut, PendingHolds, AtCandidate
  <1>5. MovesAnnounced("next", t, tr, b)
    BY DEF Good, MovesAnnounced
  <1> QED
    BY <1>1, <1>2, <1>3, <1>4, <1>5 DEF Good

-----------------------------------------------------------------------------
(* The inductive invariant, step by step.                                  *)

\* A step of one request: the others are where they were.
Alone(r) == \A q \in Requests \ {r} :
    /\ pc'[q] = pc[q] /\ plan'[q] = plan[q] /\ ti'[q] = ti[q]
    /\ keys'[q] = keys[q] /\ trail'[q] = trail[q] /\ audit'[q] = audit[q]
\* It is enough to look at the request that moves.
LEMMA OneMoves ==
    ASSUME IInv, NEW r \in Requests, Sound(prov', cred', mdl'), Typed', Alone(r),
           Good(pc'[r], plan'[r], ti'[r], keys'[r], trail'[r], audit'[r])
    PROVE  IInv'
  <1>1. ASSUME NEW q \in Requests
        PROVE  Good(pc'[q], plan'[q], ti'[q], keys'[q], trail'[q], audit'[q])
    <2>1. CASE q = r
      BY <2>1
    <2>2. CASE q # r
      BY <2>2 DEF IInv, Alone
    <2> QED
      BY <2>1, <2>2
  <1> QED
    BY <1>1 DEF IInv

\* What the invariant says of one request.
LEMMA RequestFacts ==
    ASSUME IInv, NEW r \in Requests
    PROVE  /\ Good(pc[r], plan[r], ti[r], keys[r], trail[r], audit[r])
           /\ pc[r] \in Phases /\ rest[r] \in Seq(Targets) /\ plan[r] \in Seq(Targets)
           /\ ti[r] \in 0..MaxAttempts /\ ti[r] \in Nat
           /\ keys[r] \in Seq(Slots) /\ trail[r] \in Seq(AttemptRecords)
           /\ audit[r] \in AuditRecords /\ budget[r] \in 0..TotalBudget
           /\ Len(plan[r]) \in Nat /\ Len(trail[r]) \in Nat
           /\ pc[r] # "planning" => Len(plan[r]) <= MaxAttempts /\ ti[r] <= Len(plan[r])
           /\ pc[r] \in AtCandidate => ti[r] \in 1..Len(plan[r]) /\ ti[r] \in 1..MaxAttempts
  <1>1. Good(pc[r], plan[r], ti[r], keys[r], trail[r], audit[r])
    BY DEF IInv
  <1>2. /\ pc[r] \in Phases /\ rest[r] \in Seq(Targets) /\ plan[r] \in Seq(Targets)
        /\ ti[r] \in 0..MaxAttempts
        /\ keys[r] \in Seq(Slots) /\ trail[r] \in Seq(AttemptRecords)
        /\ audit[r] \in AuditRecords /\ budget[r] \in 0..TotalBudget
    BY DEF IInv, Typed
  <1>3. ti[r] \in Nat /\ MaxAttempts \in Nat
    BY <1>2, PolicyAssumption
  <1>4. Len(plan[r]) \in Nat /\ Len(trail[r]) \in Nat
    BY <1>2, LenProperties
  <1>5. Placed(pc[r], plan[r], ti[r], trail[r], audit[r])
    BY <1>1 DEF Good
  <1>6. pc[r] # "planning" => Len(plan[r]) <= MaxAttempts /\ ti[r] <= Len(plan[r])
    BY <1>5 DEF Placed
  <1>7. pc[r] \in AtCandidate => pc[r] # "planning" /\ ti[r] > 0
    BY <1>5 DEF Placed, AtCandidate
  <1>8. pc[r] \in AtCandidate => ti[r] \in 1..Len(plan[r]) /\ ti[r] \in 1..MaxAttempts
    BY <1>2, <1>3, <1>4, <1>6, <1>7
  <1> QED
    BY <1>1, <1>2, <1>3, <1>4, <1>6, <1>8

\* A target names a provider, with its slots, and a model.
LEMMA TargetFacts ==
    ASSUME NEW x \in Targets
    PROVE  /\ x[1] \in Providers /\ x[2] \in Models
           /\ KeyOrder[x[1]] \in Seq(Slots) /\ IsInjective(KeyOrder[x[1]])
  <1>1. x \in Providers \X Models
    BY CatalogAssumption
  <1> QED
    BY <1>1, CatalogAssumption

\* The current candidate of a request is one.
LEMMA CandidateFacts ==
    ASSUME IInv, NEW r \in Requests, pc[r] \in AtCandidate
    PROVE  Provider(r) \in Providers /\ Model(r) \in Models
  <1>1. plan[r][ti[r]] \in Targets
    BY RequestFacts, ElementOfSeq
  <1> QED
    BY <1>1, TargetFacts DEF Provider, Model

\* Any order of a provider's slots uses each once.
LEMMA OrdersFacts ==
    ASSUME NEW p \in Providers, NEW q \in Orders(p)
    PROVE  q \in Seq(Slots) /\ IsInjective(q)
  <1> DEFINE S == ToSet(KeyOrder[p])
             n == Cardinality(S)
  <1>1. KeyOrder[p] \in Seq(Slots) /\ DOMAIN KeyOrder[p] = 1 .. Len(KeyOrder[p])
        /\ Len(KeyOrder[p]) \in Nat
    BY CatalogAssumption, LenProperties
  <1>2. S \subseteq Slots /\ IsFiniteSet(S)
    <2>1. S = {KeyOrder[p][i] : i \in 1 .. Len(KeyOrder[p])}
      BY <1>1 DEF ToSet
    <2>2. KeyOrder[p] \in [1 .. Len(KeyOrder[p]) -> S]
      BY <1>1, <2>1
    <2>3. IsFiniteSet(S)
      <3>1. IsFiniteSet(1 .. Len(KeyOrder[p]))
        BY <1>1, FS_Interval
      <3>2. KeyOrder[p] \in Surjection(1 .. Len(KeyOrder[p]), S)
        BY <2>1, <2>2 DEF Surjection
      <3> QED
        BY <3>1, <3>2, FS_Surjection
    <2>4. S \subseteq Slots
      BY <1>1, <2>1, ElementOfSeq
    <2> QED
      BY <2>3, <2>4
  <1>3. n \in Nat
    BY <1>2, FS_CardinalityType
  <1>4. q \in [1..n -> S] /\ \A i, j \in 1..n : i # j => q[i] # q[j]
    BY DEF Orders, SetToSeqs
  <1> HIDE DEF n, S
  <1>5. q \in [1..n -> Slots] /\ DOMAIN q = 1..n
    BY <1>2, <1>4
  <1> QED
    BY <1>3, <1>4, <1>5, SeqDef DEF IsInjective

\* Any finite set of targets, put in some order, is a plan.
LEMMA ArrangedFacts ==
    ASSUME NEW plans \in Seq(Targets), NEW q \in SetToSeqs(ToSet(plans))
    PROVE  q \in Seq(Targets)
  <1> DEFINE S == ToSet(plans)
             n == Cardinality(S)
  <1>1. DOMAIN plans = 1 .. Len(plans) /\ Len(plans) \in Nat
    BY LenProperties
  <1>2. S \subseteq Targets /\ IsFiniteSet(S)
    <2>1. S = {plans[i] : i \in 1 .. Len(plans)}
      BY <1>1 DEF ToSet
    <2>2. plans \in [1 .. Len(plans) -> S]
      <3>1. plans \in [1 .. Len(plans) -> Targets]
        BY LenProperties
      <3> QED
        BY <2>1, <3>1
    <2>3. IsFiniteSet(S)
      <3>1. IsFiniteSet(1 .. Len(plans))
        BY <1>1, FS_Interval
      <3>2. plans \in Surjection(1 .. Len(plans), S)
        BY <2>1, <2>2 DEF Surjection
      <3> QED
        BY <3>1, <3>2, FS_Surjection
    <2>4. S \subseteq Targets
      BY <1>1, <2>1, ElementOfSeq
    <2> QED
      BY <2>3, <2>4
  <1>3. n \in Nat
    BY <1>2, FS_CardinalityType
  <1>4. q \in [1..n -> S]
    BY DEF SetToSeqs
  <1> HIDE DEF n, S
  <1>5. q \in [1..n -> Targets]
    BY <1>2, <1>4
  <1> QED
    BY <1>3, <1>5, SeqDef

\* A request arrives.
LEMMA ArriveKeeps ==
    ASSUME IInv, NEW r \in Requests, Arrive(r) PROVE IInv'
  <1>0. pc[r] = "idle"
    BY DEF Arrive
  <1>1. ti[r] = 0 /\ trail[r] = <<>> /\ audit[r] = NoAudit /\ plan[r] = <<>>
    BY <1>0, RequestFacts DEF Good, Placed
  <1>2. Sound(prov', cred', mdl')
    BY DEF IInv, Arrive, resVars
  <1>3. UNCHANGED <<ti, trail, wait, audit>> /\ Typed
    BY DEF Arrive, IInv
  <1>4. ASSUME NEW x \in Named,
               pc' = [pc EXCEPT ![r] = "next"], plan' = [plan EXCEPT ![r] = <<x>>],
               UNCHANGED <<rest, keys>>
        PROVE  IInv'
    <2>1. x \in Targets
      BY DEF Targets
    <2>2. <<x>> \in Seq(Targets) /\ Len(<<x>>) = 1
      BY <2>1
    <2>3. Len(<<x>>) <= MaxAttempts
      BY <2>2, PolicyAssumption
    <2>4. /\ pc'[r] = "next" /\ plan'[r] = <<x>> /\ ti'[r] = 0 /\ trail'[r] = <<>>
          /\ audit'[r] = NoAudit
      BY <1>1, <1>3, <1>4 DEF Typed
    <2>5. Good(pc'[r], plan'[r], ti'[r], keys'[r], trail'[r], audit'[r])
      BY <2>2, <2>3, <2>4, GoodFresh
    <2>6. Typed'
      <3>1. pc' \in [Requests -> Phases] /\ plan' \in [Requests -> Seq(Targets)]
        BY <1>3, <1>4, <2>2 DEF Typed, Phases
      <3>2. budget' \in [Requests -> 0..TotalBudget]
        BY <1>3, PolicyAssumption DEF Arrive, Typed
      <3> QED
        BY <1>3, <1>4, <3>1, <3>2 DEF Typed
    <2>7. Alone(r)
      BY <1>3, <1>4 DEF Typed, Alone
    <2> QED
      BY <1>2, <2>5, <2>6, <2>7, OneMoves
  <1>5. ASSUME NEW route \in Routes,
               pc' = [pc EXCEPT ![r] = "planning"], rest' = [rest EXCEPT ![r] = route],
               keys' = [keys EXCEPT ![r] = IF route = <<>> THEN <<>> ELSE KeyOrder[Head(route)[1]]],
               UNCHANGED plan
        PROVE  IInv'
    <2>1. route \in Seq(Targets)
      BY CatalogAssumption
    <2>2. (IF route = <<>> THEN <<>> ELSE KeyOrder[Head(route)[1]]) \in Seq(Slots)
      <3>1. CASE route = <<>>
        BY <3>1, EmptySeq
      <3>2. CASE route # <<>>
        BY <2>1, <3>2, HeadTailProperties, TargetFacts
      <3> QED
        BY <3>1, <3>2
    <2>3. /\ pc'[r] = "planning" /\ plan'[r] = <<>> /\ ti'[r] = 0 /\ trail'[r] = <<>>
          /\ audit'[r] = NoAudit
      BY <1>1, <1>3, <1>5 DEF Typed
    <2>4. <<>> \in Seq(Targets)
      BY EmptySeq
    <2>5. Good(pc'[r], plan'[r], ti'[r], keys'[r], trail'[r], audit'[r])
      BY <2>3, <2>4, GoodFresh
    <2>6. Typed'
      <3>1. /\ pc' \in [Requests -> Phases] /\ rest' \in [Requests -> Seq(Targets)]
            /\ keys' \in [Requests -> Seq(Slots)]
        BY <1>3, <1>5, <2>1, <2>2 DEF Typed, Phases
      <3>2. budget' \in [Requests -> 0..TotalBudget]
        BY <1>3, PolicyAssumption DEF Arrive, Typed
      <3> QED
        BY <1>3, <1>5, <3>1, <3>2 DEF Typed
    <2>7. Alone(r)
      BY <1>3, <1>5 DEF Typed, Alone
    <2> QED
      BY <1>2, <2>5, <2>6, <2>7, OneMoves
  <1> QED
    BY <1>4, <1>5 DEF Arrive

\* The planner looks at one candidate, or is done.
LEMMA PlannerKeeps ==
    ASSUME IInv, NEW r \in Requests, ExamineSlot(r) \/ PlanDone(r) PROVE IInv'
  <1>0. pc[r] = "planning"
    BY DEF ExamineSlot, PlanDone
  <1>1. ti[r] = 0 /\ trail[r] = <<>> /\ audit[r] = NoAudit
    BY <1>0, RequestFacts DEF Good, Placed
  <1>2. UNCHANGED <<ti, trail, wait, budget, audit>> /\ Typed
    BY DEF ExamineSlot, PlanDone, IInv
  <1>3. CASE ExamineSlot(r)
    <2> DEFINE x == Head(rest[r])
    <2>1. rest[r] \in Seq(Targets) /\ rest[r] # <<>> /\ x \in Targets /\ Tail(rest[r]) \in Seq(Targets)
      BY <1>3, RequestFacts, HeadTailProperties DEF ExamineSlot
    <2>2. x[1] \in Providers /\ x[2] \in Models
      BY <2>1, TargetFacts
    <2>3. keys[r] # <<>> => Slot(r) \in Slots /\ Tail(keys[r]) \in Seq(Slots)
      BY RequestFacts, TailFacts DEF Slot
    <2>4. Sound(prov', cred', mdl')
      <3>1. \/ UNCHANGED resVars
            \/ keys[r] # <<>> /\ GateAdmit(x[1], x[2], Slot(r))
            \/ keys[r] # <<>> /\ GateRefuse(x[1], x[2], Slot(r))
        BY <1>3 DEF ExamineSlot
      <3>2. Sound(prov, cred, mdl)
        BY DEF IInv
      <3>3. CASE UNCHANGED resVars
        BY <3>2, <3>3 DEF resVars
      <3>4. CASE keys[r] # <<>> /\ GateAdmit(x[1], x[2], Slot(r))
        BY <2>2, <2>3, <3>2, <3>4, AdmitKeepsSound
      <3>5. CASE keys[r] # <<>> /\ GateRefuse(x[1], x[2], Slot(r))
        BY <2>2, <2>3, <3>2, <3>5, RefuseKeepsSound
      <3> QED
        BY <3>1, <3>3, <3>4, <3>5
    <2>5. ASSUME NEW kept \in BOOLEAN, Examined(r, kept)
          PROVE  /\ rest' \in [Requests -> Seq(Targets)]
                 /\ plan' \in [Requests -> Seq(Targets)]
                 /\ keys' \in [Requests -> Seq(Slots)]
                 /\ \A q \in Requests \ {r} : plan'[q] = plan[q] /\ keys'[q] = keys[q]
      <3>1. Append(plan[r], x) \in Seq(Targets)
        BY <2>1, RequestFacts, AppendProperties
      <3>2. (IF Tail(rest[r]) = <<>> THEN <<>> ELSE KeyOrder[Head(Tail(rest[r]))[1]]) \in Seq(Slots)
        <4>1. CASE Tail(rest[r]) = <<>>
          BY <4>1, EmptySeq
        <4>2. CASE Tail(rest[r]) # <<>>
          <5>1. Head(Tail(rest[r])) \in Targets
            BY <2>1, <4>2, HeadTailProperties
          <5> QED
            BY <4>2, <5>1, TargetFacts
        <4> QED
          BY <4>1, <4>2
      <3>3. rest' \in [Requests -> Seq(Targets)]
        BY <1>2, <2>1, <2>5 DEF Examined, Typed
      <3>4. plan' \in [Requests -> Seq(Targets)] /\ \A q \in Requests \ {r} : plan'[q] = plan[q]
        BY <1>2, <2>5, <3>1 DEF Examined, Typed
      <3>5. keys' \in [Requests -> Seq(Slots)] /\ \A q \in Requests \ {r} : keys'[q] = keys[q]
        BY <1>2, <2>5, <3>2 DEF Examined, Typed
      <3> QED
        BY <3>3, <3>4, <3>5
    <2>6. /\ rest' \in [Requests -> Seq(Targets)]
          /\ plan' \in [Requests -> Seq(Targets)]
          /\ keys' \in [Requests -> Seq(Slots)]
          /\ \A q \in Requests \ {r} : plan'[q] = plan[q] /\ keys'[q] = keys[q]
      <3>1. \/ \E kept \in BOOLEAN : Examined(r, kept)
            \/ keys[r] # <<>> /\ keys' = [keys EXCEPT ![r] = Tail(@)] /\ UNCHANGED <<rest, plan>>
        BY <1>3 DEF ExamineSlot
      <3>2. CASE keys[r] # <<>> /\ keys' = [keys EXCEPT ![r] = Tail(@)] /\ UNCHANGED <<rest, plan>>
        BY <1>2, <2>3, <3>2 DEF Typed
      <3> QED
        BY <2>5, <3>1, <3>2
    <2>7. UNCHANGED pc
      BY <1>3 DEF ExamineSlot
    <2>8. Typed'
      BY <1>2, <2>6, <2>7 DEF Typed
    <2>9. Good(pc'[r], plan'[r], ti'[r], keys'[r], trail'[r], audit'[r])
      <3>1. plan'[r] \in Seq(Targets)
        BY <2>6
      <3> QED
        BY <1>0, <1>1, <1>2, <2>7, <3>1, GoodFresh
    <2>10. Alone(r)
      BY <1>2, <2>6, <2>7 DEF Alone
    <2> QED
      BY <2>4, <2>8, <2>9, <2>10, OneMoves
  <1>4. CASE PlanDone(r)
    <2> DEFINE c == IF plan[r] = <<>> THEN "done" ELSE "next"
    <2>1. PICK order \in IF Scoring THEN SetToSeqs(ToSet(plan[r])) ELSE {plan[r]} :
             plan' = [plan EXCEPT ![r] = SubSeq(order, 1, Least(MaxAttempts, Len(order)))]
      BY <1>4 DEF PlanDone
    <2> DEFINE cut == SubSeq(order, 1, Least(MaxAttempts, Len(order)))
    <2>2. order \in Seq(Targets)
      BY <2>1, RequestFacts, ArrangedFacts
    <2>3. cut \in Seq(Targets) /\ Len(cut) <= MaxAttempts
      <3>1. Len(order) \in Nat /\ MaxAttempts \in Nat \ {0}
        BY <2>2, LenProperties, PolicyAssumption
      <3>2. /\ Least(MaxAttempts, Len(order)) \in Nat
            /\ Least(MaxAttempts, Len(order)) <= MaxAttempts
            /\ Least(MaxAttempts, Len(order)) <= Len(order)
        BY <3>1 DEF Least
      <3>3. \A i \in 1 .. Least(MaxAttempts, Len(order)) : order[i] \in Targets
        BY <2>2, <3>1, <3>2, ElementOfSeq
      <3> QED
        BY <3>1, <3>2, <3>3, SubSeqProperties
    <2> HIDE DEF cut
    <2>4. plan' = [plan EXCEPT ![r] = cut]
      BY <2>1 DEF cut
    <2>5. pc' = [pc EXCEPT ![r] = c] /\ UNCHANGED <<resVars, rest, keys>> /\ c \in {"done", "next"}
      BY <1>4 DEF PlanDone
    <2> HIDE DEF c
    <2>6. Typed'
      BY <1>2, <2>3, <2>4, <2>5 DEF Typed, Phases
    <2>7. Good(pc'[r], plan'[r], ti'[r], keys'[r], trail'[r], audit'[r])
      <3>1. pc'[r] = c /\ plan'[r] = cut /\ ti'[r] = 0 /\ trail'[r] = <<>> /\ audit'[r] = NoAudit
        BY <1>1, <1>2, <2>4, <2>5 DEF Typed
      <3> QED
        BY <2>3, <2>5, <3>1, GoodFresh
    <2>8. Alone(r)
      BY <1>2, <2>4, <2>5 DEF Typed, Alone
    <2>9. Sound(prov', cred', mdl')
      BY <2>5 DEF IInv, resVars
    <2> QED
      BY <2>6, <2>7, <2>8, <2>9, OneMoves
  <1> QED
    BY <1>3, <1>4

\* The loop over the candidates.
LEMMA LoopKeeps ==
    ASSUME IInv, NEW r \in Requests, Exhausted(r) \/ OutOfBudget(r) \/ TakeCandidate(r)
    PROVE  IInv'
  <1>0. pc[r] = "next" /\ Good("next", plan[r], ti[r], keys[r], trail[r], audit[r])
    BY RequestFacts DEF Exhausted, OutOfBudget, TakeCandidate
  <1>1. UNCHANGED <<rest, plan, trail, budget>> /\ Typed /\ Sound(prov', cred', mdl')
    BY DEF Exhausted, OutOfBudget, TakeCandidate, IInv, resVars
  <1>2. CASE Exhausted(r)
    <2>1. pc' = [pc EXCEPT ![r] = "done"] /\ UNCHANGED <<ti, keys, wait, audit>>
      BY <1>2 DEF Exhausted
    <2>2. Good("done", plan[r], ti[r], keys[r], trail[r], audit[r])
      BY <1>0, RequestFacts, GoodLoopEnds
    <2>3. Good(pc'[r], plan'[r], ti'[r], keys'[r], trail'[r], audit'[r])
      BY <1>1, <2>1, <2>2 DEF Typed
    <2>4. Typed' /\ Alone(r)
      BY <1>1, <2>1 DEF Typed, Alone, Phases
    <2> QED
      BY <1>1, <2>3, <2>4, OneMoves
  <1>3. CASE OutOfBudget(r)
    <2>1. /\ pc' = [pc EXCEPT ![r] = "done"] /\ UNCHANGED <<ti, keys, wait>>
          /\ audit' = [audit EXCEPT ![r] = Settled(audit[r], "budget_exhausted")]
      BY <1>3 DEF OutOfBudget
    <2>2. Good("done", plan[r], ti[r], keys[r], trail[r], Settled(audit[r], "budget_exhausted"))
      BY <1>0, RequestFacts, GoodLoopEnds
    <2>3. Good(pc'[r], plan'[r], ti'[r], keys'[r], trail'[r], audit'[r])
      BY <1>1, <2>1, <2>2 DEF Typed
    <2>4. Settled(audit[r], "budget_exhausted") \in AuditRecords
      <3>1. audit[r].pending <= Len(audit[r].rows) /\ "budget_exhausted" \in Verdicts
        BY <1>0 DEF Good, RowsHold, Verdicts
      <3> QED
        BY <3>1, RequestFacts, SettledAudit
    <2>5. Typed' /\ Alone(r)
      BY <1>1, <2>1, <2>4 DEF Typed, Alone, Phases
    <2> QED
      BY <1>1, <2>3, <2>5, OneMoves
  <1>4. CASE TakeCandidate(r)
    <2> DEFINE x == plan[r][ti[r] + 1]
    <2>1. ti' = [ti EXCEPT ![r] = ti[r] + 1] /\ UNCHANGED audit /\ ti[r] < Len(plan[r])
      BY <1>4 DEF TakeCandidate
    <2>2. /\ ti[r] + 1 \in 1 .. Len(plan[r]) /\ ti[r] + 1 \in 0..MaxAttempts
      <3>1. ti[r] \in Nat /\ Len(plan[r]) \in Nat /\ Len(plan[r]) <= MaxAttempts /\ MaxAttempts \in Nat
        BY <1>0, RequestFacts, PolicyAssumption
      <3> QED
        BY <2>1, <3>1
    <2>3. x \in Targets
      BY <2>2, RequestFacts, ElementOfSeq
    <2>4. /\ Good("next", plan[r], ti[r] + 1, keys[r], trail[r], audit[r])
          /\ \A q : IsInjective(q) => Good("gate", plan[r], ti[r] + 1, q, trail[r], audit[r])
      BY <1>0, <2>1, RequestFacts, GoodTaken
    <2>5. CASE KeyOrder[x[1]] = <<>>
      <3>1. UNCHANGED <<pc, keys, wait>>
        BY <1>4, <2>5 DEF TakeCandidate
      <3>2. Good(pc'[r], plan'[r], ti'[r], keys'[r], trail'[r], audit'[r])
        BY <1>0, <1>1, <2>1, <2>4, <3>1 DEF Typed
      <3>3. Typed' /\ Alone(r)
        BY <1>1, <2>1, <2>2, <3>1 DEF Typed, Alone
      <3> QED
        BY <1>1, <3>2, <3>3, OneMoves
    <2>6. CASE KeyOrder[x[1]] # <<>>
      <3>1. PICK order \in Orders(x[1]) : keys' = [keys EXCEPT ![r] = order]
        BY <1>4, <2>6 DEF TakeCandidate
      <3>2. PICK delay \in IF Attempts(r) = 0 THEN {0} ELSE Backoffs :
               wait' = [wait EXCEPT ![r] = delay]
        BY <1>4, <2>6 DEF TakeCandidate
      <3>3. pc' = [pc EXCEPT ![r] = "gate"]
        BY <1>4, <2>6 DEF TakeCandidate
      <3>4. order \in Seq(Slots) /\ IsInjective(order)
        BY <2>3, <3>1, TargetFacts, OrdersFacts
      <3>5. delay \in Nat
        <4>1. Backoffs \subseteq Nat /\ 0 \in Nat
          BY PolicyAssumption
        <4> QED
          BY <3>2, <4>1, Zenon
      <3>6. Good("gate", plan[r], ti[r] + 1, order, trail[r], audit[r])
        BY <2>4, <3>4
      <3>7. Good(pc'[r], plan'[r], ti'[r], keys'[r], trail'[r], audit'[r])
        BY <1>1, <2>1, <3>1, <3>3, <3>6 DEF Typed
      <3>8. Typed'
        BY <1>1, <2>1, <2>2, <3>1, <3>2, <3>3, <3>4, <3>5 DEF Typed, Phases
      <3>9. Alone(r)
        BY <1>1, <2>1, <3>1, <3>3 DEF Typed, Alone
      <3> QED
        BY <1>1, <3>7, <3>8, <3>9, OneMoves
    <2> QED
      BY <2>5, <2>6
  <1> QED
    BY <1>2, <1>3, <1>4

\* Launching an attempt, whether the gate was asked or not.
LEMMA LaunchKeeps ==
    ASSUME IInv, NEW r \in Requests, pc[r] \in {"gate", "retry"}, MayTry(r), Launch(r),
           Sound(prov', cred', mdl')
    PROVE  IInv'
  <1> DEFINE x == [at |-> ti[r], slot |-> Head(keys[r]), kind |-> "pending"]
  <1>1. keys[r] # <<>> /\ Len(trail[r]) < MaxAttempts
    BY DEF MayTry, Attempts
  <1>2. ti[r] \in 1..MaxAttempts
    BY RequestFacts DEF AtCandidate
  <1>3. Good("flying", plan[r], ti[r], keys[r], Append(trail[r], x), audit[r])
    BY <1>1, <1>2, RequestFacts, GoodLaunched
  <1>4. Append(trail[r], x) \in Seq(AttemptRecords)
    <2>1. x \in AttemptRecords
      BY <1>1, <1>2, RequestFacts, TailFacts DEF AttemptRecords, Outcomes
    <2> HIDE DEF x
    <2> QED
      BY <2>1, RequestFacts, AppendProperties
  <1>5. /\ trail' = [trail EXCEPT ![r] = Append(trail[r], x)]
        /\ pc' = [pc EXCEPT ![r] = "flying"]
        /\ UNCHANGED <<rest, plan, ti, keys, wait, budget, audit>>
    BY DEF Launch, Slot
  <1> HIDE DEF x
  <1>6. Typed
    BY DEF IInv
  <1>7. Typed' /\ Alone(r)
    BY <1>4, <1>5, <1>6 DEF Typed, Alone, Phases
  <1>8. Good(pc'[r], plan'[r], ti'[r], keys'[r], trail'[r], audit'[r])
    BY <1>3, <1>5, <1>6 DEF Typed
  <1> QED
    BY <1>7, <1>8, OneMoves

\* The slot loop.
LEMMA SlotKeeps ==
    ASSUME IInv, NEW r \in Requests,
           StopTrying(r) \/ Attempt(r) \/ AttemptAgain(r) \/ SkipSlot(r)
    PROVE  IInv'
  <1>0. Typed /\ Sound(prov, cred, mdl)
    BY DEF IInv
  <1>1. CASE StopTrying(r)
    <2>1. /\ pc[r] \in {"gate", "retry"} /\ pc' = [pc EXCEPT ![r] = "after"]
          /\ UNCHANGED <<resVars, rest, plan, ti, keys, trail, wait, budget, audit>>
      BY <1>1 DEF StopTrying, AtSlot
    <2>2. Good("after", plan[r], ti[r], keys[r], trail[r], audit[r])
      BY <2>1, RequestFacts, GoodStopped
    <2>3. Good(pc'[r], plan'[r], ti'[r], keys'[r], trail'[r], audit'[r])
      BY <1>0, <2>1, <2>2 DEF Typed
    <2>4. Typed' /\ Alone(r)
      BY <1>0, <2>1 DEF Typed, Alone, Phases
    <2>5. Sound(prov', cred', mdl')
      BY <1>0, <2>1 DEF resVars
    <2> QED
      BY <2>3, <2>4, <2>5, OneMoves
  <1>2. CASE Attempt(r)
    <2>1. pc[r] = "gate" /\ MayTry(r) /\ Launch(r)
          /\ GateAdmit(Provider(r), Model(r), Slot(r))
      BY <1>2 DEF Attempt
    <2>2. Provider(r) \in Providers /\ Model(r) \in Models /\ Slot(r) \in Slots
      BY <2>1, CandidateFacts, RequestFacts, TailFacts DEF AtCandidate, Slot, MayTry
    <2>3. Sound(prov', cred', mdl')
      BY <1>0, <2>1, <2>2, AdmitKeepsSound
    <2> QED
      BY <2>1, <2>3, LaunchKeeps
  <1>3. CASE AttemptAgain(r)
    <2>1. pc[r] = "retry" /\ MayTry(r) /\ Launch(r) /\ UNCHANGED resVars
      BY <1>3 DEF AttemptAgain
    <2>2. Sound(prov', cred', mdl')
      BY <1>0, <2>1 DEF resVars
    <2> QED
      BY <2>1, <2>2, LaunchKeeps
  <1>4. CASE SkipSlot(r)
    <2>1. /\ pc[r] = "gate" /\ keys[r] # <<>>
          /\ GateRefuse(Provider(r), Model(r), Slot(r))
          /\ keys' = [keys EXCEPT ![r] = Tail(keys[r])]
          /\ UNCHANGED <<pc, rest, plan, ti, trail, wait, budget, audit>>
      BY <1>4 DEF SkipSlot, MayTry
    <2>2. Provider(r) \in Providers /\ Model(r) \in Models /\ Slot(r) \in Slots
      BY <2>1, CandidateFacts, RequestFacts, TailFacts DEF AtCandidate, Slot
    <2>3. Sound(prov', cred', mdl')
      BY <1>0, <2>1, <2>2, RefuseKeepsSound
    <2>4. Good("gate", plan[r], ti[r], Tail(keys[r]), trail[r], audit[r])
          /\ Tail(keys[r]) \in Seq(Slots)
      BY <2>1, RequestFacts, GoodSkipped, TailFacts
    <2>5. Good(pc'[r], plan'[r], ti'[r], keys'[r], trail'[r], audit'[r])
      BY <1>0, <2>1, <2>4 DEF Typed
    <2>6. Typed' /\ Alone(r)
      BY <1>0, <2>1, <2>4 DEF Typed, Alone
    <2> QED
      BY <2>3, <2>5, <2>6, OneMoves
  <1> QED
    BY <1>1, <1>2, <1>3, <1>4

\* The kinds of answers are outcomes an attempt may have.
LEMMA KindFacts ==
    /\ \A kind \in Answers : kind \in Outcomes \ {"pending", "success", "stalled"}
    /\ {"transport_error", "stalled"} \subseteq Outcomes \ {"pending", "success"}
    /\ RateLimits \cup CredentialTerminal \subseteq FailureKinds
  BY CatalogAssumption DEF Outcomes, FailureKinds, ProviderFailures, RateLimits,
     CredentialTerminal, ModelLockouts

\* A failure ends the candidate, or goes on to its next slot.
LEMMA FailedKeeps ==
    ASSUME IInv, NEW r \in Requests, pc[r] = "flying",
           NEW kind \in Outcomes \ {"pending", "success"}, trail' = Ended(r, kind),
           Sound(prov', cred', mdl'), UNCHANGED <<rest, plan, ti, wait, budget, audit>>,
           \/ pc' = [pc EXCEPT ![r] = "after"] /\ UNCHANGED keys
           \/ /\ kind \in RateLimits \cup CredentialTerminal /\ Len(keys[r]) > 1
              /\ pc' = [pc EXCEPT ![r] = "gate"] /\ keys' = [keys EXCEPT ![r] = Tail(keys[r])]
    PROVE  IInv'
  <1> DEFINE e == Outcome(trail[r], kind)
  <1>0. Typed /\ trail[r] # <<>> /\ keys[r] # <<>>
    BY RequestFacts DEF IInv, Good, TrailFits, KeysFresh
  <1>1. /\ Good("after", plan[r], ti[r], keys[r], e, audit[r])
        /\ kind \in RateLimits \cup CredentialTerminal /\ Len(keys[r]) > 1 =>
              Good("gate", plan[r], ti[r], Tail(keys[r]), e, audit[r])
    BY RequestFacts, GoodFailed
  <1>2. e \in Seq(AttemptRecords)
    BY <1>0, RequestFacts, EndedTrail
  <1>3. trail' = [trail EXCEPT ![r] = e]
    BY <1>0 DEF Ended, Outcome, Attempts, Typed
  <1> HIDE DEF e
  <1>4. CASE pc' = [pc EXCEPT ![r] = "after"] /\ UNCHANGED keys
    <2>1. Good(pc'[r], plan'[r], ti'[r], keys'[r], trail'[r], audit'[r])
      BY <1>0, <1>1, <1>3, <1>4 DEF Typed
    <2>2. Typed' /\ Alone(r)
      BY <1>0, <1>2, <1>3, <1>4 DEF Typed, Alone, Phases
    <2> QED
      BY <2>1, <2>2, OneMoves
  <1>5. CASE /\ kind \in RateLimits \cup CredentialTerminal /\ Len(keys[r]) > 1
             /\ pc' = [pc EXCEPT ![r] = "gate"] /\ keys' = [keys EXCEPT ![r] = Tail(keys[r])]
    <2>1. Tail(keys[r]) \in Seq(Slots)
      BY <1>0, RequestFacts, TailFacts
    <2>2. Good(pc'[r], plan'[r], ti'[r], keys'[r], trail'[r], audit'[r])
      BY <1>0, <1>1, <1>3, <1>5 DEF Typed
    <2>3. Typed' /\ Alone(r)
      BY <1>0, <1>2, <1>3, <1>5, <2>1 DEF Typed, Alone, Phases
    <2> QED
      BY <2>2, <2>3, OneMoves
  <1> QED
    BY <1>4, <1>5

\* A candidate that was not retried yet has tried each of its slots once.
LEMMA NotRetried ==
    ASSUME NEW r \in Requests, ~Retried(r) PROVE TriedOnce(ti[r], trail[r])
  BY DEF Retried, TriedOnce

\* A 429 is waited for and tried again, unless that would take too long.
LEMMA RetryKeeps ==
    ASSUME IInv, NEW r \in Requests, pc[r] = "flying", ~Retried(r),
           trail' = Ended(r, "rate_limited"), Sound(prov', cred', mdl'),
           UNCHANGED <<rest, plan, ti, keys, budget>>,
           NEW noted, noted = Decided(SettledBy(audit[r], ti[r], "failed"), ti[r], Attempts(r)),
           \/ /\ pc' = [pc EXCEPT ![r] = "retry"]
              /\ audit' = [audit EXCEPT ![r] = noted]
              /\ \E delay \in Nat : wait' = [wait EXCEPT ![r] = delay]
           \/ /\ pc' = [pc EXCEPT ![r] = "after"]
              /\ audit' = [audit EXCEPT ![r] = Settled(noted, "budget_exhausted")]
              /\ UNCHANGED wait
    PROVE  IInv'
  <1> DEFINE e == Outcome(trail[r], "rate_limited")
             f == Settled(noted, "budget_exhausted")
  <1>0. Typed /\ trail[r] # <<>> /\ ti[r] \in 1..MaxAttempts /\ "rate_limited" \in Outcomes
    BY RequestFacts DEF IInv, Good, TrailFits, AtCandidate, Outcomes, FailureKinds, RateLimits
  <1>1. /\ noted \in AuditRecords
        /\ Good("retry", plan[r], ti[r], keys[r], e, noted)
        /\ Good("after", plan[r], ti[r], keys[r], e, f)
    BY <1>0, RequestFacts, NotRetried, GoodRetried DEF Attempts
  <1>2. e \in Seq(AttemptRecords)
    BY <1>0, RequestFacts, EndedTrail
  <1>3. trail' = [trail EXCEPT ![r] = e]
    BY <1>0 DEF Ended, Outcome, Attempts, Typed
  <1>4. f \in AuditRecords
    <2>1. noted.pending <= Len(noted.rows) /\ "budget_exhausted" \in Verdicts
      BY <1>1 DEF Good, RowsHold, Verdicts
    <2> QED
      BY SMTT(30), <1>1, <2>1, SettledAudit
  <1> HIDE DEF e, f
  <1>5. CASE /\ pc' = [pc EXCEPT ![r] = "retry"]
             /\ audit' = [audit EXCEPT ![r] = noted]
             /\ \E delay \in Nat : wait' = [wait EXCEPT ![r] = delay]
    <2>1. Good(pc'[r], plan'[r], ti'[r], keys'[r], trail'[r], audit'[r])
      BY <1>0, <1>1, <1>3, <1>5 DEF Typed
    <2>2. wait' \in [Requests -> Nat]
      BY <1>0, <1>5 DEF Typed
    <2>3. pc' = [pc EXCEPT ![r] = "retry"] /\ audit' = [audit EXCEPT ![r] = noted]
      BY <1>5
    <2>4. Typed'
      <3>1. pc' \in [Requests -> Phases]
        BY <1>0, <2>3 DEF Typed, Phases
      <3>2. trail' \in [Requests -> Seq(AttemptRecords)]
        BY <1>0, <1>2, <1>3 DEF Typed
      <3>3. audit' \in [Requests -> AuditRecords]
        BY <1>0, <1>1, <2>3 DEF Typed
      <3> QED
        BY ONLY <1>0, <2>2, <3>1, <3>2, <3>3, UNCHANGED <<rest, plan, ti, keys, budget>> DEF Typed
    <2>5. Alone(r)
      BY <1>0, <1>3, <2>3 DEF Typed, Alone
    <2> QED
      BY <2>1, <2>4, <2>5, OneMoves
  <1>6. CASE /\ pc' = [pc EXCEPT ![r] = "after"]
             /\ audit' = [audit EXCEPT ![r] = f]
             /\ UNCHANGED wait
    <2>1. Good(pc'[r], plan'[r], ti'[r], keys'[r], trail'[r], audit'[r])
      BY <1>0, <1>1, <1>3, <1>6 DEF Typed
    <2>2. Typed'
      <3>1. pc' \in [Requests -> Phases]
        BY <1>0, <1>6 DEF Typed, Phases
      <3>2. trail' \in [Requests -> Seq(AttemptRecords)]
        BY <1>0, <1>2, <1>3 DEF Typed
      <3>3. audit' \in [Requests -> AuditRecords]
        BY <1>0, <1>4, <1>6 DEF Typed
      <3> QED
        BY ONLY <1>0, <1>6, <3>1, <3>2, <3>3, UNCHANGED <<rest, plan, ti, keys, budget>> DEF Typed
    <2>3. Alone(r)
      BY <1>0, <1>3, <1>6 DEF Typed, Alone
    <2> QED
      BY <2>1, <2>2, <2>3, OneMoves
  <1> QED
    BY <1>5, <1>6 DEF f

\* An error answer, whatever its kind and its Retry-After.
LEMMA ErrorKeeps ==
    ASSUME IInv, NEW r \in Requests, NEW kind \in Answers, NEW header,
           NEW declared \in Nat, NEW delay \in Nat, ErrorAnswer(r, kind, header, declared, delay)
    PROVE  IInv'
  <1>0. /\ pc[r] = "flying" /\ RecordFailure(Provider(r), Model(r), Slot(r), kind, delay)
        /\ trail' = Ended(r, kind) /\ UNCHANGED <<rest, plan, ti, budget>>
    BY DEF ErrorAnswer
  <1>1. Sound(prov', cred', mdl')
    <2>1. Provider(r) \in Providers /\ Model(r) \in Models
      BY <1>0, CandidateFacts DEF AtCandidate
    <2>2. keys[r] # <<>>
      BY <1>0, RequestFacts DEF Good, KeysFresh
    <2>3. Slot(r) \in Slots
      BY <2>2, RequestFacts, TailFacts DEF Slot
    <2>4. Sound(prov, cred, mdl)
      BY DEF IInv
    <2> QED
      BY <1>0, <2>1, <2>3, <2>4, FailureKeepsSound
  <1>2. CASE RetriesAfter(r, kind, header, declared)
    <2> DEFINE noted == Decided(SettledBy(audit[r], ti[r], "failed"), ti[r], Attempts(r))
    <2>1. kind = "rate_limited" /\ ~Retried(r)
      BY <1>2 DEF RetriesAfter
    <2>2. /\ UNCHANGED keys
          /\ \/ /\ pc' = [pc EXCEPT ![r] = "retry"]
                /\ audit' = [audit EXCEPT ![r] = noted]
                /\ wait' = [wait EXCEPT ![r] = declared]
             \/ /\ pc' = [pc EXCEPT ![r] = "after"]
                /\ audit' = [audit EXCEPT ![r] = Settled(noted, "budget_exhausted")]
                /\ UNCHANGED wait
      BY <1>2, Zenon DEF ErrorAnswer
    <2> HIDE DEF noted
    <2>3. noted = Decided(SettledBy(audit[r], ti[r], "failed"), ti[r], Attempts(r))
      BY DEF noted
    <2> QED
      BY <1>0, <1>1, <2>1, <2>2, <2>3, RetryKeeps
  <1>3. CASE ~RetriesAfter(r, kind, header, declared)
    <2>1. /\ UNCHANGED <<wait, audit>>
          /\ \/ pc' = [pc EXCEPT ![r] = "after"] /\ UNCHANGED keys
             \/ /\ kind \in RateLimits \cup CredentialTerminal /\ Len(keys[r]) > 1
                /\ pc' = [pc EXCEPT ![r] = "gate"] /\ keys' = [keys EXCEPT ![r] = Tail(keys[r])]
      BY <1>3 DEF ErrorAnswer
    <2>2. kind \in Outcomes \ {"pending", "success"}
      BY KindFacts
    <2> QED
      BY <1>0, <1>1, <2>1, <2>2, FailedKeeps
  <1> QED
    BY <1>2, <1>3

\* Whatever the answer to an attempt is, it keeps the invariant.
LEMMA AnswerKeeps ==
    ASSUME IInv, NEW r \in Requests, Answer(r) PROVE IInv'
  <1>0. Typed /\ Sound(prov, cred, mdl)
    BY DEF IInv
  <1>1. ASSUME pc[r] = "flying"
        PROVE  /\ Good("flying", plan[r], ti[r], keys[r], trail[r], audit[r])
               /\ Provider(r) \in Providers /\ Model(r) \in Models /\ Slot(r) \in Slots
               /\ trail[r] # <<>>
    <2>1. Provider(r) \in Providers /\ Model(r) \in Models
      BY <1>1, CandidateFacts DEF AtCandidate
    <2>2. Good("flying", plan[r], ti[r], keys[r], trail[r], audit[r])
      BY <1>1, RequestFacts
    <2>3. keys[r] # <<>> /\ trail[r] # <<>>
      BY <2>2 DEF Good, KeysFresh, TrailFits
    <2>4. Slot(r) \in Slots
      BY <2>3, RequestFacts, TailFacts DEF Slot
    <2> QED
      BY <2>1, <2>2, <2>3, <2>4
  <1>2. CASE Opened(r)
    <2> DEFINE e == Outcome(trail[r], "success")
               b == SettledBy(audit[r], ti[r], "success")
    <2>1. /\ pc[r] = "flying" /\ RecordSuccess(Provider(r), Model(r), Slot(r))
          /\ UNCHANGED <<rest, plan, ti, keys, wait, budget>>
          /\ pc' = [pc EXCEPT ![r] = "done"] /\ audit' = [audit EXCEPT ![r] = b]
      BY <1>2 DEF Opened
    <2>2. trail' = [trail EXCEPT ![r] = e]
      BY <1>0, <1>2 DEF Opened, Ended, Outcome, Attempts, Typed
    <2>3. Good("done", plan[r], ti[r], keys[r], e, b)
      BY <1>1, <2>1, RequestFacts, GoodOpened
    <2>4. e \in Seq(AttemptRecords)
      <3>1. "success" \in Outcomes
        BY DEF Outcomes
      <3> QED
        BY <1>1, <2>1, <3>1, RequestFacts, EndedTrail
    <2>5. b \in AuditRecords
      <3>1. /\ audit[r].pending <= Len(audit[r].rows) /\ "success" \in Verdicts
            /\ audit[r].pending # 0 => audit[r].rows[audit[r].pending].outcome = "open"
        BY <1>1, <2>1 DEF Good, RowsHold, Verdicts
      <3> QED
        BY <3>1, RequestFacts, SettledByAudit
    <2> HIDE DEF e, b
    <2>6. Typed' /\ Alone(r)
      BY <1>0, <2>1, <2>2, <2>4, <2>5 DEF Typed, Alone, Phases
    <2>7. Good(pc'[r], plan'[r], ti'[r], keys'[r], trail'[r], audit'[r])
      BY <1>0, <2>1, <2>2, <2>3 DEF Typed
    <2>8. Sound(prov', cred', mdl')
      BY <1>0, <1>1, <2>1, SuccessKeepsSound
    <2> QED
      BY <2>6, <2>7, <2>8, OneMoves
  <1>3. CASE NoAnswer(r)
    <2>1. /\ pc[r] = "flying" /\ RecordFailure(Provider(r), Model(r), Slot(r), "transport_error", 0)
          /\ trail' = Ended(r, "transport_error") /\ pc' = [pc EXCEPT ![r] = "after"]
          /\ UNCHANGED <<rest, plan, ti, keys, wait, budget, audit>>
      BY <1>3 DEF NoAnswer
    <2>2. Sound(prov', cred', mdl')
      BY <1>0, <1>1, <2>1, FailureKeepsSound
    <2>3. "transport_error" \in Outcomes \ {"pending", "success"}
      BY KindFacts
    <2> QED
      BY <2>1, <2>2, <2>3, FailedKeeps
  <1>4. CASE Stall(r)
    <2>1. /\ pc[r] = "flying" /\ trail' = Ended(r, "stalled") /\ pc' = [pc EXCEPT ![r] = "after"]
          /\ UNCHANGED <<resVars, rest, plan, ti, keys, wait, budget, audit>>
      BY <1>4 DEF Stall
    <2>2. Sound(prov', cred', mdl')
      BY <1>0, <2>1 DEF resVars
    <2>3. "stalled" \in Outcomes \ {"pending", "success"}
      BY KindFacts
    <2> QED
      BY <2>1, <2>2, <2>3, FailedKeeps
  <1>5. CASE Escape(r)
    <2>1. /\ pc[r] = "flying" /\ pc' = [pc EXCEPT ![r] = "done"]
          /\ UNCHANGED <<resVars, rest, plan, ti, keys, trail, wait, budget, audit>>
      BY <1>5 DEF Escape
    <2>2. Good("done", plan[r], ti[r], keys[r], trail[r], audit[r])
      BY <1>1, <2>1, GoodEscaped
    <2>3. Good(pc'[r], plan'[r], ti'[r], keys'[r], trail'[r], audit'[r])
      BY <1>0, <2>1, <2>2 DEF Typed
    <2>4. Typed' /\ Alone(r)
      BY <1>0, <2>1 DEF Typed, Alone, Phases
    <2>5. Sound(prov', cred', mdl')
      BY <1>0, <2>1 DEF resVars
    <2> QED
      BY <2>3, <2>4, <2>5, OneMoves
  <1>6. ASSUME NEW kind \in Answers, NEW header \in BOOLEAN, NEW declared \in RetryDelays \cup {0},
               NEW delay \in RetryDelays \cup {0}, ErrorAnswer(r, kind, header, declared, delay)
        PROVE  IInv'
    <2>1. declared \in Nat /\ delay \in Nat
      BY TimesAssumption
    <2> QED
      BY <1>6, <2>1, ErrorKeeps
  <1> QED
    BY <1>2, <1>3, <1>4, <1>5, <1>6 DEF Answer

\* What the request does with the slots of a candidate behind it.
LEMMA AfterKeeps ==
    ASSUME IInv, NEW r \in Requests, AfterCandidate(r) PROVE IInv'
  <1> DEFINE b == Noted(r)
             n == Attempts(r)
             to == IF Advances(r) THEN ti[r] + 1 ELSE 0
             d == Decided(b, to, n)
             f == Settled(b, "budget_exhausted")
  <1>0. /\ pc[r] = "after" /\ UNCHANGED <<resVars, rest, plan, ti, keys, trail, wait, budget>>
        /\ Typed /\ Sound(prov, cred, mdl)
    BY DEF AfterCandidate, IInv
  <1>1. /\ Good("after", plan[r], ti[r], keys[r], trail[r], audit[r])
        /\ ti[r] \in Nat /\ ti[r] \in Int /\ Len(plan[r]) \in Nat
        /\ Len(plan[r]) <= MaxAttempts /\ trail[r] \in Seq(AttemptRecords) /\ n = Len(trail[r])
        /\ audit[r] \in AuditRecords
    BY <1>0, RequestFacts DEF Attempts
  <1>2. b = IF trail[r] # <<>> /\ Last(trail[r]).at = ti[r]
            THEN SettledBy(audit[r], ti[r], "failed") ELSE audit[r]
    BY DEF Noted, FailedHere, Newest, Attempts, Last
  <1> HIDE DEF b
  <1>3. /\ Shut(b, ti[r], trail[r]) /\ b \in AuditRecords
        /\ \A m : Announces(audit[r], m) => Announces(b, m)
    <2> DEFINE a == audit[r]  tr == trail[r]  t == ti[r]
    <2>1. /\ t \in Nat /\ tr \in Seq(AttemptRecords) /\ a \in AuditRecords
          /\ Good("after", plan[r], t, keys[r], tr, a)
          /\ b = IF tr # <<>> /\ Last(tr).at = t THEN SettledBy(a, t, "failed") ELSE a
      BY <1>1, <1>2
    <2> HIDE DEF a, tr, t
    <2>2. /\ Shut(b, t, tr) /\ b \in AuditRecords
          /\ \A m : Announces(a, m) => Announces(b, m)
      BY ONLY <2>1, NotedShuts
    <2> QED
      BY <2>2 DEF a, tr, t
  <1>4. /\ Shut(f, ti[r], trail[r]) /\ f \in AuditRecords
        /\ \A m : Announces(b, m) => Announces(f, m)
    BY <1>1, <1>3, SettledShuts
  <1>5. /\ to \in 0..MaxAttempts /\ (to = 0 \/ to = ti[r] + 1) /\ (to # 0 <=> Advances(r))
        /\ to = 0 \/ ti[r] <= to
    BY <1>1, PolicyAssumption DEF Advances
  <1>6. /\ Shut(d, IF to = 0 THEN ti[r] ELSE to, trail[r]) /\ d \in AuditRecords
        /\ \A m : Announces(b, m) => Announces(d, m)
        /\ to # 0 => Announces(d, Len(trail[r]))
        /\ to # 0 => \A i \in DOMAIN d.rows :
              i # d.pending /\ d.rows[i].outcome \in {"open", "budget_exhausted"}
                 => d.rows[i].to <= ti[r]
    <2>1. Len(trail[r]) <= MaxAttempts
      BY <1>1 DEF Good, TrailFits
    <2> HIDE DEF to
    <2> QED
      BY <1>1, <1>3, <1>5, <2>1, DecidedShuts
  <1>7. ASSUME NEW x \in {b, d, f}
        PROVE  Good("done", plan[r], ti[r], keys[r], trail[r], x)
    <2>1. x \in AuditRecords /\ \A m : Announces(audit[r], m) => Announces(x, m)
      BY <1>3, <1>4, <1>6
    <2>2. /\ x.pending \in Nat /\ DOMAIN x.rows = 1 .. Len(x.rows) /\ Len(x.rows) \in Nat
      BY <1>1, <2>1, ValueFacts
    <2>3. \E upto : Shut(x, upto, trail[r])
      BY <1>3, <1>4, <1>6
    <2> QED
      BY <1>1, <2>1, <2>2, <2>3, GoodEnds
  <1>8. ASSUME Advances(r), ~Stalled(r), NEW x, x = IF Logged(r) THEN d ELSE b
        PROVE  Good("next", plan[r], ti[r], keys[r], trail[r], x)
    <2>1. x \in AuditRecords /\ \A m : Announces(audit[r], m) => Announces(x, m)
      BY <1>3, <1>6, <1>8
    <2>2. /\ Shut(x, ti[r] + 1, trail[r])
          /\ \A i \in DOMAIN x.rows :
                i # x.pending /\ x.rows[i].outcome \in {"open", "budget_exhausted"}
                   => x.rows[i].to <= ti[r]
      <3>1. CASE x = d
        BY <1>5, <1>6, <1>8, <3>1
      <3>2. CASE x = b
        <4>1. \A i \in DOMAIN b.rows : b.rows[i].to \in Nat
          BY <1>1, <1>3, ValueFacts
        <4> QED
          BY <1>1, <1>3, <3>2, <4>1 DEF Shut
      <3> QED
        BY <1>8, <3>1, <3>2
    <2>3. trail[r] # <<>> => /\ Last(trail[r]).at \in Nat /\ Last(trail[r]).at <= ti[r]
                             /\ Newest(r) = Last(trail[r])
      <3>1. trail[r] # <<>> => /\ Len(trail[r]) \in DOMAIN trail[r]
                               /\ Last(trail[r]) = trail[r][Len(trail[r])]
                               /\ trail[r][Len(trail[r])].at \in Nat
        BY <1>1, ValueFacts
      <3>2. \A i \in DOMAIN trail[r] : trail[r][i].at <= ti[r]
        BY <1>1 DEF Good, TrailFits
      <3> QED
        BY <3>1, <3>2 DEF Newest, Attempts
    <2>4. CASE FailedHere(r)
      <3>1. LastKind(r) = Last(trail[r]).kind /\ Last(trail[r]).kind # "stalled"
        BY <1>8, <2>3, <2>4 DEF LastKind, FailedHere, Stalled
      <3>2. Last(trail[r]).kind \notin {"credential_invalid", "invalid_request", "stalled"}
        BY <1>8, <3>1 DEF Advances
      <3>3. Last(trail[r]).kind # "none"
        <4>1. Last(trail[r]) \in AttemptRecords
          BY <1>1, <2>4, ValueFacts DEF FailedHere, Last
        <4> QED
          BY <4>1 DEF AttemptRecords, Outcomes, FailureKinds, ProviderFailures, RateLimits,
             CredentialTerminal, ModelLockouts
      <3>4. x = d /\ to # 0
        BY <1>5, <1>8, <3>1, <3>2, <3>3 DEF Logged
      <3>5. Announces(x, Len(trail[r]))
        BY <1>6, <3>4
      <3> QED
        BY <1>1, <2>1, <2>2, <3>2, <3>5, GoodGoesOn
    <2>5. CASE ~FailedHere(r)
      <3>1. trail[r] # <<>> => Last(trail[r]).at < ti[r]
        BY <1>1, <2>3, <2>5 DEF FailedHere
      <3>2. trail[r] # <<>> =>
               /\ Last(trail[r]).kind \notin {"credential_invalid", "invalid_request", "stalled"}
               /\ Announces(audit[r], Len(trail[r]))
        BY <1>1, <3>1 DEF Good, MayGoOn, MovesAnnounced
      <3> QED
        BY <1>1, <2>1, <2>2, <3>2, GoodGoesOn
    <2> QED
      BY <2>4, <2>5
  <1> HIDE DEF d, f, to
  <1>9. ASSUME NEW c \in {"done", "next"}, NEW x \in AuditRecords,
               pc' = [pc EXCEPT ![r] = c], audit' = [audit EXCEPT ![r] = x],
               Good(c, plan[r], ti[r], keys[r], trail[r], x)
        PROVE  IInv'
    <2>1. Typed' /\ Alone(r)
      BY <1>0, <1>9 DEF Typed, Alone, Phases
    <2>2. Good(pc'[r], plan'[r], ti'[r], keys'[r], trail'[r], audit'[r])
      BY <1>0, <1>9 DEF Typed
    <2>3. Sound(prov', cred', mdl')
      BY <1>0 DEF resVars
    <2> QED
      BY <2>1, <2>2, <2>3, OneMoves
  <1>10. CASE Stalled(r)
    <2>1. pc' = [pc EXCEPT ![r] = "done"] /\ audit' = [audit EXCEPT ![r] = b]
      BY <1>10 DEF AfterCandidate, b
    <2> QED
      BY <1>3, <1>7, <1>9, <2>1
  <1>11. CASE ~Stalled(r) /\ (Attempts(r) >= MaxAttempts \/ Spent(r))
    <2>1. /\ pc' = [pc EXCEPT ![r] = "done"]
          /\ audit' = [audit EXCEPT ![r] = IF Spent(r) THEN f ELSE b]
      <3>1. ~(Attempts(r) < MaxAttempts /\ ~Spent(r))
        BY <1>1, <1>11, PolicyAssumption DEF Attempts
      <3> QED
        BY <1>11, <3>1 DEF AfterCandidate, b, f
    <2> QED
      BY <1>3, <1>4, <1>7, <1>9, <2>1
  <1>12. CASE ~Stalled(r) /\ ~(Attempts(r) >= MaxAttempts \/ Spent(r))
    <2>1. /\ pc' = [pc EXCEPT ![r] = IF Advances(r) THEN "next" ELSE "done"]
          /\ audit' = [audit EXCEPT ![r] = IF Logged(r) THEN d ELSE b]
      BY <1>12 DEF AfterCandidate, b, d, n, to
    <2> QED
      BY <1>3, <1>6, <1>7, <1>8, <1>9, <1>12, <2>1
  <1> QED
    BY <1>10, <1>11, <1>12

\* A thread without a request.
LEMMA IdleGood ==
    /\ Good("idle", <<>>, 0, <<>>, <<>>, NoAudit)
    /\ <<>> \in Seq(Targets) /\ <<>> \in Seq(Slots) /\ <<>> \in Seq(AttemptRecords)
    /\ NoAudit \in AuditRecords /\ 0 \in 0..MaxAttempts /\ 0 \in 0..TotalBudget
  <1>1. /\ <<>> \in Seq(Targets) /\ <<>> \in Seq(Slots) /\ <<>> \in Seq(AttemptRecords)
        /\ NoAudit \in AuditRecords /\ 0 \in 0..MaxAttempts /\ 0 \in 0..TotalBudget
    BY EmptySeq, PolicyAssumption DEF NoAudit, AuditRecords
  <1>2. Len(<<>>) <= MaxAttempts
    BY EmptySeq, PolicyAssumption
  <1>3. \A k : \A p \in Seq(Targets) : p = <<>> => Good("idle", p, 0, k, <<>>, NoAudit)
    <2> SUFFICES ASSUME NEW k, NEW p \in Seq(Targets), p = <<>>
                 PROVE  Good("idle", p, 0, k, <<>>, NoAudit)
      OBVIOUS
    <2> QED
      BY <1>2, GoodFresh
  <1> QED
    BY <1>1, <1>3

\* A thread that is free again has no plan and no history.
LEMMA LeaveKeeps ==
    ASSUME IInv, NEW r \in Requests, Leave(r) PROVE IInv'
  <1>0. /\ pc' = [pc EXCEPT ![r] = "idle"] /\ plan' = [plan EXCEPT ![r] = <<>>]
        /\ ti' = [ti EXCEPT ![r] = 0] /\ keys' = [keys EXCEPT ![r] = <<>>]
        /\ trail' = [trail EXCEPT ![r] = <<>>] /\ budget' = [budget EXCEPT ![r] = 0]
        /\ audit' = [audit EXCEPT ![r] = NoAudit] /\ UNCHANGED <<resVars, rest, wait>>
    BY DEF Leave
  <1>1. Typed /\ Sound(prov, cred, mdl)
    BY DEF IInv
  <1>2. /\ <<>> \in Seq(Targets) /\ <<>> \in Seq(Slots) /\ <<>> \in Seq(AttemptRecords)
        /\ NoAudit \in AuditRecords /\ 0 \in 0..MaxAttempts /\ 0 \in 0..TotalBudget
    BY IdleGood
  <1>3. Good("idle", <<>>, 0, <<>>, <<>>, NoAudit)
    BY IdleGood
  <1>4. Good(pc'[r], plan'[r], ti'[r], keys'[r], trail'[r], audit'[r])
    BY <1>0, <1>1, <1>3 DEF Typed
  <1>5. Typed' /\ Alone(r)
    BY <1>0, <1>1, <1>2 DEF Typed, Alone, Phases
  <1>6. Sound(prov', cred', mdl')
    BY <1>0, <1>1 DEF resVars
  <1> QED
    BY <1>4, <1>5, <1>6, OneMoves

\* The passing of time disturbs no request's values.
LEMMA TickKeeps ==
    ASSUME IInv, Tick PROVE IInv'
  <1>0. /\ AgePenalties /\ wait' = [r \in Requests |-> Down(wait[r])]
        /\ budget' = [r \in Requests |-> IF pc[r] = "done" THEN budget[r] ELSE Down(budget[r])]
        /\ UNCHANGED <<pc, rest, plan, ti, keys, trail, audit>>
    BY DEF Tick
  <1>1. Typed /\ Sound(prov, cred, mdl)
    BY DEF IInv
  <1>2. /\ \A n \in Nat : Down(n) \in Nat
        /\ \A n \in 0..TotalBudget : Down(n) \in 0..TotalBudget
    BY PolicyAssumption DEF Down
  <1>3. wait' \in [Requests -> Nat] /\ budget' \in [Requests -> 0..TotalBudget]
    BY <1>0, <1>1, <1>2 DEF Typed
  <1>4. Typed'
    BY <1>0, <1>1, <1>3 DEF Typed
  <1>5. Sound(prov', cred', mdl')
    BY <1>0, <1>1, AgedKeepsSound DEF AgePenalties
  <1> QED
    BY <1>0, <1>4, <1>5 DEF IInv

\* The invariant holds at first: no thread has a request.
LEMMA InitIInv == Init => IInv
  <1> SUFFICES ASSUME Init PROVE IInv
    OBVIOUS
  <1>1. Sound(prov, cred, mdl)
    BY InitSound DEF Init
  <1>2. /\ <<>> \in Seq(Targets) /\ <<>> \in Seq(Slots) /\ <<>> \in Seq(AttemptRecords)
        /\ NoAudit \in AuditRecords /\ 0 \in 0..MaxAttempts /\ 0 \in 0..TotalBudget
    BY IdleGood
  <1>3. Typed
    BY <1>2 DEF Init, Typed, Phases
  <1>4. Good("idle", <<>>, 0, <<>>, <<>>, NoAudit)
    BY IdleGood
  <1>5. ASSUME NEW r \in Requests
        PROVE  Good(pc[r], plan[r], ti[r], keys[r], trail[r], audit[r])
    BY <1>4 DEF Init
  <1> QED
    BY <1>1, <1>3, <1>5 DEF IInv

\* Every step of a request keeps it.
LEMMA StepIInv ==
    ASSUME IInv, NEW r \in Requests, Step(r) PROVE IInv'
  <1>1. CASE ExamineSlot(r) \/ PlanDone(r)
    BY <1>1, PlannerKeeps
  <1>2. CASE Exhausted(r) \/ OutOfBudget(r) \/ TakeCandidate(r)
    BY <1>2, LoopKeeps
  <1>3. CASE StopTrying(r) \/ Attempt(r) \/ AttemptAgain(r) \/ SkipSlot(r)
    BY <1>3, SlotKeeps
  <1>4. CASE Answer(r)
    BY <1>4, AnswerKeeps
  <1>5. CASE AfterCandidate(r)
    BY <1>5, AfterKeeps
  <1> QED
    BY <1>1, <1>2, <1>3, <1>4, <1>5 DEF Step

\* So does every step of the system.
LEMMA NextIInv == IInv /\ [Next]_vars => IInv'
  <1> SUFFICES ASSUME IInv, [Next]_vars PROVE IInv'
    OBVIOUS
  <1>1. ASSUME NEW r \in Requests, Arrive(r) PROVE IInv'
    BY <1>1, ArriveKeeps
  <1>2. ASSUME NEW r \in Requests, Step(r) PROVE IInv'
    BY <1>2, StepIInv
  <1>3. ASSUME NEW r \in Requests, Leave(r) PROVE IInv'
    BY <1>3, LeaveKeeps
  <1>4. CASE Tick
    BY <1>4, TickKeeps
  <1>5. CASE UNCHANGED vars
    BY <1>5 DEF vars, reqVars, resVars, IInv, Typed
  <1> QED
    BY <1>1, <1>2, <1>3, <1>4, <1>5 DEF Next

\* Hence it always holds.
LEMMA AlwaysIInv == Spec => []IInv
  BY InitIInv, NextIInv, PTL DEF Spec

-----------------------------------------------------------------------------
(* The theorems.                                                           *)

\* Every variable keeps its type.
THEOREM TypeCorrect == Spec => []TypeOK
  <1>1. IInv => TypeOK
    <2> SUFFICES ASSUME IInv PROVE TypeOK
      OBVIOUS
    <2>1. ResilienceTypeOK
      BY DEF IInv, Sound, ResilienceTypeOK
    <2>2. ASSUME NEW r \in Requests
          PROVE  /\ rest[r] \in Seq(Targets) /\ plan[r] \in Seq(Targets)
                 /\ keys[r] \in Seq(Slots)
                 /\ trail[r] \in Seq(AttemptRecords)
                 /\ audit[r].rows \in Seq(RowRecords)
                 /\ audit[r].pending \in 0..Len(audit[r].rows)
      <3>1. RowsHold(pc[r], ti[r], trail[r], audit[r])
        BY DEF IInv, Good
      <3>2. audit[r] \in AuditRecords /\ trail[r] \in Seq(AttemptRecords)
        BY RequestFacts
      <3>3. Len(audit[r].rows) \in Nat /\ audit[r].pending \in Nat
        BY <3>2, ValueFacts
      <3> QED
        BY <3>1, <3>2, <3>3, RequestFacts DEF RowsHold, AuditRecords
    <2> QED
      BY <2>1, <2>2 DEF IInv, Typed, TypeOK, AttemptRecords, RowRecords
  <1> QED
    BY <1>1, AlwaysIInv, PTL

\* The rows of a finished request tell what happened to their destinations.
THEOREM AuditIsTrue == Spec => []AuditTellsTruth
  <1>1. IInv => AuditTellsTruth
    <2> SUFFICES ASSUME IInv, NEW r \in Requests, pc[r] = "done", Reply(r) # "lost",
                        NEW row \in Rows(r)
                 PROVE  /\ row.outcome = "success" => Reply(r) = "opened" /\ Newest(r).at = row.to
                        /\ row.outcome \in {"open", "budget_exhausted"} => Tried(r, row) = {}
      BY DEF AuditTellsTruth
    <2>1. PICK n \in DOMAIN audit[r].rows : row = audit[r].rows[n]
      BY DEF Rows, ToSet
    <2>2. /\ RowsHold("done", ti[r], trail[r], audit[r])
          /\ PendingHolds("done", ti[r], trail[r], audit[r])
      BY RequestFacts DEF Good
    <2>3. Newest(r) = Last(trail[r])
      BY DEF Newest, Attempts, Last
    <2>4. row.outcome = "success" => Reply(r) = "opened" /\ Newest(r).at = row.to
      BY <2>1, <2>2, <2>3 DEF RowsHold, Reply
    <2>5. /\ audit[r].pending \in Nat /\ 0 \notin DOMAIN audit[r].rows
          /\ DOMAIN audit[r].rows = 1 .. Len(audit[r].rows)
      BY RequestFacts, ValueFacts
    <2>6. row.outcome \in {"open", "budget_exhausted"} => NotTried(trail[r], row)
      <3>1. ~(trail[r] # <<>> /\ Last(trail[r]).kind = "pending")
        BY <2>3 DEF Reply
      <3>2. CASE n = audit[r].pending
        BY <2>1, <2>2, <2>5, <3>1, <3>2 DEF PendingHolds
      <3>3. CASE n # audit[r].pending
        BY <2>1, <2>2, <3>3 DEF RowsHold
      <3> QED
        BY <3>2, <3>3
    <2> QED
      BY <2>4, <2>6 DEF NotTried, Tried
  <1> QED
    BY <1>1, AlwaysIInv, PTL

\* A decision row separates any two attempts a request moved between.
THEOREM MovesAreAnnounced == Spec => []EveryMoveIsAnnounced
  <1>1. IInv => EveryMoveIsAnnounced
    <2> SUFFICES ASSUME IInv, NEW r \in Requests, NEW i \in DOMAIN trail[r], i + 1 \in DOMAIN trail[r],
                        \/ trail[r][i].at # trail[r][i + 1].at
                        \/ trail[r][i].slot = trail[r][i + 1].slot
                 PROVE  \E row \in Rows(r) : row.after = i /\ row.to # 0
      BY DEF EveryMoveIsAnnounced
    <2>1. DOMAIN trail[r] = 1 .. Len(trail[r]) /\ Len(trail[r]) \in Nat
      BY RequestFacts, ValueFacts
    <2>2. i \in 1 .. Len(trail[r]) - 1
      BY <2>1
    <2>3. Announces(audit[r], i)
      BY <2>2, RequestFacts DEF Good, MovesAnnounced
    <2> QED
      BY <2>3 DEF Announces, Rows, ToSet
  <1> QED
    BY <1>1, AlwaysIInv, PTL

-----------------------------------------------------------------------------
(* The executor implements FailoverContract.tla: an attempt is a Try, an   *)
(* answer a Fail, Deliver or Lose, the end without an answer a GiveUp, and *)
(* every other step leaves what the contract sees as it was.               *)

Given == [r \in Requests |-> Reply(r)]

\* A step of one request changes at most its own reply.
LEMMA OneReply ==
    ASSUME NEW r \in Requests,
           \A q \in Requests \ {r} : pc'[q] = pc[q] /\ trail'[q] = trail[q]
    PROVE  Given' = [Given EXCEPT ![r] = Reply(r)']
  <1>1. \A q \in Requests \ {r} : Reply(q)' = Reply(q)
    BY DEF Reply, Newest, Attempts
  <1>2. Given' = [q \in Requests |-> Reply(q)'] /\ Given = [q \in Requests |-> Reply(q)]
    BY DEF Given
  <1> QED
    BY <1>1, <1>2

\* A request that was not done and is not done has no reply.
LEMMA NoReply ==
    ASSUME IInv, NEW r \in Requests, NEW c \in Phases \ {"done"}, pc[r] # "done",
           pc' = [pc EXCEPT ![r] = c],
           \A q \in Requests \ {r} : trail'[q] = trail[q]
    PROVE  Given[r] = "none" /\ UNCHANGED Given
  <1>1. pc \in [Requests -> Phases]
    BY DEF IInv, Typed
  <1>2. Given' = [Given EXCEPT ![r] = Reply(r)']
    BY <1>1, OneReply
  <1>3. Reply(r) = "none" /\ Reply(r)' = "none"
    BY <1>1 DEF Reply
  <1> QED
    BY <1>2, <1>3 DEF Given

\* An attempt is out exactly while the request waits for its answer.
LEMMA WaitingFacts ==
    ASSUME IInv, NEW r \in Requests
    PROVE  /\ pc[r] = "flying" => Contract!Waiting(r)
           /\ pc[r] \notin {"flying", "done"} => ~Contract!Waiting(r)
           /\ pc[r] \notin {"flying", "done"} /\ trail[r] # <<>> => Last(trail[r]).kind # "success"
           /\ Contract!Newest(r) = Last(trail[r]) /\ Newest(r) = Last(trail[r])
  <1>1. Contract!Newest(r) = Last(trail[r]) /\ Newest(r) = Last(trail[r])
    BY DEF Contract!Newest, Newest, Attempts, Last
  <1>2. TrailFits(pc[r], ti[r], keys[r], trail[r]) /\ MayGoOn(pc[r], ti[r], trail[r])
    BY DEF IInv, Good
  <1> QED
    BY <1>1, <1>2 DEF TrailFits, MayGoOn, Contract!Waiting

\* An attempt the gate admitted, or a retry, is one the contract allows.
LEMMA LaunchTries ==
    ASSUME IInv, NEW r \in Requests, pc[r] \in {"gate", "retry"}, MayTry(r), Launch(r)
    PROVE  Contract!Next
  <1> DEFINE x == [at |-> ti[r], slot |-> Slot(r), kind |-> "pending"]
  <1>1. ti[r] \in 1..MaxAttempts /\ Slot(r) \in Slots /\ keys[r] # <<>>
    BY RequestFacts, TailFacts DEF AtCandidate, MayTry, Slot
  <1>2. /\ trail' = [trail EXCEPT ![r] = Append(trail[r], x)]
        /\ pc' = [pc EXCEPT ![r] = "flying"] /\ Len(trail[r]) < MaxAttempts
    BY DEF Launch, MayTry, Attempts
  <1>3. Given[r] = "none" /\ UNCHANGED Given
    <2>1. \A q \in Requests \ {r} : trail'[q] = trail[q]
      BY <1>2 DEF IInv, Typed
    <2> QED
      BY <1>2, <2>1, NoReply DEF Phases
  <1>4. ~Contract!Waiting(r)
    BY WaitingFacts
  <1>5. Contract!MayFollow(r, ti[r], Slot(r))
    <2>1. /\ KeysFresh(pc[r], ti[r], keys[r], trail[r])
          /\ TrailFits(pc[r], ti[r], keys[r], trail[r])
          /\ MayGoOn(pc[r], ti[r], trail[r])
      BY RequestFacts DEF Good
    <2>2. CASE trail[r] = <<>>
      BY <2>2 DEF Contract!MayFollow
    <2>3. CASE trail[r] # <<>> /\ pc[r] = "retry"
      BY <2>1, <2>3, WaitingFacts DEF TrailFits, TriedOnce, Slot, Contract!MayFollow, Contract!On
    <2>4. CASE trail[r] # <<>> /\ pc[r] = "gate"
      <3>1. Last(trail[r]).at <= ti[r] /\ Last(trail[r]).at \in Nat /\ ti[r] \in Nat
        BY <2>1, <2>4, RequestFacts, ValueFacts DEF TrailFits
      <3>2. CASE Last(trail[r]).at < ti[r]
        BY <2>1, <2>4, <3>1, <3>2, WaitingFacts DEF MayGoOn, Contract!MayFollow, Contract!Final
      <3>3. CASE Last(trail[r]).at = ti[r]
        <4>1. Last(trail[r]).kind \in Contract!KeyFailures
          BY <2>1, <2>4, <3>3 DEF MayGoOn, RateLimits, CredentialTerminal, Contract!KeyFailures
        <4>2. 1 \in DOMAIN keys[r] /\ Slot(r) = keys[r][1]
          BY <1>1, RequestFacts, EmptySeq, LenProperties DEF Slot
        <4>3. \A i \in Contract!On(r, ti[r]) : trail[r][i].slot # Slot(r)
          BY <2>1, <2>4, <4>2 DEF KeysFresh, Untried, Contract!On
        <4> QED
          BY <3>3, <4>1, <4>3, WaitingFacts DEF Contract!MayFollow
      <3> QED
        BY <3>1, <3>2, <3>3
    <2> QED
      BY <2>2, <2>3, <2>4
  <1>6. Contract!Try(r, ti[r], Slot(r))
    BY <1>2, <1>3, <1>4, <1>5 DEF Contract!Try, Given
  <1> QED
    BY <1>1, <1>6 DEF Contract!Next

\* The loop ends without an answer: the request gives up.
LEMMA EndGivesUp ==
    ASSUME IInv, NEW r \in Requests, pc[r] \notin {"flying", "done"},
           pc' = [pc EXCEPT ![r] = "done"], UNCHANGED trail
    PROVE  Contract!Next
  <1>1. pc \in [Requests -> Phases]
    BY DEF IInv, Typed
  <1>2. Given' = [Given EXCEPT ![r] = Reply(r)']
    BY <1>1, OneReply
  <1>3. Given[r] = "none" /\ ~Contract!Waiting(r)
    BY WaitingFacts DEF Given, Reply
  <1>4. Reply(r)' = IF trail[r] = <<>> THEN "unavailable" ELSE "failure"
    <2>1. pc'[r] = "done" /\ Newest(r)' = Newest(r)
      BY <1>1 DEF Newest, Attempts
    <2>2. trail[r] # <<>> => Newest(r).kind \notin {"success", "pending"}
      BY <1>3, WaitingFacts DEF Contract!Waiting
    <2> QED
      BY <2>1, <2>2 DEF Reply
  <1>5. Contract!GiveUp(r)
    BY <1>2, <1>3, <1>4 DEF Contract!GiveUp, Given
  <1> QED
    BY <1>5 DEF Contract!Next

\* A failed attempt ends, and the request goes on without a reply.
LEMMA FailureFails ==
    ASSUME IInv, NEW r \in Requests, pc[r] = "flying", NEW c \in {"after", "gate", "retry"},
           pc' = [pc EXCEPT ![r] = c],
           NEW kind \in FailureKinds \cup {"stalled"}, trail' = Ended(r, kind)
    PROVE  Contract!Next
  <1>1. \A q \in Requests \ {r} : trail'[q] = trail[q]
    BY DEF Ended, IInv, Typed
  <1>2. Given[r] = "none" /\ UNCHANGED Given
    BY <1>1, NoReply DEF Phases
  <1>3. Contract!Waiting(r)
    BY WaitingFacts
  <1>4. Contract!Fail(r, kind)
    BY <1>2, <1>3 DEF Contract!Fail, Contract!Settled, Ended, Attempts, Given
  <1> QED
    BY <1>4 DEF Contract!Next

\* Every answer is one the contract knows.
LEMMA AnswerImplements ==
    ASSUME IInv, NEW r \in Requests, Answer(r) PROVE Contract!Next
  <1>0. Typed
    BY DEF IInv
  <1>1. CASE Opened(r)
    <2>1. /\ pc[r] = "flying" /\ pc' = [pc EXCEPT ![r] = "done"] /\ trail' = Ended(r, "success")
      BY <1>1 DEF Opened
    <2>2. Contract!Waiting(r) /\ Given[r] = "none"
      BY <2>1, WaitingFacts DEF Given, Reply
    <2>3. Given' = [Given EXCEPT ![r] = Reply(r)']
      BY <1>0, <2>1, OneReply DEF Ended, Typed
    <2>4. Reply(r)' = "opened"
      <3>1. trail'[r] = Outcome(trail[r], "success") /\ pc'[r] = "done"
        BY <1>0, <2>1 DEF Ended, Outcome, Attempts, Typed
      <3>2. trail[r] # <<>> /\ "success" \in Outcomes
        BY <2>2 DEF Contract!Waiting, Outcomes
      <3>3. trail'[r] # <<>> /\ Last(trail'[r]).kind = "success"
        BY <3>1, <3>2, RequestFacts, EndedTrail
      <3> QED
        BY <3>1, <3>3 DEF Reply, Newest, Attempts, Last
    <2>5. Contract!Deliver(r)
      BY <2>1, <2>2, <2>3, <2>4 DEF Contract!Deliver, Contract!Settled, Ended, Attempts, Given
    <2> QED
      BY <2>5 DEF Contract!Next
  <1>2. CASE NoAnswer(r)
    <2>1. "transport_error" \in FailureKinds
      BY DEF FailureKinds, ProviderFailures
    <2> QED
      BY <1>2, <2>1, FailureFails DEF NoAnswer
  <1>3. CASE Stall(r)
    BY <1>3, FailureFails DEF Stall
  <1>4. CASE Escape(r)
    <2>1. pc[r] = "flying" /\ pc' = [pc EXCEPT ![r] = "done"] /\ UNCHANGED trail
      BY <1>4 DEF Escape
    <2>2. Contract!Waiting(r) /\ Given[r] = "none"
      BY <2>1, WaitingFacts DEF Given, Reply
    <2>3. Given' = [Given EXCEPT ![r] = Reply(r)']
      BY <1>0, <2>1, OneReply DEF Typed
    <2>4. Reply(r)' = "lost"
      <3>1. pc'[r] = "done" /\ Newest(r)' = Newest(r)
        BY <1>0, <2>1 DEF Newest, Attempts, Typed
      <3>2. trail[r] # <<>> /\ Newest(r).kind = "pending"
        BY <2>2, WaitingFacts DEF Contract!Waiting
      <3> QED
        BY <2>1, <3>1, <3>2 DEF Reply
    <2>5. Contract!Lose(r)
      BY <2>1, <2>2, <2>3, <2>4 DEF Contract!Lose, Given
    <2> QED
      BY <2>5 DEF Contract!Next
  <1>5. ASSUME NEW kind \in Answers, NEW header, NEW declared, NEW delay,
               ErrorAnswer(r, kind, header, declared, delay)
        PROVE  Contract!Next
    <2>1. /\ pc[r] = "flying" /\ trail' = Ended(r, kind)
          /\ \E c \in {"after", "gate", "retry"} : pc' = [pc EXCEPT ![r] = c]
      BY <1>5 DEF ErrorAnswer
    <2>2. kind \in FailureKinds
      BY CatalogAssumption
    <2> QED
      BY <2>1, <2>2, FailureFails
  <1> QED
    BY <1>1, <1>2, <1>3, <1>4, <1>5 DEF Answer

\* Every step of a request is a step of the contract, or none.
LEMMA StepImplements ==
    ASSUME IInv, NEW r \in Requests, Step(r)
    PROVE  Contract!Next \/ UNCHANGED <<trail, Given>>
  <1>1. ASSUME pc[r] \notin {"flying", "done"}, UNCHANGED trail,
               NEW c \in Phases, pc' = [pc EXCEPT ![r] = c]
        PROVE  Contract!Next \/ UNCHANGED <<trail, Given>>
    <2>1. CASE c = "done"
      BY <1>1, <2>1, EndGivesUp
    <2>2. CASE c # "done"
      BY <1>1, <2>2, NoReply
    <2> QED
      BY <2>1, <2>2
  <1>2. ASSUME UNCHANGED <<pc, trail>>
        PROVE  UNCHANGED <<trail, Given>>
    BY <1>2 DEF Given, Reply, Newest, Attempts
  <1>3. CASE ExamineSlot(r)
    BY <1>2, <1>3 DEF ExamineSlot
  <1>4. CASE PlanDone(r)
    BY <1>1, <1>4 DEF PlanDone, Phases
  <1>5. CASE Exhausted(r) \/ OutOfBudget(r)
    BY <1>1, <1>5 DEF Exhausted, OutOfBudget, Phases
  <1>6. CASE TakeCandidate(r)
    <2>1. pc[r] = "next" /\ UNCHANGED trail
      BY <1>6 DEF TakeCandidate
    <2>2. UNCHANGED pc \/ pc' = [pc EXCEPT ![r] = "gate"]
      BY <1>6, Zenon DEF TakeCandidate
    <2> QED
      BY <1>1, <1>2, <2>1, <2>2 DEF Phases
  <1>7. CASE StopTrying(r)
    BY <1>1, <1>7 DEF StopTrying, AtSlot, Phases
  <1>8. CASE Attempt(r) \/ AttemptAgain(r)
    BY <1>8, LaunchTries DEF Attempt, AttemptAgain
  <1>9. CASE SkipSlot(r)
    BY <1>2, <1>9 DEF SkipSlot
  <1>10. CASE Answer(r)
    BY <1>10, AnswerImplements
  <1>11. CASE AfterCandidate(r)
    <2>1. pc[r] = "after" /\ UNCHANGED trail
      BY <1>11 DEF AfterCandidate
    <2>2. pc' = [pc EXCEPT ![r] = "done"] \/ pc' = [pc EXCEPT ![r] = "next"]
      BY <1>11, Zenon DEF AfterCandidate
    <2> QED
      BY <1>1, <2>1, <2>2 DEF Phases
  <1> QED
    BY <1>3, <1>4, <1>5, <1>6, <1>7, <1>8, <1>9, <1>10, <1>11 DEF Step

\* So is every step of the system.
LEMMA NextImplements ==
    ASSUME IInv, [Next]_vars
    PROVE  Contract!Next \/ UNCHANGED <<trail, Given>>
  <1>1. ASSUME UNCHANGED <<pc, trail>>
        PROVE  UNCHANGED <<trail, Given>>
    BY <1>1 DEF Given, Reply, Newest, Attempts
  <1>2. ASSUME NEW r \in Requests, Arrive(r)
        PROVE  UNCHANGED <<trail, Given>>
    <2>1. pc[r] = "idle" /\ UNCHANGED trail
      BY <1>2 DEF Arrive
    <2>2. \E c \in {"next", "planning"} : pc' = [pc EXCEPT ![r] = c]
      BY <1>2, Zenon DEF Arrive
    <2> QED
      BY <2>1, <2>2, NoReply DEF Phases
  <1>3. ASSUME NEW r \in Requests, Step(r)
        PROVE  Contract!Next \/ UNCHANGED <<trail, Given>>
    BY <1>3, StepImplements
  <1>4. ASSUME NEW r \in Requests, Leave(r)
        PROVE  Contract!Next
    <2>1. /\ pc[r] = "done" /\ pc' = [pc EXCEPT ![r] = "idle"]
          /\ trail' = [trail EXCEPT ![r] = <<>>] /\ Typed
      BY <1>4 DEF Leave, IInv
    <2>2. Given' = [Given EXCEPT ![r] = Reply(r)']
      BY <2>1, OneReply DEF Typed
    <2>3. Reply(r)' = "none" /\ Given[r] # "none"
      BY <2>1 DEF Typed, Reply, Given
    <2>4. Contract!Again(r)
      BY <2>1, <2>2, <2>3 DEF Contract!Again, Given
    <2> QED
      BY <2>4 DEF Contract!Next
  <1>5. CASE Tick
    BY <1>1, <1>5 DEF Tick
  <1>6. CASE UNCHANGED vars
    BY <1>1, <1>6 DEF vars, reqVars
  <1> QED
    BY <1>2, <1>3, <1>4, <1>5, <1>6 DEF Next

\* Whatever plans, keys, gates, answers and other requests there are, a
\* request is served as the contract promises.
THEOREM ImplementsContract == Spec => KeepsContract
  <1>1. Init => Contract!Init
    BY DEF Init, Contract!Init, Reply
  <1>2. IInv /\ [Next]_vars => [Contract!Next]_(Contract!vars)
    BY NextImplements DEF Contract!vars, Given
  <1> QED
    BY <1>1, <1>2, AlwaysIInv, PTL DEF Spec, KeepsContract, Contract!Spec

-----------------------------------------------------------------------------
(* Reservations.  Without virtual models nothing is examined before it is  *)
(* attempted, and without body faults every attempt is reported; then the  *)
(* attempt that took a probe is still out while the probe is reserved.     *)

\* Nobody plans when there is nothing to plan.
NoPlanning == \A r \in Requests : pc[r] # "planning"
\* No request starts to plan.
LEMMA NextPlansNothing ==
    ASSUME Routes = {}, IInv, NoPlanning, [Next]_vars PROVE NoPlanning'
  <1>1. pc \in [Requests -> Phases]
    BY DEF IInv, Typed
  <1>2. ASSUME NEW r \in Requests, NEW c \in Phases \ {"planning"}, pc' = [pc EXCEPT ![r] = c]
        PROVE  NoPlanning'
    BY <1>1, <1>2 DEF NoPlanning
  <1>3. ASSUME UNCHANGED pc PROVE NoPlanning'
    BY <1>3 DEF NoPlanning
  <1>4. ASSUME NEW r \in Requests, Arrive(r) PROVE NoPlanning'
    <2>1. pc' = [pc EXCEPT ![r] = "next"]
      BY <1>4 DEF Arrive
    <2> QED
      BY <1>2, <2>1 DEF Phases
  <1>5. ASSUME NEW r \in Requests, ExamineSlot(r) \/ PlanDone(r) PROVE NoPlanning'
    BY <1>5 DEF ExamineSlot, PlanDone, NoPlanning
  <1>6. ASSUME NEW r \in Requests, Exhausted(r) \/ OutOfBudget(r) \/ StopTrying(r) PROVE NoPlanning'
    BY <1>2, <1>6 DEF Exhausted, OutOfBudget, StopTrying, Phases
  <1>7. ASSUME NEW r \in Requests, TakeCandidate(r) PROVE NoPlanning'
    <2>1. UNCHANGED pc \/ pc' = [pc EXCEPT ![r] = "gate"]
      BY <1>7, Zenon DEF TakeCandidate
    <2> QED
      BY <1>2, <1>3, <2>1 DEF Phases
  <1>8. ASSUME NEW r \in Requests, Attempt(r) \/ AttemptAgain(r) \/ SkipSlot(r) PROVE NoPlanning'
    BY <1>2, <1>3, <1>8 DEF Attempt, AttemptAgain, Launch, SkipSlot, Phases
  <1>9. ASSUME NEW r \in Requests, Opened(r) \/ NoAnswer(r) \/ Stall(r) \/ Escape(r) PROVE NoPlanning'
    BY <1>2, <1>9 DEF Opened, NoAnswer, Stall, Escape, Phases
  <1>10. ASSUME NEW r \in Requests, NEW kind, NEW header, NEW declared, NEW delay,
                ErrorAnswer(r, kind, header, declared, delay)
         PROVE  NoPlanning'
    <2>1. \E c \in {"after", "gate", "retry"} : pc' = [pc EXCEPT ![r] = c]
      BY <1>10 DEF ErrorAnswer
    <2> QED
      BY <1>2, <2>1 DEF Phases
  <1>11. ASSUME NEW r \in Requests, AfterCandidate(r) PROVE NoPlanning'
    <2>1. pc' = [pc EXCEPT ![r] = "done"] \/ pc' = [pc EXCEPT ![r] = "next"]
      BY <1>11, Zenon DEF AfterCandidate
    <2> QED
      BY <1>2, <2>1 DEF Phases
  <1>12. ASSUME NEW r \in Requests, Leave(r) PROVE NoPlanning'
    BY <1>2, <1>12 DEF Leave, Phases
  <1>13. CASE Tick
    BY <1>3, <1>13 DEF Tick
  <1>14. CASE UNCHANGED vars
    BY <1>3, <1>14 DEF vars, reqVars
  <1> QED
    BY <1>4, <1>5, <1>6, <1>7, <1>8, <1>9, <1>10, <1>11, <1>12, <1>13, <1>14 DEF Next, Step, Answer

\* A request that has an attempt out for this circuit, or for this slot.
OwnsProbe(r, p) == pc[r] = "flying" /\ Provider(r) = p
OwnsSlot(r, p, s) == OwnsProbe(r, p) /\ Slot(r) = s

\* A step of one request leaves the reservations of the others owned.
LEMMA OthersOwn ==
    ASSUME ReservationHasOwner, NEW r \in Requests,
           \A q \in Requests \ {r} : /\ pc'[q] = pc[q] /\ plan'[q] = plan[q] /\ ti'[q] = ti[q]
                                     /\ keys'[q] = keys[q],
           \A p \in Providers : prov'[p].probe => \/ prov[p].probe /\ ~OwnsProbe(r, p)
                                                  \/ OwnsProbe(r, p)',
           \A p \in Providers, s \in Slots :
              cred'[<<p, s>>].probe => \/ cred[<<p, s>>].probe /\ ~OwnsSlot(r, p, s)
                                       \/ OwnsSlot(r, p, s)'
    PROVE  ReservationHasOwner'
  <1>1. \A p : \A q \in Requests \ {r} : OwnsProbe(q, p)' = OwnsProbe(q, p)
    BY DEF OwnsProbe, Provider
  <1>2. \A p, s : \A q \in Requests \ {r} : OwnsSlot(q, p, s)' = OwnsSlot(q, p, s)
    BY DEF OwnsSlot, OwnsProbe, Provider, Slot
  <1>3. ASSUME NEW p \in Providers, prov'[p].probe
        PROVE  \E q \in Requests : OwnsProbe(q, p)'
    <2>1. CASE OwnsProbe(r, p)'
      BY <2>1
    <2>2. CASE prov[p].probe /\ ~OwnsProbe(r, p)
      <3>1. PICK q \in Requests : OwnsProbe(q, p)
        BY <2>2 DEF ReservationHasOwner, OwnsProbe
      <3> QED
        BY <1>1, <2>2, <3>1
    <2> QED
      BY <1>3, <2>1, <2>2
  <1>4. ASSUME NEW p \in Providers, NEW s \in Slots, cred'[<<p, s>>].probe
        PROVE  \E q \in Requests : OwnsSlot(q, p, s)'
    <2>1. CASE OwnsSlot(r, p, s)'
      BY <2>1
    <2>2. CASE cred[<<p, s>>].probe /\ ~OwnsSlot(r, p, s)
      <3>1. PICK q \in Requests : OwnsSlot(q, p, s)
        BY <2>2 DEF ReservationHasOwner, OwnsSlot, OwnsProbe
      <3> QED
        BY <1>2, <2>2, <3>1
    <2> QED
      BY <1>4, <2>1, <2>2
  <1> QED
    BY <1>3, <1>4 DEF ReservationHasOwner, OwnsProbe, OwnsSlot

\* A step that keeps every attempt out and touches no layer keeps the owners.
LEMMA QuietOwn ==
    ASSUME ReservationHasOwner, NEW r \in Requests, pc[r] # "flying", UNCHANGED <<prov, cred>>,
           \A q \in Requests \ {r} : /\ pc'[q] = pc[q] /\ plan'[q] = plan[q] /\ ti'[q] = ti[q]
                                     /\ keys'[q] = keys[q]
    PROVE  ReservationHasOwner'
  <1>1. \A p, s : ~OwnsProbe(r, p) /\ ~OwnsSlot(r, p, s)
    BY DEF OwnsProbe, OwnsSlot
  <1> QED
    BY <1>1, OthersOwn

\* Whoever reports gives back what it had reserved.
LEMMA ReportedOwn ==
    ASSUME IInv, ReservationHasOwner, NEW r \in Requests, Alone(r), pc[r] = "flying",
           \/ RecordSuccess(Provider(r), Model(r), Slot(r))
           \/ \E kind, delay : RecordFailure(Provider(r), Model(r), Slot(r), kind, delay)
    PROVE  ReservationHasOwner'
  <1> DEFINE P == Provider(r)
             S == Slot(r)
  <1>1. P \in Providers /\ S \in Slots
    <2>1. keys[r] # <<>>
      BY RequestFacts DEF Good, KeysFresh
    <2> QED
      BY <2>1, CandidateFacts, RequestFacts, TailFacts DEF AtCandidate, Slot
  <1>2. Sound(prov, cred, mdl)
    BY DEF IInv
  <1>3. /\ \A p \in Providers : p # P => prov'[p] = prov[p]
        /\ \A p \in Providers, s \in Slots : <<p, s>> # <<P, S>> => cred'[<<p, s>>] = cred[<<p, s>>]
        /\ prov'[P].probe = FALSE /\ cred'[<<P, S>>].probe = FALSE
    <2>1. CASE RecordSuccess(P, Model(r), S)
      BY <1>1, <1>2, <2>1 DEF RecordSuccess, Sound, Closed, Ready
    <2>2. ASSUME NEW kind, NEW delay, RecordFailure(P, Model(r), S, kind, delay)
          PROVE  /\ \A p \in Providers : p # P => prov'[p] = prov[p]
                 /\ \A p \in Providers, s \in Slots :
                       <<p, s>> # <<P, S>> => cred'[<<p, s>>] = cred[<<p, s>>]
                 /\ prov'[P].probe = FALSE /\ cred'[<<P, S>>].probe = FALSE
      <3>1. /\ prov' = [prov EXCEPT ![P] = CircuitAfter(prov[P], kind)]
            /\ cred' = [cred EXCEPT ![<<P, S>>] = CredentialAfter(cred[<<P, S>>], Model(r), kind, delay)]
        BY <2>2 DEF RecordFailure
      <3>2. /\ CircuitAfter(prov[P], kind).probe = FALSE
            /\ CredentialAfter(cred[<<P, S>>], Model(r), kind, delay).probe = FALSE
        BY <1>1, <1>2, ProbesReleased DEF Sound
      <3> QED
        BY <1>1, <1>2, <3>1, <3>2 DEF Sound
    <2> QED
      BY <2>1, <2>2
  <1>4. /\ \A p \in Providers : prov'[p].probe => prov[p].probe /\ ~OwnsProbe(r, p)
        /\ \A p \in Providers, s \in Slots :
              cred'[<<p, s>>].probe => cred[<<p, s>>].probe /\ ~OwnsSlot(r, p, s)
    BY <1>3 DEF OwnsProbe, OwnsSlot
  <1> HIDE DEF P, S
  <1> QED
    BY <1>4, OthersOwn DEF Alone

\* Admission reserves for the attempt it admits; refusal reserves nothing.
LEMMA GateOwn ==
    ASSUME IInv, ReservationHasOwner, NEW r \in Requests, pc[r] = "gate", Alone(r), keys[r] # <<>>,
           \/ /\ GateAdmit(Provider(r), Model(r), Slot(r)) /\ pc' = [pc EXCEPT ![r] = "flying"]
              /\ UNCHANGED <<plan, ti, keys>>
           \/ GateRefuse(Provider(r), Model(r), Slot(r))
    PROVE  ReservationHasOwner'
  <1> DEFINE P == Provider(r)
             S == Slot(r)
  <1>1. P \in Providers /\ S \in Slots
    BY CandidateFacts, RequestFacts, TailFacts DEF AtCandidate, Slot
  <1>2. Sound(prov, cred, mdl) /\ Typed
    BY DEF IInv
  <1>3. \A p, s : ~OwnsProbe(r, p) /\ ~OwnsSlot(r, p, s)
    BY DEF OwnsProbe, OwnsSlot
  <1>4. cred[<<P, S>>] \in CredentialRecords
    BY <1>1, <1>2 DEF Sound
  <1>5. CASE GateRefuse(P, Model(r), S)
    <2>1. Thawed(cred[<<P, S>>]).probe = cred[<<P, S>>].probe
      BY <1>4 DEF Thawed, CredentialRecords
    <2>2. prov' = prov /\ \A p \in Providers, s \in Slots : cred'[<<p, s>>].probe = cred[<<p, s>>].probe
      BY <1>1, <1>2, <1>5, <2>1 DEF GateRefuse, Sound, resVars
    <2> HIDE DEF P, S
    <2> QED
      BY <1>3, <2>2, OthersOwn DEF Alone
  <1>6. CASE /\ GateAdmit(P, Model(r), S) /\ pc' = [pc EXCEPT ![r] = "flying"]
             /\ UNCHANGED <<plan, ti, keys>>
    <2>1. \A p, s : p = P /\ s = S => OwnsProbe(r, p)' /\ OwnsSlot(r, p, s)'
      BY <1>2, <1>6 DEF OwnsProbe, OwnsSlot, Provider, Slot, Typed
    <2>2. /\ \A p \in Providers : p # P => prov'[p] = prov[p]
          /\ \A p \in Providers, s \in Slots : <<p, s>> # <<P, S>> => cred'[<<p, s>>] = cred[<<p, s>>]
      BY <1>1, <1>2, <1>6 DEF GateAdmit, Sound
    <2> HIDE DEF P, S
    <2>3. \A p \in Providers : prov'[p].probe => (prov[p].probe /\ ~OwnsProbe(r, p)) \/ OwnsProbe(r, p)'
      BY <1>3, <2>1, <2>2
    <2>4. \A p \in Providers, s \in Slots :
              cred'[<<p, s>>].probe => (cred[<<p, s>>].probe /\ ~OwnsSlot(r, p, s)) \/ OwnsSlot(r, p, s)'
      BY <1>3, <2>1, <2>2
    <2> QED
      BY <2>3, <2>4, OthersOwn DEF Alone
  <1> QED
    BY <1>5, <1>6

\* No step of a request leaves a reservation without its attempt.
LEMMA StepKeepsOwner ==
    ASSUME ~BodyFaults, IInv, NoPlanning, ReservationHasOwner, NEW r \in Requests, Step(r)
    PROVE  ReservationHasOwner'
  <1>0. Typed
    BY DEF IInv
  <1>1. CASE ExamineSlot(r) \/ PlanDone(r)
    BY <1>1 DEF ExamineSlot, PlanDone, NoPlanning
  <1>2. CASE Exhausted(r) \/ OutOfBudget(r)
    BY <1>0, <1>2, QuietOwn DEF Exhausted, OutOfBudget, Typed, resVars
  <1>3. CASE TakeCandidate(r)
    <2>1. /\ pc[r] = "next" /\ ti' = [ti EXCEPT ![r] = @ + 1] /\ UNCHANGED <<resVars, plan>>
          /\ UNCHANGED pc \/ pc' = [pc EXCEPT ![r] = "gate"]
          /\ UNCHANGED keys \/ \E order \in Orders(plan[r][ti[r] + 1][1]) : keys' = [keys EXCEPT ![r] = order]
      BY <1>3, Zenon DEF TakeCandidate
    <2> QED
      BY <1>0, <2>1, QuietOwn DEF Typed, resVars
  <1>4. CASE StopTrying(r)
    BY <1>0, <1>4, QuietOwn DEF StopTrying, AtSlot, Typed, resVars
  <1>5. CASE AttemptAgain(r)
    BY <1>0, <1>5, QuietOwn DEF AttemptAgain, Launch, Typed, resVars
  <1>6. CASE Attempt(r) \/ SkipSlot(r)
    <2>1. /\ pc[r] = "gate" /\ keys[r] # <<>>
          /\ \/ /\ GateAdmit(Provider(r), Model(r), Slot(r)) /\ Launch(r)
             \/ /\ GateRefuse(Provider(r), Model(r), Slot(r))
                /\ keys' = [keys EXCEPT ![r] = Tail(@)]
                /\ UNCHANGED <<pc, plan, ti, trail, audit>>
      BY <1>6 DEF Attempt, SkipSlot, MayTry
    <2>2. Alone(r)
      BY <1>0, <2>1 DEF Launch, Alone, Typed
    <2> QED
      BY <2>1, <2>2, GateOwn DEF Launch
  <1>7. CASE Opened(r)
    <2>1. Alone(r)
      BY <1>0, <1>7 DEF Opened, Ended, Alone, Typed
    <2> QED
      BY <1>7, <2>1, ReportedOwn DEF Opened
  <1>8. CASE NoAnswer(r)
    <2>1. Alone(r)
      BY <1>0, <1>8 DEF NoAnswer, Ended, Alone, Typed
    <2> QED
      BY <1>8, <2>1, ReportedOwn DEF NoAnswer
  <1>9. ASSUME NEW kind, NEW header, NEW declared, NEW delay,
               ErrorAnswer(r, kind, header, declared, delay)
        PROVE  ReservationHasOwner'
    <2>1. /\ pc[r] = "flying" /\ RecordFailure(Provider(r), Model(r), Slot(r), kind, delay)
          /\ trail' = Ended(r, kind) /\ UNCHANGED <<plan, ti>>
          /\ \E c \in {"after", "gate", "retry"} : pc' = [pc EXCEPT ![r] = c]
      BY <1>9 DEF ErrorAnswer
    <2>2. UNCHANGED keys \/ keys' = [keys EXCEPT ![r] = Tail(@)]
      BY <1>9, Zenon DEF ErrorAnswer
    <2>3. UNCHANGED audit \/ \E a : audit' = [audit EXCEPT ![r] = a]
      BY <1>9, Zenon DEF ErrorAnswer
    <2>4. Alone(r)
      BY <1>0, <2>1, <2>2, <2>3 DEF Ended, Alone, Typed
    <2> QED
      BY <2>1, <2>4, ReportedOwn
  <1>10. CASE Stall(r) \/ Escape(r)
    BY <1>10 DEF Stall, Escape
  <1>11. CASE AfterCandidate(r)
    <2>1. /\ pc[r] = "after" /\ UNCHANGED <<resVars, plan, ti, keys>>
          /\ pc' = [pc EXCEPT ![r] = "done"] \/ pc' = [pc EXCEPT ![r] = "next"]
      BY <1>11, Zenon DEF AfterCandidate
    <2> QED
      BY <1>0, <2>1, QuietOwn DEF Typed, resVars
  <1> QED
    BY <1>1, <1>2, <1>3, <1>4, <1>5, <1>6, <1>7, <1>8, <1>9, <1>10, <1>11 DEF Step, Answer

\* Nor does any other step.
LEMMA NextKeepsOwner ==
    ASSUME ~BodyFaults, IInv, NoPlanning, ReservationHasOwner, [Next]_vars
    PROVE  ReservationHasOwner'
  <1>0. Typed /\ Sound(prov, cred, mdl)
    BY DEF IInv
  <1>1. ASSUME NEW r \in Requests, Arrive(r) PROVE ReservationHasOwner'
    <2>1. /\ pc[r] = "idle" /\ UNCHANGED <<resVars, ti>>
          /\ \E c \in {"next", "planning"} : pc' = [pc EXCEPT ![r] = c]
          /\ UNCHANGED plan \/ \E t : plan' = [plan EXCEPT ![r] = t]
          /\ UNCHANGED keys \/ \E k : keys' = [keys EXCEPT ![r] = k]
      BY <1>1, Zenon DEF Arrive
    <2> QED
      BY <1>0, <2>1, QuietOwn DEF Typed, resVars
  <1>2. ASSUME NEW r \in Requests, Leave(r) PROVE ReservationHasOwner'
    BY <1>0, <1>2, QuietOwn DEF Leave, Typed, resVars
  <1>3. CASE Tick
    <2>1. /\ \A p \in Providers : prov'[p].probe = prov[p].probe
          /\ \A p \in Providers, s \in Slots : cred'[<<p, s>>].probe = cred[<<p, s>>].probe
      BY <1>0, <1>3 DEF Tick, AgePenalties, Aged, Sound, CircuitRecords, CredentialRecords
    <2>2. UNCHANGED <<pc, plan, ti, keys>>
      BY <1>3 DEF Tick
    <2> QED
      BY <2>1, <2>2 DEF ReservationHasOwner, Provider, Slot
  <1>4. CASE UNCHANGED vars
    BY <1>4 DEF vars, reqVars, resVars, ReservationHasOwner, Provider, Slot
  <1> QED
    BY <1>1, <1>2, <1>3, <1>4, StepKeepsOwner DEF Next

\* Without virtual models and body faults, a reserved probe always has an
\* attempt out that will give it back.
THEOREM ReservationsAreOwned ==
    ~BodyFaults /\ Routes = {} /\ Spec => []ReservationHasOwner
  <1> SUFFICES ASSUME ~BodyFaults, Routes = {} PROVE Spec => []ReservationHasOwner
    OBVIOUS
  <1>1. Init => ReservationHasOwner /\ NoPlanning
    BY DEF Init, ResilienceInit, Closed, Ready, ReservationHasOwner, NoPlanning
  <1>2. /\ IInv /\ NoPlanning /\ [Next]_vars => NoPlanning'
        /\ IInv /\ NoPlanning /\ ReservationHasOwner /\ [Next]_vars => ReservationHasOwner'
    BY NextPlansNothing, NextKeepsOwner
  <1> QED
    BY <1>1, <1>2, AlwaysIInv, PTL DEF Spec
=============================================================================
