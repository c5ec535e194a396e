----------------------------- MODULE LedgerProofs -----------------------------
(***************************************************************************)
(* Theorems about Ledger.tla, for any number of requests and any limits,   *)
(* ages, failures and crashes.                                             *)
(*                                                                         *)
(* A view of the database is judged request by request: y is what is known *)
(* of a request x, v a view of the three tables and t the time.  The view  *)
(* of the connection and the committed one are judged alike, because a     *)
(* later call may commit or roll back what an earlier one left open.       *)
(***************************************************************************)
EXTENDS Ledger, SequenceTheorems, TLAPS

Places == {"new", "routing", "open", "closing", "done", "lost"}
RequestRecords ==
  [at : Places, pending : BOOLEAN, decidedAt : Int, recordedAt : Int, backfill : BOOLEAN,
   status : {"none", "success", "failed"}, tokens : 0..1, after : Nat, unlucky : BOOLEAN]
UsageRows == [id : Requests, at : Nat, status : {"none", "success", "failed"}, tokens : 0..1]
DecisionRows == [id : Requests, at : Nat]
OutcomeRows == [id : Requests, at : Nat, outcome : {"success", "failed"}, total : BOOLEAN]
Views == [usage : SUBSET UsageRows, decisions : SUBSET DecisionRows,
          outcomes : SUBSET OutcomeRows]

Has(rows, x) == \E row \in rows : row.id = x
Old(at, t) == at < t - Retention

\* The usage rows of a request repeat the last word on it.
UsageFits(v, x, y, t) == \A row \in v.usage : row.id = x =>
  /\ row.at <= t /\ y.at \in {"closing", "done", "lost"}
  /\ y.at # "lost" => row.status = y.status /\ row.tokens = y.tokens /\ row.at = y.recordedAt

\* Its decision was made once, ...
DecisionFits(v, x, y, t) == \A d \in v.decisions : d.id = x =>
  d.at <= t /\ y.at # "new" /\ d.at = y.decidedAt

\* ... and settled once, later.
OutcomeFits(v, x, y, t) == \A o \in v.outcomes : o.id = x =>
  /\ o.at <= t /\ y.at # "new" /\ ~y.pending /\ y.decidedAt <= o.at
  /\ Has(v.decisions, x) \/ Old(y.decidedAt, t)
  /\ \A p \in v.outcomes : p.id = x => p = o

\* What was written without a fault is there until it is old.
WrittenStays(v, x, y, t) ==
  /\ y.pending => Has(v.decisions, x) \/ Old(y.decidedAt, t)
  /\ y.at \in {"closing", "done"} /\ ~y.unlucky =>
        Has(v.usage, x) \/ Old(y.recordedAt, t) \/ y.after >= MaxEntries

RowsFit(v, x, y, t) ==
  UsageFits(v, x, y, t) /\ DecisionFits(v, x, y, t) /\ OutcomeFits(v, x, y, t)
     /\ WrittenStays(v, x, y, t)
GoodView(v, q, t) == v \in Views /\ \A x \in Requests : RowsFit(v, x, q[x], t)

\* An outcome of one view is in the other, unless its decision is not.
Kept(v, w) == \A o \in v.outcomes : Has(w.decisions, o.id) => Has(w.outcomes, o.id)

\* The item of a request in the queue, as long as there is one.
ItemFits(s, x, y) ==
  /\ \A j, k \in DOMAIN s : s[j].id = x /\ s[k].id = x => j = k
  /\ \A k \in DOMAIN s : s[k].id = x =>
        /\ y.at \in {"open", "closing", "done"}
        /\ y.at = "open" => /\ s[k].status = y.status /\ s[k].tokens = y.tokens
                            /\ s[k].at = y.recordedAt /\ y.after = Len(s) - k
  /\ y.at = "open" => y.after >= MaxEntries \/ \E k \in DOMAIN s : s[k].id = x
GoodQueue(s, q) ==
  /\ s \in Seq(UsageRows) /\ Len(s) <= MaxEntries
  /\ \A x \in Requests : ItemFits(s, x, q[x])

\* What is known of a request.
Known(y, t) ==
  /\ y.at \in {"new", "routing"} => y.after = 0 /\ y.tokens = 0
  /\ y.at = "new" => ~y.pending
  /\ y.decidedAt <= t /\ y.recordedAt <= t
GoodRequests(q, t) == q \in [Requests -> RequestRecords] /\ \A x \in Requests : Known(q[x], t)

\* The inductive invariant.
IInv ==
  /\ now \in 0..MaxTime /\ purgedAt \in Never..MaxTime
  /\ GoodRequests(reqs, now)
  /\ GoodQueue(items, reqs)
  /\ GoodView(conn, reqs, now) /\ GoodView(disk, reqs, now)
  /\ Kept(disk, conn)

-----------------------------------------------------------------------------
(* A purge.                                                                *)

\* w is what is left of v when rows older than the cutoff go, the outcomes
\* only after the decisions.
Trimmed(v, w) ==
  /\ w \in Views
  /\ w.usage \subseteq v.usage /\ \A row \in v.usage \ w.usage : row.at < Cutoff
  /\ w.decisions \subseteq v.decisions /\ \A d \in v.decisions \ w.decisions : d.at < Cutoff
  /\ w.outcomes \subseteq v.outcomes
  /\ \A o \in v.outcomes \ w.outcomes : o.at < Cutoff /\ \A d \in w.decisions : d.at >= Cutoff

\* So is what any number of a purge's statements leave.
LEMMA DeletionsTrim ==
  ASSUME NEW v \in Views, now \in Nat
  PROVE  /\ Trimmed(v, v)
         /\ \A k \in 1..3 : Trimmed(v, Deletions(v)[k])
  <1> DEFINE young(rows) == {row \in rows : row.at >= Cutoff}
             first  == [v EXCEPT !.usage = young(@)]
             second == [first EXCEPT !.decisions = young(@)]
             third  == [second EXCEPT !.outcomes = young(@)]
  <1>1. Cutoff \in Int
    BY LimitsAssumption DEF Cutoff
  <1>2. /\ v.usage \subseteq UsageRows /\ v.decisions \subseteq DecisionRows
        /\ v.outcomes \subseteq OutcomeRows
    BY DEF Views
  <1>3. /\ first = [usage |-> young(v.usage), decisions |-> v.decisions, outcomes |-> v.outcomes]
        /\ second = [usage |-> young(v.usage), decisions |-> young(v.decisions),
                     outcomes |-> v.outcomes]
        /\ third = [usage |-> young(v.usage), decisions |-> young(v.decisions),
                    outcomes |-> young(v.outcomes)]
    <2> HIDE DEF young
    <2>1. first = [usage |-> young(v.usage), decisions |-> v.decisions, outcomes |-> v.outcomes]
      BY DEF Views
    <2> HIDE DEF first
    <2>2. second = [usage |-> young(v.usage), decisions |-> young(v.decisions),
                    outcomes |-> v.outcomes]
      BY <2>1
    <2> HIDE DEF second
    <2>3. third = [usage |-> young(v.usage), decisions |-> young(v.decisions),
                   outcomes |-> young(v.outcomes)]
      BY <2>2
    <2> QED
      BY <2>1, <2>2, <2>3
  <1>4. Deletions(v) = <<first, second, third>>
    BY DEF Deletions
  <1>5. /\ \A row \in UsageRows : row.at \in Nat
        /\ \A row \in DecisionRows : row.at \in Nat
        /\ \A row \in OutcomeRows : row.at \in Nat
    BY SMTT(30) DEF UsageRows, DecisionRows, OutcomeRows
  <1>6. first \in Views /\ second \in Views /\ third \in Views
    BY <1>2, <1>3 DEF Views
  <1> HIDE DEF first, second, third
  <1>7. Trimmed(v, v)
    BY DEF Trimmed
  <1>8. Trimmed(v, first)
    BY <1>1, <1>2, <1>3, <1>5, <1>6 DEF Trimmed
  <1>9. Trimmed(v, second)
    BY <1>1, <1>2, <1>3, <1>5, <1>6 DEF Trimmed
  <1>10. Trimmed(v, third)
    BY <1>1, <1>2, <1>3, <1>5, <1>6 DEF Trimmed
  <1> QED
    BY <1>4, <1>7, <1>8, <1>9, <1>10

\* What is left is as good as it was.
LEMMA TrimmedKeeps ==
  ASSUME NEW q, GoodRequests(q, now), now \in Nat, NEW v, GoodView(v, q, now),
         NEW w, Trimmed(v, w)
  PROVE  GoodView(w, q, now)
  <1> SUFFICES ASSUME NEW x \in Requests PROVE RowsFit(w, x, q[x], now)
    BY DEF GoodView, Trimmed
  <1>1. RowsFit(v, x, q[x], now)
    BY DEF GoodView
  <1>2. \A at : at < Cutoff => Old(at, now)
    BY DEF Cutoff, Old
  <1>3. UsageFits(w, x, q[x], now) /\ DecisionFits(w, x, q[x], now)
    BY <1>1 DEF RowsFit, UsageFits, DecisionFits, Trimmed
  <1>4. Has(v.decisions, x) => Has(w.decisions, x) \/ Old(q[x].decidedAt, now)
    <2> SUFFICES ASSUME NEW d \in v.decisions, d.id = x, d \notin w.decisions
                 PROVE  Old(q[x].decidedAt, now)
      BY DEF Has
    <2>1. d.at < Cutoff
      BY DEF Trimmed
    <2>2. d.at = q[x].decidedAt
      BY <1>1 DEF RowsFit, DecisionFits
    <2> QED
      BY <1>2, <2>1, <2>2
  <1>5. Has(v.usage, x) /\ q[x].at \in {"closing", "done"} =>
           Has(w.usage, x) \/ Old(q[x].recordedAt, now)
    <2> SUFFICES ASSUME NEW row \in v.usage, row.id = x, row \notin w.usage,
                        q[x].at \in {"closing", "done"}
                 PROVE  Old(q[x].recordedAt, now)
      BY DEF Has
    <2>1. row.at < Cutoff
      BY DEF Trimmed
    <2>2. row.at = q[x].recordedAt
      BY <1>1 DEF RowsFit, UsageFits
    <2> QED
      BY <1>2, <2>1, <2>2
  <1>6. OutcomeFits(w, x, q[x], now)
    BY <1>1, <1>4 DEF RowsFit, OutcomeFits, Trimmed
  <1>7. WrittenStays(w, x, q[x], now)
    BY <1>1, <1>4, <1>5 DEF RowsFit, WrittenStays
  <1> QED
    BY <1>3, <1>6, <1>7 DEF RowsFit

\* And no pair of what is left has lost its outcome.
LEMMA TrimmedKept ==
  ASSUME NEW q, GoodRequests(q, now), now \in Nat, NEW v, GoodView(v, q, now),
         NEW w, Trimmed(v, w), NEW a, a \in Views, Kept(a, v)
  PROVE  Kept(a, w)
  <1> SUFFICES ASSUME NEW o \in a.outcomes, NEW d \in w.decisions, d.id = o.id
               PROVE  Has(w.outcomes, o.id)
    BY DEF Kept, Has
  <1>1. d \in v.decisions /\ d \in DecisionRows
    BY DEF Trimmed, GoodView, Views
  <1>2. PICK p \in v.outcomes : p.id = o.id
    BY <1>1 DEF Kept, Has
  <1>3. p \in OutcomeRows /\ p.id \in Requests
    BY <1>2 DEF GoodView, Views, OutcomeRows
  <1>4. RowsFit(v, p.id, q[p.id], now)
    BY <1>3 DEF GoodView
  <1>5. d.at = q[p.id].decidedAt /\ q[p.id].decidedAt <= p.at
    BY <1>1, <1>2, <1>4 DEF RowsFit, DecisionFits, OutcomeFits
  <1>6. d.at \in Nat /\ p.at \in Nat /\ Cutoff \in Int
    BY <1>1, <1>3, LimitsAssumption DEF DecisionRows, OutcomeRows, Cutoff
  <1>7. p \in w.outcomes
    BY <1>2, <1>5, <1>6 DEF Trimmed
  <1> QED
    BY <1>2, <1>7 DEF Has

-----------------------------------------------------------------------------
(* The connection.                                                         *)

\* What a call of the database leaves: both views are good, neither has lost
\* the outcome of a pair that was committed, and so it stays when the open
\* transaction is.
Sound(c, d, q) ==
  /\ GoodView(c, q, now) /\ GoodView(d, q, now)
  /\ Kept(disk, c) /\ Kept(disk, d) /\ Kept(d, c)

\* A view keeps its own outcomes.
LEMMA KeptSelf ==
  ASSUME NEW v
  PROVE  Kept(v, v)
  BY DEF Kept, Has

\* What a purge leaves, failed or not, is sound.
LEMMA PurgedSound ==
  ASSUME now \in Nat, GoodRequests(reqs, now), disk \in Views,
         NEW from, Sound(from.conn, from.disk, reqs), NEW p \in Purged(from)
  PROVE  Sound(p.conn, p.disk, reqs) /\ p.ok \in BOOLEAN
  <1> DEFINE s == Deletions(from.conn)
  <1>1. /\ GoodView(from.conn, reqs, now) /\ GoodView(from.disk, reqs, now)
        /\ Kept(disk, from.conn) /\ Kept(disk, from.disk) /\ Kept(from.disk, from.conn)
        /\ from.conn \in Views /\ from.disk \in Views
    BY DEF Sound, GoodView
  <1>2. \A w : Trimmed(from.conn, w) =>
          GoodView(w, reqs, now) /\ Kept(disk, w) /\ Kept(from.disk, w)
    BY <1>1, TrimmedKeeps, TrimmedKept
  <1>3. \A w \in {from.conn, s[1], s[2], s[3]} : Trimmed(from.conn, w)
    BY <1>1, DeletionsTrim
  <1>4. Purged(from) =
          {Committed(s[3])} \cup Failed(from, s[3], {from.conn, s[1], s[2]})
    BY DEF Purged
  <1> HIDE DEF s
  <1>5. CASE p.conn = s[3] /\ p.disk = s[3] /\ p.ok \in BOOLEAN
    BY <1>2, <1>3, <1>5, KeptSelf DEF Sound
  <1>6. CASE /\ p.conn \in {s[3], from.disk, from.conn, s[1], s[2]}
             /\ p.disk = from.disk /\ p.ok \in BOOLEAN
    <2>1. CASE p.conn = from.disk
      BY <1>1, <1>6, <2>1, KeptSelf DEF Sound
    <2>2. CASE p.conn \in {from.conn, s[1], s[2], s[3]}
      BY <1>1, <1>2, <1>3, <1>6, <2>2 DEF Sound
    <2> QED
      BY <1>6, <2>1, <2>2
  <1>7. CASE p = Committed(s[3])
    BY <1>5, <1>7 DEF Committed
  <1>8. CASE p \in Failed(from, s[3], {from.conn, s[1], s[2]})
    <2>1. CASE p = [conn |-> s[3], disk |-> s[3], ok |-> FALSE]
      BY <1>5, <2>1
    <2>2. CASE p \in [conn : {s[3], from.disk} \cup {from.conn, s[1], s[2]},
                      disk : {from.disk}, ok : {FALSE}]
      BY <1>6, <2>2
    <2> QED
      BY <1>8, <2>1, <2>2 DEF Failed
  <1> QED
    BY <1>4, <1>7, <1>8

\* The purge that may come first in a write is, too.
LEMMA DueSound ==
  ASSUME IInv, NEW due \in DuePurge
  PROVE  /\ Sound(due.state.conn, due.state.disk, reqs)
         /\ due.state.ok \in BOOLEAN /\ due.at \in Never..MaxTime
  <1>1. now \in Nat /\ now \in Never..MaxTime
    BY LimitsAssumption DEF IInv, Never
  <1>2. Sound(Here.conn, Here.disk, reqs) /\ Here.ok \in BOOLEAN
    BY KeptSelf DEF IInv, Sound, Here
  <1>3. GoodRequests(reqs, now) /\ disk \in Views /\ purgedAt \in Never..MaxTime
    BY DEF IInv, GoodView
  <1>4. \A p \in Purged(Here) : Sound(p.conn, p.disk, reqs) /\ p.ok \in BOOLEAN
    BY <1>1, <1>2, <1>3, PurgedSound
  <1>5. due.state \in Purged(Here) \cup {Here} /\ due.at \in {now, purgedAt}
    BY DEF DuePurge
  <1> QED
    BY <1>1, <1>2, <1>3, <1>4, <1>5

\* A write that makes view out of the connection's is sound for what is known
\* afterwards, if view is, and if what was there is when the write fails.
LEMMA ExecuteSound ==
  ASSUME NEW from, Sound(from.conn, from.disk, reqs), NEW q, NEW view,
         NEW result \in Execute(from, view),
         GoodView(view, q, now),
         ~result.ok => GoodView(from.conn, q, now) /\ GoodView(from.disk, q, now),
         Kept(disk, view), Kept(from.disk, view)
  PROVE  Sound(result.conn, result.disk, q)
  <1>1. CASE result.conn = view /\ result.disk = view
    BY <1>1, KeptSelf DEF Sound
  <1>2. CASE /\ result.conn \in {view, from.disk, from.conn} /\ result.disk = from.disk
             /\ ~result.ok
    BY <1>2, KeptSelf DEF Sound
  <1>3. CASE result = Committed(view)
    BY <1>1, <1>3 DEF Committed
  <1>4. CASE result \in Failed(from, view, {from.conn})
    <2>1. CASE result = [conn |-> view, disk |-> view, ok |-> FALSE]
      BY <1>1, <2>1
    <2>2. CASE result \in [conn : {view, from.disk} \cup {from.conn}, disk : {from.disk},
                           ok : {FALSE}]
      BY <1>2, <2>2
    <2> QED
      BY <1>4, <2>1, <2>2 DEF Failed
  <1> QED
    BY <1>3, <1>4 DEF Execute

\* Whatever a call does, the result says whether it went well.
LEMMA ExecuteSays ==
  ASSUME NEW from, NEW view, NEW result \in Execute(from, view)
  PROVE  result.ok \in BOOLEAN
  <1>1. CASE result = Committed(view)
    BY <1>1 DEF Committed
  <1>2. CASE result \in Failed(from, view, {from.conn})
    <2>1. CASE result = [conn |-> view, disk |-> view, ok |-> FALSE]
      BY <2>1
    <2>2. CASE result \in [conn : {view, from.disk} \cup {from.conn}, disk : {from.disk},
                           ok : {FALSE}]
      BY <2>2
    <2> QED
      BY <1>2, <2>1, <2>2 DEF Failed
  <1> QED
    BY <1>1, <1>2 DEF Execute

-----------------------------------------------------------------------------
(* The rows of one request.                                                *)

\* w has the rows of request x that v has.
SameRows(v, w, x) ==
  /\ \A row \in UsageRows : row.id = x => (row \in v.usage <=> row \in w.usage)
  /\ \A row \in DecisionRows : row.id = x => (row \in v.decisions <=> row \in w.decisions)
  /\ \A row \in OutcomeRows : row.id = x => (row \in v.outcomes <=> row \in w.outcomes)

\* z is y, but for what is recorded while its answer is open.
Waits(y, z) == z = y \/ (y.at = "open" /\ z = [y EXCEPT !.after = @ + 1])

\* What other requests write and record does not disturb x.
LEMMA SameRowsFit ==
  ASSUME NEW v \in Views, NEW w \in Views, NEW x, NEW y \in RequestRecords, NEW z,
         SameRows(v, w, x), Waits(y, z), RowsFit(v, x, y, now)
  PROVE  RowsFit(w, x, z, now)
  <1>1. /\ v.usage \subseteq UsageRows /\ w.usage \subseteq UsageRows
        /\ v.decisions \subseteq DecisionRows /\ w.decisions \subseteq DecisionRows
        /\ v.outcomes \subseteq OutcomeRows /\ w.outcomes \subseteq OutcomeRows
    BY DEF Views
  <1>2. /\ z.at = y.at /\ z.pending = y.pending /\ z.decidedAt = y.decidedAt
        /\ z.recordedAt = y.recordedAt /\ z.status = y.status /\ z.tokens = y.tokens
        /\ z.unlucky = y.unlucky /\ (y.at # "open" => z.after = y.after)
    BY DEF Waits, RequestRecords
  <1>3. /\ Has(v.usage, x) => Has(w.usage, x)
        /\ Has(v.decisions, x) => Has(w.decisions, x)
    BY <1>1 DEF SameRows, Has
  <1>4. UsageFits(w, x, z, now)
    BY <1>1, <1>2 DEF RowsFit, UsageFits, SameRows
  <1>5. DecisionFits(w, x, z, now)
    BY <1>1, <1>2 DEF RowsFit, DecisionFits, SameRows
  <1>6. OutcomeFits(w, x, z, now)
    BY <1>1, <1>2, <1>3 DEF RowsFit, OutcomeFits, SameRows
  <1>7. WrittenStays(w, x, z, now)
    BY <1>2, <1>3 DEF RowsFit, WrittenStays
  <1> QED
    BY <1>4, <1>5, <1>6, <1>7 DEF RowsFit

\* So a view is good if the rows of the one request that moved on fit it.
Moved(r, q) == \A x \in Requests \ {r} : Waits(reqs[x], q[x])
LEMMA OneRequest ==
  ASSUME GoodRequests(reqs, now), NEW r \in Requests, NEW q, Moved(r, q),
         NEW v, GoodView(v, reqs, now), NEW w \in Views,
         \A x \in Requests \ {r} : SameRows(v, w, x), RowsFit(w, r, q[r], now)
  PROVE  GoodView(w, q, now)
  <1> SUFFICES ASSUME NEW x \in Requests \ {r} PROVE RowsFit(w, x, q[x], now)
    BY DEF GoodView
  <1> QED
    BY SameRowsFit DEF GoodView, GoodRequests, Moved

\* Setting one request moves the others nowhere.
LEMMA SetMoves ==
  ASSUME reqs \in [Requests -> RequestRecords], NEW r \in Requests, NEW y
  PROVE  Moved(r, [reqs EXCEPT ![r] = y]) /\ [reqs EXCEPT ![r] = y][r] = y
  BY DEF Moved, Waits

\* Recording one lets the open ones wait.
LEMMA RecordedMoves ==
  ASSUME NEW r \in Requests, NEW y
  PROVE  Moved(r, Recorded(r, y)) /\ Recorded(r, y)[r] = y
  BY DEF Moved, Waits, Recorded

\* A view has the rows that it has.
LEMMA SameItself ==
  ASSUME NEW v, NEW x
  PROVE  SameRows(v, v, x)
  BY DEF SameRows

-----------------------------------------------------------------------------
(* The writes.                                                             *)

\* The write w over v fits what is known afterwards; when it fails, what was
\* there does; and it loses no pair.
WriteFits(v, w, q, ok) ==
  /\ GoodView(w, q, now)
  /\ ~ok => \A a : GoodView(a, reqs, now) => GoodView(a, q, now)
  /\ \A a : GoodView(a, reqs, now) /\ Kept(a, v) => Kept(a, w)

\* Such a write leaves sound views, after a purge, too.
LEMMA WriteSound ==
  ASSUME NEW from, Sound(from.conn, from.disk, reqs), GoodView(disk, reqs, now),
         NEW q, NEW view, NEW result \in Execute(from, view),
         WriteFits(from.conn, view, q, result.ok)
  PROVE  Sound(result.conn, result.disk, q)
  <1>1. /\ GoodView(from.conn, reqs, now) /\ GoodView(from.disk, reqs, now)
        /\ Kept(disk, from.conn) /\ Kept(from.disk, from.conn)
    BY DEF Sound
  <1>2. /\ GoodView(view, q, now)
        /\ ~result.ok => GoodView(from.conn, q, now) /\ GoodView(from.disk, q, now)
        /\ Kept(disk, view) /\ Kept(from.disk, view)
    BY <1>1 DEF WriteFits
  <1> QED
    BY <1>2, ExecuteSound

\* A decision is written.
LEMMA DecideFits ==
  ASSUME IInv, NEW r \in Requests, reqs[r].at = "new", NEW ok \in BOOLEAN,
         NEW v, GoodView(v, reqs, now), NEW w,
         w = [v EXCEPT !.decisions = @ \cup {[id |-> r, at |-> now]}],
         NEW q, q = [reqs EXCEPT ![r] = [reqs[r] EXCEPT !.at = "routing", !.decidedAt = now,
                                                        !.pending = DecisionId(ok)]]
  PROVE  WriteFits(v, w, q, ok)
  <1> DEFINE d == [id |-> r, at |-> now]
  <1>1. /\ now \in Nat /\ GoodRequests(reqs, now) /\ reqs \in [Requests -> RequestRecords]
        /\ reqs[r] \in RequestRecords
    BY DEF IInv, GoodRequests
  <1>2. /\ v \in Views /\ v.usage \subseteq UsageRows /\ v.decisions \subseteq DecisionRows
        /\ v.outcomes \subseteq OutcomeRows
    BY DEF GoodView, Views
  <1>3. /\ w.usage = v.usage /\ w.decisions = v.decisions \cup {d} /\ w.outcomes = v.outcomes
        /\ w \in Views
    <2>1. w = [usage |-> v.usage, decisions |-> v.decisions \cup {d}, outcomes |-> v.outcomes]
      BY <1>2 DEF Views
    <2>2. d \in DecisionRows
      BY <1>1 DEF DecisionRows
    <2> QED
      BY <1>2, <2>1, <2>2 DEF Views
  <1>4. Moved(r, q)
    BY <1>1, SetMoves
  <1>5. /\ q[r].at = "routing" /\ q[r].decidedAt = now /\ q[r].pending = ok
    BY <1>1 DEF RequestRecords, DecisionId
  <1>6. \A a : GoodView(a, reqs, now) =>
          ~Has(a.usage, r) /\ ~Has(a.decisions, r) /\ ~Has(a.outcomes, r)
    BY DEF GoodView, RowsFit, UsageFits, DecisionFits, OutcomeFits, Has
  <1>7. GoodView(w, q, now)
    <2>1. \A x \in Requests \ {r} : SameRows(v, w, x)
      BY <1>3 DEF SameRows
    <2>2. RowsFit(w, r, q[r], now)
      <3>1. UsageFits(w, r, q[r], now) /\ OutcomeFits(w, r, q[r], now)
        BY <1>3, <1>6 DEF UsageFits, OutcomeFits, Has
      <3>2. DecisionFits(w, r, q[r], now)
        BY <1>1, <1>3, <1>5, <1>6 DEF DecisionFits, Has
      <3>3. Has(w.decisions, r)
        <4>1. d \in w.decisions /\ d.id = r
          BY <1>3
        <4> QED
          BY ONLY <4>1 DEF Has
      <3>4. WrittenStays(w, r, q[r], now)
        BY <1>5, <3>3 DEF WrittenStays
      <3> QED
        BY <3>1, <3>2, <3>4 DEF RowsFit
    <2> QED
      BY <1>1, <1>3, <1>4, <2>1, <2>2, OneRequest
  <1>8. ASSUME NEW a, GoodView(a, reqs, now), ~ok
        PROVE  GoodView(a, q, now)
    <2>1. RowsFit(a, r, q[r], now)
      BY <1>5, <1>6, <1>8 DEF RowsFit, UsageFits, DecisionFits, OutcomeFits, WrittenStays, Has
    <2>2. a \in Views
      BY <1>8 DEF GoodView
    <2> QED
      BY <1>1, <1>4, <1>8, <2>1, <2>2, OneRequest, SameItself
  <1>9. ASSUME NEW a, GoodView(a, reqs, now), Kept(a, v)
        PROVE  Kept(a, w)
    BY <1>3, <1>6, <1>9 DEF Kept, Has
  <1> QED
    BY <1>7, <1>8, <1>9 DEF WriteFits

\* The pending pair is settled.
LEMMA SettleFits ==
  ASSUME IInv, NEW r \in Requests, reqs[r].at = "routing", reqs[r].pending,
         NEW outcome \in {"success", "failed"}, NEW ok,
         NEW v, GoodView(v, reqs, now), NEW w,
         w = [v EXCEPT !.outcomes = @ \cup {[id |-> r, at |-> now, outcome |-> outcome,
                                             total |-> FALSE]}],
         NEW q, q = [reqs EXCEPT ![r] = [TakesPending(reqs[r]) EXCEPT
                                           !.backfill = outcome = "success"]]
  PROVE  WriteFits(v, w, q, ok)
  <1> DEFINE o == [id |-> r, at |-> now, outcome |-> outcome, total |-> FALSE]
  <1>1. /\ now \in Nat /\ GoodRequests(reqs, now) /\ reqs \in [Requests -> RequestRecords]
        /\ reqs[r] \in RequestRecords /\ reqs[r].decidedAt <= now
    BY DEF IInv, GoodRequests, Known
  <1>2. /\ v \in Views /\ v.usage \subseteq UsageRows /\ v.decisions \subseteq DecisionRows
        /\ v.outcomes \subseteq OutcomeRows
    BY DEF GoodView, Views
  <1>3. /\ w.usage = v.usage /\ w.decisions = v.decisions /\ w.outcomes = v.outcomes \cup {o}
        /\ w \in Views
    <2>1. w = [usage |-> v.usage, decisions |-> v.decisions, outcomes |-> v.outcomes \cup {o}]
      BY <1>2 DEF Views
    <2>2. o \in OutcomeRows
      BY <1>1 DEF OutcomeRows
    <2> QED
      BY <1>2, <2>1, <2>2 DEF Views
  <1>11. o.id = r /\ o.at = now
    OBVIOUS
  <1> HIDE DEF o
  <1>4. Moved(r, q)
    BY <1>1, SetMoves
  <1>5. /\ q[r].at = "routing" /\ q[r].decidedAt = reqs[r].decidedAt /\ ~q[r].pending
    BY <1>1 DEF RequestRecords, TakesPending
  <1>6. \A a : GoodView(a, reqs, now) => ~Has(a.usage, r) /\ ~Has(a.outcomes, r)
    BY DEF GoodView, RowsFit, UsageFits, OutcomeFits, Has
  <1>7. \A a : GoodView(a, reqs, now) => DecisionFits(a, r, reqs[r], now)
    BY DEF GoodView, RowsFit
  <1>8. GoodView(w, q, now)
    <2>1. \A x \in Requests \ {r} : SameRows(v, w, x)
      BY <1>3 DEF SameRows
    <2>2. RowsFit(w, r, q[r], now)
      <3>1. UsageFits(w, r, q[r], now) /\ WrittenStays(w, r, q[r], now)
        BY <1>3, <1>5, <1>6 DEF UsageFits, WrittenStays, Has
      <3>2. DecisionFits(w, r, q[r], now)
        BY <1>3, <1>5, <1>7 DEF DecisionFits
      <3>3. Has(w.decisions, r) \/ Old(q[r].decidedAt, now)
        BY <1>3, <1>5 DEF GoodView, RowsFit, WrittenStays
      <3>4. \A p \in w.outcomes : p.id = r => p = o
        BY <1>3, <1>6 DEF Has
      <3>5. OutcomeFits(w, r, q[r], now)
        BY <1>11, <1>1, <1>5, <3>3, <3>4 DEF OutcomeFits
      <3> QED
        BY <3>1, <3>2, <3>5 DEF RowsFit
    <2> QED
      BY <1>1, <1>3, <1>4, <2>1, <2>2, OneRequest
  <1>9. ASSUME NEW a, GoodView(a, reqs, now)
        PROVE  GoodView(a, q, now)
    <2>1. UsageFits(a, r, q[r], now) /\ OutcomeFits(a, r, q[r], now)
      BY <1>6, <1>9 DEF UsageFits, OutcomeFits, Has
    <2>2. DecisionFits(a, r, q[r], now)
      BY <1>5, <1>7, <1>9 DEF DecisionFits
    <2>3. WrittenStays(a, r, q[r], now)
      BY <1>5 DEF WrittenStays
    <2>4. RowsFit(a, r, q[r], now) /\ a \in Views
      BY <1>9, <2>1, <2>2, <2>3 DEF RowsFit, GoodView
    <2> QED
      BY <1>1, <1>4, <1>9, <2>4, OneRequest, SameItself
  <1>10. ASSUME NEW a, GoodView(a, reqs, now), Kept(a, v)
         PROVE  Kept(a, w)
    BY <1>3, <1>10 DEF Kept, Has
  <1> QED
    BY <1>8, <1>9, <1>10 DEF WriteFits

\* A usage row is written for a request that ends here, with the last word on
\* it: the row of one that failed, or the item of one whose answer is over.
LEMMA UpsertFits ==
  ASSUME IInv, NEW r \in Requests, reqs[r].at \in {"new", "routing", "open"},
         NEW ok \in BOOLEAN, NEW q, Moved(r, q), q[r].at \in {"closing", "done"},
         q[r].unlucky = ~ok, q[r].pending = reqs[r].pending,
         q[r].decidedAt = reqs[r].decidedAt,
         NEW item \in UsageRows, item.id = r, item.at <= now, item.status = q[r].status,
         item.tokens = q[r].tokens, item.at = q[r].recordedAt,
         NEW v, GoodView(v, reqs, now)
  PROVE  WriteFits(v, Upserted(v, item), q, ok)
  <1> DEFINE w == Upserted(v, item)
             rest == {row \in v.usage : row.id # item.id}
  <1>1. GoodRequests(reqs, now)
    BY DEF IInv
  <1>2. /\ v \in Views /\ v.usage \subseteq UsageRows /\ v.decisions \subseteq DecisionRows
        /\ v.outcomes \subseteq OutcomeRows
    BY DEF GoodView, Views
  <1>3. /\ w.usage = rest \cup {item} /\ w.decisions = v.decisions /\ w.outcomes = v.outcomes
        /\ w \in Views
    <2>1. rest \cup {item} \subseteq UsageRows
      BY <1>2
    <2>2. w = [v EXCEPT !.usage = rest \cup {item}]
      BY DEF Upserted
    <2> HIDE DEF w, rest
    <2>3. w = [usage |-> rest \cup {item}, decisions |-> v.decisions, outcomes |-> v.outcomes]
      BY <1>2, <2>2 DEF Views
    <2> QED
      BY <1>2, <2>1, <2>3 DEF Views
  <1> HIDE DEF w
  <1>4. ASSUME NEW a, GoodView(a, reqs, now)
        PROVE  /\ a \in Views /\ ~Has(a.usage, r)
               /\ DecisionFits(a, r, q[r], now) /\ OutcomeFits(a, r, q[r], now)
               /\ q[r].pending => Has(a.decisions, r) \/ Old(q[r].decidedAt, now)
    <2>1. RowsFit(a, r, reqs[r], now) /\ a \in Views
      BY <1>4 DEF GoodView
    <2>2. ~Has(a.usage, r)
      BY <2>1 DEF RowsFit, UsageFits, Has
    <2>3. DecisionFits(a, r, q[r], now)
      BY <2>1 DEF RowsFit, DecisionFits
    <2>4. OutcomeFits(a, r, q[r], now)
      BY <2>1 DEF RowsFit, OutcomeFits
    <2> QED
      BY <2>1, <2>2, <2>3, <2>4 DEF RowsFit, WrittenStays
  <1>5. GoodView(w, q, now)
    <2>1. \A x \in Requests \ {r} : SameRows(v, w, x)
      BY <1>3 DEF SameRows
    <2>2. UsageFits(w, r, q[r], now)
      BY <1>3 DEF UsageFits
    <2>3. DecisionFits(w, r, q[r], now) /\ OutcomeFits(w, r, q[r], now)
      BY <1>3, <1>4 DEF DecisionFits, OutcomeFits
    <2>4. WrittenStays(w, r, q[r], now)
      BY <1>3, <1>4 DEF WrittenStays, Has
    <2>5. RowsFit(w, r, q[r], now)
      BY <2>2, <2>3, <2>4 DEF RowsFit
    <2> QED
      BY <1>1, <1>3, <2>1, <2>5, OneRequest
  <1>6. ASSUME NEW a, GoodView(a, reqs, now), ~ok
        PROVE  GoodView(a, q, now)
    <2>1. UsageFits(a, r, q[r], now)
      BY <1>4, <1>6 DEF UsageFits, Has
    <2>2. WrittenStays(a, r, q[r], now)
      BY <1>4, <1>6 DEF WrittenStays
    <2>3. RowsFit(a, r, q[r], now) /\ a \in Views
      BY <1>4, <1>6, <2>1, <2>2 DEF RowsFit
    <2> QED
      BY <1>1, <1>6, <2>3, OneRequest, SameItself
  <1>7. ASSUME NEW a, GoodView(a, reqs, now), Kept(a, v)
        PROVE  Kept(a, w)
    BY <1>3, <1>7 DEF Kept
  <1>8. WriteFits(v, w, q, ok)
    BY <1>5, <1>6, <1>7 DEF WriteFits
  <1> QED
    BY <1>8 DEF w

\* The outcome of a success is told how long the answer took.
LEMMA BackfillFits ==
  ASSUME IInv, NEW r \in Requests, reqs[r].at = "closing", NEW ok,
         NEW v, GoodView(v, reqs, now), NEW w,
         w = [v EXCEPT !.outcomes =
                {IF o.id = r /\ o.outcome = "success" /\ ~o.total
                 THEN [o EXCEPT !.total = TRUE] ELSE o : o \in @}],
         NEW q, q = [reqs EXCEPT ![r] = [reqs[r] EXCEPT !.at = "done"]]
  PROVE  WriteFits(v, w, q, ok)
  <1> DEFINE Told(o) == IF o.id = r /\ o.outcome = "success" /\ ~o.total
                        THEN [o EXCEPT !.total = TRUE] ELSE o
             told == {Told(o) : o \in v.outcomes}
  <1>1. /\ now \in Nat /\ GoodRequests(reqs, now) /\ reqs \in [Requests -> RequestRecords]
        /\ reqs[r] \in RequestRecords
    BY DEF IInv, GoodRequests
  <1>2. /\ v \in Views /\ v.usage \subseteq UsageRows /\ v.decisions \subseteq DecisionRows
        /\ v.outcomes \subseteq OutcomeRows
    BY DEF GoodView, Views
  <1>3. \A o \in OutcomeRows :
          /\ Told(o) \in OutcomeRows /\ Told(o).id = o.id /\ Told(o).at = o.at
          /\ o.id # r => Told(o) = o
    BY DEF OutcomeRows
  <1>4. w = [v EXCEPT !.outcomes = told]
    OBVIOUS
  <1> HIDE DEF Told
  <1>5. told \subseteq OutcomeRows
    BY <1>2, <1>3
  <1> HIDE DEF told
  <1>6. /\ w.usage = v.usage /\ w.decisions = v.decisions /\ w.outcomes = told
        /\ w \in Views
    <2>1. w = [usage |-> v.usage, decisions |-> v.decisions, outcomes |-> told]
      BY <1>2, <1>4 DEF Views
    <2> QED
      BY <1>2, <1>5, <2>1 DEF Views
  <1>7. Moved(r, q)
    BY <1>1, SetMoves
  <1>8. /\ q[r].at = "done" /\ q[r].pending = reqs[r].pending
        /\ q[r].decidedAt = reqs[r].decidedAt /\ q[r].recordedAt = reqs[r].recordedAt
        /\ q[r].status = reqs[r].status /\ q[r].tokens = reqs[r].tokens
        /\ q[r].after = reqs[r].after /\ q[r].unlucky = reqs[r].unlucky
    BY <1>1 DEF RequestRecords
  <1>9. ASSUME NEW a, GoodView(a, reqs, now)
        PROVE  RowsFit(a, r, q[r], now) /\ a \in Views
    <2>1. RowsFit(a, r, reqs[r], now) /\ a \in Views
      BY <1>9 DEF GoodView
    <2>2. UsageFits(a, r, q[r], now)
      BY <1>8, <2>1 DEF RowsFit, UsageFits
    <2>3. DecisionFits(a, r, q[r], now)
      BY <1>8, <2>1 DEF RowsFit, DecisionFits
    <2>4. OutcomeFits(a, r, q[r], now)
      BY <1>8, <2>1 DEF RowsFit, OutcomeFits
    <2>5. WrittenStays(a, r, q[r], now)
      BY <1>8, <2>1 DEF RowsFit, WrittenStays
    <2> QED
      BY <2>1, <2>2, <2>3, <2>4, <2>5 DEF RowsFit
  <1>10. GoodView(w, q, now)
    <2>1. \A o : o \in told => \E p \in v.outcomes : o = Told(p)
      BY DEF told
    <2>2. \A p \in v.outcomes : Told(p) \in told
      BY DEF told
    <2>3. \A x \in Requests \ {r} : SameRows(v, w, x)
      BY <1>2, <1>3, <1>6, <2>1, <2>2 DEF SameRows
    <2>4. RowsFit(v, r, q[r], now)
      BY <1>9
    <2>5. OutcomeFits(w, r, q[r], now)
      <3> SUFFICES ASSUME NEW p \in v.outcomes, p.id = r
                   PROVE  /\ p.at <= now /\ q[r].at # "new" /\ ~q[r].pending
                          /\ q[r].decidedAt <= p.at
                          /\ Has(v.decisions, r) \/ Old(q[r].decidedAt, now)
                          /\ \A o \in v.outcomes : o.id = r => Told(o) = Told(p)
        BY <1>2, <1>3, <1>6, <2>1 DEF OutcomeFits
      <3>1. OutcomeFits(v, r, q[r], now)
        BY <2>4 DEF RowsFit
      <3> QED
        BY <3>1 DEF OutcomeFits
    <2>6. RowsFit(w, r, q[r], now)
      <3>1. UsageFits(w, r, q[r], now) /\ WrittenStays(w, r, q[r], now)
        BY <1>6, <2>4 DEF RowsFit, UsageFits, WrittenStays
      <3>2. DecisionFits(w, r, q[r], now)
        BY <1>6, <2>4 DEF RowsFit, DecisionFits
      <3> QED
        BY <2>5, <3>1, <3>2 DEF RowsFit
    <2> QED
      BY <1>1, <1>6, <1>7, <2>3, <2>6, OneRequest
  <1>11. ASSUME NEW a, GoodView(a, reqs, now)
         PROVE  GoodView(a, q, now)
    BY <1>1, <1>7, <1>9, <1>11, OneRequest, SameItself
  <1>12. ASSUME NEW a, GoodView(a, reqs, now), Kept(a, v)
         PROVE  Kept(a, w)
    <2>1. \A x : Has(v.outcomes, x) => Has(told, x)
      <3> SUFFICES ASSUME NEW x, NEW o \in v.outcomes, o.id = x
                   PROVE  Has(told, x)
        BY DEF Has
      <3>1. Told(o) \in told /\ Told(o).id = x
        BY <1>2, <1>3 DEF told
      <3> QED
        BY <3>1 DEF Has
    <2> QED
      BY <1>6, <1>12, <2>1 DEF Kept
  <1> QED
    BY <1>10, <1>11, <1>12 DEF WriteFits

\* Where nothing is written, an open answer, or the end of one whose item was
\* evicted, changes nothing about the rows.
LEMMA UnwrittenFits ==
  ASSUME IInv, NEW r \in Requests, reqs[r].at \in {"new", "routing", "open"},
         NEW q, Moved(r, q), q[r].pending = reqs[r].pending,
         q[r].decidedAt = reqs[r].decidedAt,
         q[r].at = "open" \/ (q[r].at = "closing" /\ q[r].after >= MaxEntries),
         NEW v, GoodView(v, reqs, now)
  PROVE  GoodView(v, q, now)
  <1>1. RowsFit(v, r, reqs[r], now) /\ v \in Views /\ GoodRequests(reqs, now)
    BY DEF GoodView, IInv
  <1>2. UsageFits(v, r, q[r], now)
    BY <1>1 DEF RowsFit, UsageFits
  <1>3. DecisionFits(v, r, q[r], now)
    BY <1>1 DEF RowsFit, DecisionFits
  <1>4. OutcomeFits(v, r, q[r], now)
    BY <1>1 DEF RowsFit, OutcomeFits
  <1>5. WrittenStays(v, r, q[r], now)
    BY <1>1 DEF RowsFit, WrittenStays
  <1>6. RowsFit(v, r, q[r], now)
    BY <1>2, <1>3, <1>4, <1>5 DEF RowsFit
  <1> QED
    BY <1>1, <1>6, OneRequest, SameItself

-----------------------------------------------------------------------------
(* The requests and the queue.                                             *)

\* A record of a request is one when its fields are.
LEMMA RequestFields ==
  ASSUME NEW a \in Places, NEW p \in BOOLEAN, NEW d \in Int, NEW e \in Int,
         NEW b \in BOOLEAN, NEW s \in {"none", "success", "failed"}, NEW k \in 0..1,
         NEW n \in Nat, NEW u \in BOOLEAN
  PROVE  [at |-> a, pending |-> p, decidedAt |-> d, recordedAt |-> e, backfill |-> b,
          status |-> s, tokens |-> k, after |-> n, unlucky |-> u] \in RequestRecords
  BY DEF RequestRecords

\* What is known of the requests stays good when one of them is set, ...
LEMMA SetRequest ==
  ASSUME NEW t, GoodRequests(reqs, t), NEW r \in Requests,
         NEW y \in RequestRecords, Known(y, t)
  PROVE  GoodRequests([reqs EXCEPT ![r] = y], t)
  BY DEF GoodRequests

\* ... and when one is recorded.
LEMMA RecordRequest ==
  ASSUME NEW t, GoodRequests(reqs, t), NEW r \in Requests,
         NEW y \in RequestRecords, Known(y, t)
  PROVE  GoodRequests(Recorded(r, y), t)
  <1>1. ASSUME NEW x \in Requests
        PROVE  Recorded(r, y)[x] \in RequestRecords /\ Known(Recorded(r, y)[x], t)
    <2>1. reqs[x] \in RequestRecords /\ Known(reqs[x], t)
      BY DEF GoodRequests
    <2>2. CASE x = r
      BY <2>2 DEF Recorded
    <2>3. CASE x # r /\ reqs[x].at = "open"
      <3> DEFINE z == [reqs[x] EXCEPT !.after = @ + 1]
      <3>1. Recorded(r, y)[x] = z
        BY <2>3 DEF Recorded
      <3>2. z \in RequestRecords
        BY <2>1 DEF RequestRecords
      <3>3. Known(z, t)
        BY <2>1, <2>3 DEF RequestRecords, Known
      <3> QED
        BY <3>1, <3>2, <3>3
    <2>4. CASE x # r /\ reqs[x].at # "open"
      BY <2>1, <2>4 DEF Recorded
    <2> QED
      BY <2>2, <2>3, <2>4
  <1>2. Recorded(r, y) = [x \in Requests |-> Recorded(r, y)[x]]
    BY DEF Recorded
  <1> QED
    BY <1>1, <1>2 DEF GoodRequests

\* An item enters the queue at its end, and the oldest makes room.
LEMMA QueuedShifts ==
  ASSUME items \in Seq(UsageRows), Len(items) <= MaxEntries, NEW item \in UsageRows
  PROVE  \E gone \in 0..1 :
           /\ Queued(item) \in Seq(UsageRows)
           /\ Len(Queued(item)) = Len(items) + 1 - gone
           /\ Len(Queued(item)) <= MaxEntries
           /\ gone = 1 => Len(items) = MaxEntries
           /\ \A k \in 1..Len(Queued(item)) :
                Queued(item)[k] = IF k + gone <= Len(items) THEN items[k + gone] ELSE item
  <1> DEFINE longer == Append(items, item)
             Shifted(gone) ==
               /\ Queued(item) \in Seq(UsageRows)
               /\ Len(Queued(item)) = Len(items) + 1 - gone
               /\ Len(Queued(item)) <= MaxEntries
               /\ gone = 1 => Len(items) = MaxEntries
               /\ \A k \in 1..Len(Queued(item)) :
                    Queued(item)[k] = IF k + gone <= Len(items) THEN items[k + gone] ELSE item
  <1> SUFFICES \E gone \in 0..1 : Shifted(gone)
    OBVIOUS
  <1>1. /\ longer \in Seq(UsageRows) /\ Len(longer) = Len(items) + 1
        /\ \A k \in 1..Len(longer) : longer[k] = IF k <= Len(items) THEN items[k] ELSE item
    OBVIOUS
  <1>2. Len(items) \in Nat /\ MaxEntries \in Nat /\ MaxEntries > 0
    BY LimitsAssumption
  <1> HIDE DEF longer
  <1>3. CASE Len(longer) > MaxEntries
    <2>1. Queued(item) = Tail(longer)
      BY <1>3 DEF Queued, longer
    <2>2. /\ Tail(longer) \in Seq(UsageRows) /\ Len(Tail(longer)) = Len(longer) - 1
          /\ \A k \in 1..Len(Tail(longer)) : Tail(longer)[k] = longer[k + 1]
      BY <1>1, <1>2, HeadTailProperties, EmptySeq
    <2>3. Len(items) = MaxEntries /\ Len(Tail(longer)) = Len(items)
      BY <1>1, <1>2, <1>3, <2>2
    <2>4. \A k \in 1..Len(Tail(longer)) :
            Tail(longer)[k] = IF k + 1 <= Len(items) THEN items[k + 1] ELSE item
      BY <1>1, <1>2, <2>2, <2>3
    <2>5. Shifted(1)
      <3>1. /\ Queued(item) \in Seq(UsageRows) /\ Len(Queued(item)) = Len(items) + 1 - 1
            /\ Len(Queued(item)) <= MaxEntries
        BY <1>1, <1>2, <2>1, <2>2, <2>3
      <3>2. 1 = 1 => Len(items) = MaxEntries
        BY <2>3
      <3>3. \A k \in 1..Len(Queued(item)) :
              Queued(item)[k] = IF k + 1 <= Len(items) THEN items[k + 1] ELSE item
        BY <2>1, <2>4
      <3> QED
        BY ONLY <3>1, <3>2, <3>3
    <2> HIDE DEF Shifted
    <2> QED
      BY <2>5
  <1>4. CASE Len(longer) <= MaxEntries
    <2>1. Queued(item) = longer
      BY <1>1, <1>2, <1>4 DEF Queued, longer
    <2>2. \A k \in 1..Len(longer) :
            longer[k] = IF k + 0 <= Len(items) THEN items[k + 0] ELSE item
      BY <1>1
    <2>3. Shifted(0)
      BY <1>1, <1>2, <1>4, <2>1, <2>2
    <2> HIDE DEF Shifted
    <2> QED
      BY <2>3
  <1> QED
    BY <1>1, <1>2, <1>3, <1>4

\* Recording a request keeps the queue good.
LEMMA RecordedQueue ==
  ASSUME IInv, NEW r \in Requests, reqs[r].at \in {"new", "routing"},
         NEW item \in UsageRows, item.id = r, NEW y, y.at \in {"open", "done"},
         item.status = y.status, item.tokens = y.tokens, item.at = y.recordedAt, y.after = 0
  PROVE  GoodQueue(Queued(item), Recorded(r, y))
  <1> DEFINE s == Queued(item)
             q == Recorded(r, y)
             n == Len(items)
             m == Len(s)
  <1>1. items \in Seq(UsageRows) /\ n <= MaxEntries /\ n \in Nat /\ DOMAIN items = 1..n
    BY DEF IInv, GoodQueue
  <1>2. PICK gone \in 0..1 :
          /\ s \in Seq(UsageRows) /\ m = n + 1 - gone /\ m <= MaxEntries
          /\ gone = 1 => n = MaxEntries
          /\ \A k \in 1..m : s[k] = IF k + gone <= n THEN items[k + gone] ELSE item
    BY <1>1, QueuedShifts
  <1>3. /\ DOMAIN s = 1..m /\ m \in Nat /\ MaxEntries \in Nat /\ MaxEntries > 0
        /\ gone \in {0, 1}
    BY <1>2, LimitsAssumption
  <1>4. \A k \in DOMAIN items : items[k].id # r
    BY DEF IInv, GoodQueue, ItemFits
  <1>5. q[r] = y
    BY DEF Recorded
  <1>6. GoodQueue(s, q) <=> (s \in Seq(UsageRows) /\ m <= MaxEntries
                             /\ \A x \in Requests : ItemFits(s, x, q[x]))
    BY DEF GoodQueue
  <1>7. \A k \in 1..m : k < m => k + gone \in 1..n /\ s[k] = items[k + gone]
    <2> HIDE DEF s, n, m
    <2> SUFFICES ASSUME NEW k \in 1..m, k < m
                 PROVE  k + gone \in 1..n /\ s[k] = items[k + gone]
      OBVIOUS
    <2>1. m = n + 1 - gone
      BY <1>2
    <2>2. k + gone \in 1..n /\ k + gone <= n
      BY ONLY <1>1, <1>3, <2>1, k \in 1..m, k < m
    <2>3. s[k] = IF k + gone <= n THEN items[k + gone] ELSE item
      BY <1>2
    <2> QED
      BY ONLY <2>2, <2>3
  <1>8. m \in 1..m /\ s[m] = item
    <2> HIDE DEF s, n, m
    <2>1. m \in 1..m /\ ~(m + gone <= n)
      BY <1>1, <1>2, <1>3
    <2>2. s[m] = IF m + gone <= n THEN items[m + gone] ELSE item
      BY <1>2, <2>1
    <2> QED
      BY <2>1, <2>2
  <1>9. \A z : z.at # "open" => \A x : ItemFits(s, x, z) <=>
          /\ \A j, k \in 1..m : s[j].id = x /\ s[k].id = x => j = k
          /\ \A k \in 1..m : s[k].id = x => z.at \in {"closing", "done"}
    BY <1>3 DEF ItemFits
  <1>10. \A z : z.at = "open" => \A x : ItemFits(s, x, z) <=>
          /\ \A j, k \in 1..m : s[j].id = x /\ s[k].id = x => j = k
          /\ \A k \in 1..m : s[k].id = x =>
                /\ s[k].status = z.status /\ s[k].tokens = z.tokens
                /\ s[k].at = z.recordedAt /\ z.after = m - k
          /\ z.after >= MaxEntries \/ \E k \in 1..m : s[k].id = x
    BY <1>3 DEF ItemFits
  <1>11. m = n + 1 - gone /\ (gone = 1 => n = MaxEntries)
    BY <1>2
  <1> HIDE DEF s, q, n, m
  <1>12. ItemFits(s, r, q[r])
    <2>1. \A k \in 1..m : s[k].id = r => k = m
      <3> SUFFICES ASSUME NEW k \in 1..m, k # m PROVE s[k].id # r
        OBVIOUS
      <3>1. k < m
        BY ONLY <1>3, k \in 1..m, k # m
      <3>2. k + gone \in DOMAIN items /\ s[k] = items[k + gone]
        BY ONLY <1>1, <1>7, <3>1, k \in 1..m
      <3> QED
        BY ONLY <1>4, <3>2
    <2>2. CASE y.at = "open"
      <3>1. y.after = m - m
        BY ONLY <1>3, y.after = 0
      <3> QED
        BY <1>5, <1>8, <1>10, <2>1, <2>2, <3>1
    <2>3. CASE y.at # "open"
      BY <1>5, <1>9, <2>1, <2>3
    <2> QED
      BY <2>2, <2>3
  <1>13. ASSUME NEW x \in Requests, x # r
         PROVE  ItemFits(s, x, q[x])
    <2>1. ItemFits(items, x, reqs[x]) /\ reqs[x] \in RequestRecords
      BY DEF IInv, GoodQueue, GoodRequests
    <2>2. /\ q[x].at = reqs[x].at /\ q[x].status = reqs[x].status
          /\ q[x].tokens = reqs[x].tokens /\ q[x].recordedAt = reqs[x].recordedAt
          /\ reqs[x].at = "open" => q[x].after = reqs[x].after + 1
          /\ reqs[x].after \in Nat
      BY <1>13, <2>1 DEF Recorded, RequestRecords, q
    <2>3. \A k \in 1..m : s[k].id = x =>
            k < m /\ k + gone \in 1..n /\ s[k] = items[k + gone]
      <3> SUFFICES ASSUME NEW k \in 1..m, s[k].id = x PROVE k < m
        BY <1>7
      <3>1. k # m
        BY <1>8, <1>13
      <3> QED
        BY <1>3, <3>1
    <2>4. \A j, k \in 1..m : s[j].id = x /\ s[k].id = x => j = k
      <3> SUFFICES ASSUME NEW j \in 1..m, NEW k \in 1..m, s[j].id = x, s[k].id = x
                   PROVE  j = k
        OBVIOUS
      <3>1. /\ j + gone \in DOMAIN items /\ items[j + gone].id = x
            /\ k + gone \in DOMAIN items /\ items[k + gone].id = x
        BY <1>1, <2>3
      <3>2. j + gone = k + gone
        BY <2>1, <3>1 DEF ItemFits
      <3> QED
        BY ONLY <1>3, <3>2, j \in 1..m, k \in 1..m
    <2>5. \A k \in 1..m : s[k].id = x =>
            k + gone \in DOMAIN items /\ items[k + gone].id = x
      BY <1>1, <2>3
    <2>6. CASE q[x].at # "open"
      <3>1. \A k \in 1..m : s[k].id = x => q[x].at \in {"closing", "done"}
        BY <2>1, <2>2, <2>5, <2>6 DEF ItemFits
      <3> QED
        BY <1>9, <2>4, <2>6, <3>1
    <2>7. CASE q[x].at = "open"
      <3>1. ASSUME NEW k \in 1..m, s[k].id = x
            PROVE  /\ s[k].status = q[x].status /\ s[k].tokens = q[x].tokens
                   /\ s[k].at = q[x].recordedAt /\ q[x].after = m - k
        <4>1. k + gone \in DOMAIN items /\ items[k + gone].id = x /\ s[k] = items[k + gone]
          BY <2>3, <2>5, <3>1
        <4>2. /\ s[k].status = q[x].status /\ s[k].tokens = q[x].tokens
              /\ s[k].at = q[x].recordedAt /\ reqs[x].after = n - (k + gone)
          BY <2>1, <2>2, <2>7, <4>1 DEF ItemFits, n
        <4>3. q[x].after = n - (k + gone) + 1
          BY <2>2, <2>7, <4>2
        <4>4. q[x].after = m - k
          BY ONLY <1>1, <1>3, <1>11, <4>3, k \in 1..m
        <4> QED
          BY <4>2, <4>4
      <3>2. ASSUME NEW k \in 1..n, items[k].id = x
            PROVE  q[x].after >= MaxEntries \/ \E j \in 1..m : s[j].id = x
        <4>1. reqs[x].after = n - k /\ q[x].after = reqs[x].after + 1
          BY <1>1, <2>1, <2>2, <2>7, <3>2 DEF ItemFits, n
        <4>2. CASE k > gone
          <5>1. k - gone \in 1..m /\ k - gone < m /\ (k - gone) + gone = k
            BY ONLY <1>1, <1>3, <1>11, <4>2, k \in 1..n
          <5>2. s[k - gone] = items[(k - gone) + gone]
            BY <1>7, <5>1
          <5>3. s[k - gone].id = x
            BY <3>2, <5>1, <5>2
          <5> QED
            BY <5>1, <5>3
        <4>3. CASE k <= gone
          <5>1. q[x].after = n - k + 1
            BY <4>1
          <5> QED
            BY ONLY <1>1, <1>3, <1>11, <5>1, <4>3, k \in 1..n
        <4> QED
          BY <1>3, <4>2, <4>3
      <3>3. q[x].after >= MaxEntries \/ \E k \in 1..m : s[k].id = x
        <4>1. reqs[x].after >= MaxEntries \/ \E k \in 1..n : items[k].id = x
          BY <1>1, <2>1, <2>2, <2>7 DEF ItemFits
        <4>2. CASE reqs[x].after >= MaxEntries
          BY <1>3, <2>2, <2>7, <4>2
        <4> QED
          BY <3>2, <4>1, <4>2
      <3> QED
        BY <1>10, <2>4, <2>7, <3>1, <3>3
    <2> QED
      BY <2>6, <2>7
  <1>14. GoodQueue(s, q)
    BY <1>2, <1>5, <1>6, <1>12, <1>13
  <1> QED
    BY <1>14 DEF s, q

\* So does amending the item of an open answer, ...
LEMMA AmendedQueue ==
  ASSUME IInv, NEW r \in Requests, reqs[r].at = "open", NEW y, y.at = "open",
         y.after = reqs[r].after, y.recordedAt = reqs[r].recordedAt,
         NEW s \in Seq(UsageRows), Len(s) = Len(items),
         \A k \in DOMAIN s :
           IF items[k].id = r
           THEN /\ s[k].id = r /\ s[k].at = items[k].at
                /\ s[k].status = y.status /\ s[k].tokens = y.tokens
           ELSE s[k] = items[k]
  PROVE  GoodQueue(s, [reqs EXCEPT ![r] = y])
  <1>1. /\ items \in Seq(UsageRows) /\ Len(items) <= MaxEntries
        /\ \A x \in Requests : ItemFits(items, x, reqs[x])
        /\ reqs \in [Requests -> RequestRecords]
    BY DEF IInv, GoodQueue, GoodRequests
  <1>2. DOMAIN s = DOMAIN items
    BY <1>1
  <1>3. ItemFits(s, r, y)
    <2>1. ItemFits(items, r, reqs[r])
      BY <1>1
    <2> QED
      BY <1>2, <2>1 DEF ItemFits
  <1>4. ASSUME NEW x \in Requests, x # r
        PROVE  ItemFits(s, x, reqs[x])
    <2>1. ItemFits(items, x, reqs[x])
      BY <1>1
    <2>2. \A k \in DOMAIN s : \/ s[k] = items[k] /\ items[k].id # r
                              \/ s[k].id = r /\ items[k].id = r
      OBVIOUS
    <2> QED
      BY <1>2, <1>4, <2>1, <2>2 DEF ItemFits
  <1> QED
    BY <1>1, <1>3, <1>4 DEF GoodQueue

\* ... and setting a request that has no item, or whose answer is over.
LEMMA StillQueue ==
  ASSUME IInv, NEW r \in Requests, NEW y, y.at # "open",
         y.at \in {"closing", "done"} \/ reqs[r].at \in {"new", "routing"}
  PROVE  GoodQueue(items, [reqs EXCEPT ![r] = y])
  <1>1. /\ items \in Seq(UsageRows) /\ Len(items) <= MaxEntries
        /\ \A x \in Requests : ItemFits(items, x, reqs[x])
        /\ reqs \in [Requests -> RequestRecords]
    BY DEF IInv, GoodQueue, GoodRequests
  <1>2. ItemFits(items, r, y)
    BY <1>1 DEF ItemFits
  <1> QED
    BY <1>1, <1>2 DEF GoodQueue

-----------------------------------------------------------------------------
(* The steps.                                                              *)

\* A step that takes no time is good when what it leaves is.
LEMMA SoundStep ==
  ASSUME IInv, now' = now, Sound(conn', disk', reqs'), GoodRequests(reqs', now),
         GoodQueue(items', reqs'), purgedAt' \in Never..MaxTime
  PROVE  IInv' /\ PairsAreKept
  <1>1. IInv'
    BY DEF IInv, Sound, Never
  <1>2. Kept(disk, disk')
    BY DEF Sound
  <1>3. PairsAreKept
    BY <1>2 DEF Kept, Has, PairsAreKept
  <1> QED
    BY <1>1, <1>3

\* A decision is written.
LEMMA DecideStep ==
  ASSUME IInv, NEW r \in Requests, Decide(r)
  PROVE  IInv' /\ PairsAreKept
  <1>1. PICK due \in DuePurge : \E result \in Execute(due.state,
            [due.state.conn EXCEPT !.decisions = @ \cup {[id |-> r, at |-> now]}]) :
          /\ conn' = result.conn /\ disk' = result.disk /\ purgedAt' = due.at
          /\ Set(r, [reqs[r] EXCEPT !.at = "routing", !.decidedAt = now,
                                    !.pending = DecisionId(result.ok)])
    BY DEF Decide, Write
  <1> DEFINE view == [due.state.conn EXCEPT !.decisions = @ \cup {[id |-> r, at |-> now]}]
  <1>2. PICK result \in Execute(due.state, view) :
          /\ conn' = result.conn /\ disk' = result.disk /\ purgedAt' = due.at
          /\ Set(r, [reqs[r] EXCEPT !.at = "routing", !.decidedAt = now,
                                    !.pending = DecisionId(result.ok)])
    BY <1>1
  <1> DEFINE y == [reqs[r] EXCEPT !.at = "routing", !.decidedAt = now,
                                  !.pending = DecisionId(result.ok)]
  <1>3. reqs' = [reqs EXCEPT ![r] = y] /\ reqs[r].at = "new" /\ now' = now /\ items' = items
    BY <1>2 DEF Set, Decide
  <1>4. Sound(due.state.conn, due.state.disk, reqs) /\ due.at \in Never..MaxTime
    BY DueSound
  <1>5. result.ok \in BOOLEAN
    BY ExecuteSays
  <1>6. WriteFits(due.state.conn, view, reqs', result.ok)
    <2>1. GoodView(due.state.conn, reqs, now)
      BY <1>4 DEF Sound
    <2> QED
      BY <1>3, <1>5, <2>1, DecideFits
  <1>7. GoodRequests(reqs, now) /\ GoodView(disk, reqs, now) /\ now \in Int
    BY DEF IInv
  <1> HIDE DEF view
  <1>8. Sound(conn', disk', reqs')
    BY <1>2, <1>4, <1>6, <1>7, WriteSound
  <1>9. y \in RequestRecords /\ Known(y, now) /\ y.at = "routing"
    <2>1. reqs[r] \in RequestRecords /\ Known(reqs[r], now)
      BY <1>7 DEF GoodRequests
    <2> DEFINE p == DecisionId(result.ok)
    <2>2. p \in BOOLEAN /\ now \in Int
      BY <1>5, <1>7 DEF DecisionId
    <2> HIDE DEF p
    <2>3. y \in RequestRecords
      <3>1. /\ reqs[r].recordedAt \in Int /\ reqs[r].backfill \in BOOLEAN
            /\ reqs[r].status \in {"none", "success", "failed"} /\ reqs[r].tokens \in 0..1
            /\ reqs[r].after \in Nat /\ reqs[r].unlucky \in BOOLEAN
        BY <2>1 DEF RequestRecords
      <3>2. y = [at |-> "routing", pending |-> p, decidedAt |-> now,
                 recordedAt |-> reqs[r].recordedAt, backfill |-> reqs[r].backfill,
                 status |-> reqs[r].status, tokens |-> reqs[r].tokens,
                 after |-> reqs[r].after, unlucky |-> reqs[r].unlucky]
        <4>1. y = [reqs[r] EXCEPT !.at = "routing", !.decidedAt = now, !.pending = p]
          BY DEF p
        <4> HIDE DEF y
        <4> QED
          BY <2>1, <4>1 DEF RequestRecords
      <3>3. "routing" \in Places
        BY DEF Places
      <3> QED
        BY SMTT(30), <2>2, <3>1, <3>2, <3>3, RequestFields
    <2>4. /\ y.at = "routing" /\ y.after = reqs[r].after /\ y.tokens = reqs[r].tokens
          /\ y.decidedAt = now /\ y.recordedAt = reqs[r].recordedAt
      BY <2>1 DEF RequestRecords
    <2>5. Known(y, now)
      BY <1>3, <2>1, <2>2, <2>4 DEF Known
    <2> QED
      BY <2>3, <2>4, <2>5
  <1> HIDE DEF y
  <1>10. GoodRequests(reqs', now)
    BY <1>3, <1>7, <1>9, SetRequest
  <1>11. GoodQueue(items', reqs')
    BY <1>3, <1>9, StillQueue
  <1> QED
    BY <1>2, <1>3, <1>4, <1>8, <1>10, <1>11, SoundStep

\* The pending pair is settled.
LEMMA SettleStep ==
  ASSUME IInv, NEW r \in Requests, NEW outcome \in {"success", "failed"}, Settle(r, outcome)
  PROVE  IInv' /\ PairsAreKept
  <1> DEFINE Row == [id |-> r, at |-> now, outcome |-> outcome, total |-> FALSE]
             y == [TakesPending(reqs[r]) EXCEPT !.backfill = outcome = "success"]
  <1>1. PICK due \in DuePurge : \E result \in Execute(due.state,
            [due.state.conn EXCEPT !.outcomes = @ \cup {Row}]) :
          /\ conn' = result.conn /\ disk' = result.disk /\ purgedAt' = due.at
          /\ Set(r, y)
    BY DEF Settle, Write
  <1> DEFINE view == [due.state.conn EXCEPT !.outcomes = @ \cup {Row}]
  <1>2. PICK result \in Execute(due.state, view) :
          /\ conn' = result.conn /\ disk' = result.disk /\ purgedAt' = due.at
          /\ Set(r, y)
    BY <1>1
  <1>3. /\ reqs' = [reqs EXCEPT ![r] = y] /\ reqs[r].at = "routing" /\ reqs[r].pending
        /\ now' = now /\ items' = items
    BY <1>2 DEF Set, Settle
  <1>4. Sound(due.state.conn, due.state.disk, reqs) /\ due.at \in Never..MaxTime
    BY DueSound
  <1>5. GoodView(due.state.conn, reqs, now)
    BY <1>4 DEF Sound
  <1>6. WriteFits(due.state.conn, view, reqs', result.ok)
    BY <1>3, <1>5, SettleFits
  <1>7. GoodRequests(reqs, now) /\ GoodView(disk, reqs, now)
    BY DEF IInv
  <1> HIDE DEF view
  <1>8. Sound(conn', disk', reqs')
    BY <1>2, <1>4, <1>6, <1>7, WriteSound
  <1>9. y \in RequestRecords /\ Known(y, now) /\ y.at = "routing"
    <2>1. reqs[r] \in RequestRecords /\ Known(reqs[r], now)
      BY <1>7 DEF GoodRequests
    <2> QED
      BY <1>3, <2>1 DEF RequestRecords, Known, TakesPending
  <1> HIDE DEF y
  <1>10. GoodRequests(reqs', now)
    BY <1>3, <1>7, <1>9, SetRequest
  <1>11. GoodQueue(items', reqs')
    BY <1>3, <1>9, StillQueue
  <1> QED
    BY <1>2, <1>3, <1>4, <1>8, <1>10, <1>11, SoundStep

\* A request that failed is recorded, in the queue and in the store.
LEMMA RecordFailedStep ==
  ASSUME IInv, NEW r \in Requests, RecordFailed(r)
  PROVE  IInv' /\ PairsAreKept
  <1> DEFINE item == Item(r, "failed")
             Y(ok) == [reqs[r] EXCEPT !.at = "done", !.recordedAt = now,
                                      !.status = "failed", !.unlucky = ~ok]
  <1>13. PICK due \in DuePurge :
           \E result \in Execute(due.state, Upserted(due.state.conn, item)) :
             /\ conn' = result.conn /\ disk' = result.disk /\ purgedAt' = due.at
             /\ reqs' = Recorded(r, Y(result.ok))
    BY DEF RecordFailed, Write
  <1>1. PICK result \in Execute(due.state, Upserted(due.state.conn, item)) :
          /\ conn' = result.conn /\ disk' = result.disk /\ purgedAt' = due.at
          /\ reqs' = Recorded(r, Y(result.ok))
    BY <1>13
  <1> DEFINE y == Y(result.ok)
  <1>2. /\ reqs' = Recorded(r, y) /\ reqs[r].at \in {"new", "routing"}
        /\ now' = now /\ items' = Queued(item)
    BY <1>1 DEF RecordFailed
  <1>3. /\ Sound(due.state.conn, due.state.disk, reqs) /\ due.at \in Never..MaxTime
        /\ GoodView(due.state.conn, reqs, now)
    BY DueSound DEF Sound
  <1>4. result.ok \in BOOLEAN
    BY ExecuteSays
  <1>5. /\ GoodRequests(reqs, now) /\ GoodView(disk, reqs, now) /\ now \in Nat
        /\ reqs[r] \in RequestRecords /\ Known(reqs[r], now)
    BY DEF IInv, GoodRequests
  <1>6. /\ item \in UsageRows /\ item.id = r /\ item.at = now /\ item.status = "failed"
        /\ item.tokens = 0
    BY <1>5 DEF Item, UsageRows
  <1>7. /\ y \in RequestRecords /\ Known(y, now)
        /\ y.at = "done" /\ y.pending = reqs[r].pending /\ y.decidedAt = reqs[r].decidedAt
        /\ y.recordedAt = now /\ y.status = "failed" /\ y.tokens = 0 /\ y.after = 0
        /\ y.unlucky = ~result.ok
    <2> DEFINE u == ~result.ok
    <2>1. u \in BOOLEAN
      BY <1>4
    <2>2. y = [reqs[r] EXCEPT !.at = "done", !.recordedAt = now, !.status = "failed",
                              !.unlucky = u]
      OBVIOUS
    <2> HIDE DEF u, y
    <2>3. y \in RequestRecords
      <3>1. /\ reqs[r].pending \in BOOLEAN /\ reqs[r].decidedAt \in Int
            /\ reqs[r].backfill \in BOOLEAN /\ reqs[r].tokens \in 0..1
            /\ reqs[r].after \in Nat /\ now \in Int
        BY <1>5 DEF RequestRecords
      <3>2. y = [at |-> "done", pending |-> reqs[r].pending, decidedAt |-> reqs[r].decidedAt,
                 recordedAt |-> now, backfill |-> reqs[r].backfill, status |-> "failed",
                 tokens |-> reqs[r].tokens, after |-> reqs[r].after, unlucky |-> u]
        BY <1>5, <2>2 DEF RequestRecords
      <3>3. "done" \in Places /\ "failed" \in {"none", "success", "failed"}
        BY DEF Places
      <3> QED
        BY ONLY ZenonT(60), <2>1, <3>1, <3>2, <3>3, RequestFields
    <2>4. /\ y.at = "done" /\ y.pending = reqs[r].pending /\ y.decidedAt = reqs[r].decidedAt
          /\ y.recordedAt = now /\ y.status = "failed" /\ y.tokens = reqs[r].tokens
          /\ y.after = reqs[r].after /\ y.unlucky = u
      BY <1>5, <2>2 DEF RequestRecords
    <2>5. y.tokens = 0 /\ y.after = 0 /\ Known(y, now)
      BY <1>2, <1>5, <2>4 DEF Known
    <2> QED
      BY <2>3, <2>4, <2>5 DEF u
  <1> HIDE DEF item, y
  <1>8. Moved(r, reqs') /\ reqs'[r] = y
    BY <1>2, RecordedMoves
  <1>9. WriteFits(due.state.conn, Upserted(due.state.conn, item), reqs', result.ok)
    BY <1>2, <1>3, <1>4, <1>5, <1>6, <1>7, <1>8, UpsertFits
  <1>10. Sound(conn', disk', reqs')
    BY <1>1, <1>3, <1>5, <1>9, WriteSound
  <1>11. GoodRequests(reqs', now)
    BY <1>2, <1>5, <1>7, RecordRequest
  <1>12. GoodQueue(items', reqs')
    BY <1>2, <1>6, <1>7, RecordedQueue
  <1> QED
    BY <1>1, <1>2, <1>3, <1>10, <1>11, <1>12, SoundStep

\* Where nothing is written, the views stay as sound as they were.
LEMMA UnwrittenSound ==
  ASSUME IInv, NEW q, GoodView(conn, q, now), GoodView(disk, q, now)
  PROVE  Sound(conn, disk, q)
  BY KeptSelf DEF IInv, Sound

\* A request whose answer begins waits in the queue.
LEMMA RecordOpenedStep ==
  ASSUME IInv, NEW r \in Requests, RecordOpened(r)
  PROVE  IInv' /\ PairsAreKept
  <1> DEFINE item == Item(r, "success")
             y == [reqs[r] EXCEPT !.at = "open", !.recordedAt = now, !.status = "success"]
  <1>1. /\ reqs' = Recorded(r, y) /\ reqs[r].at \in {"new", "routing"}
        /\ now' = now /\ items' = Queued(item)
        /\ conn' = conn /\ disk' = disk /\ purgedAt' = purgedAt
    BY DEF RecordOpened, NoWrite
  <1>2. /\ GoodRequests(reqs, now) /\ now \in Nat /\ purgedAt \in Never..MaxTime
        /\ GoodView(conn, reqs, now) /\ GoodView(disk, reqs, now)
        /\ reqs[r] \in RequestRecords /\ Known(reqs[r], now)
    BY DEF IInv, GoodRequests
  <1>3. /\ item \in UsageRows /\ item.id = r /\ item.at = now /\ item.status = "success"
        /\ item.tokens = 0
    BY <1>2 DEF Item, UsageRows
  <1>4. /\ y.at = "open" /\ y.pending = reqs[r].pending /\ y.decidedAt = reqs[r].decidedAt
        /\ y.recordedAt = now /\ y.status = "success" /\ y.tokens = reqs[r].tokens
        /\ y.after = reqs[r].after
    BY <1>2 DEF RequestRecords
  <1>5. y.tokens = 0 /\ y.after = 0 /\ Known(y, now)
    BY <1>1, <1>2, <1>4 DEF Known
  <1>6. y \in RequestRecords
    <2>1. /\ reqs[r].pending \in BOOLEAN /\ reqs[r].decidedAt \in Int
          /\ reqs[r].backfill \in BOOLEAN /\ reqs[r].tokens \in 0..1
          /\ reqs[r].after \in Nat /\ reqs[r].unlucky \in BOOLEAN /\ now \in Int
      BY <1>2 DEF RequestRecords
    <2>2. y = [at |-> "open", pending |-> reqs[r].pending, decidedAt |-> reqs[r].decidedAt,
               recordedAt |-> now, backfill |-> reqs[r].backfill, status |-> "success",
               tokens |-> reqs[r].tokens, after |-> reqs[r].after,
               unlucky |-> reqs[r].unlucky]
      <3>1. y = [reqs[r] EXCEPT !.at = "open", !.recordedAt = now, !.status = "success"]
        OBVIOUS
      <3>2. reqs[r] \in RequestRecords
        BY <1>2
      <3> HIDE DEF y
      <3> QED
        BY ONLY <3>1, <3>2 DEF RequestRecords
    <2>3. "open" \in Places
      BY DEF Places
    <2> QED
      BY SMTT(30), <2>1, <2>2, <2>3, RequestFields
  <1> HIDE DEF item, y
  <1>7. Moved(r, reqs') /\ reqs'[r] = y
    BY <1>1, RecordedMoves
  <1>8. GoodView(conn, reqs', now) /\ GoodView(disk, reqs', now)
    BY <1>1, <1>2, <1>4, <1>7, UnwrittenFits
  <1>9. Sound(conn', disk', reqs')
    <2>1. \A q : q = reqs' => Sound(conn, disk, q)
      BY <1>8, UnwrittenSound
    <2> QED
      BY <1>1, <2>1
  <1>10. GoodRequests(reqs', now)
    BY <1>1, <1>2, <1>5, <1>6, RecordRequest
  <1>11. GoodQueue(items', reqs')
    BY <1>1, <1>3, <1>4, <1>5, RecordedQueue
  <1> QED
    BY <1>1, <1>2, <1>9, <1>10, <1>11, SoundStep

\* What the items of r may be changed to when y is known of it.
AmendsTo(r, y, Changed) ==
  /\ Changed \in [1..Len(items) -> UsageRows]
  /\ \A k \in 1..Len(items) : items[k].id = r =>
       /\ Changed[k].id = r /\ Changed[k].at = items[k].at
       /\ Changed[k].status = y.status /\ Changed[k].tokens = y.tokens

\* An open answer of which more is known stays open, and so does its item,
\* which is amended alike.
LEMMA AmendStep ==
  ASSUME IInv, NEW r \in Requests, reqs[r].at = "open",
         NEW y \in RequestRecords, y.at = "open", y.pending = reqs[r].pending,
         y.decidedAt = reqs[r].decidedAt, y.recordedAt = reqs[r].recordedAt,
         y.after = reqs[r].after, reqs' = [reqs EXCEPT ![r] = y],
         NEW Changed, AmendsTo(r, y, Changed),
         items' = [k \in DOMAIN items |-> IF k \in ItemsOf(r) THEN Changed[k] ELSE items[k]],
         UNCHANGED <<conn, disk, purgedAt, now>>
  PROVE  IInv' /\ PairsAreKept
  <1> DEFINE s == [k \in DOMAIN items |-> IF k \in ItemsOf(r) THEN Changed[k] ELSE items[k]]
  <1>1. /\ items \in Seq(UsageRows) /\ DOMAIN items = 1..Len(items) /\ Len(items) \in Nat
        /\ \A k \in 1..Len(items) : items[k] \in UsageRows
    BY DEF IInv, GoodQueue
  <1>2. s \in [1..Len(items) -> UsageRows]
    BY <1>1 DEF AmendsTo
  <1>3. \A k \in 1..Len(items) :
          s[k] = IF items[k].id = r THEN Changed[k] ELSE items[k]
    BY <1>1 DEF ItemsOf
  <1>4. items' = s
    OBVIOUS
  <1> HIDE DEF s
  <1>5. s \in Seq(UsageRows)
    BY <1>1, <1>2, SeqDef
  <1>6. Len(s) = Len(items) /\ DOMAIN s = 1..Len(items)
    BY <1>1, <1>2, <1>5
  <1>7. \A k \in DOMAIN s :
           IF items[k].id = r
           THEN /\ s[k].id = r /\ s[k].at = items[k].at
                /\ s[k].status = y.status /\ s[k].tokens = y.tokens
           ELSE s[k] = items[k]
    BY <1>3, <1>6 DEF AmendsTo
  <1>8. GoodQueue(items', reqs')
    BY <1>4, <1>5, <1>6, <1>7, AmendedQueue
  <1>9. /\ GoodRequests(reqs, now) /\ now \in Nat /\ purgedAt \in Never..MaxTime
        /\ GoodView(conn, reqs, now) /\ GoodView(disk, reqs, now)
        /\ Known(reqs[r], now) /\ reqs \in [Requests -> RequestRecords]
    BY DEF IInv, GoodRequests
  <1>10. GoodRequests(reqs', now)
    <2>1. Known(y, now)
      BY <1>9 DEF Known
    <2> QED
      BY <1>9, <2>1, SetRequest
  <1>11. Moved(r, reqs') /\ reqs'[r] = y
    BY <1>9, SetMoves
  <1>12. GoodView(conn, reqs', now) /\ GoodView(disk, reqs', now)
    BY <1>9, <1>11, UnwrittenFits
  <1>13. Sound(conn', disk', reqs')
    <2>1. \A q : q = reqs' => Sound(conn, disk, q)
      BY <1>12, UnwrittenSound
    <2> QED
      BY <2>1
  <1> QED
    BY <1>8, <1>9, <1>10, <1>13, SoundStep

\* The tokens are known.
LEMMA SetUsageStep ==
  ASSUME IInv, NEW r \in Requests, SetUsage(r)
  PROVE  IInv' /\ PairsAreKept
  <1> DEFINE y == [reqs[r] EXCEPT !.tokens = 1]
             Changed == [k \in 1..Len(items) |-> [items[k] EXCEPT !.tokens = 1]]
  <1>1. /\ reqs[r].at = "open" /\ reqs' = [reqs EXCEPT ![r] = y]
        /\ UNCHANGED <<conn, disk, purgedAt, now>>
    BY DEF SetUsage, Set, NoWrite
  <1>2. /\ reqs[r] \in RequestRecords /\ DOMAIN items = 1..Len(items)
        /\ \A k \in 1..Len(items) : items[k] \in UsageRows
        /\ ItemFits(items, r, reqs[r])
    BY DEF IInv, GoodRequests, GoodQueue
  <1>3. /\ y \in RequestRecords /\ y.at = reqs[r].at /\ y.pending = reqs[r].pending
        /\ y.decidedAt = reqs[r].decidedAt /\ y.recordedAt = reqs[r].recordedAt
        /\ y.after = reqs[r].after /\ y.status = reqs[r].status /\ y.tokens = 1
    BY <1>2 DEF RequestRecords
  <1>4. \A row \in UsageRows :
          LET new == [row EXCEPT !.tokens = 1]
          IN  /\ new \in UsageRows /\ new.id = row.id /\ new.at = row.at
              /\ new.status = row.status /\ new.tokens = 1
    BY DEF UsageRows
  <1>5. Changed \in [1..Len(items) -> UsageRows]
    BY <1>2, <1>4
  <1>6. \A k \in 1..Len(items) : items[k].id = r =>
           /\ Changed[k].id = r /\ Changed[k].at = items[k].at
           /\ Changed[k].status = y.status /\ Changed[k].tokens = y.tokens
    <2> SUFFICES ASSUME NEW k \in 1..Len(items), items[k].id = r
                 PROVE  /\ Changed[k].id = r /\ Changed[k].at = items[k].at
                        /\ Changed[k].status = y.status /\ Changed[k].tokens = y.tokens
      OBVIOUS
    <2>1. items[k].status = reqs[r].status /\ items[k].tokens = reqs[r].tokens
      BY <1>1, <1>2 DEF ItemFits
    <2>2. Changed[k] = [items[k] EXCEPT !.tokens = 1] /\ items[k] \in UsageRows
      BY <1>2
    <2> HIDE DEF Changed, y
    <2> QED
      BY <1>3, <1>4, <2>1, <2>2
  <1>7. items' = [k \in DOMAIN items |-> IF k \in ItemsOf(r) THEN Changed[k] ELSE items[k]]
    <2>1. items' = [k \in DOMAIN items |-> IF k \in ItemsOf(r)
                                              THEN [items[k] EXCEPT !.tokens = 1] ELSE items[k]]
      BY DEF SetUsage, Amend
    <2> QED
      BY <1>2, <2>1
  <1>8. AmendsTo(r, y, Changed)
    BY <1>5, <1>6 DEF AmendsTo
  <1> HIDE DEF y, Changed
  <1> QED
    BY <1>1, <1>3, <1>7, <1>8, AmendStep

\* The answer failed after it began.
LEMMA MarkFailureStep ==
  ASSUME IInv, NEW r \in Requests, MarkFailure(r)
  PROVE  IInv' /\ PairsAreKept
  <1> DEFINE y == [reqs[r] EXCEPT !.status = "failed"]
             Changed == [k \in 1..Len(items) |-> [items[k] EXCEPT !.status = "failed"]]
  <1>1. /\ reqs[r].at = "open" /\ reqs' = [reqs EXCEPT ![r] = y]
        /\ UNCHANGED <<conn, disk, purgedAt, now>>
    BY DEF MarkFailure, Set, NoWrite
  <1>2. /\ reqs[r] \in RequestRecords /\ DOMAIN items = 1..Len(items)
        /\ \A k \in 1..Len(items) : items[k] \in UsageRows
        /\ ItemFits(items, r, reqs[r])
    BY DEF IInv, GoodRequests, GoodQueue
  <1>3. /\ y \in RequestRecords /\ y.at = reqs[r].at /\ y.pending = reqs[r].pending
        /\ y.decidedAt = reqs[r].decidedAt /\ y.recordedAt = reqs[r].recordedAt
        /\ y.after = reqs[r].after /\ y.status = "failed" /\ y.tokens = reqs[r].tokens
    BY <1>2 DEF RequestRecords
  <1>4. \A row \in UsageRows :
          LET new == [row EXCEPT !.status = "failed"]
          IN  /\ new \in UsageRows /\ new.id = row.id /\ new.at = row.at
              /\ new.status = "failed" /\ new.tokens = row.tokens
    BY DEF UsageRows
  <1>5. Changed \in [1..Len(items) -> UsageRows]
    BY <1>2, <1>4
  <1>6. \A k \in 1..Len(items) : items[k].id = r =>
           /\ Changed[k].id = r /\ Changed[k].at = items[k].at
           /\ Changed[k].status = y.status /\ Changed[k].tokens = y.tokens
    <2> SUFFICES ASSUME NEW k \in 1..Len(items), items[k].id = r
                 PROVE  /\ Changed[k].id = r /\ Changed[k].at = items[k].at
                        /\ Changed[k].status = y.status /\ Changed[k].tokens = y.tokens
      OBVIOUS
    <2>1. items[k].status = reqs[r].status /\ items[k].tokens = reqs[r].tokens
      BY <1>1, <1>2 DEF ItemFits
    <2>2. Changed[k] = [items[k] EXCEPT !.status = "failed"] /\ items[k] \in UsageRows
      BY <1>2
    <2> HIDE DEF Changed, y
    <2> QED
      BY <1>3, <1>4, <2>1, <2>2
  <1>7. items' = [k \in DOMAIN items |-> IF k \in ItemsOf(r) THEN Changed[k] ELSE items[k]]
    <2>1. items' = [k \in DOMAIN items |-> IF k \in ItemsOf(r)
                                              THEN [items[k] EXCEPT !.status = "failed"]
                                              ELSE items[k]]
      BY DEF MarkFailure, Amend
    <2> QED
      BY <1>2, <2>1
  <1>8. AmendsTo(r, y, Changed)
    BY <1>5, <1>6 DEF AmendsTo
  <1> HIDE DEF y, Changed
  <1> QED
    BY <1>1, <1>3, <1>7, <1>8, AmendStep

\* The answer is over: its item is written, if there still is one.
LEMMA CompleteStep ==
  ASSUME IInv, NEW r \in Requests, Complete(r)
  PROVE  IInv' /\ PairsAreKept
  <1> DEFINE Y(u) == [reqs[r] EXCEPT !.at = "closing", !.unlucky = u]
             found == items[CHOOSE k \in ItemsOf(r) : TRUE]
  <1>1. /\ GoodRequests(reqs, now) /\ now \in Nat /\ purgedAt \in Never..MaxTime
        /\ GoodView(conn, reqs, now) /\ GoodView(disk, reqs, now)
        /\ reqs[r] \in RequestRecords /\ Known(reqs[r], now)
        /\ reqs \in [Requests -> RequestRecords]
    BY DEF IInv, GoodRequests
  <1>2. ItemFits(items, r, reqs[r]) /\ \A k \in DOMAIN items : items[k] \in UsageRows
    BY DEF IInv, GoodQueue
  <1>3. reqs[r].at = "open" /\ now' = now /\ items' = items
    BY DEF Complete
  <1>4. \A u \in BOOLEAN :
          /\ Y(u) \in RequestRecords /\ Y(u).at = "closing" /\ Y(u).unlucky = u
          /\ Y(u).pending = reqs[r].pending /\ Y(u).decidedAt = reqs[r].decidedAt
          /\ Y(u).recordedAt = reqs[r].recordedAt /\ Y(u).status = reqs[r].status
          /\ Y(u).tokens = reqs[r].tokens /\ Y(u).after = reqs[r].after
    BY <1>1 DEF RequestRecords, Places
  <1>5. \A u \in BOOLEAN : Known(Y(u), now)
    BY <1>1, <1>4 DEF Known
  <1> HIDE DEF Y
  <1>6. CASE ItemsOf(r) = {}
    <2> DEFINE y == Y(reqs[r].unlucky)
    <2>1. /\ reqs' = [reqs EXCEPT ![r] = y] /\ conn' = conn /\ disk' = disk
          /\ purgedAt' = purgedAt
      <3>1. reqs' = [reqs EXCEPT ![r] = [reqs[r] EXCEPT !.at = "closing"]]
        BY <1>6 DEF Complete, Set
      <3>2. [reqs[r] EXCEPT !.at = "closing"] = y
        BY <1>1 DEF RequestRecords, Y
      <3> QED
        BY <1>6, <3>1, <3>2 DEF Complete, NoWrite
    <2>2. reqs[r].unlucky \in BOOLEAN
      BY <1>1 DEF RequestRecords
    <2>3. reqs[r].after >= MaxEntries
      BY <1>2, <1>3, <1>6 DEF ItemFits, ItemsOf
    <2>4. /\ y \in RequestRecords /\ Known(y, now) /\ y.at = "closing"
          /\ y.pending = reqs[r].pending /\ y.decidedAt = reqs[r].decidedAt
          /\ y.after >= MaxEntries
      BY <1>4, <1>5, <2>2, <2>3
    <2> HIDE DEF y
    <2>5. Moved(r, reqs') /\ reqs'[r] = y
      BY <1>1, <2>1, SetMoves
    <2>6. GoodView(conn, reqs', now) /\ GoodView(disk, reqs', now)
      BY <1>1, <1>3, <2>4, <2>5, UnwrittenFits
    <2>7. Sound(conn', disk', reqs')
      <3>1. \A q : q = reqs' => Sound(conn, disk, q)
        BY <2>6, UnwrittenSound
      <3> QED
        BY <2>1, <3>1
    <2>8. GoodRequests(reqs', now)
      BY <1>1, <2>1, <2>4, SetRequest
    <2>9. GoodQueue(items', reqs')
      BY <1>3, <2>1, <2>4, StillQueue
    <2> QED
      BY <1>1, <1>3, <2>1, <2>7, <2>8, <2>9, SoundStep
  <1>7. CASE ItemsOf(r) # {}
    <2>1. PICK due \in DuePurge :
            \E result \in Execute(due.state, Upserted(due.state.conn, found)) :
              /\ conn' = result.conn /\ disk' = result.disk /\ purgedAt' = due.at
              /\ reqs' = [reqs EXCEPT ![r] = Y(~result.ok)]
      BY <1>7 DEF Complete, Write, Set, Y
    <2>2. PICK result \in Execute(due.state, Upserted(due.state.conn, found)) :
            /\ conn' = result.conn /\ disk' = result.disk /\ purgedAt' = due.at
            /\ reqs' = [reqs EXCEPT ![r] = Y(~result.ok)]
      BY <2>1
    <2> DEFINE y == Y(~result.ok)
    <2>3. result.ok \in BOOLEAN
      BY ExecuteSays
    <2>4. /\ Sound(due.state.conn, due.state.disk, reqs) /\ due.at \in Never..MaxTime
          /\ GoodView(due.state.conn, reqs, now)
      BY DueSound DEF Sound
    <2>5. /\ y \in RequestRecords /\ Known(y, now) /\ y.at = "closing"
          /\ y.unlucky = ~result.ok /\ y.pending = reqs[r].pending
          /\ y.decidedAt = reqs[r].decidedAt /\ y.recordedAt = reqs[r].recordedAt
          /\ y.status = reqs[r].status /\ y.tokens = reqs[r].tokens
      <3>1. (~result.ok) \in BOOLEAN
        BY <2>3
      <3> QED
        BY <1>4, <1>5, <3>1
    <2>6. /\ found \in UsageRows /\ found.id = r /\ found.at <= now
          /\ found.status = y.status /\ found.tokens = y.tokens /\ found.at = y.recordedAt
      <3>1. PICK k \in DOMAIN items : items[k].id = r /\ found = items[k]
        BY <1>7 DEF ItemsOf
      <3>2. /\ found.status = reqs[r].status /\ found.tokens = reqs[r].tokens
            /\ found.at = reqs[r].recordedAt
        BY <1>2, <1>3, <3>1 DEF ItemFits
      <3>3. reqs[r].recordedAt <= now
        BY <1>1 DEF Known
      <3> HIDE DEF found, y
      <3> QED
        BY <1>2, <2>5, <3>1, <3>2, <3>3
    <2>7. reqs' = [reqs EXCEPT ![r] = y]
      BY <2>2
    <2> HIDE DEF y, found
    <2>8. Moved(r, reqs') /\ reqs'[r] = y
      BY <1>1, <2>7, SetMoves
    <2>9. WriteFits(due.state.conn, Upserted(due.state.conn, found), reqs', result.ok)
      BY <1>3, <2>3, <2>4, <2>5, <2>6, <2>8, UpsertFits
    <2>10. Sound(conn', disk', reqs')
      BY <1>1, <2>2, <2>4, <2>9, WriteSound
    <2>11. GoodRequests(reqs', now)
      BY <1>1, <2>5, <2>7, SetRequest
    <2>12. GoodQueue(items', reqs')
      BY <1>3, <2>5, <2>7, StillQueue
    <2> QED
      BY <1>3, <2>2, <2>4, <2>10, <2>11, <2>12, SoundStep
  <1> QED
    BY <1>6, <1>7

\* The outcome is told how long the answer took, if it was a success.
LEMMA BackfillStep ==
  ASSUME IInv, NEW r \in Requests, Backfill(r)
  PROVE  IInv' /\ PairsAreKept
  <1> DEFINE y == [reqs[r] EXCEPT !.at = "done"]
             q == [reqs EXCEPT ![r] = y]
             view == [conn EXCEPT !.outcomes =
                {IF o.id = r /\ o.outcome = "success" /\ ~o.total
                 THEN [o EXCEPT !.total = TRUE] ELSE o : o \in @}]
  <1>1. /\ GoodRequests(reqs, now) /\ purgedAt \in Never..MaxTime
        /\ GoodView(conn, reqs, now) /\ GoodView(disk, reqs, now)
        /\ reqs[r] \in RequestRecords /\ Known(reqs[r], now)
    BY DEF IInv, GoodRequests
  <1>2. /\ reqs[r].at = "closing" /\ now' = now /\ items' = items /\ purgedAt' = purgedAt
        /\ reqs' = q
    BY DEF Backfill, Set
  <1>3. /\ y \in RequestRecords /\ y.at = "done" /\ Known(y, now)
    <2>1. y \in RequestRecords
      BY <1>1 DEF RequestRecords, Places
    <2>2. /\ y.at = "done" /\ y.decidedAt = reqs[r].decidedAt
          /\ y.recordedAt = reqs[r].recordedAt
      BY <1>1 DEF RequestRecords
    <2> QED
      BY <1>1, <2>1, <2>2 DEF Known
  <1>4. Sound(Here.conn, Here.disk, reqs) /\ Here.conn = conn /\ Here.disk = disk
    BY UnwrittenSound DEF IInv, Here
  <1>5. \A ok : WriteFits(conn, view, q, ok)
    BY <1>1, <1>2, BackfillFits
  <1> HIDE DEF view
  <1>6. Sound(conn', disk', q)
    <2>1. CASE ~reqs[r].backfill
      <3>1. conn' = conn /\ disk' = disk
        BY <2>1 DEF Backfill
      <3>2. WriteFits(conn, view, q, FALSE)
        BY <1>5
      <3>3. GoodView(conn, q, now) /\ GoodView(disk, q, now)
        BY <1>1, <3>2 DEF WriteFits
      <3> HIDE DEF q
      <3>4. Sound(conn, disk, q)
        BY <3>3, UnwrittenSound
      <3> QED
        BY <3>1, <3>4
    <2>2. CASE reqs[r].backfill
      <3>1. PICK result \in Execute(Here, view) : conn' = result.conn /\ disk' = result.disk
        BY <2>2 DEF Backfill, view
      <3>2. WriteFits(Here.conn, view, q, result.ok)
        BY <1>4, <1>5
      <3> HIDE DEF q
      <3>3. Sound(result.conn, result.disk, q)
        BY <1>1, <1>4, <3>2, WriteSound
      <3> QED
        BY <3>1, <3>3
    <2> QED
      BY <2>1, <2>2
  <1>7. Sound(conn', disk', reqs')
    BY <1>2, <1>6
  <1> HIDE DEF y
  <1>8. GoodRequests(reqs', now)
    BY <1>1, <1>2, <1>3, SetRequest
  <1>9. GoodQueue(items', reqs')
    BY <1>2, <1>3, StillQueue
  <1> HIDE DEF q
  <1> QED
    BY <1>1, <1>2, <1>7, <1>8, <1>9, SoundStep

\* Time passes: what was old stays old.
LEMMA TickStep ==
  ASSUME IInv, Tick
  PROVE  IInv' /\ PairsAreKept
  <1>1. /\ now \in Nat /\ now' = now + 1 /\ now' \in 0..MaxTime /\ Retention \in Nat
        /\ items' = items /\ conn' = conn /\ disk' = disk /\ purgedAt' = purgedAt
        /\ reqs' = reqs /\ GoodRequests(reqs, now)
    BY LimitsAssumption DEF IInv, Tick
  <1>2. \A x \in Requests : /\ reqs[x].decidedAt \in Int /\ reqs[x].recordedAt \in Int
                            /\ Known(reqs[x], now)
    BY <1>1 DEF GoodRequests, RequestRecords
  <1>3. \A at \in Int : at <= now => at <= now + 1
    BY <1>1
  <1>4. \A at \in Int : Old(at, now) => Old(at, now + 1)
    BY <1>1 DEF Old
  <1>5. GoodRequests(reqs, now + 1)
    BY <1>1, <1>2, <1>3 DEF GoodRequests, Known
  <1>6. ASSUME NEW v, GoodView(v, reqs, now)
        PROVE  GoodView(v, reqs, now + 1)
    <2> SUFFICES ASSUME NEW x \in Requests PROVE RowsFit(v, x, reqs[x], now + 1)
      BY <1>6 DEF GoodView
    <2>1. RowsFit(v, x, reqs[x], now) /\ v \in Views
      BY <1>6 DEF GoodView
    <2>2. /\ \A row \in v.usage : row.at \in Int
          /\ \A row \in v.decisions : row.at \in Int
          /\ \A row \in v.outcomes : row.at \in Int
      BY <2>1 DEF Views, UsageRows, DecisionRows, OutcomeRows
    <2>3. UsageFits(v, x, reqs[x], now + 1)
      BY <1>3, <2>1, <2>2 DEF RowsFit, UsageFits
    <2>4. DecisionFits(v, x, reqs[x], now + 1)
      BY <1>3, <2>1, <2>2 DEF RowsFit, DecisionFits
    <2>5. OutcomeFits(v, x, reqs[x], now + 1)
      BY <1>2, <1>3, <1>4, <2>1, <2>2 DEF RowsFit, OutcomeFits
    <2>6. WrittenStays(v, x, reqs[x], now + 1)
      BY <1>2, <1>4, <2>1 DEF RowsFit, WrittenStays
    <2> QED
      BY <2>3, <2>4, <2>5, <2>6 DEF RowsFit
  <1>7. GoodView(conn, reqs, now + 1) /\ GoodView(disk, reqs, now + 1)
    BY <1>6 DEF IInv
  <1>8. IInv'
    BY <1>1, <1>5, <1>7 DEF IInv, Never
  <1> QED
    BY <1>1, <1>8 DEF PairsAreKept

\* Another process purges the file.
LEMMA PurgeByOtherStep ==
  ASSUME IInv, PurgeByOther
  PROVE  IInv' /\ PairsAreKept
  <1> DEFINE w == Deletions(disk)[3]
  <1>1. /\ conn' = w /\ disk' = w /\ now' = now /\ items' = items /\ purgedAt' = purgedAt
        /\ reqs' = reqs
    BY DEF PurgeByOther
  <1>2. /\ GoodRequests(reqs, now) /\ now \in Nat /\ purgedAt \in Never..MaxTime
        /\ GoodView(disk, reqs, now) /\ disk \in Views /\ GoodQueue(items, reqs)
    BY DEF IInv, GoodView
  <1>3. Trimmed(disk, w)
    BY <1>2, DeletionsTrim
  <1> HIDE DEF w
  <1>4. GoodView(w, reqs, now) /\ Kept(disk, w)
    BY <1>2, <1>3, TrimmedKeeps, TrimmedKept, KeptSelf
  <1>5. Sound(w, w, reqs)
    BY <1>4, KeptSelf DEF Sound
  <1>6. Sound(conn', disk', reqs')
    BY <1>1, <1>5
  <1> QED
    BY <1>1, <1>2, <1>6, SoundStep

\* The process dies and opens the store anew.
LEMMA CrashStep ==
  ASSUME IInv, Crash
  PROVE  IInv' /\ PairsAreKept
  <1> DEFINE from == [conn |-> disk, disk |-> disk, ok |-> TRUE]
             Lost(y) == [NoRequest EXCEPT !.at = "lost", !.decidedAt = y.decidedAt]
             q == [r \in Requests |->
                     IF reqs[r].at \in {"new", "done"} THEN reqs[r] ELSE Lost(reqs[r])]
  <1>1. /\ GoodRequests(reqs, now) /\ now \in Nat /\ now \in 0..MaxTime
        /\ GoodView(disk, reqs, now) /\ disk \in Views
    BY DEF IInv, GoodView
  <1>2. now' = now /\ items' = <<>> /\ reqs' = q
    BY DEF Crash
  <1>3. PICK p \in Purged(from) : /\ conn' = p.conn /\ disk' = p.disk
                                  /\ purgedAt' \in {now, Never}
    BY DEF Crash
  <1>4. Sound(p.conn, p.disk, reqs)
    <2>1. Sound(from.conn, from.disk, reqs)
      BY <1>1, KeptSelf DEF Sound
    <2> QED
      BY <1>1, <2>1, PurgedSound
  <1>5. \A r \in Requests :
          /\ reqs[r] \in RequestRecords /\ Known(reqs[r], now)
          /\ Lost(reqs[r]) \in RequestRecords /\ Known(Lost(reqs[r]), now)
    <2> SUFFICES ASSUME NEW r \in Requests
                 PROVE  Lost(reqs[r]) \in RequestRecords /\ Known(Lost(reqs[r]), now)
      BY <1>1 DEF GoodRequests
    <2>1. /\ reqs[r] \in RequestRecords /\ Known(reqs[r], now)
          /\ reqs[r].decidedAt \in Int /\ reqs[r].decidedAt <= now
      BY <1>1 DEF GoodRequests, RequestRecords, Known
    <2>2. NoRequest \in RequestRecords /\ NoRequest.recordedAt = -1
      BY DEF NoRequest, Unset, RequestRecords, Places
    <2>3. Lost(reqs[r]) \in RequestRecords
      BY <2>1, <2>2 DEF RequestRecords, Places
    <2>4. /\ Lost(reqs[r]).at = "lost" /\ Lost(reqs[r]).recordedAt = -1
          /\ Lost(reqs[r]).decidedAt = reqs[r].decidedAt
      BY <2>2 DEF RequestRecords
    <2> HIDE DEF Lost
    <2>5. Known(Lost(reqs[r]), now)
      BY <1>1, <2>1, <2>4 DEF Known
    <2> QED
      BY <2>3, <2>5
  <1>6. \A y : /\ Lost(y).at = "lost" /\ ~Lost(y).pending /\ Lost(y).decidedAt = y.decidedAt
    BY DEF NoRequest
  <1> HIDE DEF Lost
  <1>7. \A r \in Requests : q[r] = reqs[r] \/ (q[r] = Lost(reqs[r]) /\ reqs[r].at # "new")
    OBVIOUS
  <1>8. \A r \in Requests : q[r].at # "open"
    BY <1>6
  <1>9. GoodRequests(q, now)
    BY <1>5 DEF GoodRequests
  <1> HIDE DEF q
  <1>10. ASSUME NEW v, GoodView(v, reqs, now)
         PROVE  GoodView(v, q, now)
    <2> SUFFICES ASSUME NEW x \in Requests PROVE RowsFit(v, x, q[x], now)
      BY <1>10 DEF GoodView
    <2>1. RowsFit(v, x, reqs[x], now)
      BY <1>10 DEF GoodView
    <2>2. CASE q[x] = reqs[x]
      BY <2>1, <2>2
    <2>3. CASE q[x] = Lost(reqs[x]) /\ reqs[x].at # "new"
      <3>1. /\ q[x].at = "lost" /\ ~q[x].pending /\ q[x].decidedAt = reqs[x].decidedAt
        BY <1>6, <2>3
      <3>2. UsageFits(v, x, q[x], now)
        BY <2>1, <3>1 DEF RowsFit, UsageFits
      <3>3. DecisionFits(v, x, q[x], now)
        BY <2>1, <3>1 DEF RowsFit, DecisionFits
      <3>4. OutcomeFits(v, x, q[x], now)
        BY <2>1, <3>1 DEF RowsFit, OutcomeFits
      <3>5. WrittenStays(v, x, q[x], now)
        BY <3>1 DEF WrittenStays
      <3> QED
        BY <3>2, <3>3, <3>4, <3>5 DEF RowsFit
    <2> QED
      BY <1>7, <2>2, <2>3
  <1>11. Sound(p.conn, p.disk, q)
    BY <1>4, <1>10 DEF Sound
  <1>12. GoodQueue(<<>>, q)
    <2>1. /\ <<>> \in Seq(UsageRows) /\ Len(<<>>) = 0 /\ DOMAIN <<>> = {}
          /\ MaxEntries \in Nat
      BY EmptySeq, LimitsAssumption
    <2> QED
      BY <1>8, <2>1 DEF GoodQueue, ItemFits
  <1>13. now \in Never..MaxTime /\ Never \in Never..MaxTime
    BY <1>1, LimitsAssumption DEF Never
  <1>14. Sound(conn', disk', reqs') /\ GoodRequests(reqs', now) /\ GoodQueue(items', reqs')
    BY <1>2, <1>3, <1>9, <1>11, <1>12
  <1> HIDE DEF from
  <1> QED
    BY <1>2, <1>3, <1>13, <1>14, SoundStep

-----------------------------------------------------------------------------
(* The specification.                                                      *)

\* At first nothing is recorded and nothing stored.
LEMMA InitIInv ==
  ASSUME Init
  PROVE  IInv
  <1>1. NoRequest \in RequestRecords
    BY DEF NoRequest, Unset, RequestRecords, Places
  <1>2. /\ NoRequest.at = "new" /\ ~NoRequest.pending /\ NoRequest.after = 0
        /\ NoRequest.tokens = 0 /\ NoRequest.decidedAt = -1 /\ NoRequest.recordedAt = -1
    BY DEF NoRequest, Unset
  <1>3. reqs \in [Requests -> RequestRecords] /\ \A x \in Requests : reqs[x] = NoRequest
    BY <1>1 DEF Init
  <1>4. GoodRequests(reqs, now)
    <2>1. now = 0 /\ Known(NoRequest, 0)
      BY <1>2 DEF Init, Known
    <2> QED
      BY <1>3, <2>1 DEF GoodRequests
  <1>5. GoodQueue(items, reqs)
    <2>1. items = <<>>
      BY DEF Init
    <2>2. /\ <<>> \in Seq(UsageRows) /\ Len(<<>>) = 0 /\ DOMAIN <<>> = {} /\ MaxEntries \in Nat
      BY EmptySeq, LimitsAssumption
    <2>3. \A x \in Requests : reqs[x].at = "new"
      BY <1>2, <1>3
    <2>4. \A x \in Requests : ItemFits(<<>>, x, reqs[x])
      BY <2>2, <2>3 DEF ItemFits
    <2> QED
      BY <2>1, <2>2, <2>4 DEF GoodQueue
  <1>6. GoodView(Empty, reqs, now)
    <2>1. Empty \in Views
      BY DEF Empty, Views
    <2>2. \A y : y.at = "new" /\ ~y.pending => \A x : RowsFit(Empty, x, y, now)
      BY DEF Empty, RowsFit, UsageFits, DecisionFits, OutcomeFits, WrittenStays
    <2> QED
      BY <1>2, <1>3, <2>1, <2>2 DEF GoodView
  <1>7. conn = Empty /\ disk = Empty
    BY DEF Init
  <1>8. now \in 0..MaxTime /\ purgedAt \in Never..MaxTime
    BY LimitsAssumption DEF Init, Never
  <1> QED
    BY <1>4, <1>5, <1>6, <1>7, <1>8, KeptSelf DEF IInv

\* A step that changes nothing is good, and so is every other.
LEMMA NextIInv ==
  ASSUME IInv, [Next]_vars
  PROVE  IInv' /\ PairsAreKept
  <1>1. CASE Next
    <2>1. ASSUME NEW r \in Requests, Decide(r) PROVE IInv' /\ PairsAreKept
      BY <2>1, DecideStep
    <2>2. ASSUME NEW r \in Requests, NEW outcome \in {"success", "failed"}, Settle(r, outcome)
          PROVE  IInv' /\ PairsAreKept
      BY <2>2, SettleStep
    <2>3. ASSUME NEW r \in Requests, RecordFailed(r) PROVE IInv' /\ PairsAreKept
      BY <2>3, RecordFailedStep
    <2>4. ASSUME NEW r \in Requests, RecordOpened(r) PROVE IInv' /\ PairsAreKept
      BY <2>4, RecordOpenedStep
    <2>5. ASSUME NEW r \in Requests, SetUsage(r) PROVE IInv' /\ PairsAreKept
      BY <2>5, SetUsageStep
    <2>6. ASSUME NEW r \in Requests, MarkFailure(r) PROVE IInv' /\ PairsAreKept
      BY <2>6, MarkFailureStep
    <2>7. ASSUME NEW r \in Requests, Complete(r) PROVE IInv' /\ PairsAreKept
      BY <2>7, CompleteStep
    <2>8. ASSUME NEW r \in Requests, Backfill(r) PROVE IInv' /\ PairsAreKept
      BY <2>8, BackfillStep
    <2> QED
      BY <1>1, <2>1, <2>2, <2>3, <2>4, <2>5, <2>6, <2>7, <2>8,
         TickStep, PurgeByOtherStep, CrashStep DEF Next
  <1>2. CASE UNCHANGED vars
    <2>1. IInv'
      BY <1>2 DEF IInv, vars, Never
    <2> QED
      BY <1>2, <2>1 DEF PairsAreKept, vars
  <1> QED
    BY <1>1, <1>2

\* The invariant implies what the stores promise: the types, ...
LEMMA IInvTypeOK ==
  ASSUME IInv
  PROVE  TypeOK
  <1>1. /\ now \in 0..MaxTime /\ purgedAt \in Never..MaxTime /\ Len(items) <= MaxEntries
        /\ reqs \in [Requests -> RequestRecords]
    BY DEF IInv, GoodQueue, GoodRequests
  <1>2. ASSUME NEW r \in Requests
        PROVE  /\ reqs[r].at \in {"new", "routing", "open", "closing", "done", "lost"}
               /\ reqs[r].status \in {"none", "success", "failed"}
    BY <1>1 DEF RequestRecords, Places
  <1>3. ASSUME NEW view, GoodView(view, reqs, now),
               NEW row \in view.usage \cup view.decisions \cup view.outcomes
        PROVE  row.id \in Requests /\ row.at \in 0..now
    <2>1. row.id \in Requests /\ row.at \in Nat
      BY <1>3 DEF GoodView, Views, UsageRows, DecisionRows, OutcomeRows
    <2>2. RowsFit(view, row.id, reqs[row.id], now)
      BY <1>3, <2>1 DEF GoodView
    <2>3. row.at <= now
      BY <2>2 DEF RowsFit, UsageFits, DecisionFits, OutcomeFits
    <2> QED
      BY <1>1, <2>1, <2>3
  <1> QED
    BY <1>1, <1>2, <1>3 DEF TypeOK, IInv

\* ... the last word in each row, ...
LEMMA IInvRows ==
  ASSUME IInv
  PROVE  RowsTellTheLastWord
  <1> SUFFICES ASSUME NEW row \in disk.usage, reqs[row.id].at = "done"
               PROVE  row.status = reqs[row.id].status /\ row.tokens = reqs[row.id].tokens
    BY DEF RowsTellTheLastWord
  <1>1. row.id \in Requests
    BY DEF IInv, GoodView, Views, UsageRows
  <1>2. UsageFits(disk, row.id, reqs[row.id], now)
    BY <1>1 DEF IInv, GoodView, RowsFit
  <1> QED
    BY <1>2 DEF UsageFits

\* ... no loss but by age and eviction, ...
LEMMA IInvEviction ==
  ASSUME IInv
  PROVE  OnlyEvictionLoses
  <1> SUFFICES ASSUME NEW r \in Requests, reqs[r].at = "done", ~reqs[r].unlucky
               PROVE  \/ \E row \in disk.usage : row.id = r
                      \/ reqs[r].recordedAt < Cutoff
                      \/ reqs[r].after >= MaxEntries
    BY DEF OnlyEvictionLoses
  <1>1. WrittenStays(disk, r, reqs[r], now)
    BY DEF IInv, GoodView, RowsFit
  <1> QED
    BY <1>1 DEF WrittenStays, Has, Old, Cutoff

\* ... and outcomes that settle decisions, once each.
LEMMA IInvOutcomes ==
  ASSUME IInv
  PROVE  OutcomesSettleDecisions
  <1> SUFFICES ASSUME NEW o \in disk.outcomes
               PROVE  /\ (\E d \in disk.decisions : d.id = o.id)
                           \/ reqs[o.id].decidedAt < Cutoff
                      /\ \A p \in disk.outcomes : o.id = p.id => o = p
    BY DEF OutcomesSettleDecisions
  <1>1. o.id \in Requests
    BY DEF IInv, GoodView, Views, OutcomeRows
  <1>2. OutcomeFits(disk, o.id, reqs[o.id], now)
    BY <1>1 DEF IInv, GoodView, RowsFit
  <1> QED
    BY <1>2 DEF OutcomeFits, Has, Old, Cutoff

\* The invariant holds in every state, whatever fails and whenever the process
\* dies.
LEMMA AlwaysIInv == Spec => []IInv
  <1>1. IInv /\ [Next]_vars => IInv'
    BY NextIInv
  <1> QED
    BY InitIInv, <1>1, PTL DEF Spec

\* The queue keeps its length, the tables know their requests and the clock is
\* ahead of what is stored (telemetry.py, analytics.py).
THEOREM TypeCorrect == Spec => []TypeOK
  BY AlwaysIInv, IInvTypeOK, PTL

\* The row of a request that is over repeats the last word on it, for any
\* number of requests, queue and faults (RouteDecisionStore.complete).
THEOREM RowsAreTrue == Spec => []RowsTellTheLastWord
  BY AlwaysIInv, IInvRows, PTL

\* A row whose write did not fail is lost to age or to eviction only
\* (RouteDecisionStore.record, AnalyticsStore.purge).
THEOREM NothingElseLosesRows == Spec => []OnlyEvictionLoses
  BY AlwaysIInv, IInvEviction, PTL

\* An outcome settles a decision that was written, once (failover_audit.py).
THEOREM SettledOnce == Spec => []OutcomesSettleDecisions
  BY AlwaysIInv, IInvOutcomes, PTL

\* No purge, failed or not, no later commit and no crash takes the outcome of
\* a decision that stays (AnalyticsStore.purge).
THEOREM PairsAreNeverSplit == Spec => PairsStayTogether
  <1>1. IInv /\ [Next]_vars => [PairsAreKept]_vars
    BY NextIInv
  <1> QED
    BY AlwaysIInv, <1>1, PTL DEF Spec, PairsStayTogether
===============================================================================
