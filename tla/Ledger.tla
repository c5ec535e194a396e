-------------------------------- MODULE Ledger --------------------------------
(***************************************************************************)
(* What the router remembers of its requests: the bounded queue of         *)
(* telemetry.py (RouteDecisionStore), the tables of analytics.py           *)
(* (AnalyticsStore) and the hooks of failover_audit.py, under concurrent   *)
(* requests, failing writes, purges and crashes.                           *)
(*                                                                         *)
(* A request leaves a usage row and, if it moves to another candidate, a   *)
(* decision row and the outcome row that settles it.  Every call of the    *)
(* two stores holds their lock and is one action.                          *)
(***************************************************************************)
EXTENDS Naturals, Integers, Sequences, SequencesExt, FiniteSets

CONSTANTS
  Requests,     \* request ids
  MaxEntries,   \* length of the queue
  Retention,    \* age in ticks above which rows are purged
  PurgeEvery,   \* ticks between purges by the writer (3600 s)
  MaxTime,      \* bound: ticks
  MaxFaults,    \* bound: calls of the database that fail
  MaxCrashes    \* bound: crashes

\* telemetry.py:14 and analytics.py:114 clamp what they are given.
ASSUME LimitsAssumption ==
  /\ MaxEntries \in Nat \ {0}
  /\ {Retention, PurgeEvery, MaxTime} \subseteq Nat

VARIABLES
  now,      \* the clock
  items,    \* RouteDecisionStore._items
  conn,     \* the database as the connection sees it
  disk,     \* the database as committed
  purgedAt, \* _last_purge_at
  reqs,     \* per request: where it stands, and what is known of it
  faults,   \* how many calls failed, and ...
  crashes   \* ... how often the process died; they bound the model only

vars == <<now, items, conn, disk, purgedAt, reqs, faults, crashes>>

Unset == -1
Never == 0 - PurgeEvery   \* _last_purge_at of a store that has not purged
NoRequest == [at |-> "new",        \* new, routing, open, done; lost in a crash
              pending |-> FALSE,   \* pending_decision_id is set
              decidedAt |-> Unset, \* when its decision row was made, and
              recordedAt |-> Unset,\* when its item was
              backfill |-> FALSE,  \* the completion callback has a backfill
              status |-> "none",   \* the last word on the request, ...
              tokens |-> 0,        \* ... which the stores should repeat
              after |-> 0,         \* requests recorded while its answer was open
              unlucky |-> FALSE]   \* a write of its usage row failed
Empty == [usage |-> {}, decisions |-> {}, outcomes |-> {}]

Init ==
  /\ now = 0 /\ items = <<>> /\ purgedAt = 0
  /\ conn = Empty /\ disk = Empty
  /\ reqs = [r \in Requests |-> NoRequest]
  /\ faults = 0 /\ crashes = 0

(***************************************************************************)
(* The connection.  A call executes statements and commits.  Whatever      *)
(* fails is swallowed, with no rollback: statements already executed stay  *)
(* in the open transaction and go out with the next commit, unless SQLite  *)
(* has rolled back by itself.  The permissions are set after the commit,   *)
(* and when that fails the call takes its write for failed, too.           *)
(***************************************************************************)
Committed(view) == [conn |-> view, disk |-> view, ok |-> TRUE]

\* A call that fails: at the commit, at a commit that SQLite rolls back, after
\* the commit, or at one of its statements.
Failed(from, view, pending) ==
  [conn : {view, from.disk} \cup pending, disk : {from.disk}, ok : {FALSE}]
  \cup {[conn |-> view, disk |-> view, ok |-> FALSE]}

Execute(from, view) == {Committed(view)} \cup Failed(from, view, {from.conn})

Cutoff == now - Retention

\* Mutant: the outcomes are deleted before the decisions.
OutcomesFirst(view) ==
  LET young(rows) == {row \in rows : row.at >= Cutoff}
      first  == [view EXCEPT !.outcomes = young(@)]
      second == [first EXCEPT !.usage = young(@)]
  IN  <<first, second, [second EXCEPT !.decisions = young(@)]>>

\* The three deletions of a purge, one statement after the other.
Deletions(view) ==
  LET young(rows) == {row \in rows : row.at >= Cutoff}
      first  == [view EXCEPT !.usage = young(@)]
      second == [first EXCEPT !.decisions = young(@)]
  IN  <<first, second, [second EXCEPT !.outcomes = young(@)]>>

\* purge: a later statement that fails leaves the earlier ones pending.
Purged(from) ==
  LET steps == Deletions(from.conn)
  IN  {Committed(steps[3])} \cup Failed(from, steps[3], {from.conn, steps[1], steps[2]})

\* The writer purges first when its last successful purge is long ago.  The
\* clock of a purge is set only when all of it went well.
Here == [conn |-> conn, disk |-> disk, ok |-> TRUE]
DuePurge ==
  IF now - purgedAt >= PurgeEvery
  THEN {[state |-> p, at |-> IF p.ok THEN now ELSE purgedAt] : p \in Purged(Here)}
  ELSE {[state |-> Here, at |-> purgedAt]}

Faults(failed) ==
  /\ faults' = faults + Cardinality({k \in DOMAIN failed : failed[k]})
  /\ faults' <= MaxFaults

\* A write that changes the view by Change, and what follows from its result.
Write(Change(_), After(_)) ==
  \E due \in DuePurge :
    \E result \in Execute(due.state, Change(due.state.conn)) :
      /\ conn' = result.conn /\ disk' = result.disk
      /\ purgedAt' = due.at
      /\ Faults(<<~due.state.ok, ~result.ok>>)
      /\ After(result.ok)

NoWrite == UNCHANGED <<conn, disk, purgedAt, faults>>

(***************************************************************************)
(* The audit pair.                                                         *)
(***************************************************************************)
Set(r, value) == reqs' = [reqs EXCEPT ![r] = value]

\* Mutant: the id is handed out whether the row was written or not.
IdOf(ok) == TRUE

\* record_failover_decision returns the id of the row, or nothing.
DecisionId(ok) == ok

Decide(r) ==
  /\ reqs[r].at = "new"
  /\ Write(LAMBDA view : [view EXCEPT !.decisions = @ \cup {[id |-> r, at |-> now]}],
           LAMBDA ok : Set(r, [reqs[r] EXCEPT !.at = "routing", !.decidedAt = now,
                                              !.pending = DecisionId(ok)]))
  /\ UNCHANGED <<now, items, crashes>>

\* Mutant: the pair stays pending.
KeepsPending(request) == request

\* settle takes the pending pair away before it writes.
TakesPending(request) == [request EXCEPT !.pending = FALSE]

\* The outcome of the pending pair.  Only a success is told how long the
\* answer took, when it is over.
Settle(r, outcome) ==
  /\ reqs[r].at = "routing" /\ reqs[r].pending
  /\ Write(LAMBDA view : [view EXCEPT !.outcomes =
                            @ \cup {[id |-> r, at |-> now, outcome |-> outcome,
                                     total |-> FALSE]}],
           LAMBDA ok : Set(r, [TakesPending(reqs[r]) EXCEPT
                                 !.backfill = outcome = "success"]))
  /\ UNCHANGED <<now, items, crashes>>

(***************************************************************************)
(* The queue and the usage rows.                                           *)
(***************************************************************************)
Item(r, status) == [id |-> r, at |-> now, status |-> status, tokens |-> 0]

\* Rows are upserted by request.
Upserted(view, item) ==
  [view EXCEPT !.usage = {row \in @ : row.id # item.id} \cup {item}]

\* Mutant: room is made one item too early.
QueuedShort(item) ==
  LET longer == Append(items, item)
  IN  IF Len(longer) >= MaxEntries THEN Tail(longer) ELSE longer

\* deque(maxlen): the oldest item makes room.
Queued(item) ==
  LET longer == Append(items, item)
  IN  IF Len(longer) > MaxEntries THEN Tail(longer) ELSE longer

Recorded(r, request) ==
  [q \in Requests |-> IF q = r THEN request
                      ELSE IF reqs[q].at = "open"
                      THEN [reqs[q] EXCEPT !.after = @ + 1] ELSE reqs[q]]

\* A request that failed is final: its row is written at once.
RecordFailed(r) ==
  /\ reqs[r].at \in {"new", "routing"} /\ ~reqs[r].backfill
  /\ items' = Queued(Item(r, "failed"))
  /\ Write(LAMBDA view : Upserted(view, Item(r, "failed")),
           LAMBDA ok : reqs' = Recorded(r, [reqs[r] EXCEPT !.at = "done",
                                              !.recordedAt = now, !.status = "failed",
                                              !.unlucky = ~ok]))
  /\ UNCHANGED <<now, crashes>>

\* A request whose answer begins waits in the queue for the rest.
RecordOpened(r) ==
  /\ reqs[r].at \in {"new", "routing"}
  /\ items' = Queued(Item(r, "success"))
  /\ reqs' = Recorded(r, [reqs[r] EXCEPT !.at = "open", !.recordedAt = now,
                                      !.status = "success"])
  /\ NoWrite /\ UNCHANGED <<now, crashes>>

\* The items of a request that are still there; ids are unique.
ItemsOf(r) == {k \in DOMAIN items : items[k].id = r}

\* set_usage and mark_failure: an item that was evicted is beyond help.
Amend(r, Change(_)) ==
  items' = [k \in DOMAIN items |-> IF k \in ItemsOf(r) THEN Change(items[k]) ELSE items[k]]

SetUsage(r) ==
  /\ reqs[r].at = "open" /\ reqs[r].status = "success" /\ reqs[r].tokens = 0
  /\ Amend(r, LAMBDA item : [item EXCEPT !.tokens = 1])
  /\ Set(r, [reqs[r] EXCEPT !.tokens = 1])
  /\ NoWrite /\ UNCHANGED <<now, crashes>>

\* Mutant: what is changed is a copy, as recent() hands out.
MarkCopy(r) ==
  /\ reqs[r].at = "open" /\ reqs[r].status = "success"
  /\ Set(r, [reqs[r] EXCEPT !.status = "failed"])
  /\ NoWrite /\ UNCHANGED <<now, crashes, items>>

MarkFailure(r) ==
  /\ reqs[r].at = "open" /\ reqs[r].status = "success"
  /\ Amend(r, LAMBDA item : [item EXCEPT !.status = "failed"])
  /\ Set(r, [reqs[r] EXCEPT !.status = "failed"])
  /\ NoWrite /\ UNCHANGED <<now, crashes>>

\* The completion callback of a closed answer: first complete, which writes
\* the item's row, if there still is one ...
Complete(r) ==
  /\ reqs[r].at = "open"
  /\ IF ItemsOf(r) = {}
     THEN NoWrite /\ Set(r, [reqs[r] EXCEPT !.at = "closing"])
     ELSE LET item == items[CHOOSE k \in ItemsOf(r) : TRUE]
          IN  Write(LAMBDA view : Upserted(view, item),
                    LAMBDA ok : Set(r, [reqs[r] EXCEPT !.at = "closing", !.unlucky = ~ok]))
  /\ UNCHANGED <<now, items, crashes>>

\* ... then the backfill of the pair's outcome, which purges nothing.
Backfill(r) ==
  /\ reqs[r].at = "closing"
  /\ IF ~reqs[r].backfill THEN UNCHANGED <<conn, disk, faults>>
     ELSE \E result \in Execute(Here, [conn EXCEPT !.outcomes =
                 {IF o.id = r /\ o.outcome = "success" /\ ~o.total
                  THEN [o EXCEPT !.total = TRUE] ELSE o : o \in @}]) :
            conn' = result.conn /\ disk' = result.disk /\ Faults(<<~result.ok>>)
  /\ Set(r, [reqs[r] EXCEPT !.at = "done"])
  /\ UNCHANGED <<now, items, purgedAt, crashes>>

(***************************************************************************)
(* The rest of the world.                                                  *)
(***************************************************************************)
Tick ==
  /\ now < MaxTime
  /\ now' = now + 1
  /\ UNCHANGED <<items, conn, disk, purgedAt, reqs, faults, crashes>>

\* Another process opens the same file and purges; while this one has a
\* transaction open, the other is locked out.
PurgeByOther ==
  /\ conn = disk
  /\ conn' = Deletions(disk)[3] /\ disk' = conn'
  /\ UNCHANGED <<now, items, purgedAt, reqs, faults, crashes>>

\* The process dies and comes back: the queue and the open transaction are
\* gone, and opening the store purges.
Crash ==
  /\ crashes < MaxCrashes /\ crashes' = crashes + 1
  /\ items' = <<>>
  /\ \E p \in Purged([conn |-> disk, disk |-> disk, ok |-> TRUE]) :
       /\ conn' = p.conn /\ disk' = p.disk
       /\ purgedAt' = IF p.ok THEN now ELSE Never
       /\ Faults(<<~p.ok>>)
  /\ reqs' = [r \in Requests |->
                IF reqs[r].at \in {"new", "done"} THEN reqs[r]
                ELSE [NoRequest EXCEPT !.at = "lost", !.decidedAt = reqs[r].decidedAt]]
  /\ UNCHANGED now

Next ==
  \/ \E r \in Requests :
       \/ Decide(r)
       \/ \E outcome \in {"success", "failed"} : Settle(r, outcome)
       \/ RecordFailed(r) \/ RecordOpened(r)
       \/ SetUsage(r) \/ MarkFailure(r) \/ Complete(r) \/ Backfill(r)
  \/ Tick \/ PurgeByOther \/ Crash

Spec == Init /\ [][Next]_vars

TypeOK ==
  /\ now \in 0..MaxTime /\ purgedAt \in Never..MaxTime
  /\ Len(items) <= MaxEntries
  /\ \A r \in Requests :
       /\ reqs[r].at \in {"new", "routing", "open", "closing", "done", "lost"}
       /\ reqs[r].status \in {"none", "success", "failed"}
  /\ \A view \in {conn, disk} : \A row \in view.usage \cup view.decisions \cup view.outcomes :
       row.id \in Requests /\ row.at \in 0..now

\* When a request is over, its usage row repeats the last word on it: a failure
\* found after the headers, and the tokens reported meanwhile, whatever other
\* requests did to the queue and whichever writes failed.
RowsTellTheLastWord ==
  \A row \in disk.usage :
    reqs[row.id].at = "done" =>
      row.status = reqs[row.id].status /\ row.tokens = reqs[row.id].tokens

\* A request that is over and whose write did not fail has its row until it is
\* old enough to be purged, unless as many requests as the queue holds were
\* recorded while its answer was under way.
OnlyEvictionLoses ==
  \A r \in Requests :
    reqs[r].at = "done" /\ ~reqs[r].unlucky =>
      \/ \E row \in disk.usage : row.id = r
      \/ reqs[r].recordedAt < Cutoff
      \/ reqs[r].after >= MaxEntries

\* A decision that has its outcome keeps it as long as the decision itself is
\* kept, through purges that fail half-way and are committed by a later write.
PairsAreKept ==
  \A o \in disk.outcomes :
    (\E d \in disk'.decisions : d.id = o.id) => (\E p \in disk'.outcomes : p.id = o.id)
PairsStayTogether == [][PairsAreKept]_vars

\* The audit stays readable from its outcomes: each refers to a decision that
\* was written, unless that one was old enough to be purged before, and a
\* decision is settled once, however its request goes on.
OutcomesSettleDecisions ==
  \A o \in disk.outcomes :
    /\ (\E d \in disk.decisions : d.id = o.id) \/ reqs[o.id].decidedAt < Cutoff
    /\ \A p \in disk.outcomes : o.id = p.id => o = p
===============================================================================
