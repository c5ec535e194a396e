----------------------------- MODULE StatusWorker -----------------------------
(***************************************************************************)
(* The public status board's worker: every fifteen minutes a cron run      *)
(* probes one of two batches of models and puts a new snapshot into the    *)
(* key-value store; a visit that finds the snapshot old starts a run too,  *)
(* behind a lock that is read and then written.  A run reads the snapshot, *)
(* probes, and puts: what another run put meanwhile is lost.  Time is in   *)
(* units of five minutes, and ages are counted instead of timestamps.      *)
(***************************************************************************)
EXTENDS Naturals

CONSTANTS Models,   \* the models of the catalog
          Place,    \* a model's index in the catalog
          Visits    \* runs that visits may start, at most one each at a time

VARIABLES clock,  \* units since the hour began, modulo two slots
          due,    \* this slot's cron run has not fired yet
          kv,     \* the snapshot: [have, age, models]
          lock,   \* the refresh lock is set (it expires within a unit)
          runs,   \* the runs
          streak  \* history: good cron runs in a row

vars == <<clock, due, kv, lock, runs, streak>>

Slot == 3        \* PROBE_INTERVAL_MINUTES
Batches == 2     \* PROBE_BATCHES
Runs == {"cron"} \cup Visits
Verdicts == {"available", "unavailable"}
Old == 10        \* bound: ages stop here, past every limit

Absent == [v |-> "none", age |-> 0]
NoRun == [at |-> "none", age |-> 0, batch |-> 0, prior |-> [m \in Models |-> Absent], late |-> FALSE]

\* STATUS_STALE_MS: forty-five minutes.
\* Mutant: for half an hour.
RecentForTwoSlots(e) == e.v # "none" /\ e.age <= 2 * Slot
Recent(e) == e.v # "none" /\ e.age <= 3 * Slot

\* statusIsStale: over twenty minutes.
StatusIsStale == ~kv.have \/ kv.age > 4

\* mergeServerStatus: only evidence that is recent now speaks for a model.
Served(m) == IF kv.have /\ Recent(kv.models[m]) THEN kv.models[m].v ELSE "unverified"

TypeOK ==
  /\ clock \in 0..(2 * Slot - 1) /\ due \in BOOLEAN /\ lock \in BOOLEAN
  /\ kv.age \in 0..Old /\ streak \in 0..2
  /\ \A r \in Runs : runs[r].at \in {"none", "cleared", "probing"} /\ runs[r].age \in 0..2

Init ==
  /\ clock = 0 /\ due = TRUE /\ lock = FALSE /\ streak = 0
  /\ kv = [have |-> FALSE, age |-> 0, models |-> [m \in Models |-> Absent]]
  /\ runs = [r \in Runs |-> NoRun]

Min2(a, b) == IF a < b THEN a ELSE b
Older(models) == [m \in Models |-> [models[m] EXCEPT !.age = Min2(@ + 1, Old)]]

\* A run is over within two units: its requests take twelve seconds at most.
Tick ==
  /\ \A r \in Runs : runs[r].age < 2
  /\ clock' = (clock + 1) % (2 * Slot)
  /\ due' = (clock' % Slot = 0)
  /\ kv' = [kv EXCEPT !.age = Min2(@ + 1, Old), !.models = Older(@)]
  /\ runs' = [r \in Runs |-> IF runs[r].at = "none" THEN NoRun
                ELSE [runs[r] EXCEPT !.age = @ + 1, !.prior = Older(@)]]
  /\ lock' = FALSE
  /\ streak' = IF due THEN 0 ELSE streak      \* the trigger was missed

\* The batch of a run is that of the slot it starts in.
Batch == (clock \div Slot) % Batches
Begun == [at |-> "probing", age |-> 0, batch |-> Batch, late |-> FALSE,
          prior |-> [m \in Models |-> IF kv.have /\ Recent(kv.models[m])
                                      THEN kv.models[m] ELSE Absent]]

Cron ==
  /\ due /\ runs["cron"].at = "none"
  /\ due' = FALSE
  /\ runs' = [runs EXCEPT !["cron"] = Begun]
  /\ UNCHANGED <<clock, kv, lock, streak>>

\* refreshProviderStatusIfNeeded: the lock is looked at ...
Visit(r) ==
  /\ runs[r].at = "none" /\ StatusIsStale /\ ~lock
  /\ runs' = [runs EXCEPT ![r] = [NoRun EXCEPT !.at = "cleared"]]
  /\ UNCHANGED <<clock, due, kv, lock, streak>>

\* ... and then set, by every visit that found it free.
TakeLock(r) ==
  /\ runs[r].at = "cleared"
  /\ lock' = TRUE
  /\ runs' = [runs EXCEPT ![r] = Begun]
  /\ UNCHANGED <<clock, due, kv, streak>>

\* probeModel: what a provider's answer, or none, says of a model.  Answers
\* about the worker's own account (401, 402, 403, 429, and a 400 whose text
\* speaks of credit) say nothing of it.
Probes == {"no_credential", "ok", "account", "rejected", "credit_text", "failing", "no_response"}
Verdict(probe) ==
  CASE probe = "ok" -> "available"
    [] probe \in {"rejected", "failing"} -> "unavailable"
    [] OTHER -> "unverified"

\* What learned nothing never replaces a verdict.
Selected(run) == {m \in Models : Place[m] % Batches = run.batch}
Outcome(run, found, m) ==
  LET prior == run.prior[m] IN
  IF m \notin Selected(run) THEN prior
  ELSE IF found[m] = "unverified" /\ prior.v \in Verdicts THEN prior
  ELSE [v |-> found[m], age |-> run.age]

Put(r) ==
  /\ runs[r].at = "probing"
  /\ \E found \in [Selected(runs[r]) -> {Verdict(p) : p \in Probes}] :
       /\ kv' = [have |-> TRUE, age |-> runs[r].age,
                 models |-> [m \in Models |-> Outcome(runs[r], found, m)]]
       /\ streak' = IF runs[r].late \/ \E m \in DOMAIN found : found[m] = "unverified" /\ r = "cron"
                    THEN 0 ELSE IF r = "cron" THEN Min2(streak + 1, 2) ELSE streak
  /\ runs' = [k \in Runs |-> IF k = r THEN NoRun
                             ELSE [runs[k] EXCEPT !.late = (runs[k].at = "probing")]]
  /\ lock' = FALSE
  /\ UNCHANGED <<clock, due>>

\* The catalog, the store or the run's own time limit fails it; only a visit's
\* run has a handler that gives the lock back.
Fail(r) ==
  /\ runs[r].at = "probing"
  /\ runs' = [runs EXCEPT ![r] = NoRun]
  /\ lock' = (lock /\ r = "cron")
  /\ streak' = IF r = "cron" THEN 0 ELSE streak
  /\ UNCHANGED <<clock, due, kv>>

Next ==
  \/ Tick \/ Cron
  \/ \E r \in Visits : Visit(r) \/ TakeLock(r)
  \/ \E r \in Runs : Put(r) \/ Fail(r)

Spec == Init /\ [][Next]_vars
-----------------------------------------------------------------------------
\* Two cron runs in a row that reached every model of their batches, and that
\* no other run overlapped, are enough for every model to be served a verdict,
\* until a run is missed, fails or is throttled: the two batches, the interval,
\* the forty-five minutes and the rule that nothing learned replaces nothing
\* fit together, and visits that start runs in between do not break it.
TwoGoodRunsShowAll == streak = 2 => \A m \in Models : Served(m) \in Verdicts
===============================================================================
