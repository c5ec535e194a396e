------------------------------- MODULE ProbeRun -------------------------------
(***************************************************************************)
(* The live availability probe of the dashboard (probe.py, ui.py): one run *)
(* at a time over the models of the shared registry, its results in        *)
(* memory, and, when it is over, a snapshot written to two files by the    *)
(* thread that ran it, after it has let the next run begin.  A result is   *)
(* the number of the run that measured it.                                 *)
(***************************************************************************)
EXTENDS Naturals, FiniteSets

CONSTANTS Models, MaxRuns

VARIABLES reg,      \* the models of the registry
          running,  \* state["running"]
          stuck,    \* the run was announced and never begun
          targets,  \* models the present run has still to answer for
          total, done,
          results,  \* state["results"]: per model, the run that measured it
          runs,     \* runs begun so far
          ending,   \* per run, how far its thread is with the snapshot
          snapshot, \* per run, the results it took
          status, evidence,  \* the two files, the aggregate and the results
          tangled   \* history: what the files lack since the last run that ended alone

vars == <<reg, running, stuck, targets, total, done, results, runs, ending,
          snapshot, status, evidence, tangled>>

Runs == 1..MaxRuns
Results == UNION {[S -> Runs] : S \in SUBSET Models}
Nothing == [m \in {} |-> 0]
Restrict(f, S) == [m \in DOMAIN f \cap S |-> f[m]]

TypeOK ==
  /\ reg \subseteq Models /\ targets \subseteq Models
  /\ running \in BOOLEAN /\ stuck \in BOOLEAN /\ tangled \in BOOLEAN
  /\ done <= total /\ runs \in 0..MaxRuns
  /\ results \in Results /\ status \in Results /\ evidence \in Results
  /\ ending \in [Runs -> {"none", "over", "taken", "half"}]

Init ==
  /\ reg \in SUBSET Models \ {{}}
  /\ running = FALSE /\ stuck = FALSE /\ targets = {} /\ total = 0 /\ done = 0
  /\ results = Nothing /\ runs = 0
  /\ ending = [r \in Runs |-> "none"] /\ snapshot = [r \in Runs |-> Nothing]
  /\ status = Nothing /\ evidence = Nothing /\ tangled = FALSE

\* start, under the lock, of the whole registry, a provider or a model.  What
\* is no longer in the registry is dropped from the results.
Kept(f) == Restrict(f, reg)

Start(scope) ==
  /\ ~running /\ runs < MaxRuns
  /\ runs' = runs + 1 /\ running' = TRUE
  /\ targets' = scope \cap reg /\ total' = Cardinality(scope \cap reg) /\ done' = 0
  /\ results' = Kept(results)
  /\ UNCHANGED <<reg, stuck, ending, snapshot, status, evidence, tangled>>

\* A provider is added while start goes over the registry a second time, after
\* it has set running: the iteration raises, and no thread is there to end it.
StartBreaks(m) ==
  /\ ~running /\ runs < MaxRuns /\ m \notin reg
  /\ reg' = reg \cup {m}
  /\ running' = TRUE /\ stuck' = TRUE
  /\ UNCHANGED <<targets, total, done, results, runs, ending, snapshot, status, evidence, tangled>>

Probed(m) ==
  /\ running /\ m \in targets
  /\ targets' = targets \ {m} /\ done' = done + 1
  /\ results' = [k \in DOMAIN results \cup {m} |-> IF k = m THEN runs ELSE results[k]]
  /\ UNCHANGED <<reg, running, stuck, total, runs, ending, snapshot, status, evidence, tangled>>

\* The end of the run, and then its thread's snapshot and two files.
Quiet == \A r \in Runs : ending[r] = "none"

\* Also with models left: a probe that raises (an upstream whose address no
\* request can be made of) cancels those that have not begun.
RunEnds ==
  /\ running /\ ~stuck
  /\ running' = FALSE /\ targets' = {}
  /\ ending' = [ending EXCEPT ![runs] = "over"]
  /\ tangled' = ~Quiet
  /\ UNCHANGED <<reg, stuck, total, done, results, runs, snapshot, status, evidence>>

\* Mutant: a thread hands over what its own run measured.
OnlyItsOwn(r) == [m \in {k \in DOMAIN results : results[k] = r} |-> r]
Taken(r) == results

\* on_finish(self.snapshot()): a run begun meanwhile is in it too.
Take(r) ==
  /\ ending[r] = "over"
  /\ snapshot' = [snapshot EXCEPT ![r] = Taken(r)]
  /\ ending' = [ending EXCEPT ![r] = "taken"]
  /\ tangled' = (tangled \/ running)
  /\ UNCHANGED <<reg, running, stuck, targets, total, done, results, runs, status, evidence>>

WriteStatus(r) ==
  /\ ending[r] = "taken"
  /\ status' = snapshot[r]
  /\ ending' = [ending EXCEPT ![r] = "half"]
  /\ UNCHANGED <<reg, running, stuck, targets, total, done, results, runs, snapshot, evidence, tangled>>

WriteEvidence(r) ==
  /\ ending[r] = "half"
  /\ evidence' = snapshot[r]
  /\ snapshot' = [snapshot EXCEPT ![r] = Nothing]
  /\ ending' = [ending EXCEPT ![r] = "none"]
  /\ UNCHANGED <<reg, running, stuck, targets, total, done, results, runs, status, tangled>>

\* A file that cannot be written: said on the console, and the other is not tried.
WriteFails(r) ==
  /\ ending[r] \in {"taken", "half"}
  /\ ending' = [ending EXCEPT ![r] = "none"]
  /\ snapshot' = [snapshot EXCEPT ![r] = Nothing]
  /\ tangled' = TRUE
  /\ UNCHANGED <<reg, running, stuck, targets, total, done, results, runs, status, evidence>>

\* A refresh, an adoption or the page changes the registry.
Change ==
  /\ reg' \in SUBSET Models \ {{}} /\ reg' # reg
  /\ UNCHANGED <<running, stuck, targets, total, done, results, runs, ending,
                 snapshot, status, evidence, tangled>>

\* The daemon is restarted: the results are gone, the files stay.
Restart ==
  /\ runs > 0
  /\ running' = FALSE /\ stuck' = FALSE /\ targets' = {} /\ total' = 0 /\ done' = 0
  /\ results' = Nothing
  /\ ending' = [r \in Runs |-> "none"] /\ snapshot' = [r \in Runs |-> Nothing]
  /\ tangled' = TRUE
  /\ UNCHANGED <<reg, runs, status, evidence>>

Next ==
  \/ \E scope \in SUBSET Models : Start(scope)
  \/ \E m \in Models : StartBreaks(m) \/ Probed(m)
  \/ RunEnds \/ Change \/ Restart
  \/ \E r \in Runs : Take(r) \/ WriteStatus(r) \/ WriteEvidence(r) \/ WriteFails(r)

Spec == Init /\ [][Next]_vars
-----------------------------------------------------------------------------
\* The two files a page reads after a restart agree with each other and with the
\* memory whenever nothing runs and the last run that ended did so alone: while
\* no thread was behind with its files, and not cut off, itself, by the next run,
\* a restart or a file that cannot be written.  Whatever an earlier run, or a
\* daemon before, left wrong is then right again.
FilesTellTheResults ==
  ~tangled /\ ~running /\ Quiet => status = results /\ evidence = results
===============================================================================
