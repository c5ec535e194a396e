----------------------------- MODULE RouteConfig -----------------------------
(***************************************************************************)
(* Changing the routes' configuration under a snapshot that a failed       *)
(* health check restores (config_snapshot.py, auto_rollback.py).  The      *)
(* content of a configuration is its fingerprint, too; somebody who edits  *)
(* a snapshot edits its content and not the fingerprint in it.             *)
(***************************************************************************)
EXTENDS Naturals

CONSTANTS
  Configs,     \* contents of the routes' configuration
  MaxChanges   \* bound: changes, and failures of the health check

VARIABLES
  routes,      \* the configuration
  slot,        \* _active_snapshot
  events,      \* how many route_switch_failed events were recorded
  change       \* how many changes there were, and what the last replaced:
               \* the program does not know this, properties do

vars == <<routes, slot, events, change>>

None == "none"
NoSnapshot == [routes |-> None, fingerprint |-> None]

Init ==
  /\ routes \in Configs /\ slot = NoSnapshot /\ events = 0
  /\ change = [before |-> None, count |-> 0]

\* Mutant: the snapshot is taken after the change.
SnapshotLate(config) == [routes |-> config, fingerprint |-> config]

\* take_snapshot copies the configuration into the only slot, before the
\* change is applied.
Snapshot(config) == [routes |-> routes, fingerprint |-> routes]

Apply(config) ==
  /\ change.count < MaxChanges
  /\ slot' = Snapshot(config)
  /\ routes' = config
  /\ change' = [before |-> routes, count |-> change.count + 1]
  /\ UNCHANGED events

Tamper(config) ==
  /\ slot # NoSnapshot /\ config # slot.routes
  /\ slot' = [slot EXCEPT !.routes = config]
  /\ UNCHANGED <<routes, events, change>>

\* restore refuses a snapshot whose fingerprint is not that of its routes.
Verified(snapshot) == snapshot.routes = snapshot.fingerprint

\* maybe_auto_rollback, with the health check's answer no.  Without a snapshot
\* the failure is only recorded; a snapshot that was edited raises before the
\* event is recorded.  A healthy or unknown answer does nothing.  A rollback
\* keeps the slot, so a second bad answer repeats it.
Unhealthy ==
  /\ events < MaxChanges
  /\ \/ slot = NoSnapshot /\ events' = events + 1 /\ UNCHANGED routes
     \/ /\ slot # NoSnapshot /\ Verified(slot)
        /\ events' = events + 1 /\ routes' = slot.routes
  /\ UNCHANGED <<slot, change>>

Next ==
  \/ \E config \in Configs : Apply(config) \/ Tamper(config)
  \/ Unhealthy

Spec == Init /\ [][Next]_vars

TypeOK ==
  /\ routes \in Configs /\ slot.routes \in Configs \cup {None}
  /\ events \in 0..MaxChanges

\* A rollback that is recorded has brought back what was there before the last
\* change, however often it is repeated and whatever became of the snapshot in
\* between, and nothing but a change and a recorded rollback moves the routes.
Restores ==
  /\ events' # events =>
        routes' = IF change.count = 0 THEN routes ELSE change.before
  /\ routes' # routes => change' # change \/ events' # events
RollbackRestores == [][Restores]_vars
===============================================================================
