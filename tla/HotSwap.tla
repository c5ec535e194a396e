------------------------------- MODULE HotSwap -------------------------------
(***************************************************************************)
(* The controller that replaces the model of a local runtime while         *)
(* sessions go on (hot_swap.py, HotSwapController).                        *)
(*                                                                         *)
(* hot_swap runs injected actions: checks of the target, loads, health     *)
(* probes.  They are where other calls come in, so a call is one action    *)
(* per injected action, with what the code does about its result.          *)
(***************************************************************************)
EXTENDS Naturals, FiniteSets

CONSTANTS
  Models,      \* models of the local runtime
  First,       \* the one that is loaded at the start
  Requests,    \* request ids
  Retries      \* values of health_retries

VARIABLES
  swaps,       \* swaps: the record of each request id
  active,      \* _active_swap_id, the swap in progress
  current,     \* current_model
  loaded,      \* loaded_model
  runtime,     \* the model the runtime really holds, or Nothing
  astray       \* a swap has failed since the last that ended well: the program
               \* does not know this, properties do

vars == <<swaps, active, current, loaded, runtime, astray>>

None == "none"
Nothing == "nothing"
Unknown == [state |-> None, target |-> None, previous |-> None, retries |-> 0,
            probes |-> 0, rollback |-> FALSE, running |-> FALSE]

Ended == {"done", "rolled_back", "failed", "rejected"}
States == Ended \cup {None, "precheck", "loading", "health_check", "rolling_back"}

Init ==
  /\ swaps = [r \in Requests |-> Unknown]
  /\ active = None
  /\ current = First /\ loaded = First /\ runtime = First
  /\ astray = FALSE

Moved(r, state) == swaps' = [swaps EXCEPT ![r].state = state]
Finish(r, state) ==
  /\ swaps' = [swaps EXCEPT ![r].state = state, ![r].running = FALSE]
  /\ active' = None

\* A new id starts a swap if none is in progress; a known one is answered with
\* its record, and a second swap is refused without a trace.
Submit(r, target, retries, rollback) ==
  /\ swaps[r].state = None
  /\ active = None
  /\ swaps' = [swaps EXCEPT ![r] =
       [state |-> "precheck", target |-> target, previous |-> current,
        retries |-> retries, probes |-> 0, rollback |-> rollback, running |-> TRUE]]
  /\ active' = r
  /\ UNCHANGED <<current, loaded, runtime, astray>>

\* One of the checks turns the target down: nothing was touched yet.
Reject(r) ==
  /\ swaps[r].running /\ swaps[r].state = "precheck"
  /\ Finish(r, "rejected")
  /\ UNCHANGED <<current, loaded, runtime, astray>>

\* All checks pass; nothing is injected between draining and loading.
Admit(r) ==
  /\ swaps[r].running /\ swaps[r].state = "precheck"
  /\ Moved(r, "loading")
  /\ UNCHANGED <<active, current, loaded, runtime, astray>>

\* A HotSwapError after the precheck.
Fail(r) ==
  IF swaps[r].rollback
  THEN Moved(r, "rolling_back") /\ UNCHANGED <<active, astray>>
  ELSE Finish(r, "failed") /\ astray' = TRUE

\* Any other exception leaves hot_swap, and the record and _active_swap_id as
\* they are: every later swap is refused.
Escape(r) ==
  /\ swaps' = [swaps EXCEPT ![r].running = FALSE]
  /\ astray' = TRUE
  /\ UNCHANGED active

\* A check that raises, which only two of the seven can.
CheckRaises(r) ==
  /\ swaps[r].running /\ swaps[r].state = "precheck"
  /\ Escape(r)
  /\ UNCHANGED <<current, loaded, runtime>>

Load(r) ==
  /\ swaps[r].running /\ swaps[r].state = "loading"
  /\ \/ /\ runtime' = swaps[r].target
        /\ Moved(r, "health_check") /\ UNCHANGED <<active, astray>>
     \/ /\ runtime' \in {runtime, Nothing}
        /\ Fail(r) \/ Escape(r)
  /\ UNCHANGED <<current, loaded>>

\* Mutant: the first answer is taken for the last.
ReplacedAnyway(r) ==
  /\ Finish(r, "done")
  /\ loaded' = swaps[r].target
  /\ UNCHANGED <<current, runtime, astray>>

Replaced(r) ==
  /\ Finish(r, "done")
  /\ loaded' = swaps[r].target /\ current' = swaps[r].target
  /\ astray' = FALSE
  /\ UNCHANGED runtime

Healthy(r) ==
  /\ swaps[r].running /\ swaps[r].state = "health_check"
  /\ swaps[r].probes < swaps[r].retries
  /\ Replaced(r)

\* A probe that finds the model unwell is repeated until the retries are used
\* up; with none to begin with the swap fails unasked.
Unwell(r) ==
  /\ swaps[r].running /\ swaps[r].state = "health_check"
  /\ \/ /\ swaps[r].probes + 1 < swaps[r].retries
        /\ swaps' = [swaps EXCEPT ![r].probes = @ + 1]
        /\ UNCHANGED <<active, astray>>
     \/ /\ swaps[r].probes + 1 >= swaps[r].retries
        /\ Fail(r)
     \/ /\ swaps[r].retries > 0
        /\ Escape(r)
  /\ UNCHANGED <<current, loaded, runtime>>

Restored(r) ==
  /\ runtime' = swaps[r].previous
  /\ Finish(r, "rolled_back")
  /\ loaded' = swaps[r].previous /\ current' = swaps[r].previous
  /\ astray' = FALSE

\* Mutant: a failed rollback keeps the swap.
LostHolding(r) ==
  /\ runtime' \in {runtime, Nothing}
  /\ swaps' = [swaps EXCEPT ![r].state = "failed", ![r].running = FALSE]
  /\ astray' = TRUE
  /\ UNCHANGED <<active, current, loaded>>

\* Whatever the rollback's load raises is caught.
Lost(r) ==
  /\ runtime' \in {runtime, Nothing}
  /\ Finish(r, "failed")
  /\ astray' = TRUE
  /\ UNCHANGED <<current, loaded>>

RollBack(r) ==
  /\ swaps[r].running /\ swaps[r].state = "rolling_back"
  /\ Restored(r) \/ Lost(r)

Step(r) == Reject(r) \/ Admit(r) \/ CheckRaises(r) \/ Load(r) \/ Healthy(r) \/ Unwell(r) \/ RollBack(r)

Next ==
  \E r \in Requests :
    \/ \E target \in Models, retries \in Retries, rollback \in BOOLEAN :
         Submit(r, target, retries, rollback)
    \/ Step(r)

\* Loads and probes return.
Fairness == \A r \in Requests : WF_vars(Step(r))
Spec == Init /\ [][Next]_vars /\ Fairness

TypeOK ==
  /\ active \in Requests \cup {None}
  /\ current \in Models /\ loaded \in Models /\ runtime \in Models \cup {Nothing}
  /\ astray \in BOOLEAN
  /\ \A r \in Requests :
       /\ swaps[r].state \in States
       /\ swaps[r].probes <= swaps[r].retries
       /\ swaps[r].target \in Models \cup {None}

\* Between swaps the model the controller names, the one it takes for loaded
\* and the one the runtime holds are the same, unless a swap has said that it
\* failed and no later one has ended well; and one swap runs at a time.
ServedModelIsLoaded ==
  /\ active = None /\ ~astray => current = loaded /\ runtime = current
  /\ \A r \in Requests : swaps[r].running => active = r

\* A swap that was let in ends, done, rolled back, failed or rejected, and the
\* next one is let in, unless an injected action raised what hot_swap does not
\* catch.
Escaped(r) == active = r /\ ~swaps[r].running /\ swaps[r].state \notin Ended
SwapsEnd ==
  \A r \in Requests :
    active = r ~> (active = None /\ swaps[r].state \in Ended) \/ Escaped(r)
===============================================================================
