---------------------------- MODULE SandboxCaller ----------------------------
(***************************************************************************)
(* The sandbox asks the gateway for code and goes through its own list of  *)
(* models when that fails (sandbox/caller.py, call_with_retry).  It may    *)
(* not import the gateway's failover and repeats its rules: it is shown to *)
(* implement the same contract.                                            *)
(***************************************************************************)
EXTENDS Naturals, Sequences

CONSTANTS
  Length,       \* how many models resolve_models may hand over
  MaxRetries,   \* max_model_retries
  Budget,       \* total_budget_s, in ticks
  Timeout,      \* model_timeout_s: the longest a call takes
  Delays,       \* what _switch_delay may come to
  Kinds         \* outcomes of a call: switch, not_found, malformed,
                \* credential_invalid, invalid_request

VARIABLES
  models,       \* length of the list
  trail,        \* the calls made, in the form of FailoverContract
  left,         \* ticks to the deadline
  verdict,      \* how call_with_retry ended, None before
  late          \* a call began, or a pause was to end, past the deadline:
                \* the program does not know this, properties do

vars == <<models, trail, left, verdict, late>>

None == "none"
Final == [credential_invalid |-> "auth", invalid_request |-> "bad_request"]

Init ==
  /\ models \in 1..Length
  /\ trail = <<>> /\ left = Budget /\ verdict = None /\ late = FALSE

Tried == Len(trail)
Newest == trail[Tried]
Calling == trail # <<>> /\ Newest.kind = "pending"
End(how) == verdict' = how /\ UNCHANGED <<models, trail, left, late>>

\* The next model of the list.
Call ==
  /\ trail' = Append(trail, [at |-> Tried + 1, slot |-> 0, kind |-> "pending"])
  /\ late' = (late \/ left' = 0)
  /\ UNCHANGED <<models, verdict>>

Begin ==
  /\ trail = <<>> /\ verdict = None
  /\ UNCHANGED left /\ Call

\* The answer to a call, which takes its time whatever the budget says.
Answer(kind, took) ==
  /\ Calling /\ verdict = None
  /\ trail' = [trail EXCEPT ![Tried].kind = kind]
  /\ left' = IF took < left THEN left - took ELSE 0
  /\ verdict' = IF kind = "success" THEN "answer" ELSE None
  /\ UNCHANGED <<models, late>>

\* Another model will not help: the list is left.
Abort ==
  /\ ~Calling /\ verdict = None /\ trail # <<>>
  /\ Newest.kind \in DOMAIN Final
  /\ End(Final[Newest.kind])

\* Mutant: one call more than the cap.
OneTooMany == Tried > MaxRetries \/ Tried = models

Exhausted == Tried >= MaxRetries \/ Tried = models

MayGoOn ==
  /\ ~Calling /\ verdict = None /\ trail # <<>>
  /\ Newest.kind \notin DOMAIN Final

ListExhausted == MayGoOn /\ Exhausted /\ End("list_exhausted")

\* A pause that reaches the deadline is not begun.
PauseTooLong(delay) == delay >= left

\* On to the next model; a model that is not there is left without a pause.
GoOn(delay) ==
  /\ MayGoOn /\ ~Exhausted
  /\ IF left = 0 \/ (Newest.kind # "not_found" /\ PauseTooLong(delay))
     THEN End("budget_exhausted")
     ELSE /\ left' = IF Newest.kind = "not_found" THEN left ELSE left - delay
          /\ Call

Next ==
  \/ Begin
  \/ \E kind \in Kinds \cup {"success"}, took \in 0..Timeout : Answer(kind, took)
  \/ Abort \/ ListExhausted
  \/ \E delay \in Delays : GoOn(delay)

Spec == Init /\ [][Next]_vars

\* The error the user sees tells what happened: the list is only called
\* exhausted when every model that may be tried was, and no call begins past
\* the deadline.
VerdictTellsTheTrail ==
  /\ ~late
  /\ verdict = "answer" <=> trail # <<>> /\ Newest.kind = "success"
  /\ verdict = "list_exhausted" => Tried = models \/ Tried = MaxRetries
  /\ verdict \in {"auth", "bad_request"} => Final[Newest.kind] = verdict
  /\ verdict = "budget_exhausted" => Tried < models /\ Tried < MaxRetries

\* The caller makes no calls the gateway's own failover would not have made (no
\* model twice, none after a failure that another model cannot cure, none
\* beyond the cap), and says truly why it made no more.
Contract == INSTANCE FailoverContract WITH
  Requests <- {0}, Positions <- 1..Length, Keys <- {0}, MaxAttempts <- MaxRetries,
  trail <- [r \in {0} |-> trail],
  reply <- [r \in {0} |-> CASE verdict = None -> "none"
                             [] verdict = "answer" -> "opened"
                             [] OTHER -> "failure"]
CallerKeepsContract == Contract!Spec /\ []VerdictTellsTheTrail
===============================================================================
