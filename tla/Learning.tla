------------------------------- MODULE Learning -------------------------------
(***************************************************************************)
(* Recommendations of the learning gateway (learning_confirm.py): an       *)
(* operator confirms or rejects them, the applier is handed what was       *)
(* confirmed, and every step leaves an entry in the journal.  Evidence is  *)
(* regenerated and time passes while a recommendation waits.               *)
(***************************************************************************)
EXTENDS Naturals, Sequences, SequencesExt

CONSTANTS
  Recs,         \* recommendations
  TTL,          \* ticks from generation to expires_at
  MaxTime,      \* bound: ticks
  MaxEvidence   \* bound: times the evidence of a recommendation changes

VARIABLES
  status,       \* of each recommendation, "new" before it is registered
  generated,    \* when it was
  evidence,     \* version of its evidence; a hash tells versions apart
  confirmHash,  \* the version that was confirmed, or None
  journal,
  now

vars == <<status, generated, evidence, confirmHash, journal, now>>
board == <<status, confirmHash, journal>>
world == <<generated, evidence, now>>

None == 99
Transitions == [new |-> {},
  pending |-> {"confirmed", "rejected", "expired"},
  confirmed |-> {"applied", "stale", "expired"},
  applied |-> {"rolled_back"}, rolled_back |-> {"closed"},
  rejected |-> {}, stale |-> {}, expired |-> {}, closed |-> {}]

Init ==
  /\ status = [r \in Recs |-> "new"]
  /\ generated = [r \in Recs |-> 0] /\ evidence = [r \in Recs |-> 0]
  /\ confirmHash = [r \in Recs |-> None]
  /\ journal = <<>> /\ now = 0

Event(type, r) ==
  journal' = Append(journal, [type |-> type, rec |-> r, evidence |-> evidence[r], at |-> now])

Register(r) ==
  /\ status[r] = "new"
  /\ status' = [status EXCEPT ![r] = "pending"]
  /\ generated' = [generated EXCEPT ![r] = now]
  /\ Event("generated", r)
  /\ UNCHANGED <<evidence, confirmHash, now>>

\* _transition, and the entry every transition leaves.
Move(r, to) ==
  /\ to \in Transitions[status[r]]
  /\ status' = [status EXCEPT ![r] = to]
  /\ Event(to, r)

\* Time is not looked at here, whatever the recommendation's is.
Confirm(r) ==
  /\ Move(r, "confirmed")
  /\ confirmHash' = [confirmHash EXCEPT ![r] = evidence[r]]
  /\ UNCHANGED world

Decide(r, to) == Move(r, to) /\ UNCHANGED <<confirmHash, world>>

Expired(r) == generated[r] + TTL < now

\* Mutant: evidence counts as confirmed once there is a confirmation.
AnyEvidence(r) == confirmHash[r] # None

Confirmed(r) == confirmHash[r] = evidence[r]

\* What fails the gate is stale from then on.
ApplyRefused(r) ==
  /\ status[r] = "confirmed" /\ (Expired(r) \/ ~Confirmed(r))
  /\ Decide(r, "stale")

\* The applier is called, and an entry made when it comes back.
Apply(r) ==
  /\ status[r] = "confirmed" /\ ~Expired(r) /\ Confirmed(r)
  /\ Decide(r, "applied")

Regenerate(r) ==
  /\ status[r] # "new" /\ evidence[r] < MaxEvidence
  /\ evidence' = [evidence EXCEPT ![r] = @ + 1]
  /\ UNCHANGED <<board, generated, now>>

Tick ==
  /\ now < MaxTime /\ now' = now + 1
  /\ UNCHANGED <<board, generated, evidence>>

Next ==
  \/ \E r \in Recs :
       \/ Register(r) \/ Confirm(r)
       \/ \E to \in {"rejected", "expired", "stale", "rolled_back", "closed"} : Decide(r, to)
       \/ ApplyRefused(r) \/ Apply(r) \/ Regenerate(r)
  \/ Tick

Spec == Init /\ [][Next]_vars

Entries(type, r) == {i \in DOMAIN journal : journal[i].type = type /\ journal[i].rec = r}

\* Nothing takes effect that an operator did not confirm: what the journal says was
\* applied was confirmed before, on the evidence it was applied with, within its
\* time, and once.
AppliedAsConfirmed ==
  \A r \in Recs : \A i \in Entries("applied", r) :
    /\ Entries("applied", r) = {i}
    /\ journal[i].at <= generated[r] + TTL
    /\ \E j \in Entries("confirmed", r) : j < i /\ journal[j].evidence = journal[i].evidence
===============================================================================
