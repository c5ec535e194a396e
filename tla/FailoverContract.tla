--------------------------- MODULE FailoverContract ---------------------------
(***************************************************************************)
(* What UpstreamExecutor.execute promises a client about the attempts it   *)
(* makes on its behalf, whatever the planner, the resilience manager and   *)
(* the other requests do: how often it tries, in which order it moves over *)
(* the candidates of its plan, which failures it may not carry to another  *)
(* candidate, and that its reply is the outcome of its last attempt.       *)
(* Executor.tla is shown to implement this specification.                  *)
(***************************************************************************)
EXTENDS Naturals, Sequences, FiniteSets

CONSTANTS
    Requests,       \* request threads
    Positions,      \* positions in a plan, numbers in its order
    Keys,           \* credential slots
    Kinds,          \* failure kinds, the other outcomes not among them
    MaxAttempts

VARIABLES
    trail,          \* the attempts of each request: candidate, slot, outcome
    reply           \* what the client got, "none" while it waits
vars == <<trail, reply>>

Outcomes == Kinds \cup {"pending", "success", "stalled"}
Replies == {"none", "opened", "failure", "unavailable", "lost"}

\* Failures that end the request where they happened (policy 1.2 #8 and #9,
\* and the first-byte boundary for a stall).
Final == {"credential_invalid", "invalid_request", "stalled"}

\* Failures another key of the same provider may cure.
KeyFailures == {"rate_limited", "quota_exhausted", "credential_invalid", "credits_exhausted"}

TypeOK ==
    /\ trail \in [Requests -> Seq([at : Positions, slot : Keys, kind : Outcomes])]
    /\ reply \in [Requests -> Replies]

Init ==
    /\ trail = [r \in Requests |-> <<>>]
    /\ reply = [r \in Requests |-> "none"]

Newest(r) == trail[r][Len(trail[r])]
Waiting(r) == trail[r] # <<>> /\ Newest(r).kind = "pending"

\* The attempts of r on the candidate at a position.
On(r, at) == {i \in DOMAIN trail[r] : trail[r][i].at = at}

\* The next attempt: the plan's next candidates after a failure another
\* candidate may cure, another slot of this candidate, or this slot once
\* more after a 429 - once per candidate.
MayFollow(r, at, slot) ==
    \/ trail[r] = <<>>
    \/ at > Newest(r).at /\ Newest(r).kind \notin Final
    \/ /\ at = Newest(r).at
       /\ Newest(r).kind \in KeyFailures
       /\ \A i \in On(r, at) : trail[r][i].slot # slot
    \/ /\ at = Newest(r).at
       /\ slot = Newest(r).slot
       /\ Newest(r).kind = "rate_limited"
       /\ \A i, j \in On(r, at) : i # j => trail[r][i].slot # trail[r][j].slot

Try(r, at, slot) ==
    /\ reply[r] = "none" /\ ~Waiting(r)
    /\ Len(trail[r]) < MaxAttempts
    /\ MayFollow(r, at, slot)
    /\ trail' = [trail EXCEPT ![r] = Append(@, [at |-> at, slot |-> slot, kind |-> "pending"])]
    /\ UNCHANGED reply

Settled(r, kind) == [trail EXCEPT ![r][Len(trail[r])].kind = kind]

Fail(r, kind) ==
    /\ reply[r] = "none" /\ Waiting(r)
    /\ trail' = Settled(r, kind)
    /\ UNCHANGED reply

Deliver(r) ==
    /\ reply[r] = "none" /\ Waiting(r)
    /\ trail' = Settled(r, "success")
    /\ reply' = [reply EXCEPT ![r] = "opened"]

GiveUp(r) ==
    /\ reply[r] = "none" /\ ~Waiting(r)
    /\ reply' = [reply EXCEPT ![r] = IF trail[r] = <<>> THEN "unavailable" ELSE "failure"]
    /\ UNCHANGED trail

\* The connection to the upstream broke while its error was read: the
\* request ends without a reply.
Lose(r) ==
    /\ reply[r] = "none" /\ Waiting(r)
    /\ reply' = [reply EXCEPT ![r] = "lost"]
    /\ UNCHANGED trail

\* The thread serves another request.
Again(r) ==
    /\ reply[r] # "none"
    /\ trail' = [trail EXCEPT ![r] = <<>>]
    /\ reply' = [reply EXCEPT ![r] = "none"]

Next == \E r \in Requests :
    \/ \E at \in Positions, slot \in Keys : Try(r, at, slot)
    \/ \E kind \in Kinds \cup {"stalled"} : Fail(r, kind)
    \/ Deliver(r) \/ GiveUp(r) \/ Lose(r) \/ Again(r)

Spec == Init /\ [][Next]_vars
=============================================================================
