------------------------------- MODULE Executor -------------------------------
(***************************************************************************)
(* UpstreamExecutor.execute, run by several request threads over one       *)
(* shared ResilienceManager (the variables of ResilienceState.tla).  A     *)
(* request plans its candidates, walks them in order and the credential    *)
(* slots of each, and ends with an opened upstream response or a failure.  *)
(* Each call on the manager, each upstream answer and each sleep is a step *)
(* of its own, so requests interleave wherever the code lets them.         *)
(*                                                                         *)
(* A plan is a sequence of targets <<provider, model>>; a request naming   *)
(* its model has a plan of one, which is why the two rules about explicit  *)
(* requests (no model fallback, 402 never advances) need no state.         *)
(* The local variables last_decision, last_failure, stop_request and       *)
(* same_429_retried are read off the trail of attempts.                    *)
(***************************************************************************)
EXTENDS ResilienceState, SequencesExt

CONSTANTS
    Requests,       \* request threads
    Named,          \* targets explicit requests name
    Routes,         \* candidate sources of the virtual models
    KeyOrder,       \* the credential slots of each provider, in index order
    Window,         \* context_window of each model
    MaxAttempts,    \* policy.max_attempts
    TotalBudget,    \* timeouts.total, in ticks
    Backoffs,       \* delays compute_backoff may return
    RetryAfterMax,  \* longest Retry-After worth waiting for
    RetryOn429,     \* policy.retry_same_candidate_on_429
    FallbackEnabled,\* policy.fallback_enabled
    Scoring,        \* whether the planner reorders candidates
    Answers,        \* kinds of error answers upstreams give
    BodyFaults      \* whether reading an error body may stall or break

Targets == Named \cup UNION {ToSet(route) : route \in Routes}

ASSUME PolicyAssumption ==
    /\ MaxAttempts \in Nat \ {0}
    /\ TotalBudget \in Nat \ {0}
    /\ Backoffs \subseteq Nat
    /\ RetryAfterMax \in Nat
    /\ {RetryOn429, FallbackEnabled, Scoring, BodyFaults} \subseteq BOOLEAN
ASSUME CatalogAssumption ==
    /\ Targets \subseteq Providers \X Models
    /\ Routes \subseteq Seq(Targets) /\ \A route \in Routes : IsInjective(route)
    /\ KeyOrder \in [Providers -> Seq(Slots)] /\ \A p \in Providers : IsInjective(KeyOrder[p])
    /\ Window \in [Models -> Nat]
    /\ Answers \subseteq FailureKinds \ {"transport_error"}

VARIABLES
    pc,         \* where each request is in execute()
    rest,       \* candidates the planner has not examined yet
    plan,       \* the plan: candidates kept so far, then plan.candidates
    ti,         \* position of the current candidate, 0 before the first
    keys,       \* its slots from the current one on
    trail,      \* the attempts so far: position, slot, outcome
    wait,       \* ticks left to sleep
    budget,     \* ticks left of the total budget
    audit       \* the audit trail: decision rows, and the pending one
reqVars == <<pc, rest, plan, ti, keys, trail, wait, budget, audit>>
vars == <<resVars, reqVars>>

Phases == {"idle", "planning", "next", "gate", "retry", "flying", "after", "done"}
Outcomes == FailureKinds \cup {"pending", "success", "stalled"}
Verdicts == {"open", "success", "failed", "no_candidate", "budget_exhausted"}
NoAudit == [rows |-> <<>>, pending |-> 0]

TypeOK ==
    /\ ResilienceTypeOK
    /\ pc \in [Requests -> Phases]
    /\ ti \in [Requests -> 0..MaxAttempts]
    /\ wait \in [Requests -> Nat]
    /\ budget \in [Requests -> 0..TotalBudget]
    /\ \A r \in Requests :
          /\ rest[r] \in Seq(Targets) /\ plan[r] \in Seq(Targets)
          /\ keys[r] \in Seq(Slots)
          /\ trail[r] \in Seq([at : 1..MaxAttempts, slot : Slots, kind : Outcomes])
          /\ audit[r].rows \in Seq([to : 0..MaxAttempts, after : 0..MaxAttempts,
                                    outcome : Verdicts])
          /\ audit[r].pending \in 0..Len(audit[r].rows)

Init ==
    /\ ResilienceInit
    /\ pc = [r \in Requests |-> "idle"]
    /\ rest = [r \in Requests |-> <<>>]
    /\ plan = [r \in Requests |-> <<>>]
    /\ ti = [r \in Requests |-> 0]
    /\ keys = [r \in Requests |-> <<>>]
    /\ trail = [r \in Requests |-> <<>>]
    /\ wait = [r \in Requests |-> 0]
    /\ budget = [r \in Requests |-> 0]
    /\ audit = [r \in Requests |-> NoAudit]

Provider(r) == plan[r][ti[r]][1]
Model(r)    == plan[r][ti[r]][2]
Slot(r)     == Head(keys[r])
Attempts(r) == Len(trail[r])
Newest(r)   == trail[r][Attempts(r)]
Spent(r)    == budget[r] = 0

\* The current candidate produced last_failure; and, with that, what
\* last_decision says of it ("none" after a stall or no attempt).
FailedHere(r) == trail[r] # <<>> /\ Newest(r).at = ti[r]
Stalled(r) == FailedHere(r) /\ Newest(r).kind = "stalled"
LastKind(r) == IF FailedHere(r) /\ ~Stalled(r) THEN Newest(r).kind ELSE "none"

\* Mutant: the flag is never set.
NeverRetried(r) == FALSE
\* The current candidate has used its one retry after a 429.
Retried(r) ==
    \E i, j \in DOMAIN trail[r] :
        i # j /\ trail[r][i].at = ti[r] /\ trail[r][j].at = ti[r]
              /\ trail[r][i].slot = trail[r][j].slot

-----------------------------------------------------------------------------
(* _FailoverAuditTrail, with a hook that works: decision() opens a row,    *)
(* settle() closes the pending one.                                        *)

Decided(a, to, n) ==
    IF to = 0
    THEN [a EXCEPT !.rows = Append(@, [to |-> 0, after |-> n, outcome |-> "no_candidate"])]
    ELSE [rows |-> Append(a.rows, [to |-> to, after |-> n, outcome |-> "open"]),
          pending |-> Len(a.rows) + 1]

Settled(a, outcome) ==
    IF a.pending = 0 THEN a
    ELSE [rows |-> [a.rows EXCEPT ![a.pending].outcome = outcome], pending |-> 0]

\* Mutant: an attempt on any candidate settles it.
SettledByAny(a, at, outcome) == Settled(a, outcome)
\* Only an attempt on the candidate the decision switched to settles it.
SettledBy(a, at, outcome) ==
    IF a.pending # 0 /\ a.rows[a.pending].to = at THEN Settled(a, outcome) ELSE a

-----------------------------------------------------------------------------
(* Planning.                                                               *)

Arrive(r) ==
    /\ pc[r] = "idle"
    /\ budget' = [budget EXCEPT ![r] = TotalBudget]
    /\ \/ \E t \in Named :
             /\ pc' = [pc EXCEPT ![r] = "next"]
             /\ plan' = [plan EXCEPT ![r] = <<t>>]
             /\ UNCHANGED <<rest, keys>>
       \/ \E route \in Routes :
             /\ pc' = [pc EXCEPT ![r] = "planning"]
             /\ rest' = [rest EXCEPT ![r] = route]
             /\ keys' = [keys EXCEPT ![r] = IF route = <<>> THEN <<>>
                                            ELSE KeyOrder[Head(route)[1]]]
             /\ UNCHANGED plan
    /\ UNCHANGED <<resVars, ti, trail, wait, audit>>

\* Go on to the next candidate of the source, keeping this one or not.
Examined(r, kept) ==
    LET left == Tail(rest[r]) IN
    /\ rest' = [rest EXCEPT ![r] = left]
    /\ plan' = IF kept THEN [plan EXCEPT ![r] = Append(@, Head(rest[r]))] ELSE plan
    /\ keys' = [keys EXCEPT ![r] = IF left = <<>> THEN <<>> ELSE KeyOrder[Head(left)[1]]]

\* excluded_by_cost: a candidate without credentials stays, one whose slots
\* are all refused goes, and asking uses can_attempt itself.
ExamineSlot(r) ==
    /\ pc[r] = "planning" /\ rest[r] # <<>>
    /\ LET p == Head(rest[r])[1]
           m == Head(rest[r])[2]
       IN  \/ keys[r] = <<>> /\ Examined(r, TRUE) /\ UNCHANGED resVars
           \/ keys[r] # <<>> /\ GateAdmit(p, m, Slot(r)) /\ Examined(r, TRUE)
           \/ /\ keys[r] # <<>> /\ GateRefuse(p, m, Slot(r))
              /\ IF Len(keys[r]) = 1 THEN Examined(r, FALSE)
                 ELSE /\ keys' = [keys EXCEPT ![r] = Tail(@)]
                      /\ UNCHANGED <<rest, plan>>
    /\ UNCHANGED <<pc, ti, trail, wait, budget, audit>>

\* Scoring and subscribed-first bucketing reorder the candidates; the plan
\* is cut to max_attempts of them.
PlanDone(r) ==
    /\ pc[r] = "planning" /\ rest[r] = <<>>
    /\ \E order \in IF Scoring THEN SetToSeqs(ToSet(plan[r])) ELSE {plan[r]} :
          plan' = [plan EXCEPT ![r] = SubSeq(order, 1, Least(MaxAttempts, Len(order)))]
    /\ pc' = [pc EXCEPT ![r] = IF plan[r] = <<>> THEN "done" ELSE "next"]
    /\ UNCHANGED <<resVars, rest, ti, keys, trail, wait, budget, audit>>

-----------------------------------------------------------------------------
(* The candidate loop.                                                     *)

\* order_credentials: slots that look blocked go last; quota observations,
\* left out, may order the others in any way.
LooksBlocked(p, s) ==
    cred[<<p, s>>].state = "terminal" \/ (cred[<<p, s>>].state = "cooldown" /\ cred[<<p, s>>].left > 0)
Orders(p) ==
    {q \in SetToSeqs(ToSet(KeyOrder[p])) :
        \A i, j \in DOMAIN q :
            i < j /\ LooksBlocked(p, q[i]) => LooksBlocked(p, q[j])}

\* sleep_bounded: a sleep that would use up the budget is not taken.
Affordable(r, delay) == delay = 0 \/ delay < budget[r]

\* The loop ends without another candidate.
Exhausted(r) ==
    /\ pc[r] = "next" /\ ti[r] = Len(plan[r])
    /\ pc' = [pc EXCEPT ![r] = "done"]
    /\ UNCHANGED <<resVars, rest, plan, ti, keys, trail, wait, budget, audit>>

\* The budget is gone, or the backoff would use it up.
OutOfBudget(r) ==
    /\ pc[r] = "next" /\ ti[r] < Len(plan[r])
    /\ \/ Spent(r)
       \/ /\ Attempts(r) > 0 /\ KeyOrder[plan[r][ti[r] + 1][1]] # <<>>
          /\ \E delay \in Backoffs : ~Affordable(r, delay)
    /\ audit' = [audit EXCEPT ![r] = Settled(@, "budget_exhausted")]
    /\ pc' = [pc EXCEPT ![r] = "done"]
    /\ UNCHANGED <<resVars, rest, plan, ti, keys, trail, wait, budget>>

\* The candidate's slots are ordered before the backoff is slept.
TakeCandidate(r) ==
    /\ pc[r] = "next" /\ ti[r] < Len(plan[r]) /\ ~Spent(r)
    /\ ti' = [ti EXCEPT ![r] = @ + 1]
    /\ LET p == plan[r][ti[r] + 1][1] IN
       IF KeyOrder[p] = <<>>           \* credential_missing
       THEN UNCHANGED <<pc, keys, wait>>
       ELSE /\ \E order \in Orders(p) : keys' = [keys EXCEPT ![r] = order]
            /\ \E delay \in IF Attempts(r) = 0 THEN {0} ELSE Backoffs :
                  /\ Affordable(r, delay)
                  /\ wait' = [wait EXCEPT ![r] = delay]
            /\ pc' = [pc EXCEPT ![r] = "gate"]
    /\ UNCHANGED <<resVars, rest, plan, trail, budget, audit>>

-----------------------------------------------------------------------------
(* The slot loop.                                                          *)

AtSlot(r) == pc[r] \in {"gate", "retry"} /\ wait[r] = 0
MayTry(r) == keys[r] # <<>> /\ Attempts(r) < MaxAttempts /\ ~Spent(r)

\* Mutant: "continue" instead of "break".
KeepTrying(r) ==
    /\ AtSlot(r) /\ ~MayTry(r)
    /\ UNCHANGED vars
StopTrying(r) ==
    /\ AtSlot(r) /\ ~MayTry(r)
    /\ pc' = [pc EXCEPT ![r] = "after"]
    /\ UNCHANGED <<resVars, rest, plan, ti, keys, trail, wait, budget, audit>>

Launch(r) ==
    /\ trail' = [trail EXCEPT ![r] =
          Append(@, [at |-> ti[r], slot |-> Slot(r), kind |-> "pending"])]
    /\ pc' = [pc EXCEPT ![r] = "flying"]
    /\ UNCHANGED <<rest, plan, ti, keys, wait, budget, audit>>

Attempt(r) ==
    /\ pc[r] = "gate" /\ AtSlot(r) /\ MayTry(r)
    /\ GateAdmit(Provider(r), Model(r), Slot(r))
    /\ Launch(r)

\* The retry after a 429 does not ask the manager at all.
AttemptAgain(r) ==
    /\ pc[r] = "retry" /\ AtSlot(r) /\ MayTry(r)
    /\ Launch(r)
    /\ UNCHANGED resVars

SkipSlot(r) ==
    /\ pc[r] = "gate" /\ AtSlot(r) /\ MayTry(r)
    /\ GateRefuse(Provider(r), Model(r), Slot(r))
    /\ keys' = [keys EXCEPT ![r] = Tail(@)]
    /\ UNCHANGED <<pc, rest, plan, ti, trail, wait, budget, audit>>

Ended(r, kind) == [trail EXCEPT ![r][Attempts(r)].kind = kind]

\* A 2xx: the request ends with an open response.
Opened(r) ==
    /\ pc[r] = "flying"
    /\ RecordSuccess(Provider(r), Model(r), Slot(r))
    /\ trail' = Ended(r, "success")
    /\ audit' = [audit EXCEPT ![r] = SettledBy(@, ti[r], "success")]
    /\ pc' = [pc EXCEPT ![r] = "done"]
    /\ UNCHANGED <<rest, plan, ti, keys, wait, budget>>

\* Mutant: the failure is not recorded.
NoAnswerUnrecorded(r) ==
    /\ pc[r] = "flying"
    /\ trail' = Ended(r, "transport_error")
    /\ pc' = [pc EXCEPT ![r] = "after"]
    /\ UNCHANGED <<resVars, rest, plan, ti, keys, wait, budget, audit>>
\* No connection, or no first byte in time: the other slots share the
\* transport, so the candidate is over.
NoAnswer(r) ==
    /\ pc[r] = "flying"
    /\ RecordFailure(Provider(r), Model(r), Slot(r), "transport_error", 0)
    /\ trail' = Ended(r, "transport_error")
    /\ pc' = [pc EXCEPT ![r] = "after"]
    /\ UNCHANGED <<rest, plan, ti, keys, wait, budget, audit>>

\* A 429 whose Retry-After is short enough is retried on the same slot,
\* once per candidate.
RetriesAfter(r, kind, header, declared) ==
    /\ RetryOn429 /\ kind = "rate_limited" /\ ~Retried(r)
    /\ header /\ declared <= RetryAfterMax
    /\ Attempts(r) < MaxAttempts /\ ~Spent(r)

\* An error answer.  header: it carries a Retry-After, of so many ticks; the
\* cooldown recorded is at least that (a declared quota reset may be later).
ErrorAnswer(r, kind, header, declared, delay) ==
    /\ pc[r] = "flying"
    /\ RecordFailure(Provider(r), Model(r), Slot(r), kind, delay)
    /\ trail' = Ended(r, kind)
    /\ IF RetriesAfter(r, kind, header, declared)
       THEN LET noted == Decided(SettledBy(audit[r], ti[r], "failed"), ti[r], Attempts(r))
            IN  /\ UNCHANGED keys
                /\ IF Affordable(r, declared)
                   THEN /\ pc' = [pc EXCEPT ![r] = "retry"]
                        /\ wait' = [wait EXCEPT ![r] = declared]
                        /\ audit' = [audit EXCEPT ![r] = noted]
                   ELSE /\ pc' = [pc EXCEPT ![r] = "after"]
                        /\ audit' = [audit EXCEPT ![r] = Settled(noted, "budget_exhausted")]
                        /\ UNCHANGED wait
       ELSE /\ UNCHANGED <<wait, audit>>
            /\ IF Len(keys[r]) > 1 /\ kind \in CredentialTerminal \cup RateLimits
               THEN /\ keys' = [keys EXCEPT ![r] = Tail(@)]
                    /\ pc' = [pc EXCEPT ![r] = "gate"]
               ELSE /\ pc' = [pc EXCEPT ![r] = "after"]
                    /\ UNCHANGED keys
    /\ UNCHANGED <<rest, plan, ti, budget>>

\* The body of an error answer stalls: the request stops, and nothing is
\* recorded.
Stall(r) ==
    /\ BodyFaults /\ pc[r] = "flying"
    /\ trail' = Ended(r, "stalled")
    /\ pc' = [pc EXCEPT ![r] = "after"]
    /\ UNCHANGED <<resVars, rest, plan, ti, keys, wait, budget, audit>>

\* The connection breaks while the body is read: the exception leaves
\* execute(), the attempt stays as it was.
Escape(r) ==
    /\ BodyFaults /\ pc[r] = "flying"
    /\ pc' = [pc EXCEPT ![r] = "done"]
    /\ UNCHANGED <<resVars, rest, plan, ti, keys, trail, wait, budget, audit>>

-----------------------------------------------------------------------------
(* After the slots of a candidate.                                         *)

LargerAhead(r) ==
    \E i \in ti[r] + 1 .. Len(plan[r]) : Window[plan[r][i][2]] > Window[Model(r)]

Advances(r) ==
    /\ ti[r] < Len(plan[r]) /\ FallbackEnabled
    /\ LastKind(r) \notin {"credential_invalid", "invalid_request"}
    /\ LastKind(r) = "context_overflow" => LargerAhead(r)

\* Mutant: the failure does not settle the pair.
NotNoted(r) == audit[r]
\* The audit trail once an attempted candidate has settled its pair.
Noted(r) == IF FailedHere(r) THEN SettledBy(audit[r], ti[r], "failed") ELSE audit[r]

\* Mutant: a move after a connection failure is not logged.
LoggedAnswers(r) == LastKind(r) \notin {"none", "invalid_request", "transport_error"}
Logged(r) == LastKind(r) \notin {"none", "invalid_request"}

AfterCandidate(r) ==
    /\ pc[r] = "after"
    /\ LET noted == Noted(r)
           decision == Decided(noted, IF Advances(r) THEN ti[r] + 1 ELSE 0, Attempts(r))
       IN  \/ /\ Stalled(r)
              /\ audit' = [audit EXCEPT ![r] = noted]
              /\ pc' = [pc EXCEPT ![r] = "done"]
           \/ /\ ~Stalled(r) /\ (Attempts(r) >= MaxAttempts \/ Spent(r))
              /\ audit' = [audit EXCEPT ![r] =
                    IF Spent(r) THEN Settled(noted, "budget_exhausted") ELSE noted]
              /\ pc' = [pc EXCEPT ![r] = "done"]
           \/ /\ ~Stalled(r) /\ Attempts(r) < MaxAttempts /\ ~Spent(r)
              /\ audit' = [audit EXCEPT ![r] =
                    IF Logged(r) THEN decision ELSE noted]
              /\ pc' = [pc EXCEPT ![r] = IF Advances(r) THEN "next" ELSE "done"]
    /\ UNCHANGED <<resVars, rest, plan, ti, keys, trail, wait, budget>>

\* What the client got.
Reply(r) ==
    IF pc[r] # "done" THEN "none"
    ELSE IF trail[r] = <<>> THEN "unavailable"
    ELSE CASE Newest(r).kind = "success" -> "opened"
           [] Newest(r).kind = "pending" -> "lost"
           [] OTHER -> "failure"

\* The thread is free for another request.
Leave(r) ==
    /\ pc[r] = "done"
    /\ pc' = [pc EXCEPT ![r] = "idle"]
    /\ plan' = [plan EXCEPT ![r] = <<>>]
    /\ ti' = [ti EXCEPT ![r] = 0]
    /\ keys' = [keys EXCEPT ![r] = <<>>]
    /\ trail' = [trail EXCEPT ![r] = <<>>]
    /\ budget' = [budget EXCEPT ![r] = 0]
    /\ audit' = [audit EXCEPT ![r] = NoAudit]
    /\ UNCHANGED <<resVars, rest, wait>>

Down(n) == IF n > 0 THEN n - 1 ELSE 0

Tick ==
    /\ TimersRunning \/ \E r \in Requests : pc[r] # "done" /\ ~Spent(r)
    /\ AgePenalties
    /\ wait' = [r \in Requests |-> Down(wait[r])]
    /\ budget' = [r \in Requests |-> IF pc[r] = "done" THEN budget[r] ELSE Down(budget[r])]
    /\ UNCHANGED <<pc, rest, plan, ti, keys, trail, audit>>

Answer(r) ==
    \/ Opened(r) \/ NoAnswer(r) \/ Stall(r) \/ Escape(r)
    \/ \E kind \in Answers \cap RateLimits, header \in BOOLEAN,
          declared \in RetryDelays, delay \in RetryDelays :
             /\ header \/ declared = 0
             /\ declared <= delay
             /\ ErrorAnswer(r, kind, header, declared, delay)
    \/ \E kind \in Answers \ RateLimits : ErrorAnswer(r, kind, FALSE, 0, 0)

Step(r) ==
    \/ ExamineSlot(r) \/ PlanDone(r)
    \/ Exhausted(r) \/ OutOfBudget(r) \/ TakeCandidate(r)
    \/ StopTrying(r) \/ Attempt(r) \/ AttemptAgain(r) \/ SkipSlot(r)
    \/ Answer(r) \/ AfterCandidate(r)

Next ==
    \/ \E r \in Requests : Arrive(r) \/ Step(r) \/ Leave(r)
    \/ Tick

Spec == Init /\ [][Next]_vars

\* Time passes, a thread that can go on does, and every attempt is answered
\* (each is bounded by the connect, first-byte and request timeouts).
\* Nobody has to send a request.
LiveSpec == Spec /\ WF_vars(Tick) /\ \A r \in Requests : WF_vars(Step(r))
-----------------------------------------------------------------------------
(* Properties.                                                             *)

\* A request never makes attempts the client was not promised: see
\* FailoverContract.tla.
Contract == INSTANCE FailoverContract
    WITH Positions <- 1..MaxAttempts, Keys <- Slots, Kinds <- FailureKinds,
         reply <- [r \in Requests |-> Reply(r)]
KeepsContract == Contract!Spec

Rows(r) == ToSet(audit[r].rows)

\* The attempts made on a decision's destination after the decision.
Tried(r, row) == {i \in DOMAIN trail[r] : i > row.after /\ trail[r][i].at = row.to}

\* The ledger of a request that got its reply tells the truth: a pair says
\* "success" only of the attempt that answered the client, a pair the budget
\* closed was never tried, and a pair left open was never tried either
\* (executor.py:175 to 195: only a gated destination stays unsettled).
AuditTellsTruth ==
    \A r \in Requests : pc[r] = "done" /\ Reply(r) # "lost" =>
        \A row \in Rows(r) :
            /\ row.outcome = "success" => Reply(r) = "opened" /\ Newest(r).at = row.to
            /\ row.outcome \in {"open", "budget_exhausted"} => Tried(r, row) = {}

\* No request moves from one candidate to another, or tries a slot twice,
\* without a decision row written in between.
EveryMoveIsAnnounced ==
    \A r \in Requests : \A i, j \in DOMAIN trail[r] :
        /\ j = i + 1
        /\ trail[r][i].at # trail[r][j].at \/ trail[r][i].slot = trail[r][j].slot
        => \E row \in Rows(r) : row.after = i /\ row.to # 0

\* resilience.py:446 "so the reservation can never outlive the attempt that
\* took it": a half-open circuit or a probed slot has an attempt out.
ReservationHasOwner ==
    /\ \A p \in Providers : prov[p].probe =>
          \E r \in Requests : pc[r] = "flying" /\ Provider(r) = p
    /\ \A p \in Providers, s \in Slots : cred[<<p, s>>].probe =>
          \E r \in Requests : pc[r] = "flying" /\ Provider(r) = p /\ Slot(r) = s

\* Every request is answered, whatever the upstreams and the other
\* requests do.
RequestEnds == \A r \in Requests : pc[r] # "idle" ~> pc[r] = "done"

\* docs/plans/failover-routing-policy.md:13 "always leave a way back":
\* every target is again and again open to an attempt.
WayBack == \A t \in Targets :
    []<>(\E s \in ToSet(KeyOrder[t[1]]) : Admits(t[1], t[2], s))
=============================================================================
