-------------------------------- MODULE Harness --------------------------------
(***************************************************************************)
(* Calls of one router over routes and backends (harness_route.py): the    *)
(* session check, the switch of routes, the adapter, the contracts its     *)
(* envelope must keep, and the rows of the audit.  Calls do not overlap:   *)
(* nothing in the repository gives a router to two threads.                *)
(***************************************************************************)
EXTENDS Naturals, Sequences, SequencesExt

CONSTANTS
  Backend,      \* the configured routes, each with its backend
  Adapters,     \* backends that are registered
  Ids,          \* request ids; a client that gives none shares the default
  Envelopes,    \* what an adapter of its own may answer
  MaxCalls      \* bound: calls

VARIABLES
  last,         \* _last_route
  switches,     \* switch_events, as pairs of routes
  rows,         \* request_events
  cancelled,    \* ids each adapter is to refuse
  expired,      \* the time of the session is over
  told          \* what the calls were told; the program forgets it

vars == <<last, switches, rows, cancelled, expired, told>>

None == "none"
Classes == {"connect", "auth", "rate_limit", "timeout", "protocol",
            "backend_error", "cancelled"}
Faces == {"send", "stream"}
Routes == DOMAIN Backend
Asked == Routes \cup {"unknown"}

Init ==
  /\ last = None /\ switches = <<>> /\ rows = <<>>
  /\ cancelled = [b \in Adapters |-> {}]
  /\ expired = FALSE /\ told = <<>>

Chunk(seq, type) == [seq |-> seq, type |-> type]
Envelope(chunks, status, class) == [chunks |-> chunks, status |-> status, class |-> class]

Acked == Envelope(<<Chunk(1, "cancelled")>>, "cancelled", "cancelled")
StubAnswer == Envelope(<<Chunk(1, "delta"), Chunk(2, "usage"), Chunk(3, "done")>>, "ok", None)
EchoAnswer == Envelope(<<Chunk(1, "done")>>, "ok", None)
Failed(class) == Envelope(<<Chunk(1, "failed")>>, "failed", class)

\* An adapter acknowledges a cancel once and does nothing else with the call.
Answers(b, id) ==
  IF id \in cancelled[b] THEN {Acked}
  ELSE CASE b = "stub" -> {StubAnswer} [] b = "local-echo" -> {EchoAnswer}
         [] OTHER -> Envelopes

Monotonic(chunks) ==
  /\ \A i \in DOMAIN chunks : chunks[i].seq > 0
  /\ \A i, j \in DOMAIN chunks : i < j => chunks[i].seq < chunks[j].seq

Types(envelope) == {envelope.chunks[i].type : i \in DOMAIN envelope.chunks}

\* What the router lets through; anything else is an exception of the call.
KeepsContracts(envelope) ==
  /\ Monotonic(envelope.chunks)
  /\ envelope.class \in Classes \cup {None}
  /\ envelope.class = "cancelled" => "cancelled" \in Types(envelope)

\* Mutant: a cancelled stream is a stream that went well.
CancelledIsFine(envelope) ==
  IF "failed" \in Types(envelope)
  THEN [status |-> "failed", class |-> envelope.class]
  ELSE [status |-> "ok", class |-> None]

\* The summary of a stream is made from its chunks; a failed chunk carries the
\* failure, a cancelled one only says so.
FromChunks(envelope) ==
  IF "failed" \in Types(envelope)
  THEN [status |-> "failed", class |-> envelope.class]
  ELSE IF "cancelled" \in Types(envelope)
       THEN [status |-> "cancelled", class |-> "cancelled"]
       ELSE [status |-> "ok", class |-> None]

\* The caller gets the response or the chunks, the audit a row.
Tell(face, route, id, envelope) ==
  LET summary == IF face = "send"
                 THEN [status |-> envelope.status, class |-> envelope.class]
                 ELSE FromChunks(envelope)
  IN  /\ rows' = Append(rows, [route |-> route, id |-> id, status |-> summary.status,
                               class |-> summary.class])
      /\ told' = Append(told, [face |-> face, route |-> route, id |-> id, envelope |-> envelope])

\* The session is looked at before the route.
Expired(face, route, id) ==
  /\ expired
  /\ Tell(face, route, id, Failed("protocol"))
  /\ UNCHANGED <<last, switches, cancelled, expired>>

Reaches(route) == route \in Routes /\ Backend[route] \in Adapters

\* resolve() knows no request id, and a response it makes has none.
NotResolved(face, route, id) ==
  /\ ~Reaches(route)
  /\ Tell(face, route, IF face = "send" THEN "" ELSE id, Failed("protocol"))
  /\ UNCHANGED <<last, switches, cancelled, expired>>

Noted(route) ==
  IF last \notin {None, route} THEN Append(switches, <<last, route>>) ELSE switches

\* The switch is noted before the adapter is called, whatever it answers.
Ask(face, route, id, envelope) ==
  /\ Reaches(route)
  /\ switches' = Noted(route) /\ last' = route
  /\ LET b == Backend[route]
     IN  /\ envelope \in Answers(b, id)
         /\ cancelled' = [cancelled EXCEPT ![b] = @ \ {id}]
  /\ IF KeepsContracts(envelope)
     THEN Tell(face, route, id, envelope)
     ELSE UNCHANGED <<rows, told>>
  /\ UNCHANGED expired

Call(face, route, id) ==
  /\ Len(told) < MaxCalls
  /\ \/ Expired(face, route, id)
     \/ ~expired /\ NotResolved(face, route, id)
     \/ ~expired /\ \E e \in Envelopes \cup {Acked, StubAnswer, EchoAnswer} :
                      Ask(face, route, id, e)

Cancel(b, id) ==
  /\ id \notin cancelled[b]
  /\ cancelled' = [cancelled EXCEPT ![b] = @ \cup {id}]
  /\ UNCHANGED <<last, switches, rows, expired, told>>

\* The session's time runs out; its owner opens another.
Expire == expired' = ~expired /\ UNCHANGED <<last, switches, rows, cancelled, told>>

Next ==
  \/ \E face \in Faces, route \in Asked, id \in Ids : Call(face, route, id)
  \/ \E b \in Adapters, id \in Ids : Cancel(b, id)
  \/ Expire

Spec == Init /\ [][Next]_vars

Answered == {i \in DOMAIN told : told[i].route \in Routes /\ Reaches(told[i].route)
                                 /\ told[i].envelope # Failed("protocol")}
Chain == <<switches[1][1]>> \o [i \in DOMAIN switches |-> switches[i][2]]

\* The audit and the calls tell one story, whatever the backends answer: every
\* call that was answered has its row, a cancel is a cancel on both faces and was
\* acknowledged, and the switches lead from route to route, without a gap, over
\* every route that answered to the one in use.
AuditTellsTheCalls ==
  /\ Len(rows) = Len(told)
  /\ \A i \in DOMAIN told :
       /\ rows[i].route = told[i].route
       /\ rows[i].class = "cancelled" <=> told[i].envelope.class = "cancelled"
       /\ rows[i].class = "cancelled" => "cancelled" \in Types(told[i].envelope)
  /\ \A i \in DOMAIN switches :
       /\ switches[i][1] # switches[i][2]
       /\ i < Len(switches) => switches[i][2] = switches[i + 1][1]
  /\ switches # <<>> => Last(switches)[2] = last
  /\ \A i, j \in Answered : told[i].route # told[j].route =>
       {told[i].route, told[j].route} \subseteq ToSet(Chain)
===============================================================================
