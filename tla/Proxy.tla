--------------------------------- MODULE Proxy ---------------------------------
(***************************************************************************)
(* One client connection of the proxy (proxy.py, _ProxyHandler): requests  *)
(* come one after another over a kept HTTP/1.1 connection, each is         *)
(* answered where it stands or routed to an upstream whose response must   *)
(* be closed again, and what a handler leaves unread of a body is what the *)
(* server takes for the next request.                                      *)
(*                                                                         *)
(* Bodies are counted in units: ResetCap of them are the 64 KiB the reset  *)
(* endpoint takes, BodyCap the 25 MB of MAX_BODY_BYTES.                    *)
(***************************************************************************)
EXTENDS Naturals, Sequences

CONSTANTS
  Asked,      \* the requests the client may send
  Guarded,    \* whether the proxy has an auth token
  Measured,   \* whether it has an analytics store
  MaxAsked    \* bound: requests on the connection

VARIABLES
  asked,      \* the requests sent so far
  heads,      \* the answers the client has seen begin
  unread,     \* units of body still on the wire
  stage,      \* where the handler stands
  opened,     \* the requests whose upstream response is open
  kept        \* ~close_connection

vars == <<asked, heads, unread, stage, opened, kept>>

ResetCap == 1
BodyCap == 2
Big == BodyCap + 1

Anthropic == {"messages", "count_tokens"}
Inference == {"chat", "embeddings", "responses"} \cup Anthropic
Operator == {"resilience", "routes", "route", "metrics", "export", "decisions"}
Public == {"health", "models"}
Gets == Operator \cup Public \cup {"nowhere"}

\* length: Content-Length is a number, missing, no number, or below zero;
\* says: the body is a JSON object, one the converter or the reset refuses,
\* another JSON value, or no JSON.
Requests ==
  [path : Inference \cup Gets \cup {"reset", "unknown"},
   token : BOOLEAN, length : {"given", "missing", "garbled", "negative"},
   body : 0..Big, says : {"object", "refused", "other", "broken"}, stream : BOOLEAN]

TypeOK ==
  /\ asked \in Seq(Requests) /\ Len(asked) <= MaxAsked
  /\ heads \in Seq([to : 0..MaxAsked, status : 200..503, whole : BOOLEAN])
  /\ unread \in 0..Big
  /\ stage \in {"waiting", "routing", "buffered", "headers", "relaying", "blocked"}
  /\ opened \subseteq 1..MaxAsked
  /\ kept \in BOOLEAN

Init ==
  /\ asked = <<>> /\ heads = <<>> /\ unread = 0
  /\ stage = "waiting" /\ opened = {} /\ kept = TRUE

-----------------------------------------------------------------------------
(* What do_GET and do_POST do with a request: answer it, route it, block   *)
(* on it, or fail on it without a word (an exception nobody catches, which *)
(* ends the connection).                                                   *)

Does(what, status, left, closes) ==
  [what |-> what, status |-> status, left |-> left, closes |-> closes]
Answer(status, left) == Does("answers", status, left, FALSE)
LastAnswer(status, left) == Does("answers", status, left, TRUE)
Route == Does("routes", 0, 0, FALSE)
Block == Does("blocks", 0, 0, FALSE)
Crash == Does("crashes", 0, 0, TRUE)

Allowed(r) == r.token \/ ~Guarded
\* The operator's endpoints are shut when there is no token to show.
OperatorAllowed(r) == Guarded /\ r.token

\* do_GET never reads a body, and closes after none of its answers; the
\* choice is what the stores hold.
Get(r) ==
  CASE r.path = "nowhere" -> {Answer(404, r.body)}
    [] r.path \in Operator /\ ~OperatorAllowed(r) -> {Answer(401, r.body)}
    [] r.path = "route" -> {Answer(200, r.body), Answer(404, r.body)}
    [] r.path = "export" /\ Measured -> {Answer(200, r.body), Answer(400, r.body)}
    [] OTHER -> {Answer(200, r.body)}

Unknown(r) ==
  CASE r.length = "garbled"  -> Crash
    [] r.length = "negative" -> Block
    [] r.length = "missing"  -> Answer(404, r.body)
    [] r.length = "given"    -> Answer(404, IF r.body > BodyCap THEN r.body - BodyCap ELSE 0)

\* A body whose client shows no token is not read.
\* Mutant: the connection is kept all the same.
RefusedKeeping(r) == Answer(401, r.body)
Refused(r) == LastAnswer(401, r.body)

Reset(r) ==
  CASE ~OperatorAllowed(r) -> Refused(r)
    [] r.length \in {"missing", "garbled"} -> Answer(411, r.body)
    [] r.length = "negative" \/ r.body > ResetCap -> Answer(413, r.body)
    [] r.says # "object" -> Answer(400, 0)
    [] OTHER -> Answer(200, 0)

\* _forward_request: the body has been read, and only an object has a get().
Forward(r) ==
  CASE r.says = "broken" -> Answer(400, 0)
    [] r.says = "other"  -> Crash
    [] OTHER             -> Route

\* _forward_responses and _forward_messages convert it first.
ForwardConverted(r) == IF r.says = "refused" THEN Answer(400, 0) ELSE Forward(r)

CountTokens(r) == IF Forward(r) = Route THEN Answer(200, 0) ELSE Forward(r)

\* The bodies that are refused unread end the connection, but for those
\* without a length.
Infer(r) ==
  CASE ~Allowed(r) -> Refused(r)
    [] r.length \in {"missing", "garbled"} -> Answer(411, r.body)
    [] r.length = "negative" -> Block
    [] r.body > BodyCap -> LastAnswer(413, r.body)
    [] r.path \in {"responses", "messages"} -> ForwardConverted(r)
    [] r.path = "count_tokens" -> CountTokens(r)
    [] OTHER -> Forward(r)

Handling(r) ==
  CASE r.path = "unknown"       -> {Unknown(r)}
    [] r.path = "reset"         -> {Reset(r)}
    [] r.path \in Inference     -> {Infer(r)}
    [] OTHER                    -> Get(r)

-----------------------------------------------------------------------------
This == Len(asked)
Told(to, status, whole) == [to |-> to, status |-> status, whole |-> whole]

\* The next request line is read only from a kept connection without
\* leftovers.
Ask ==
  /\ stage = "waiting" /\ kept /\ unread = 0 /\ Len(asked) < MaxAsked
  /\ \E r \in Asked : \E does \in Handling(r) :
       /\ asked' = Append(asked, r)
       /\ unread' = does.left
       /\ kept' = ~does.closes
       /\ heads' = IF does.what = "answers"
                   THEN Append(heads, Told(This + 1, does.status, TRUE)) ELSE heads
       /\ stage' = CASE does.what = "routes" -> "routing"
                     [] does.what = "blocks" -> "blocked"
                     [] OTHER -> "waiting"
  /\ UNCHANGED opened

\* http.server takes the leftovers, alone or with what follows them, for a
\* request line.  One of a JSON text is none: it answers so, or not at all
\* when the line is blank, and closes.
Stray ==
  /\ stage = "waiting" /\ kept /\ unread > 0
  /\ \/ \E status \in {400, 414, 501} : heads' = Append(heads, Told(0, status, TRUE))
     \/ heads' = heads
  /\ unread' = 0 /\ kept' = FALSE
  /\ UNCHANGED <<asked, stage, opened>>

\* _execute_route fails: no planner, no candidate, or the last failure.
\* An Anthropic client is told 404 of a model nobody may serve.
RouteFails ==
  /\ stage = "routing"
  /\ \E status \in {403, 429, 503}, reached \in BOOLEAN :
       LET code == IF /\ status = 403 /\ ~reached
                      /\ asked[This].path \in Anthropic THEN 404 ELSE status
       IN  heads' = Append(heads, Told(This, code, TRUE))
  /\ stage' = "waiting"
  /\ UNCHANGED <<asked, unread, opened, kept>>

\* It hands over an open upstream response; embeddings never stream.
RouteOpens ==
  /\ stage = "routing"
  /\ opened' = opened \cup {This}
  /\ stage' = IF asked[This].stream /\ asked[This].path # "embeddings"
              THEN "headers" ELSE "buffered"
  /\ UNCHANGED <<asked, heads, unread, kept>>

\* _send_opened_buffered: the answer, or 502 for one that cannot be read,
\* parsed or converted; the upstream is closed in any case.
Buffered ==
  /\ stage = "buffered"
  /\ \E status \in {200, 502} : heads' = Append(heads, Told(This, status, TRUE))
  /\ opened' = opened \ {This}
  /\ stage' = "waiting"
  /\ UNCHANGED <<asked, unread, kept>>

\* A relay sends the head before it reads a line, then lines to the end ...
Headers ==
  /\ stage = "headers"
  /\ heads' = Append(heads, Told(This, 200, FALSE))
  /\ stage' = "relaying"
  /\ UNCHANGED <<asked, unread, opened, kept>>

StreamEnds ==
  /\ stage = "relaying"
  /\ heads' = [heads EXCEPT ![Len(heads)].whole = TRUE]
  /\ opened' = opened \ {This}
  /\ stage' = "waiting"
  /\ UNCHANGED <<asked, unread, kept>>

\* ... or until the upstream breaks: the last chunk is not sent, and the
\* connection stays as it is.
StreamBreaks ==
  /\ stage = "relaying"
  /\ opened' = opened \ {This}
  /\ stage' = "waiting"
  /\ UNCHANGED <<asked, heads, unread, kept>>

\* The client is gone.  Whatever the handler writes or reads next fails, and
\* handle() ends the thread; a route in progress is finished first.
Leave ==
  /\ kept \/ stage # "waiting"
  /\ kept' = FALSE /\ unread' = 0 /\ opened' = {}
  /\ stage' = "waiting"
  /\ UNCHANGED <<asked, heads>>

Next ==
  \/ Ask \/ Stray \/ RouteFails \/ RouteOpens \/ Buffered
  \/ Headers \/ StreamEnds \/ StreamBreaks \/ Leave

Spec == Init /\ [][Next]_vars

-----------------------------------------------------------------------------
\* The requests a body of which may be left on a connection that is kept: a
\* GET with one, a POST whose length is not told, a reset and a POST to no
\* endpoint beyond what they read.
Leaves(r) ==
  /\ r.body > 0
  /\ \/ r.path \in Gets
     \/ r.length = "missing"
     \/ r.length = "garbled" /\ r.path # "unknown"
     \/ r.path = "reset" /\ (r.length = "negative" \/ r.body > ResetCap)
     \/ r.path = "unknown" /\ r.body > BodyCap

\* The answers that belong to requests: all but one to leftovers, which is
\* the last.
Answered == IF heads # <<>> /\ heads[Len(heads)].to = 0
            THEN Len(heads) - 1 ELSE Len(heads)

\* Over every order of requests, failures and breaks: each request is
\* answered at most once and in its turn, and only the last one may still be
\* without an answer; an answer to leftovers follows nothing but a request
\* that Leaves a body (never a refusal for want of a token or an inference
\* body over the cap, proxy.py:500), and is the last thing on its
\* connection; and the connection never waits for another request over an
\* upstream response that is still open.
AnswersInTurn ==
  /\ \A k \in 1..Answered : heads[k].to = k
  /\ Answered \in {Len(asked) - 1, Len(asked)}
  /\ Answered < Len(heads) =>
        ~kept /\ Answered = Len(asked) /\ Leaves(asked[Len(asked)])
  /\ stage = "waiting" => opened = {}
===============================================================================
