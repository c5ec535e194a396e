-------------------------------- MODULE Relay --------------------------------
(***************************************************************************)
(* One streamed answer on its way from the upstream to the client: the     *)
(* three relays of proxy.py (_relay_responses_streaming,                   *)
(* _relay_messages_streaming, _relay_openai_stream).                       *)
(*                                                                         *)
(* The upstream chooses every line.  The generator of the parser and the   *)
(* relay's loop take turns: a line is read, each event it yields is fed to *)
(* the adapter and what the adapter makes of it is written before the next *)
(* line is read.  Any write may find the client gone, any read the         *)
(* upstream broken.                                                        *)
(***************************************************************************)
EXTENDS ResponsesStream, MessagesStream

CONSTANTS
  Clients,    \* the endpoints asked: "responses", "messages", "chat"
  Payloads,   \* what the upstream's data lines carry
  Noise,      \* lines of other fields it sends
  MaxData,    \* bound: data lines
  MaxNoise    \* bound: lines of Noise, and data lines not closed by a blank

ASSUME ClientsAssumption == Clients \subseteq {"responses", "messages", "chat"}

ASSUME PayloadsAssumption ==
  Payloads \subseteq
    {DoneMarker, ErrorEnvelope, Unparseable}
    \cup [kind : {"chunk"}, at : {0}, content : BOOLEAN, reasoning : BOOLEAN,
          tools : Seq([index : Nat, args : BOOLEAN]), usage : BOOLEAN, finish : STRING]

ASSUME NoiseAssumption ==
  Noise \subseteq [field : {"comment", "other"}] \cup [field : {"event"}, name : STRING]

ASSUME BoundsAssumption == MaxData \in Nat /\ MaxNoise \in Nat

VARIABLES
  client,     \* the endpoint of this request
  phase,      \* where the relay's body stands
  parser,     \* the locals of parse_sse_events
  events,     \* events the parser still has to yield for the last line
  adapter,    \* the adapter's fields; for "chat" the local usage
  sent,       \* what the client has received
  closed,     \* the finally clause has run
  recorded,   \* usage given to the decision store; None if none was
  upstream    \* what the upstream sent: counts of its lines, and the answer
              \* it stands for, which the code does not know

vars == <<client, phase, parser, events, adapter, sent, closed, recorded, upstream>>

NoAnswer == [content |-> <<>>, reasoning |-> <<>>, calls |-> <<>>,
             finish |-> "none", usage |-> 0, done |-> FALSE]

AdapterStart ==
  CASE client = "responses" -> ResponsesStart
    [] client = "messages"  -> MessagesStart
    [] client = "chat"      -> [usage |-> 0]

Greeting ==
  CASE client = "responses" -> <<Created>>
    [] client = "messages"  -> <<MessageStart>>
    [] client = "chat"      -> <<>>

AdapterFeed(chunk) ==
  IF client = "responses" THEN ResponsesFeed(adapter, chunk)
  ELSE MessagesFeed(adapter, chunk)

AdapterFinish ==
  CASE client = "responses" -> ResponsesFinish(adapter) \o <<[type |-> "[DONE]"]>>
    [] client = "messages"  -> MessagesFinish(adapter)
    [] client = "chat"      -> <<>>

Init ==
  /\ client \in Clients
  /\ phase = "headers"
  /\ parser = ParserStart
  /\ events = <<>>
  /\ adapter = AdapterStart
  /\ sent = <<>>
  /\ closed = FALSE
  /\ recorded = None
  /\ upstream = [lines |-> 0, noise |-> 0, clean |-> TRUE, answer |-> NoAnswer]

(***************************************************************************)
(* Writing: the whole batch goes out, or the client is found gone after a  *)
(* part of it and the relay leaves its loop.                               *)
(***************************************************************************)
Write(batch, next) ==
  \E k \in 0..Len(batch) :
    /\ sent' = sent \o SubSeq(batch, 1, k)
    /\ phase' = IF k = Len(batch) THEN next ELSE "cut"

\* Headers: a client that is gone already leaves no adapter behind.
Begin ==
  /\ phase = "headers"
  /\ \/ phase' = "gone" /\ sent' = sent
     \/ Write(Greeting, "reading")
  /\ UNCHANGED <<client, parser, events, adapter, closed, recorded, upstream>>

(***************************************************************************)
(* Reading.  The answer grows by every payload, as a server that does not  *)
(* stream would have gathered it.                                          *)
(***************************************************************************)
Grown(answer, d) ==
  LET added == {d.tools[k].index : k \in 1..Len(d.tools)}
      args(i) == FlattenSeq([k \in 1..Len(d.tools) |->
                   If(d.tools[k].index = i /\ d.tools[k].args, <<d.at, "args">>)])
      before(i) == IF i \in DOMAIN answer.calls THEN answer.calls[i] ELSE <<>>
  IN  CASE d.kind = "done" -> [answer EXCEPT !.done = TRUE]
        [] d.kind = "chunk" ->
             [answer EXCEPT
               !.content = @ \o If(d.content, <<d.at, "content">>),
               !.reasoning = @ \o If(d.reasoning, <<d.at, "reasoning">>),
               !.calls = [i \in DOMAIN @ \cup added |-> before(i) \o args(i)],
               !.finish = IF d.finish = "none" THEN @ ELSE d.finish,
               !.usage = IF d.usage THEN d.at ELSE @]
        [] OTHER -> answer

\* The upstream's stream is clean while each of its payloads is a data line
\* between blanks, with comments anywhere, and it says no more after [DONE].
StaysClean(line) ==
  CASE line.field = "data"  -> /\ parser.data = <<>>
                               /\ parser.event \in {"", "message"}
                               /\ ~upstream.answer.done
    [] line.field = "event" -> parser.data = <<>>
    [] line.field = "other" -> parser.data = <<>>
    [] OTHER -> TRUE

Sends(line) ==
  LET costs == line.field \in {"event", "comment", "other"}
               \/ (line.field = "data" /\ parser.data # <<>>)
  IN  /\ line.field = "data" => upstream.lines < MaxData
      /\ line.field = "blank" => parser.data # <<>>
      /\ costs => upstream.noise < MaxNoise
      /\ upstream' = [upstream EXCEPT
           !.lines = @ + (IF line.field = "data" THEN 1 ELSE 0),
           !.noise = @ + (IF costs THEN 1 ELSE 0),
           !.clean = @ /\ StaysClean(line),
           !.answer = IF line.field = "data" THEN Grown(@, line.data) ELSE @]

Blank == [field |-> "blank"]
DataLines == {[field |-> "data", data |-> [p EXCEPT !.at = upstream.lines + 1]] :
                p \in Payloads}
NextLines == DataLines \cup {Blank} \cup Noise

\* A line for one of the two translating relays.
Read(line) ==
  /\ phase = "reading" /\ events = <<>> /\ client # "chat"
  /\ Sends(line)
  /\ parser' = ParseLine(parser, line).parser
  /\ events' = ParseLine(parser, line).events
  /\ UNCHANGED <<client, phase, adapter, sent, closed, recorded>>

\* A line for the relay of the chat endpoint, which passes it on as it is
\* and looks for usage in it by itself.
Pass(line) ==
  /\ phase = "reading" /\ client = "chat"
  /\ Sends(line)
  /\ adapter' = IF line.field = "data" /\ line.data.kind = "chunk" /\ line.data.usage
                THEN [usage |-> line.data.at] ELSE adapter
  /\ parser' = ParseLine(parser, line).parser  \* the client parses; see Sends
  /\ Write(<<line>>, "reading")
  /\ UNCHANGED <<client, events, closed, recorded>>

\* The upstream's end: a last event without its blank line still counts.
EndOfStream ==
  /\ phase = "reading" /\ events = <<>>
  /\ phase' = "finishing"
  /\ parser' = Flush(parser).parser
  /\ events' = IF client = "chat" THEN <<>> ELSE Flush(parser).events
  /\ UNCHANGED <<client, adapter, sent, closed, recorded, upstream>>

\* The next event of the generator, before or after the last line.
Feed ==
  /\ phase \in {"reading", "finishing"} /\ events # <<>>
  /\ LET fed == AdapterFeed(Rendered(Head(events)))
     IN  adapter' = fed.adapter /\ Write(fed.events, phase)
  /\ events' = Tail(events)
  /\ UNCHANGED <<client, parser, closed, recorded, upstream>>

Finish ==
  /\ phase = "finishing" /\ events = <<>>
  /\ Write(AdapterFinish, "ended")
  /\ UNCHANGED <<client, parser, events, adapter, closed, recorded, upstream>>

\* A read that fails: a timeout, a reset, a body cut short.
UpstreamBreaks ==
  /\ phase = "reading" /\ events = <<>>
  /\ phase' = "cut"
  /\ UNCHANGED <<client, parser, events, adapter, sent, closed, recorded, upstream>>

\* Mutant: usage is handed over at the end of the loop only.
CloseUntold ==
  /\ phase \in {"ended", "cut", "gone"} /\ ~closed
  /\ closed' = TRUE
  /\ recorded' = IF phase = "ended" THEN adapter.usage ELSE None
  /\ UNCHANGED <<client, phase, parser, events, adapter, sent, upstream>>

\* The finally clause: usage to the decision store, and the route closed.
Close ==
  /\ phase \in {"ended", "cut", "gone"} /\ ~closed
  /\ closed' = TRUE
  /\ recorded' = IF phase = "gone" /\ client # "chat" THEN None ELSE adapter.usage
  /\ UNCHANGED <<client, phase, parser, events, adapter, sent, upstream>>

Next ==
  \/ Begin
  \/ \E line \in NextLines : Read(line) \/ Pass(line)
  \/ Feed
  \/ EndOfStream
  \/ Finish
  \/ UpstreamBreaks
  \/ Close

Spec == Init /\ [][Next]_vars

TypeOK ==
  /\ client \in Clients
  /\ phase \in {"headers", "gone", "reading", "finishing", "ended", "cut"}
  /\ closed \in BOOLEAN /\ recorded \in None..MaxData
  /\ upstream.lines \in 0..MaxData /\ upstream.noise \in 0..MaxNoise
  /\ adapter.usage \in 0..MaxData
  /\ closed => phase \in {"ended", "cut", "gone"}

(***************************************************************************)
(* What the client sees.  The event types of the two protocols differ, so  *)
(* a property of one holds of the other's streams without a condition.     *)
(***************************************************************************)
Sent(types, n) == {k \in 1..n : sent[k].type \in types}
Starts(n) == Sent({"content_block_start"}, n)
Stops(n) == Sent({"content_block_stop"}, n)
StartOf(index) ==
  CHOOSE k \in Starts(Len(sent)) : sent[k].index = index

\* The deltas among the events of a set, put together.
Gathered(positions) ==
  FlattenSeq([k \in 1..Len(sent) |-> IF k \in positions THEN sent[k].delta ELSE <<>>])
TextDeltas == {k \in Sent({"content_block_delta"}, Len(sent)) : sent[k].kind = "text"}
BlockDeltas(index) ==
  {k \in Sent({"content_block_delta"}, Len(sent)) : sent[k].index = index}
ItemDeltas(item, n) == {k \in Sent({"delta"}, n) : sent[k].item = item}

\* Content blocks follow one another, in whatever order the upstream mixes
\* text and tool calls and wherever the stream is cut: each has one start and
\* one stop, indices count up from 0, no block starts before the one before it
\* has stopped, and the message ends with none open.
BlocksTakeTurns ==
  client # "chat" =>
  \A n \in 1..Len(sent) :
    LET starts == Cardinality(Starts(n - 1))
        stops  == Cardinality(Stops(n - 1))
    IN  /\ sent[n].type = "content_block_start" =>
             sent[n].index = starts /\ stops = starts
        /\ sent[n].type = "content_block_stop" =>
             sent[n].index = stops /\ starts = stops + 1
        /\ sent[n].type = "message_delta" => starts = stops

\* A delta is of the kind its block was announced with, comes after the
\* block's start and, if it is text, before the block's stop: text resuming
\* after a tool call never reaches the block that call has closed.
DeltasFindTheirBlock ==
  client # "chat" =>
  \A n \in Sent({"content_block_delta"}, Len(sent)) :
    LET index == sent[n].index
    IN  /\ \E k \in Starts(n - 1) : sent[k].index = index /\ sent[k].kind = sent[n].kind
        /\ sent[n].kind = "text" => \A k \in Stops(n - 1) : sent[k].index # index

\* An item of a Responses stream is announced before its first delta, once,
\* keeps the index it was announced with, and is done once, with the deltas the
\* client has put together in between; the completed response repeats exactly
\* the items that are done.
ItemsKeepTheirPromise ==
  client # "chat" =>
  \A n \in 1..Len(sent) :
    LET e == sent[n]
        announced == {k \in Sent({"output_item.added"}, n - 1) : sent[k].item = e.item}
        finished  == {k \in Sent({"output_item.done"}, n - 1) : sent[k].item = e.item}
    IN  /\ e.type = "output_item.added" => announced = {}
        /\ e.type \in {"delta", "content.done", "output_item.done"} =>
             /\ \E k \in announced : sent[k].output_index = e.output_index
             /\ finished = {}
        /\ e.type \in {"content.done", "output_item.done"} =>
             e.content = Gathered(ItemDeltas(e.item, n))
        /\ e.type = "response.completed" =>
             {[item |-> sent[k].item, content |-> sent[k].content] :
                k \in Sent({"output_item.done"}, n)} = ToSet(e.output)

\* An answer with both content and reasoning is streamed with the two mixed,
\* which a client that does not stream never sees.
OneKindOfText(answer) == answer.content = <<>> \/ answer.reasoning = <<>>

\* The response that a clean stream ends with is the one a client that does
\* not stream would have been given for the same answer: the same items with the
\* same text and arguments, in the same order, and the same usage.
ResponseTellsTheAnswer ==
  client = "responses" /\ upstream.clean /\ OneKindOfText(upstream.answer) =>
  \A n \in Sent({"response.completed"}, Len(sent)) :
    /\ sent[n].output = BufferedResponse(upstream.answer)
    /\ sent[n].usage = upstream.answer.usage

\* The blocks of a clean stream that was ended by [DONE] add up to the message
\* a client that does not stream would have been given: the text, the arguments
\* of each call in a block of its own, the stop reason and the usage.
MessageTellsTheAnswer ==
  client = "messages" /\ upstream.clean /\ upstream.answer.done =>
  \A n \in Sent({"message_delta"}, Len(sent)) :
    LET answer == upstream.answer
        tools  == {sent[k].index : k \in {j \in Starts(n) : sent[j].kind = "tool_use"}}
    IN  /\ OneKindOfText(answer) => Gathered(TextDeltas) = BufferedText(answer)
        /\ Cardinality(tools) = Cardinality(DOMAIN answer.calls)
        /\ {Gathered(BlockDeltas(b)) : b \in tools}
             = {answer.calls[i] : i \in DOMAIN answer.calls}
        /\ sent[n].stop_reason = BufferedStopReason(answer)
        /\ sent[n].usage = answer.usage

\* However the relay is left, the decision store is told the usage seen so far
\* before the route is closed; after a clean stream that is the upstream's last
\* report, by each of the three relays.
UsageReachesTheStore ==
  closed =>
    \/ phase = "gone" /\ client # "chat"
    \/ /\ recorded = adapter.usage
       /\ phase = "ended" /\ upstream.clean => recorded = upstream.answer.usage

(***************************************************************************)
(* Two claims of the documents the code does not keep.                     *)
(***************************************************************************)
\* "every delta targets a block that is open at that point"
EveryDeltaHitsOpenBlock ==
  client # "chat" =>
  \A n \in Sent({"content_block_delta"}, Len(sent)) :
    \A k \in Stops(n - 1) : sent[k].index # sent[n].index
=============================================================================
