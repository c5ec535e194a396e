---------------------------- MODULE StreamEvents ----------------------------
(***************************************************************************)
(* From the lines of an upstream's event stream to canonical stream        *)
(* events: parse_sse_events and render_chat_chunk of translate.py.         *)
(*                                                                         *)
(* The text of a delta is the one-element sequence of its origin, so that  *)
(* a concatenation shows what was lost, doubled or swapped.  Usage is the  *)
(* number of the line that reported it, 0 if none did.                     *)
(***************************************************************************)
EXTENDS Naturals, Sequences

\* The parser's locals: pending_event ("" for None), data_buf and
\* last_finish_reason.
ParserStart == [event |-> "", data |-> <<>>, finish |-> "none"]

\* What a "data:" line can carry.
Chunk(content, reasoning, tools, usage, finish) ==
  [kind |-> "chunk", at |-> 0, content |-> content, reasoning |-> reasoning,
   tools |-> tools, usage |-> usage, finish |-> finish]
DoneMarker == [kind |-> "done", at |-> 0]       \* [DONE]
ErrorEnvelope == [kind |-> "error", at |-> 0]   \* {"error": {...}}
Unparseable == [kind |-> "junk", at |-> 0]      \* no JSON object

If(condition, event) == IF condition THEN <<event>> ELSE <<>>

\* The canonical events of one chunk: usage first, then text, reasoning and
\* the pieces of tool calls.
ChunkEvents(d) ==
  If(d.usage, [type |-> "usage", usage |-> d.at])
  \o If(d.content, [type |-> "text", delta |-> <<<<d.at, "content">>>>])
  \o If(d.reasoning, [type |-> "reasoning", delta |-> <<<<d.at, "reasoning">>>>])
  \o [k \in 1..Len(d.tools) |->
        [type |-> "tool", index |-> d.tools[k].index,
         delta |-> If(d.tools[k].args, <<d.at, "args">>)]]

\* Mutant: the reason is the one of the latest chunk.
ChunkFinish(p, d) == d.finish

\* The reason [DONE] will carry: the last one seen.
LastFinish(p, d) == IF d.finish = "none" THEN p.finish ELSE d.finish

\* flush_data.  Several buffered lines are joined by newlines, and two JSON
\* values in a row are not JSON: the payload is dropped.  [DONE] is seen
\* before the event's name is looked at, anything else under a foreign name
\* is dropped.
Flush(p) ==
  LET d      == p.data[1]
      idle   == [p EXCEPT !.event = "", !.data = <<>>]
      silent == [parser |-> idle, events |-> <<>>]
  IN  IF Len(p.data) # 1 THEN silent
      ELSE IF d.kind = "done"
      THEN [silent EXCEPT !.events = <<[type |-> "done", finish |-> p.finish]>>]
      ELSE IF d.kind = "junk" \/ p.event \notin {"", "message"} THEN silent
      ELSE IF d.kind = "error"
      THEN [silent EXCEPT !.events = <<[type |-> "error"]>>]
      ELSE [parser |-> [idle EXCEPT !.finish = LastFinish(p, d)],
            events |-> ChunkEvents(d)]

\* One line.  A line with no known field is kept when data is buffered, and
\* so spoils it.
ParseLine(p, line) ==
  CASE line.field = "data"    -> [parser |-> [p EXCEPT !.data = Append(@, line.data)],
                                  events |-> <<>>]
    [] line.field = "blank"   -> Flush(p)
    [] line.field = "event"   -> LET f == Flush(p)
                                 IN  [f EXCEPT !.parser.event = line.name]
    [] line.field = "comment" -> [parser |-> p, events |-> <<>>]
    [] line.field = "other"   -> [parser |-> IF p.data = <<>> THEN p
                                             ELSE [p EXCEPT !.data = Append(@, Unparseable)],
                                  events |-> <<>>]

\* The chat chunk an event is rendered back to: each field as the adapters
\* read it.  An adapter takes reasoning_content where content is empty, and
\* finds no choices in an error.
Rendered(e) ==
  LET empty == [usage |-> 0, finish |-> "none", text |-> <<>>, tools |-> <<>>]
  IN  CASE e.type \in {"text", "reasoning"} -> [empty EXCEPT !.text = e.delta]
        [] e.type = "tool"  -> [empty EXCEPT !.tools = <<[index |-> e.index, delta |-> e.delta]>>]
        [] e.type = "usage" -> [empty EXCEPT !.usage = e.usage]
        [] e.type = "done"  -> [empty EXCEPT !.finish = e.finish]
        [] e.type = "error" -> empty

\* A function with one more argument, or a new value at an old one: d[k] = v.
Put(f, k, v) == [x \in DOMAIN f \cup {k} |-> IF x = k THEN v ELSE f[x]]
=============================================================================
