--------------------------- MODULE MessagesStream ---------------------------
(***************************************************************************)
(* The Messages stream adapter of anthropic.py: chat chunks in, content    *)
(* blocks out.                                                             *)
(***************************************************************************)
EXTENDS StreamEvents, Integers

None == -1
NoBlock == [index |-> None, kind |-> ""]

\* The dataclass; open is open_index with open_kind.
MessagesStart ==
  [next_index |-> 0, open |-> NoBlock, text_block_index |-> None, tool_blocks |-> <<>>,
   finish_reason |-> "none", saw_tool_call |-> FALSE, usage |-> 0]

MessageStart == [type |-> "message_start"]
BlockStart(index, kind) == [type |-> "content_block_start", index |-> index, kind |-> kind]
BlockDelta(index, kind, delta) ==
  [type |-> "content_block_delta", index |-> index, kind |-> kind, delta |-> delta]
BlockStop(index) == [type |-> "content_block_stop", index |-> index]
MessageDelta(stop_reason, usage) ==
  [type |-> "message_delta", stop_reason |-> stop_reason, usage |-> usage]
MessageStop == [type |-> "message_stop"]

StopReason(finish_reason, has_tool_calls) ==
  IF has_tool_calls \/ finish_reason = "tool_calls" THEN "tool_use"
  ELSE IF finish_reason = "length" THEN "max_tokens"
  ELSE IF finish_reason = "content_filter" THEN "refusal"
  ELSE "end_turn"

\* Mutant: only a text block is closed when the next block begins.
CloseOpenText(a) == If(a.open.kind = "text", BlockStop(a.open.index))

\* The stop of the block that is open, if one is.
CloseOpenBlock(a) == If(a.open.kind # "", BlockStop(a.open.index))

\* A block that begins: its index is the next one, and it is the open one.
Opening(a, kind) ==
  [a EXCEPT !.next_index = @ + 1, !.open = [index |-> a.next_index, kind |-> kind]]

\* Mutant: text that resumes after a tool call goes to the first text block.
NoTextBlock(a) == a.text_block_index = None

\* Text needs a block of its own unless the open one is of text.
NeedsTextBlock(a) == a.open.kind # "text"

\* feed, the text of a chunk: text goes on in the open text block or opens a
\* fresh one.
MessagesText(a, delta) ==
  LET fresh == NeedsTextBlock(a)
      b     == IF fresh THEN [Opening(a, "text") EXCEPT !.text_block_index = a.next_index]
               ELSE a
  IN  [adapter |-> b,
       events  |-> (IF fresh THEN CloseOpenBlock(a) \o <<BlockStart(a.next_index, "text")>>
                    ELSE <<>>)
                   \o <<BlockDelta(b.text_block_index, "text", delta)>>]

\* feed, one piece of a tool call: a new call opens a block of its own, later
\* pieces go to that block whether it is open or not.
MessagesTool(a, index, delta) ==
  LET new == index \notin DOMAIN a.tool_blocks
      b   == [(IF new THEN [Opening(a, "tool_use") EXCEPT
                              !.tool_blocks = Put(@, index, a.next_index)]
               ELSE a) EXCEPT !.saw_tool_call = TRUE]
  IN  [adapter |-> b,
       events  |-> (IF new THEN CloseOpenBlock(a) \o <<BlockStart(a.next_index, "tool_use")>>
                    ELSE <<>>)
                   \o If(delta # <<>>, BlockDelta(b.tool_blocks[index], "tool_use", delta))]

MessagesFeed(a, chunk) ==
  LET b == [a EXCEPT !.usage = IF chunk.usage = 0 THEN @ ELSE chunk.usage,
                     !.finish_reason = IF chunk.finish = "none" THEN @ ELSE chunk.finish]
  IN  IF chunk.text # <<>> THEN MessagesText(b, chunk.text)
      ELSE IF chunk.tools # <<>>
      THEN MessagesTool(b, chunk.tools[1].index, chunk.tools[1].delta)
      ELSE [adapter |-> b, events |-> <<>>]

\* finish: the open block is closed, then the message.
MessagesFinish(a) ==
  CloseOpenBlock(a)
  \o <<MessageDelta(StopReason(a.finish_reason, a.saw_tool_call), a.usage), MessageStop>>

\* chat_to_messages, of which the stop reason and the text are of interest.
BufferedStopReason(message) == StopReason(message.finish, DOMAIN message.calls # {})
BufferedText(message) ==
  IF message.content # <<>> THEN message.content ELSE message.reasoning
=============================================================================
