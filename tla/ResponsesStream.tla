--------------------------- MODULE ResponsesStream ---------------------------
(***************************************************************************)
(* The Responses stream adapter of responses.py: chat chunks in, Responses *)
(* events out.  Ids, names and sequence numbers are left out; an item is   *)
(* the message or the tool call of a chat index.                           *)
(***************************************************************************)
EXTENDS StreamEvents, Integers, SequencesExt

\* text, text_started, calls and usage of the dataclass.
ResponsesStart == [text |-> <<>>, text_started |-> FALSE, calls |-> <<>>, usage |-> 0]

Message == <<"message">>
Call(index) == <<"call", index>>

Created == [type |-> "response.created"]
ItemAdded(item, output_index) ==
  [type |-> "output_item.added", item |-> item, output_index |-> output_index]
Delta(item, output_index, delta) ==
  [type |-> "delta", item |-> item, output_index |-> output_index, delta |-> delta]
ContentDone(item, output_index, content) ==
  [type |-> "content.done", item |-> item, output_index |-> output_index, content |-> content]
ItemDone(item, output_index, content) ==
  [type |-> "output_item.done", item |-> item, output_index |-> output_index, content |-> content]
Completed(output, usage) ==
  [type |-> "response.completed", output |-> output, usage |-> usage]

\* Mutant: the message is announced for every delta.
AnnouncesAlways(a) == TRUE

\* Only the first text announces the message.
Announces(a) == ~a.text_started

\* feed, the text of a chunk.  The message always claims output index 0.
ResponsesText(a, delta) ==
  [adapter |-> [a EXCEPT !.text = @ \o delta, !.text_started = TRUE],
   events  |-> If(Announces(a), ItemAdded(Message, 0))
               \o <<Delta(Message, 0, delta)>>]

\* feed, one piece of a tool call.  A new call comes after the message, if
\* that has begun, and the calls before it.
ResponsesTool(a, index, delta) ==
  LET new  == index \notin DOMAIN a.calls
      call == IF new
              THEN [arguments |-> <<>>,
                    output_index |-> (IF a.text_started THEN 1 ELSE 0)
                                       + Cardinality(DOMAIN a.calls)]
              ELSE a.calls[index]
  IN  [adapter |-> [a EXCEPT !.calls =
                      Put(@, index, [call EXCEPT !.arguments = @ \o delta])],
       events  |-> If(new, ItemAdded(Call(index), call.output_index))
                   \o If(delta # <<>>, Delta(Call(index), call.output_index, delta))]

ResponsesFeed(a, chunk) ==
  LET b == [a EXCEPT !.usage = IF chunk.usage = 0 THEN @ ELSE chunk.usage]
  IN  IF chunk.text # <<>> THEN ResponsesText(b, chunk.text)
      ELSE IF chunk.tools # <<>>
      THEN ResponsesTool(b, chunk.tools[1].index, chunk.tools[1].delta)
      ELSE [adapter |-> b, events |-> <<>>]

\* The indices of a set one after the other.
InOrder(indices) ==
  CHOOSE order \in [1..Cardinality(indices) -> indices] :
    \A j, k \in 1..Cardinality(indices) : j < k => order[j] < order[k]

\* The calls by chat index.
CallItems(calls) ==
  LET order == InOrder(DOMAIN calls)
  IN  [k \in 1..Cardinality(DOMAIN calls) |->
         [item |-> Call(order[k]), content |-> calls[order[k]].arguments]]

\* Mutant: the message comes last.
OutputTextLast(a) ==
  CallItems(a.calls) \o If(a.text_started, [item |-> Message, content |-> a.text])

\* The finished items: the message first.
Output(a) ==
  If(a.text_started, [item |-> Message, content |-> a.text]) \o CallItems(a.calls)

\* finish: every item is closed, then the response.
ResponsesFinish(a) ==
  LET output   == Output(a)
      at(item) == IF item = Message THEN 0 ELSE a.calls[item[2]].output_index
      closing  == [k \in 1..2 * Len(output) |->
                     LET done == output[(k + 1) \div 2]
                     IN  IF k % 2 = 1
                         THEN ContentDone(done.item, at(done.item), done.content)
                         ELSE ItemDone(done.item, at(done.item), done.content)]
  IN  closing \o <<Completed(output, a.usage)>>

\* chat_to_response: what a client that does not stream gets for an answer.
BufferedResponse(answer) ==
  LET text == IF answer.content # <<>> THEN answer.content ELSE answer.reasoning
  IN  If(text # <<>>, [item |-> Message, content |-> text])
      \o CallItems([i \in DOMAIN answer.calls |-> [arguments |-> answer.calls[i]]])
=============================================================================
