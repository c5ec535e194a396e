------------------------------ MODULE SwapFormat ------------------------------
(***************************************************************************)
(* The check that a switch of the model leaves no mark on streamed answers *)
(* (swap_consistency.py): the validator of streams and the frame that ends *)
(* a stream which a switch cuts off.                                       *)
(*                                                                         *)
(* A stream is what the upstream sent up to now; at any point the switch   *)
(* may cut it off.                                                         *)
(***************************************************************************)
EXTENDS Naturals, Sequences, SequencesExt, FiniteSets

CONSTANTS
  MaxFrames     \* bound: frames of a stream

VARIABLES
  stream,       \* the frames sent
  cut           \* the switch has ended the stream

vars == <<stream, cut>>

Frame(delta, finish) == [kind |-> "frame", delta |-> delta, finish |-> finish]
Done == [kind |-> "done", delta |-> {}, finish |-> "none"]
Comment == [kind |-> "comment", delta |-> {}, finish |-> "none"]
Garbage == [kind |-> "garbage", delta |-> {}, finish |-> "none"]
\* A frame of the swap; its finish reason is one the validator knows.
Abort == Frame({}, "known")

Deltas == {{"role"}, {"content"}, {"role", "content"}, {}}
Frames == {Frame(delta, finish) : delta \in Deltas, finish \in {"none", "known"}}
          \cup {Frame({"content"}, "unknown"), Done, Comment, Garbage}

Init == stream = <<>> /\ cut = FALSE

Send(frame) ==
  /\ ~cut /\ Len(stream) < MaxFrames
  /\ stream' = Append(stream, frame)
  /\ UNCHANGED cut

\* abort_frame: a comment, an empty delta with its finish reason, the end.
Force ==
  /\ ~cut /\ Done \notin Range(stream)
  /\ stream' = stream \o <<Comment, Abort, Done>>
  /\ cut' = TRUE

Next == (\E frame \in Frames : Send(frame)) \/ Force
Spec == Init /\ [][Next]_vars

(***************************************************************************)
(* validate_stream_chunks: the errors, by rule.                            *)
(***************************************************************************)
Data(frames) ==
  FlattenSeq([k \in DOMAIN frames |->
                IF frames[k].kind = "comment" THEN <<>> ELSE <<frames[k]>>])

\* Mutant: the position is that of the last frame, [DONE] among them.
FinishAtEnd(data, at) == at = Len(data)

\* With [DONE] behind it, the last data chunk is the last frame but one.
FinishInPlace(data, at) == at = Len(data) - 1

Errors(frames) ==
  LET data == Data(frames)
      chunks == {k \in DOMAIN data : data[k].kind = "frame"}
      finishes == {k \in chunks : data[k].finish # "none"}
      last == CHOOSE k \in finishes : \A j \in finishes : j <= k
  IN  {error \in {"parse", "R1", "R2", "R3", "R4"} :
         CASE error = "parse" -> Garbage \in Range(data)
           [] error = "R1" -> \E k \in chunks \ {1} : "role" \in data[k].delta
           [] error = "R2" -> \E k \in chunks \ {1} :
                                ~data[k].delta \subseteq {"content", "tool_calls"}
           [] error = "R3" -> \/ \E k \in chunks : data[k].finish = "unknown"
                              \/ Cardinality(finishes) > 1
                              \/ finishes # {} /\ ~FinishInPlace(data, last)
           [] error = "R4" -> Cardinality({k \in DOMAIN data : data[k] = Done}) # 1}

\* A reader of the stream: comments apart, a first frame that may carry the
\* role, then content, at most one finish reason in the last frame, and [DONE]
\* behind it.
Readable(frames) ==
  LET data == Data(frames)
      body == Front(data)
  IN  /\ data # <<>> /\ Last(data) = Done
      /\ \A k \in DOMAIN body :
           /\ body[k].kind = "frame" /\ body[k].finish # "unknown"
           /\ body[k].finish # "none" => k = Len(body)
           /\ "role" \in body[k].delta => k = 1

\* Of streams that end with [DONE] the validator passes those a reader can
\* follow and no other, and a readable stream that is cut off before its finish
\* reason stays readable.
StreamGateIsExact ==
  stream # <<>> /\ Last(stream) = Done =>
    /\ Errors(stream) = {} <=> Readable(stream)
    /\ cut =>
         LET sent == SubSeq(stream, 1, Len(stream) - 3)
         IN  Readable(Append(sent, Done)) /\ (\A k \in DOMAIN sent : sent[k].finish = "none")
               => Errors(stream) = {}
===============================================================================
