------------------------------ MODULE McpSession ------------------------------
(***************************************************************************)
(* The MCP server on standard input and output (mcp_server.py): one loop   *)
(* reads a message per line and answers at once, except that a tool call   *)
(* gets a thread of its own.  The tools that write print their progress,   *)
(* and standard output is the protocol, so they redirect the process's     *)
(* one sys.stdout while they work.                                         *)
(***************************************************************************)
EXTENDS Naturals, FiniteSets

CONSTANTS Ids,    \* requests a host may send, each once
          Write   \* the tools that write are allowed (mcp_allow_write_tools)

VARIABLES reading,  \* the loop: "reading", "joining", "dead" (it raised) or "ended"
          call,     \* what became of each request: its kind and how far it is
          out,      \* responses on the output, per request
          errors,   \* responses without an id
          stdout,   \* where sys.stdout points: "pipe" or "stderr"
          saved,    \* what each redirecting tool will put back
          chatter   \* a line of progress reached the protocol

vars == <<reading, call, out, errors, stdout, saved, chatter>>

Kinds == {"direct", "tool", "writer", "unknown"}
NotYet == [kind |-> "none", at |-> "unsent"]

TypeOK ==
  /\ reading \in {"reading", "joining", "dead", "ended"}
  /\ \A i \in Ids : /\ call[i].kind \in Kinds \cup {"none"}
                    /\ call[i].at \in {"unsent", "done", "lost", "working", "quiet", "told", "left"}
                    /\ out[i] \in Nat
  /\ stdout \in {"pipe", "stderr"} /\ saved \in [Ids -> {"pipe", "stderr"}]
  /\ chatter \in BOOLEAN /\ errors \in 0..2

Init ==
  /\ reading = "reading"
  /\ call = [i \in Ids |-> NotYet] /\ out = [i \in Ids |-> 0] /\ errors = 0
  /\ stdout = "pipe" /\ saved = [i \in Ids |-> "pipe"] /\ chatter = FALSE

\* A line that is not JSON, or not an object, is answered without an id.
Garbage ==
  /\ reading = "reading" /\ errors < 2
  /\ errors' = errors + 1
  /\ UNCHANGED <<reading, call, out, stdout, saved, chatter>>

\* initialize, ping, tools/list, an unknown method: answered by the loop.
Direct(i) ==
  /\ reading = "reading" /\ call[i] = NotYet
  /\ call' = [call EXCEPT ![i] = [kind |-> "direct", at |-> "done"]]
  /\ out' = [out EXCEPT ![i] = @ + 1]
  /\ UNCHANGED <<reading, errors, stdout, saved, chatter>>

\* params that are no object: initialize raises in the loop, which nothing
\* catches; a call raises in its thread.
ParamsOfNoObject(i, tool) ==
  /\ reading = "reading" /\ call[i] = NotYet
  /\ call' = [call EXCEPT ![i] = [kind |-> IF tool THEN "tool" ELSE "direct", at |-> "lost"]]
  /\ reading' = IF tool THEN reading ELSE "dead"
  /\ UNCHANGED <<out, errors, stdout, saved, chatter>>

ToolCall(i, kind) ==
  /\ reading = "reading" /\ call[i] = NotYet
  /\ call' = [call EXCEPT ![i] = [kind |-> kind, at |-> "working"]]
  /\ UNCHANGED <<reading, out, errors, stdout, saved, chatter>>

\* A writing tool that is not offered is an unknown tool.
Redirects(i) == call[i].kind = "writer" /\ Write

\* contextlib.redirect_stdout, which changes sys.stdout for every thread.
Redirect(i) ==
  /\ call[i].at = "working" /\ Redirects(i) /\ reading # "ended"
  /\ saved' = [saved EXCEPT ![i] = stdout]
  /\ stdout' = "stderr"
  /\ call' = [call EXCEPT ![i].at = "quiet"]
  /\ UNCHANGED <<reading, out, errors, chatter>>

Progress(i) ==
  /\ call[i].at = "quiet" /\ reading # "ended"
  /\ chatter' = (chatter \/ stdout = "pipe")
  /\ call' = [call EXCEPT ![i].at = "told"]
  /\ UNCHANGED <<reading, out, errors, stdout, saved>>

\* Mutant: nothing is put back.
LeavesIt(i) ==
  /\ call[i].at \in {"quiet", "told"} /\ reading # "ended"
  /\ call' = [call EXCEPT ![i].at = "left"]
  /\ UNCHANGED <<reading, out, errors, stdout, saved, chatter>>

PutBack(i) ==
  /\ call[i].at \in {"quiet", "told"} /\ reading # "ended"
  /\ stdout' = saved[i]
  /\ call' = [call EXCEPT ![i].at = "left"]
  /\ UNCHANGED <<reading, out, errors, saved, chatter>>

\* One write under a lock; a tool that raises is answered too.
\* Mutant: a tool that raises is not.
OnlyResults(raised) == ~raised
Answers(raised) == TRUE

Answer(i) ==
  /\ \/ call[i].at = "left"
     \/ call[i].at = "working" /\ ~Redirects(i)
  /\ reading # "ended"
  /\ \E raised \in BOOLEAN : out' = IF Answers(raised) THEN [out EXCEPT ![i] = @ + 1] ELSE out
  /\ call' = [call EXCEPT ![i].at = "done"]
  /\ UNCHANGED <<reading, errors, stdout, saved, chatter>>

\* The host closes its end; each thread is given five seconds, and what is not
\* answered by then ends with the process.
Close ==
  /\ reading = "reading" /\ reading' = "joining"
  /\ UNCHANGED <<call, out, errors, stdout, saved, chatter>>

End ==
  /\ reading \in {"joining", "dead"} /\ reading' = "ended"
  /\ UNCHANGED <<call, out, errors, stdout, saved, chatter>>

Next ==
  \/ Garbage \/ Close \/ End
  \/ \E i \in Ids :
       \/ Direct(i) \/ Redirect(i) \/ Progress(i) \/ PutBack(i) \/ Answer(i)
       \/ \E k \in {"tool", "writer", "unknown"} : ToolCall(i, k)
       \/ \E tool \in BOOLEAN : ParamsOfNoObject(i, tool)

\* Each call has a thread of its own.
Finish(i) == Redirect(i) \/ PutBack(i) \/ Answer(i)
Fairness == \A i \in Ids : WF_vars(Finish(i))
Spec == Init /\ [][Next]_vars /\ Fairness
-----------------------------------------------------------------------------
\* A call whose params are an object is answered, whatever the other calls do
\* meanwhile, unless the session ends first.
CallsAreAnswered ==
  \A i \in Ids : call[i].at = "working" ~> out[i] = 1 \/ reading = "ended"

\* Standard output is the protocol stream (mcp_server.py:486): while at most
\* one writing tool was called, none of its progress gets there, and the stream
\* is back in its place when it is over.
OneWriterStaysQuiet ==
  Cardinality({i \in Ids : Redirects(i)}) < 2 =>
    /\ ~chatter
    /\ (\A i \in Ids : call[i].at \notin {"quiet", "told"}) => stdout = "pipe"
===============================================================================
