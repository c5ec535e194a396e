----------------------------- MODULE RouteSwitch -----------------------------
(***************************************************************************)
(* Changing the route in a sentence, with confirmation, a trace of every   *)
(* attempt and undo (model_switch.py with RouteObservatory of              *)
(* route_obs.py).                                                          *)
(***************************************************************************)
EXTENDS Naturals, Sequences, SequencesExt

CONSTANTS
  Routes,      \* route ids
  Start,       \* the route in use at the start
  MaxSwitches  \* bound: attempted switches and undos

VARIABLES
  route,       \* the route in use
  offer,       \* what echo_confirm has shown to the user
  stack,       \* SwitchHistory.stack
  traces       \* RouteObservatory.traces

vars == <<route, offer, stack, traces>>

None == "none"
NoOffer == [action |-> None, target |-> None, confirmed |-> FALSE]

Init ==
  /\ route = Start /\ offer = NoOffer /\ stack = <<>> /\ traces = <<>>

\* A sentence that asks for a change is echoed, never confirmed by itself;
\* status questions and sentences that are not understood change nothing.
Echo(action, target) ==
  /\ offer' = [action |-> action, confirmed |-> FALSE,
               target |-> IF action = "switch" THEN target ELSE None]
  /\ UNCHANGED <<route, stack, traces>>

Confirm ==
  /\ offer.action # None /\ ~offer.confirmed
  /\ offer' = [offer EXCEPT !.confirmed = TRUE]
  /\ UNCHANGED <<route, stack, traces>>

Trace(target, status, kind) ==
  [from |-> route, to |-> target, status |-> status, kind |-> kind]

Entry(target, kind) == [from |-> route, to |-> target, kind |-> kind]

\* switch_fn raises: a trace of the failure, of an undo like that of a switch, no
\* history.
Failed(target) ==
  /\ traces' = Append(traces, Trace(target, "failed", "switch"))
  /\ UNCHANGED route

\* execute of a confirmed switch.
Switch ==
  /\ offer.confirmed /\ offer.action = "switch"
  /\ Len(traces) < MaxSwitches
  /\ \/ /\ route' = offer.target
        /\ traces' = Append(traces, Trace(offer.target, "ok", "switch"))
        /\ stack' = Append(stack, Entry(offer.target, "switch"))
     \/ Failed(offer.target) /\ UNCHANGED stack
  /\ offer' = NoOffer

\* Mutant: the entries of earlier undos stay.
WithUndone == stack

\* The history without the undone entries at its end.
WithoutUndone ==
  LET live == {k \in DOMAIN stack : stack[k].kind # "rollback"}
      last == IF live = {} THEN 0 ELSE CHOOSE k \in live : \A j \in live : j <= k
  IN  SubSeq(stack, 1, last)

\* undo_switch, which runs the way back through execute and marks both
\* entries; entries that are dropped first stay dropped when it fails.
Undo ==
  /\ offer.confirmed /\ offer.action = "rollback"
  /\ stack # <<>> /\ Len(traces) < MaxSwitches
  /\ LET history == WithoutUndone
         target  == Last(history).from
     IN  IF history = <<>>
         THEN stack' = history /\ UNCHANGED <<route, traces>>
         ELSE \/ /\ stack' = Append(Front(history) \o
                                <<[Last(history) EXCEPT !.kind = "rollback"]>>,
                                Entry(target, "rollback"))
                 /\ route' = target
                 /\ traces' = Append(traces, Trace(target, "ok", "rollback"))
              \/ Failed(target) /\ stack' = history
  /\ offer' = NoOffer

Next ==
  \/ \E target \in Routes : Echo("switch", target)
  \/ Echo("rollback", None)
  \/ Confirm \/ Switch \/ Undo

Spec == Init /\ [][Next]_vars

TypeOK ==
  /\ route \in Routes /\ offer.target \in Routes \cup {None}
  /\ \A k \in DOMAIN stack : stack[k].kind \in {"switch", "rollback"}

\* The traces of the moves that went well, undos among them, lead from the
\* first route to the one in use: nothing moves the route without a trace.
Good == FlattenSeq([k \in DOMAIN traces |->
                      IF traces[k].status = "ok" THEN <<traces[k]>> ELSE <<>>])
TracesTellTheRoute ==
  /\ Good # <<>> => Good[1].from = Start /\ Last(Good).to = route
  /\ Good = <<>> => route = Start
  /\ \A k \in 1..(Len(Good) - 1) : Good[k].to = Good[k + 1].from

\* The routes left by the switches that no undo took back.
Left == FlattenSeq([k \in DOMAIN stack |->
                      IF stack[k].kind # "rollback" THEN <<stack[k].from>> ELSE <<>>])
Chain == INSTANCE RouteChain WITH chain <- Append(Left, route)

\* However switches, undos and failed attempts of both follow each other, undo
\* goes back through the routes in the order in which they were left, and the
\* observatory's traces can be followed to the route in use.
UndoWalksBack == Chain!Spec /\ []TracesTellTheRoute
===============================================================================
