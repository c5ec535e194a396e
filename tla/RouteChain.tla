------------------------------ MODULE RouteChain ------------------------------
(***************************************************************************)
(* What undo promises (model_switch.py, undo_switch): the routes a user    *)
(* went through are a chain; a switch makes it longer, an undo goes back   *)
(* to the one before, and nothing else happens to it.                      *)
(***************************************************************************)
EXTENDS Naturals, Sequences, SequencesExt

CONSTANTS Routes, Start
VARIABLE chain

Init == chain = <<Start>>
Switch(route) == chain' = Append(chain, route)
Undo == Len(chain) > 1 /\ chain' = Front(chain)

Next == (\E route \in Routes : Switch(route)) \/ Undo
Spec == Init /\ [][Next]_chain
===============================================================================
