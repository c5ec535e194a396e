------------------------------- MODULE MCRelay -------------------------------
(***************************************************************************)
(* Values of the constants of Relay for TLC: one payload for each thing a  *)
(* chunk may carry, and some that carry two.                               *)
(***************************************************************************)
EXTENDS Relay

Piece(i) == [index |-> i, args |-> TRUE]
Opens(i) == [index |-> i, args |-> FALSE]

MCPayloads ==
  { Chunk(TRUE, FALSE, <<>>, FALSE, "none"),
    Chunk(FALSE, TRUE, <<>>, FALSE, "none"),
    Chunk(FALSE, FALSE, <<Piece(0)>>, FALSE, "none"),
    Chunk(FALSE, FALSE, <<Piece(1)>>, FALSE, "none"),
    Chunk(TRUE, FALSE, <<Opens(0), Piece(1)>>, FALSE, "none"),
    Chunk(FALSE, FALSE, <<>>, TRUE, "length"),
    DoneMarker, ErrorEnvelope }

MCNoise == { [field |-> "comment"], [field |-> "other"],
             [field |-> "event", name |-> "ping"] }
=============================================================================
