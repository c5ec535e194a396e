------------------------------- MODULE MCLedger -------------------------------
(***************************************************************************)
(* Values of the constants of Ledger for TLC.                              *)
(***************************************************************************)
EXTENDS Ledger, TLC

CONSTANTS r1, r2
Symmetry == Permutations({r1, r2})
===============================================================================
