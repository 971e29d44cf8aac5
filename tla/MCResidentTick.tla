--------------------------- MODULE MCResidentTick ---------------------------
(***************************************************************************)
(* A small instance of ResidentTick with its fairness.                     *)
(***************************************************************************)
EXTENDS ResidentTick
=============================================================================
