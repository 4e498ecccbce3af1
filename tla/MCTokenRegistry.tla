--------------------------- MODULE MCTokenRegistry ---------------------------
(***************************************************************************)
(* Instances of TokenRegistry for TLC.                                     *)
(***************************************************************************)
EXTENDS TokenRegistry, TLC

CONSTANTS a1, a2

=============================================================================
