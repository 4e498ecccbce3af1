-------------------------- MODULE MCGapwatchRegistry --------------------------
(***************************************************************************)
(* An instance of GapwatchRegistry for TLC.                                *)
(***************************************************************************)
EXTENDS GapwatchRegistry, TLC

CONSTANTS e1, e2, t1, alice, bob, c1
=============================================================================
