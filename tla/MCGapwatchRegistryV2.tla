------------------------ MODULE MCGapwatchRegistryV2 ------------------------
(***************************************************************************)
(* Instances of GapwatchRegistryV2 for TLC.                                *)
(***************************************************************************)
EXTENDS GapwatchRegistryV2, TLC

CONSTANTS e1, e2, t1, alice, bob, n1, n2, n3, here, c1

\* Every record and every outcome of a challenge is signed from the start: any
\* of them can be submitted, in any order.  Discrepancies move no money and are
\* left to the instance with the pool: Reason is empty here.
AllSigned == {n1, n2} \X Digest

Nothing == {}
=============================================================================
