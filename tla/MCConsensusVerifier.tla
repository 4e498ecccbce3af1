------------------------ MODULE MCConsensusVerifier ------------------------
(***************************************************************************)
(* Instance for TLC: three nodes, an outsider, and signatures that cover   *)
(* every branch of recover_checked: well-formed ones with v in {0, 28},    *)
(* a signature of node A whose other recovery id yields an outsider, one   *)
(* the precompile cannot recover, and one of each format error.            *)
(***************************************************************************)
EXTENDS ConsensusVerifier, TLC

CONSTANTS NodeA, NodeB, NodeC, Outsider

MCAddress == {NodeA, NodeB, NodeC, Outsider}
MCExpected == {NodeA, NodeB, NodeC}

Sig(v, at27, at28) ==
  [len65 |-> TRUE, lowS |-> TRUE, v |-> v,
   ecrecover |-> (27 :> at27) @@ (28 :> at28)]

MCSignature ==
  {Sig(0, NodeA, Outsider), Sig(27, NodeA, Outsider), Sig(1, NodeA, Outsider),
   Sig(28, Outsider, NodeB), Sig(1, NodeA, NodeC),
   Sig(27, ZERO, ZERO),
   Sig(26, NodeA, NodeA), Sig(29, NodeA, NodeB),
   Sig(28, NodeA, Reverted),
   [Sig(27, NodeA, NodeB) EXCEPT !.len65 = FALSE],
   [Sig(27, NodeB, NodeB) EXCEPT !.lowS = FALSE]}
=============================================================================
