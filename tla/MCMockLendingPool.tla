-------------------------- MODULE MCMockLendingPool --------------------------
(***************************************************************************)
(* An instance of MockLendingPool for TLC, the registry included: nodes    *)
(* that sign late, disagree or signed for another deployment, two events   *)
(* of which one can be recorded for either of two tokens.                  *)
(***************************************************************************)
EXTENDS MockLendingPool, TLC

CONSTANTS e1, e2, t1, t2, alice, n1, n2, n3, here, elsewhere, c1, r1, r2

\* From the start: enough signatures for another deployment, two records of e2 that
\* are good here, and digests over e1 that are one signature short.
OneShort ==
  ({n1, n2} \X {RecordDigest(e1, t1, TRUE, 2, c1, elsewhere), ResolveDigest(e1, FALSE, elsewhere),
                 DiscrepancyDigest(e1, r1, elsewhere)})
  \cup ({n1, n2} \X {RecordDigest(e2, t1, FALSE, 1, c1, here), RecordDigest(e2, t2, FALSE, 1, c1, here)})
  \cup {<<n1, RecordDigest(e1, t1, FALSE, 1, c1, here)>>,
         <<n3, RecordDigest(e1, t1, TRUE, 2, c1, here)>>,
         <<n2, ResolveDigest(e1, TRUE, here)>>,
         <<n1, ResolveDigest(e1, FALSE, here)>>,
         <<n2, DiscrepancyDigest(e1, r1, here)>>,
         <<n1, DiscrepancyDigest(e1, r2, here)>>}

\* What the nodes sign later: n2 the same record as n3, where n1 has signed another
\* one, n3 an outcome of a challenge and a discrepancy.
DisagreeingNodes ==
  {<<n2, RecordDigest(e1, t1, TRUE, 2, c1, here)>>,
   <<n3, ResolveDigest(e1, TRUE, here)>>,
   <<n3, DiscrepancyDigest(e1, r1, here)>>}
=============================================================================
