------------------------------ MODULE WeiTotals ------------------------------
(***************************************************************************)
(* Sums of amounts of wei held under the keys of a mapping.  The sum is    *)
(* the number of coins when every wei under key x is a coin <<x, n>>: a    *)
(* cardinality, so that the facts about finite sets apply to it.           *)
(***************************************************************************)
EXTENDS Naturals, FiniteSets

Coins(f) == UNION {{x} \X (1..f[x]) : x \in DOMAIN f}

Total(f) == Cardinality(Coins(f))
=============================================================================
