---------------------------- MODULE MockLendingPool ----------------------------
(***************************************************************************)
(* MockLendingPool.sol beside the registry it reads.  The pool never calls *)
(* a registry function that changes it; between any two of its calls the   *)
(* registry may take any of its own steps.                                 *)
(***************************************************************************)
EXTENDS GapwatchRegistryV2

CONSTANT MaxAmount   \* bound: the largest amount of a position

ASSUME AmountAssumption == MaxAmount \in Nat

VARIABLES positions, tokenLiquidationPaused

poolVars == <<positions, tokenLiquidationPaused>>

PoolInit ==
  /\ Init
  /\ positions = [a \in Account |-> [token |-> ZeroAddress, collateralAmount |-> 0]]
  /\ tokenLiquidationPaused = [t \in Token |-> FALSE]

\* A new position replaces the caller's previous one.
OpenPosition(a, t, amount) ==
  /\ positions' = [positions EXCEPT ![a] = [token |-> t, collateralAmount |-> amount]]
  /\ UNCHANGED <<tokenLiquidationPaused, vars>>

\* The registry's public mapping answers ZeroWord for a token without a record.
DiscrepancyFlagged_Any(t) ==   \* seeded fault: any verification will do
  latestVerificationForToken[t] # ZeroWord

DiscrepancyFlagged(t) ==
  /\ latestVerificationForToken[t] # ZeroWord
  /\ hasDiscrepancy[latestVerificationForToken[t]]

PauseLiquidation(t) ==
  /\ DiscrepancyFlagged(t)
  /\ tokenLiquidationPaused' = [tokenLiquidationPaused EXCEPT ![t] = TRUE]
  /\ UNCHANGED <<positions, vars>>

PausedToken(t) == t \in Token /\ tokenLiquidationPaused[t]

CheckLiquidatable(a) ==
  /\ ~PausedToken(positions[a].token)
  /\ positions[a].collateralAmount > 0

PoolStep ==
  \/ \E a \in Account, t \in Token \cup {ZeroAddress}, amount \in 0..MaxAmount :
       OpenPosition(a, t, amount)
  \/ \E t \in Token : PauseLiquidation(t)

PoolNext == PoolStep \/ (Next /\ UNCHANGED poolVars)

PoolSpec == PoolInit /\ [][PoolNext]_<<vars, poolVars>>

-----------------------------------------------------------------------------

PoolTypeOK ==
  /\ positions \in [Account -> [token : Token \cup {ZeroAddress}, collateralAmount : 0..MaxAmount]]
  /\ tokenLiquidationPaused \in [Token -> BOOLEAN]

\* A token's liquidations are paused only on the word of two nodes: there is for
\* ever a record of this very token that is flagged and whose discrepancy was
\* signed for this registry, whatever has been recorded since (lines 70-77).
PauseHasEvidence ==
  \A t \in Token :
    tokenLiquidationPaused[t] =>
      \E e \in EventHash :
        /\ Recorded(e) /\ verifications[e].token = t
        /\ hasDiscrepancy[e]
        /\ \E r \in Reason : ConsensusReached(DiscrepancyDigest(e, r, This))
=============================================================================
