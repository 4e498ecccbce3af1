-------------------------- MODULE ConsensusVerifier --------------------------
(***************************************************************************)
(* The M-of-N consensus verifier behind GapwatchRegistryV2: the loop of    *)
(* verify_consensus in contracts-stylus/src/lib.rs (production), and the   *)
(* Solidity ConsensusVerifierMock that every Foundry test puts in its      *)
(* place.  One behaviour is one call: the caller hands in a list of        *)
(* signatures over one message hash, the loop examines them one by one     *)
(* and the call either reverts or answers (passed, valid_count, signers).  *)
(*                                                                         *)
(* A signature is abstracted to what the loop can tell apart: whether it   *)
(* is 65 bytes long, whether s is in the lower half of the curve order,    *)
(* its recovery byte v, and what the ECRECOVER precompile answers for each *)
(* of the two recovery ids.                                                *)
(***************************************************************************)
EXTENDS Integers, Sequences, FiniteSets

CONSTANTS
  Address,           \* every address a signature may recover to
  ZERO,              \* Address::ZERO, the answer for "no signer recovered"
  expected_signers,  \* the caller's node set
  threshold,         \* votes needed to pass
  Signature,         \* the signatures a caller can submit
  MaxSigs            \* bound: the longest list a caller submits

Reverted == "EcrecoverCallReverted"

SignatureType ==
  [len65     : BOOLEAN,
   lowS      : BOOLEAN,
   v         : 0..255,
   ecrecover : [{27, 28} -> Address \cup {ZERO, Reverted}]]

ASSUME ConstantsAssumption ==
  /\ IsFiniteSet(expected_signers)
  /\ expected_signers \subseteq Address
  /\ Reverted \notin Address \cup {ZERO}
  /\ threshold \in Nat
  /\ Signature \subseteq SignatureType
  /\ MaxSigs \in Nat

VARIABLES
  signatures,  \* the list submitted
  i,           \* position of the next signature to examine
  seen,        \* signers counted so far, in order of first appearance
  result       \* outcome of the call, [kind |-> "running"] until it ends

vars == <<signatures, i, seen, result>>

-----------------------------------------------------------------------------
(* One signature: recover_checked *)

NormalV(sig) == IF sig.v < 27 THEN sig.v + 27 ELSE sig.v

Failure_HighSAllowed(sig) ==   \* seeded fault: the malleability guard is gone
  IF ~sig.len65 THEN "InvalidSignatureLength"
  ELSE IF NormalV(sig) \notin {27, 28} THEN "InvalidSignatureV"
  ELSE IF sig.ecrecover[NormalV(sig)] = Reverted THEN Reverted
  ELSE "none"

\* What ends the whole call with an error; the checks run in this order.
Failure(sig) ==
  IF ~sig.len65 THEN "InvalidSignatureLength"
  ELSE IF ~sig.lowS THEN "InvalidSignatureS"
  ELSE IF NormalV(sig) \notin {27, 28} THEN "InvalidSignatureV"
  ELSE IF sig.ecrecover[NormalV(sig)] = Reverted THEN Reverted
  ELSE "none"

Fails(sig) == Failure(sig) # "none"

Recovered(sig) == sig.ecrecover[NormalV(sig)]

IsVote(sig) == Recovered(sig) # ZERO /\ Recovered(sig) \in expected_signers

-----------------------------------------------------------------------------
(* The call: verify_consensus *)

Running == [kind |-> "running"]

Init ==
  /\ signatures \in UNION {[1..n -> Signature] : n \in 0..MaxSigs}
  /\ i = 1
  /\ seen = <<>>
  /\ result = Running

InLoop == result = Running /\ i <= Len(signatures)

RevertCall ==
  /\ InLoop
  /\ Fails(signatures[i])
  /\ result' = [kind |-> "revert", error |-> Failure(signatures[i])]
  /\ UNCHANGED <<signatures, i, seen>>

SkipSignature ==
  /\ InLoop
  /\ ~Fails(signatures[i])
  /\ ~IsVote(signatures[i])
  /\ i' = i + 1
  /\ UNCHANGED <<signatures, seen, result>>

AlreadySeen_Never(a) == FALSE   \* seeded fault: no deduplication

AlreadySeen(a) == \E j \in DOMAIN seen : seen[j] = a

CountVote ==
  /\ InLoop
  /\ ~Fails(signatures[i])
  /\ IsVote(signatures[i])
  /\ LET a == Recovered(signatures[i])
     IN  seen' = IF AlreadySeen(a) THEN seen ELSE Append(seen, a)
  /\ i' = i + 1
  /\ UNCHANGED <<signatures, result>>

Answer ==
  /\ result = Running
  /\ i > Len(signatures)
  /\ result' = [kind   |-> "ok",
                passed |-> Len(seen) >= threshold,
                count  |-> Len(seen),
                signers |-> seen]
  /\ UNCHANGED <<signatures, i, seen>>

Next == RevertCall \/ SkipSignature \/ CountVote \/ Answer

Spec == Init /\ [][Next]_vars

-----------------------------------------------------------------------------
(* ConsensusVerifierMock: the same call as the Foundry tests run it, with a *)
(* preallocated array and a counter.                                        *)

\* _recoverChecked: Solidity's ecrecover never reverts.
MockFailure(sig) ==
  IF ~sig.len65 THEN "InvalidSignatureLength"
  ELSE IF ~sig.lowS THEN "InvalidSignatureS"
  ELSE IF NormalV(sig) \notin {27, 28} THEN "InvalidSignatureV"
  ELSE "none"

MockRecovered(sig) ==
  IF sig.ecrecover[NormalV(sig)] = Reverted THEN ZERO ELSE sig.ecrecover[NormalV(sig)]

MockContains_OffByOne(arr, count, a) ==   \* seeded fault: the last entry is not compared
  \E j \in 1..(count - 1) : arr[j] = a

MockContains(arr, count, a) == \E j \in 1..count : arr[j] = a

MockCount(m, a) ==
  IF a = ZERO \/ a \notin expected_signers \/ MockContains(m.arr, m.count, a) THEN m
  ELSE [arr |-> [m.arr EXCEPT ![m.count + 1] = a], count |-> m.count + 1, error |-> m.error]

\* One turn of the loop; a revert ends it, and nothing follows.
MockTurn(m, sig) ==
  IF m.error # "none" THEN m
  ELSE IF MockFailure(sig) # "none" THEN [m EXCEPT !.error = MockFailure(sig)]
  ELSE MockCount(m, MockRecovered(sig))

\* The loop's locals after each turn.
MockLoop(sigs) ==
  LET turn[k \in 0..Len(sigs)] ==
        IF k = 0
        THEN [arr |-> [j \in 1..Len(sigs) |-> ZERO], count |-> 0, error |-> "none"]
        ELSE MockTurn(turn[k - 1], sigs[k])
  IN  turn

MockVerify(sigs) ==
  LET last == MockLoop(sigs)[Len(sigs)]
  IN  IF last.error # "none"
      THEN [kind |-> "revert", error |-> last.error]
      ELSE [kind   |-> "ok",
            passed |-> last.count >= threshold,
            count  |-> last.count,
            signers |-> [j \in 1..last.count |-> last.arr[j]]]

-----------------------------------------------------------------------------
(* Properties *)

\* The nodes that signed: a set, so neither order nor repetition matters.
Voters(sigs) == {Recovered(sigs[j]) : j \in {k \in DOMAIN sigs : IsVote(sigs[k])}}

\* The loop's answer is the set definition's: it passes exactly when the number
\* of different expected nodes that signed reaches the threshold, however the
\* signatures are ordered, repeated or mixed with outsiders' (lib.rs 137-155).
AnswerCountsDistinctNodes ==
  result.kind = "ok" =>
    /\ result.count = Cardinality(Voters(signatures))
    /\ result.passed <=> Cardinality(Voters(signatures)) >= threshold
    /\ {result.signers[j] : j \in DOMAIN result.signers} = Voters(signatures)

\* A signature the call may not carry: only 65 bytes, a low s and a recovery
\* byte of 0, 1, 27 or 28 are well formed.
Malformed(sig) == ~sig.len65 \/ ~sig.lowS \/ sig.v \notin {0, 1, 27, 28}

\* One malformed signature anywhere in the list reverts the call, even when the
\* others alone reach the threshold, and only that or a failing precompile does
\* (lib.rs 74-110, 140).
RevertsExactlyOnMalformed ==
  /\ result.kind = "ok" => \A j \in DOMAIN signatures : ~Malformed(signatures[j])
  /\ result.kind = "revert" /\ result.error # Reverted =>
       \E j \in DOMAIN signatures : Malformed(signatures[j])

\* The mock the contract tests run with and the Stylus contract in production
\* end alike, in the error or in the signers and their order (lib.rs 22-24).
\* Only a precompile call that fails is not in the mock's reach.
MockAgrees ==
  result # Running /\ (result.kind = "revert" => result.error # Reverted)
    => result = MockVerify(signatures)
=============================================================================
