----------------------- MODULE ConsensusVerifier_proofs -----------------------
(***************************************************************************)
(* Theorems about the verifier's loop, for any node set, any threshold and *)
(* signature lists of any length.                                          *)
(***************************************************************************)
EXTENDS ConsensusVerifier, FiniteSetTheorems, WellFoundedInduction, TLAPS

SeenSet == {seen[j] : j \in DOMAIN seen}

VotersUpTo(k) == {Recovered(signatures[j]) : j \in {n \in 1..k : IsVote(signatures[n])}}

\* The loop invariant: after i - 1 signatures, none of which failed, seen lists
\* their voters without repetition.
LoopInv ==
  /\ signatures \in Seq(Signature)
  /\ i \in 1..(Len(signatures) + 1)
  /\ seen \in Seq(Address)
  /\ \A j \in 1..(i - 1) : ~Fails(signatures[j])
  /\ SeenSet = VotersUpTo(i - 1)
  /\ IsFiniteSet(SeenSet)
  /\ Cardinality(SeenSet) = Len(seen)

\* How the call ended, if it did.
ResultInv ==
  \/ result = Running
  \/ /\ i \in 1..Len(signatures) /\ Fails(signatures[i])
     /\ result = [kind |-> "revert", error |-> Failure(signatures[i])]
  \/ /\ i = Len(signatures) + 1
     /\ result = [kind |-> "ok", passed |-> Len(seen) >= threshold,
                  count |-> Len(seen), signers |-> seen]

IInv == LoopInv /\ ResultInv

LEMMA InitIInv == Init => IInv
<1> SUFFICES ASSUME Init
             PROVE  IInv
  OBVIOUS
<1>1. signatures \in Seq(Signature)
  BY ConstantsAssumption DEF Init
<1>2. SeenSet = {} /\ VotersUpTo(0) = {} /\ Len(seen) = 0 /\ seen \in Seq(Address)
  BY DEF Init, SeenSet, VotersUpTo
<1>3. i = 1 /\ result = Running
  BY DEF Init
<1> QED
  BY <1>1, <1>2, <1>3, FS_EmptySet DEF IInv, LoopInv, ResultInv

\* One more signature adds its signer to the voters, or nobody.
LEMMA VotersStep ==
  ASSUME LoopInv, i <= Len(signatures)
  PROVE  VotersUpTo(i) = IF IsVote(signatures[i])
                         THEN VotersUpTo(i - 1) \cup {Recovered(signatures[i])}
                         ELSE VotersUpTo(i - 1)
<1>1. 1..i = (1..(i - 1)) \cup {i}
  BY DEF LoopInv
<1> QED
  BY <1>1 DEF VotersUpTo

LEMMA SkipKeeps ==
  ASSUME IInv, SkipSignature
  PROVE  IInv'
<1>1. i \in 1..Len(signatures) /\ result = Running
  BY DEF IInv, LoopInv, SkipSignature, InLoop
<1>2. VotersUpTo(i) = VotersUpTo(i - 1)
  BY <1>1, VotersStep DEF IInv, SkipSignature
<1>3. VotersUpTo(i - 1)' = VotersUpTo(i) /\ SeenSet' = SeenSet
  BY <1>1 DEF SkipSignature, VotersUpTo, SeenSet
<1>4. \A j \in 1..(i' - 1) : ~Fails(signatures[j])
  BY <1>1 DEF IInv, LoopInv, SkipSignature
<1>5. LoopInv'
  BY <1>1, <1>2, <1>3, <1>4 DEF IInv, LoopInv, SkipSignature
<1>6. ResultInv'
  BY <1>1 DEF ResultInv, SkipSignature
<1> QED
  BY <1>5, <1>6 DEF IInv

LEMMA CountKeeps ==
  ASSUME IInv, CountVote
  PROVE  IInv'
<1> DEFINE a == Recovered(signatures[i])
<1>1. i \in 1..Len(signatures) /\ result = Running
  BY DEF IInv, LoopInv, CountVote, InLoop
<1>2. VotersUpTo(i) = VotersUpTo(i - 1) \cup {a}
  BY <1>1, VotersStep DEF IInv, CountVote
<1>3. VotersUpTo(i - 1)' = VotersUpTo(i)
  BY <1>1 DEF CountVote, VotersUpTo
<1>4. a \in Address
  BY ConstantsAssumption DEF CountVote, IsVote
<1>5. AlreadySeen(a) <=> a \in SeenSet
  BY DEF AlreadySeen, SeenSet
<1>6. /\ seen' \in Seq(Address)
      /\ SeenSet' = SeenSet \cup {a}
      /\ IsFiniteSet(SeenSet') /\ Cardinality(SeenSet') = Len(seen')
  <2>1. CASE a \in SeenSet
    <3>1. seen' = seen
      BY <1>5, <2>1 DEF CountVote
    <3> QED
      BY <2>1, <3>1 DEF IInv, LoopInv, SeenSet
  <2>2. CASE a \notin SeenSet
    <3>1. seen' = Append(seen, a)
      BY <1>5, <2>2 DEF CountVote
    <3>2. seen \in Seq(Address)
      BY DEF IInv, LoopInv
    <3>3. /\ seen' \in Seq(Address)
          /\ Len(seen') = Len(seen) + 1
          /\ DOMAIN seen' = (DOMAIN seen) \cup {Len(seen) + 1}
          /\ seen'[Len(seen) + 1] = a
          /\ \A j \in DOMAIN seen : seen'[j] = seen[j]
      BY <1>4, <3>1, <3>2
    <3>4. SeenSet' = SeenSet \cup {a}
      <4>1. SeenSet' = {seen'[j] : j \in (DOMAIN seen) \cup {Len(seen) + 1}}
        BY <3>3 DEF SeenSet
      <4> QED
        BY <3>3, <4>1 DEF SeenSet
    <3>5. IsFiniteSet(SeenSet \cup {a}) /\ Cardinality(SeenSet \cup {a}) = Cardinality(SeenSet) + 1
      BY <2>2, FS_AddElement DEF IInv, LoopInv
    <3> QED
      BY <3>3, <3>4, <3>5 DEF IInv, LoopInv
  <2> QED
    BY <2>1, <2>2
<1>7. \A j \in 1..(i' - 1) : ~Fails(signatures[j])
  BY <1>1 DEF IInv, LoopInv, CountVote
<1>8. i' - 1 = i /\ i' \in 1..(Len(signatures) + 1) /\ signatures' = signatures
  BY <1>1 DEF CountVote
<1>9. SeenSet' = VotersUpTo(i - 1)'
  BY <1>2, <1>3, <1>6 DEF IInv, LoopInv
<1>10. LoopInv'
  BY <1>6, <1>7, <1>8, <1>9 DEF IInv, LoopInv
<1>11. ResultInv'
  BY <1>1 DEF ResultInv, CountVote
<1> QED
  BY <1>10, <1>11 DEF IInv

LEMMA EndKeeps ==
  ASSUME IInv, RevertCall \/ Answer \/ UNCHANGED vars
  PROVE  IInv'
<1>1. UNCHANGED <<signatures, i, seen>>
  BY DEF RevertCall, Answer, vars
<1>2. LoopInv'
  BY <1>1 DEF IInv, LoopInv, SeenSet, VotersUpTo
<1>3. ResultInv'
  <2>1. CASE RevertCall
    BY <1>1, <2>1 DEF IInv, LoopInv, ResultInv, RevertCall, InLoop
  <2>2. CASE Answer
    BY <1>1, <2>2 DEF IInv, LoopInv, ResultInv, Answer
  <2>3. CASE UNCHANGED vars
    BY <1>1, <2>3 DEF IInv, ResultInv, vars
  <2> QED
    BY <2>1, <2>2, <2>3
<1> QED
  BY <1>2, <1>3 DEF IInv

LEMMA InductiveInvariant == Spec => []IInv
<1>1. IInv /\ [Next]_vars => IInv'
  BY SkipKeeps, CountKeeps, EndKeeps DEF Next
<1> QED
  BY <1>1, InitIInv, PTL DEF Spec

\* The loop's answer is the set definition's, for lists of any length.
THEOREM AnswerIsVoterCount == Spec => []AnswerCountsDistinctNodes
<1>1. IInv => AnswerCountsDistinctNodes
  <2> SUFFICES ASSUME IInv, result.kind = "ok"
               PROVE  /\ result.count = Cardinality(Voters(signatures))
                      /\ result.passed <=> Cardinality(Voters(signatures)) >= threshold
                      /\ {result.signers[j] : j \in DOMAIN result.signers} = Voters(signatures)
    BY DEF AnswerCountsDistinctNodes
  <2>1. /\ i = Len(signatures) + 1
        /\ result = [kind |-> "ok", passed |-> Len(seen) >= threshold,
                     count |-> Len(seen), signers |-> seen]
    BY DEF IInv, ResultInv, Running
  <2>2. i - 1 = Len(signatures) /\ DOMAIN signatures = 1..Len(signatures)
    BY <2>1 DEF IInv, LoopInv
  <2>3. Voters(signatures) = SeenSet
    BY <2>2 DEF IInv, LoopInv, Voters, VotersUpTo
  <2> QED
    BY <2>1, <2>3 DEF IInv, LoopInv, SeenSet
<1> QED
  BY <1>1, InductiveInvariant, PTL

\* The call reverts when, and only when, a signature is malformed or the
\* precompile fails, wherever in the list it stands.
THEOREM RevertsOnMalformed == Spec => []RevertsExactlyOnMalformed
<1>1. IInv => RevertsExactlyOnMalformed
  <2> SUFFICES ASSUME IInv
               PROVE  RevertsExactlyOnMalformed
    OBVIOUS
  <2>1. DOMAIN signatures = 1..Len(signatures) /\ Len(signatures) \in Nat
    BY DEF IInv, LoopInv
  <2>2. \A j \in DOMAIN signatures : signatures[j] \in SignatureType
    BY ConstantsAssumption DEF IInv, LoopInv
  <2>3. ASSUME NEW j \in DOMAIN signatures, ~Fails(signatures[j])
        PROVE  ~Malformed(signatures[j])
    BY <2>2, <2>3 DEF Fails, Failure, Malformed, NormalV, SignatureType
  <2>4. ASSUME NEW j \in DOMAIN signatures, Fails(signatures[j]), Failure(signatures[j]) # Reverted
        PROVE  Malformed(signatures[j])
    BY <2>2, <2>4 DEF Fails, Failure, Malformed, NormalV, SignatureType
  <2>5. CASE result.kind = "ok"
    BY <2>1, <2>3, <2>5 DEF IInv, LoopInv, ResultInv, Running, RevertsExactlyOnMalformed
  <2>6. CASE result.kind = "revert"
    BY <2>1, <2>4, <2>6 DEF IInv, ResultInv, Running, RevertsExactlyOnMalformed
  <2> QED
    BY <2>5, <2>6 DEF RevertsExactlyOnMalformed
<1> QED
  BY <1>1, InductiveInvariant, PTL

-----------------------------------------------------------------------------
(* What the registry takes of a call *)

\* The caller holds signatures of no other nodes than those of S.
OnlySignedBy(S) == Voters(signatures) \subseteq S

\* The caller has submitted a signature of every node of S.
SubmittedFor(S) == S \subseteq Voters(signatures)

\* GapwatchRegistryV2 lets a call through when the set of nodes that have signed
\* its digest reaches the threshold (ConsensusReached), and knows no lists. That
\* is what the verifier decides: no list made of the signatures of fewer nodes
\* passes, and a list with a signature of each of enough nodes does, whatever
\* else it carries, unless it reverts (lib.rs 137-155, V2's verifyConsensus calls).
QuorumRule ==
  result.kind = "ok" =>
    \A S \in SUBSET expected_signers :
      /\ OnlySignedBy(S) /\ result.passed => Cardinality(S) >= threshold
      /\ SubmittedFor(S) /\ Cardinality(S) >= threshold => result.passed

\* A set of nodes passes exactly when it is a quorum, whatever list is made of its
\* signatures: the registry's ConsensusReached is what the verifier computes.
THEOREM QuorumDecides == Spec => []QuorumRule
<1>1. AnswerCountsDistinctNodes => QuorumRule
  <2> SUFFICES ASSUME AnswerCountsDistinctNodes, result.kind = "ok",
                      NEW S \in SUBSET expected_signers
               PROVE  /\ OnlySignedBy(S) /\ result.passed => Cardinality(S) >= threshold
                      /\ SubmittedFor(S) /\ Cardinality(S) >= threshold => result.passed
    BY DEF QuorumRule
  <2>1. Voters(signatures) \subseteq expected_signers
    BY DEF Voters, IsVote
  <2>2. IsFiniteSet(S) /\ IsFiniteSet(Voters(signatures))
    BY <2>1, ConstantsAssumption, FS_Subset
  <2>3. /\ Cardinality(S) \in Nat
        /\ Cardinality(Voters(signatures)) \in Nat
        /\ threshold \in Nat
    BY <2>2, FS_CardinalityType, ConstantsAssumption
  <2>4. result.passed <=> Cardinality(Voters(signatures)) >= threshold
    BY DEF AnswerCountsDistinctNodes
  <2>5. OnlySignedBy(S) => Cardinality(Voters(signatures)) <= Cardinality(S)
    BY <2>2, FS_Subset DEF OnlySignedBy
  <2>6. SubmittedFor(S) => Cardinality(S) <= Cardinality(Voters(signatures))
    BY <2>2, FS_Subset DEF SubmittedFor
  <2>7. ASSUME OnlySignedBy(S), result.passed
        PROVE  Cardinality(S) >= threshold
    BY <2>3, <2>4, <2>5, <2>7
  <2>8. ASSUME SubmittedFor(S), Cardinality(S) >= threshold
        PROVE  Cardinality(Voters(signatures)) >= threshold
    BY <2>3, <2>6, <2>8
  <2> QED
    BY <2>4, <2>7, <2>8
<1> QED
  BY <1>1, AnswerIsVoterCount, PTL

-----------------------------------------------------------------------------
(* The mock *)

\* Induction over a set: one that holds 0, and n + 1 with n, is all of Nat.
LEMMA InductionOverSet ==
  ASSUME NEW S \in SUBSET Nat, 0 \in S, \A n \in S : n + 1 \in S
  PROVE  S = Nat
<1> DEFINE less == OpToRel(<, Nat)
<1>1. ASSUME NEW m \in Nat, NEW n \in Nat, m < n
      PROVE  <<m, n>> \in less
  BY <1>1 DEF OpToRel
<1>2. IsWellFoundedOn(less, Nat)
  BY NatLessThanWellFounded
<1> HIDE DEF less
<1> SUFFICES ASSUME Nat \ S # {} PROVE FALSE
  OBVIOUS
<1>3. PICK n \in Nat \ S : \A m \in Nat \ S : <<m, n>> \notin less
  BY <1>2, WFMin
<1>4. n - 1 \in Nat /\ n - 1 < n
  BY <1>3
<1>5. n - 1 \in S
  BY <1>1, <1>3, <1>4
<1>6. (n - 1) + 1 \in S
  BY <1>5
<1> QED
  BY <1>3, <1>4, <1>6

MockStart(sigs) ==
  [arr |-> [j \in 1..Len(sigs) |-> ZERO], count |-> 0, error |-> "none"]

\* What the definition of MockLoop asks of a function, up to its n-th turn.
MockTurns(turn, sigs, n) ==
  turn = [k \in 0..n |-> IF k = 0 THEN MockStart(sigs) ELSE MockTurn(turn[k - 1], sigs[k])]

\* Such a function exists for every number of turns.
LEMMA MockTurnsExist ==
  ASSUME NEW sigs, NEW n \in Nat
  PROVE  \E turn : MockTurns(turn, sigs, n)
<1> DEFINE S == {m \in Nat : \E turn : MockTurns(turn, sigs, m)}
<1>1. 0 \in S
  <2> DEFINE one == [k \in 0..0 |-> MockStart(sigs)]
  <2>1. one = [k \in 0..0 |-> IF k = 0 THEN MockStart(sigs) ELSE MockTurn(one[k - 1], sigs[k])]
    OBVIOUS
  <2> QED
    BY <2>1 DEF MockTurns
<1>2. ASSUME NEW m \in S PROVE m + 1 \in S
  <2> PICK turn : MockTurns(turn, sigs, m)
    OBVIOUS
  <2> DEFINE more == [k \in 0..(m + 1) |-> IF k <= m THEN turn[k] ELSE MockTurn(turn[m], sigs[k])]
             Entry(k) == IF k = 0 THEN MockStart(sigs) ELSE MockTurn(more[k - 1], sigs[k])
  <2>1. ASSUME NEW k \in 0..(m + 1) PROVE more[k] = Entry(k)
    <3>1. CASE k = 0
      BY <3>1 DEF MockTurns
    <3>2. CASE k # 0 /\ k <= m
      <4>1. turn[k] = MockTurn(turn[k - 1], sigs[k])
        BY <3>2 DEF MockTurns
      <4>2. more[k] = turn[k] /\ more[k - 1] = turn[k - 1]
        BY <3>2
      <4> QED
        BY <3>2, <4>1, <4>2
    <3>3. CASE k = m + 1
      <4>1. more[k] = MockTurn(turn[m], sigs[k]) /\ more[k - 1] = turn[m] /\ k # 0
        BY <3>3
      <4> QED
        BY <4>1
    <3> QED
      BY <3>1, <3>2, <3>3
  <2>2. more = [k \in 0..(m + 1) |-> Entry(k)]
    <3> HIDE DEF Entry
    <3> QED
      BY <2>1
  <2>3. MockTurns(more, sigs, m + 1)
    BY <2>2 DEF MockTurns
  <2> QED
    BY <2>3
<1> HIDE DEF S
<1>3. S = Nat
  BY <1>1, <1>2, InductionOverSet DEF S
<1> QED
  BY <1>3 DEF S

\* MockLoop is one: its turns follow one another as its definition says.
LEMMA MockLoopTurns ==
  ASSUME NEW sigs, Len(sigs) \in Nat
  PROVE  /\ MockLoop(sigs)[0] = MockStart(sigs)
         /\ \A k \in 1..Len(sigs) : MockLoop(sigs)[k] = MockTurn(MockLoop(sigs)[k - 1], sigs[k])
<1>1. MockLoop(sigs) = CHOOSE turn : MockTurns(turn, sigs, Len(sigs))
  BY DEF MockLoop, MockTurns, MockStart
<1>2. MockTurns(MockLoop(sigs), sigs, Len(sigs))
  BY <1>1, MockTurnsExist
<1> HIDE DEF MockLoop
<1> QED
  BY <1>2 DEF MockTurns

\* After an error nothing changes any more.
LEMMA MockErrorStays ==
  ASSUME NEW sigs, Len(sigs) \in Nat, NEW k \in 1..Len(sigs), MockLoop(sigs)[k].error # "none"
  PROVE  MockLoop(sigs)[Len(sigs)] = MockLoop(sigs)[k]
<1> DEFINE S == {m \in Nat : k + m <= Len(sigs) => MockLoop(sigs)[k + m] = MockLoop(sigs)[k]}
<1>1. 0 \in S
  OBVIOUS
<1>2. ASSUME NEW m \in S PROVE m + 1 \in S
  <2> SUFFICES ASSUME k + (m + 1) <= Len(sigs)
               PROVE  MockLoop(sigs)[k + (m + 1)] = MockLoop(sigs)[k]
    OBVIOUS
  <2>1. k + (m + 1) \in 1..Len(sigs) /\ (k + (m + 1)) - 1 = k + m /\ k + m <= Len(sigs)
    OBVIOUS
  <2>2. MockLoop(sigs)[k + m] = MockLoop(sigs)[k]
    BY <2>1
  <2>3. MockLoop(sigs)[k + (m + 1)] = MockTurn(MockLoop(sigs)[k + m], sigs[k + (m + 1)])
    BY <2>1, MockLoopTurns
  <2> QED
    BY <2>2, <2>3 DEF MockTurn
<1> HIDE DEF S
<1>3. S = Nat
  BY <1>1, <1>2, InductionOverSet DEF S
<1>4. Len(sigs) - k \in S /\ k + (Len(sigs) - k) = Len(sigs)
  BY <1>3
<1> QED
  BY <1>4 DEF S

\* The mock's locals after n turns over a list of length size, when the Stylus
\* loop has seen the signers s and nothing failed.
MockMatches(m, s, n, size) ==
  /\ m.error = "none"
  /\ m.count = Len(s) /\ Len(s) <= n
  /\ DOMAIN m.arr = 1..size
  /\ \A j \in 1..Len(s) : m.arr[j] = s[j]

\* A signature that does not fail is to the mock what it is to the Stylus loop.
LEMMA MockReadsAlike ==
  ASSUME NEW sig \in SignatureType
  PROVE  /\ ~Fails(sig) => MockFailure(sig) = "none" /\ MockRecovered(sig) = Recovered(sig)
         /\ Fails(sig) /\ Failure(sig) # Reverted => MockFailure(sig) = Failure(sig)
BY DEF Fails, Failure, MockFailure, MockRecovered, Recovered, Reverted

LEMMA MockTurnMatches ==
  ASSUME NEW m, NEW s \in Seq(Address), NEW n \in Nat, NEW size \in Nat, n < size,
         MockMatches(m, s, n, size), NEW sig \in SignatureType, ~Fails(sig)
  PROVE  MockMatches(MockTurn(m, sig),
                     IF IsVote(sig) /\ ~\E j \in DOMAIN s : s[j] = Recovered(sig)
                     THEN Append(s, Recovered(sig)) ELSE s, n + 1, size)
<1> DEFINE a == Recovered(sig)
<1>1. MockTurn(m, sig) = MockCount(m, a)
  BY MockReadsAlike DEF MockTurn, MockMatches
<1>2. MockContains(m.arr, m.count, a) <=> \E j \in DOMAIN s : s[j] = a
  BY DEF MockContains, MockMatches
<1>3. CASE ~IsVote(sig) \/ \E j \in DOMAIN s : s[j] = a
  <2>1. MockTurn(m, sig) = m
    BY <1>1, <1>2, <1>3 DEF MockCount, IsVote
  <2> QED
    BY <1>3, <2>1 DEF MockMatches
<1>4. CASE IsVote(sig) /\ ~\E j \in DOMAIN s : s[j] = a
  <2>1. MockTurn(m, sig) = [arr |-> [m.arr EXCEPT ![m.count + 1] = a], count |-> m.count + 1, error |-> m.error]
    BY <1>1, <1>2, <1>4 DEF MockCount, IsVote
  <2>2. a \in Address
    BY <1>4, ConstantsAssumption DEF IsVote
  <2>3. /\ Len(Append(s, a)) = Len(s) + 1 /\ Append(s, a)[Len(s) + 1] = a
        /\ \A j \in 1..Len(s) : Append(s, a)[j] = s[j]
    BY <2>2
  <2>4. m.count + 1 = Len(s) + 1 /\ Len(s) + 1 \in 1..size /\ DOMAIN m.arr = 1..size /\ Len(s) \in Nat
    BY DEF MockMatches
  <2>5. PICK p : p = [m.arr EXCEPT ![m.count + 1] = a]
    OBVIOUS
  <2>6. DOMAIN p = 1..size /\ p[Len(s) + 1] = a /\ \A j \in 1..Len(s) : p[j] = s[j]
    BY <2>4, <2>5 DEF MockMatches
  <2>7. MockMatches(MockTurn(m, sig), Append(s, a), n + 1, size)
    BY <2>1, <2>3, <2>4, <2>5, <2>6 DEF MockMatches
  <2> QED
    BY <1>4, <2>7
<1> QED
  BY <1>3, <1>4

MockInv == MockMatches(MockLoop(signatures)[i - 1], seen, i - 1, Len(signatures))

LEMMA InitMockInv == Init => MockInv
<1> SUFFICES ASSUME Init PROVE MockInv
  OBVIOUS
<1>1. IInv /\ i = 1 /\ seen = <<>>
  BY InitIInv DEF Init
<1>2. MockLoop(signatures)[0] = MockStart(signatures) /\ Len(signatures) \in Nat
  BY <1>1, MockLoopTurns DEF IInv, LoopInv
<1>3. MockMatches(MockStart(signatures), <<>>, 0, Len(signatures))
  BY <1>2 DEF MockMatches, MockStart
<1> QED
  BY <1>1, <1>2, <1>3 DEF MockInv

LEMMA NextMockInv == IInv /\ MockInv /\ [Next]_vars => MockInv'
<1> SUFFICES ASSUME IInv, MockInv, [Next]_vars PROVE MockInv'
  OBVIOUS
<1>1. CASE SkipSignature \/ CountVote
  <2>1. i \in 1..Len(signatures) /\ ~Fails(signatures[i]) /\ i' = i + 1 /\ signatures' = signatures
    BY <1>1 DEF IInv, LoopInv, SkipSignature, CountVote, InLoop
  <2>2. PICK sig \in SignatureType : sig = signatures[i]
    BY <2>1, ConstantsAssumption DEF IInv, LoopInv
  <2>3. seen' = IF IsVote(sig) /\ ~\E j \in DOMAIN seen : seen[j] = Recovered(sig)
                THEN Append(seen, Recovered(sig)) ELSE seen
    BY <1>1, <2>2 DEF SkipSignature, CountVote, AlreadySeen
  <2> PICK m : m = MockLoop(signatures)[i - 1]
    OBVIOUS
  <2>4. PICK s \in Seq(Address), n \in Nat, size \in Nat :
          s = seen /\ n = i - 1 /\ size = Len(signatures)
    <3>1. seen \in Seq(Address) /\ i - 1 \in Nat /\ Len(signatures) \in Nat
      BY <2>1 DEF IInv, LoopInv
    <3> QED
      BY <3>1
  <2>5. n < size /\ MockMatches(m, s, n, size)
    BY <2>1, <2>4 DEF MockInv
  <2>6. MockMatches(MockTurn(m, sig), seen', n + 1, size)
    BY <2>1, <2>2, <2>3, <2>4, <2>5, MockTurnMatches
  <2>7. MockLoop(signatures)[i] = MockTurn(m, sig)
    BY <2>1, <2>2, <2>4, MockLoopTurns
  <2> QED
    BY <2>1, <2>4, <2>6, <2>7 DEF MockInv
<1>2. CASE RevertCall \/ Answer \/ UNCHANGED vars
  BY <1>2 DEF RevertCall, Answer, vars, MockInv
<1> QED
  BY <1>1, <1>2 DEF Next

\* The Foundry tests' mock and the production contract end alike, in the error
\* or in the signers and their order, for lists of any length.
THEOREM MockAgreesAlways == Spec => []MockAgrees
<1>1. IInv /\ MockInv => MockAgrees
  <2> SUFFICES ASSUME IInv, MockInv, result # Running, result.kind = "revert" => result.error # Reverted
               PROVE  result = MockVerify(signatures)
    BY DEF MockAgrees
  <2> DEFINE last == MockLoop(signatures)[Len(signatures)]
  <2>1. CASE result.kind = "ok"
    <3>1. /\ i - 1 = Len(signatures) /\ seen \in Seq(Address)
          /\ result = [kind |-> "ok", passed |-> Len(seen) >= threshold,
                       count |-> Len(seen), signers |-> seen]
      BY <2>1 DEF IInv, LoopInv, ResultInv, Running
    <3>2. /\ last.error = "none" /\ last.count = Len(seen)
          /\ \A j \in 1..Len(seen) : last.arr[j] = seen[j]
      BY <3>1 DEF MockInv, MockMatches
    <3>3. seen = [j \in 1..Len(seen) |-> last.arr[j]]
      BY <3>1, <3>2
    <3> QED
      BY <3>1, <3>2, <3>3 DEF MockVerify
  <2>2. CASE result.kind # "ok"
    <3>1. /\ i \in 1..Len(signatures) /\ Fails(signatures[i])
          /\ result = [kind |-> "revert", error |-> Failure(signatures[i])]
      BY <2>2 DEF IInv, ResultInv
    <3>2. MockFailure(signatures[i]) = Failure(signatures[i])
      BY <3>1, MockReadsAlike, ConstantsAssumption DEF IInv, LoopInv
    <3>3. MockLoop(signatures)[i] = MockTurn(MockLoop(signatures)[i - 1], signatures[i])
      BY <3>1, MockLoopTurns DEF IInv, LoopInv
    <3>4. MockLoop(signatures)[i].error = Failure(signatures[i]) /\ Failure(signatures[i]) # "none"
      BY <3>1, <3>2, <3>3 DEF MockTurn, MockInv, MockMatches, Fails
    <3>5. last = MockLoop(signatures)[i]
      BY <3>1, <3>4, MockErrorStays DEF IInv, LoopInv
    <3> QED
      BY <3>1, <3>4, <3>5 DEF MockVerify
  <2> QED
    BY <2>1, <2>2
<1> QED
  BY <1>1, InitMockInv, NextMockInv, InductiveInvariant, PTL DEF Spec
=============================================================================
