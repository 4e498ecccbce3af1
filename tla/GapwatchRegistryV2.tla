-------------------------- MODULE GapwatchRegistryV2 --------------------------
(***************************************************************************)
(* GapwatchRegistryV2.sol: records of verified events, each backed by a    *)
(* bond that can be challenged, and discrepancy flags.  A record, the      *)
(* outcome of a challenge and a discrepancy need 2 of the 3 node           *)
(* signatures over the matching digest.                                    *)
(*                                                                         *)
(* A step is one successful external call; a reverting call changes        *)
(* nothing.  The exception is withdraw, whose ether transfer hands control *)
(* to the recipient: it is two steps, and every other function may run     *)
(* between them (they are not nonReentrant).  A withdraw whose transfer    *)
(* fails reverts with all it contains, so only successful ones appear.     *)
(*                                                                         *)
(* Signature recovery is ConsensusVerifier's subject.  Here a signature    *)
(* exists when its node has produced it; a caller submits any of them.     *)
(***************************************************************************)
EXTENDS Integers, FiniteSets, WeiTotals

CONSTANTS
  EventHash,      \* transaction hashes that can be recorded
  Token,          \* token contracts
  Account,        \* callers
  ZeroAddress,    \* address(0), the unset value of an address
  ZeroWord,       \* bytes32(0), the unset value of a hash
  Node,           \* node1, node2, node3
  Deployment,     \* <<contract, chain id>> pairs a digest can be bound to
  This,           \* <<address(this), block.chainid>>
  Deployer,       \* the first owner
  Payable,        \* accounts that accept an ether transfer
  FilterFlag,     \* answers of the filter precompile that occur
  Multiplier,     \* values of uiMultiplier() that occur
  NotERC8056,     \* uiMultiplier() does not answer with one word
  Content,        \* oldMultiplier, newMultiplier argument and referenceModelHash
  Reason,         \* reasons given for a discrepancy
  PreSigned,      \* signatures that exist from the start
  WillSign,       \* signatures that nodes may produce later
  BondSetting,    \* arguments of setRequiredBond
  WindowSetting,  \* arguments of setChallengeWindow
  OwnerSetting,   \* owners that ownership may be handed to
  MAX_CHALLENGE_WINDOW,
  MAX_UINT,       \* 2^256 - 1
  MaxValue,       \* bound: the largest msg.value of a call
  LastRecordTime, \* bound: no record is made after this time
  MaxTime         \* bound: the time at which the clock stops

CONSENSUS_THRESHOLD == 2

RecordDigest(e, t, f, m, c, d) ==
  [kind |-> "record", event |-> e, token |-> t, filtered |-> f,
   multiplier |-> m, content |-> c, bound |-> d]

ResolveDigest(e, w, d) ==
  [kind |-> "resolve", event |-> e, challengerWins |-> w, bound |-> d]

DiscrepancyDigest(e, r, d) ==
  [kind |-> "discrepancy", event |-> e, reason |-> r, bound |-> d]

Digest ==
  {RecordDigest(e, t, f, m, c, d) : e \in EventHash, t \in Token, f \in BOOLEAN,
                                    m \in Multiplier, c \in Content, d \in Deployment}
  \cup {ResolveDigest(e, w, d) : e \in EventHash, w \in BOOLEAN, d \in Deployment}
  \cup {DiscrepancyDigest(e, r, d) : e \in EventHash, r \in Reason, d \in Deployment}

ASSUME KeysAssumption ==
  /\ IsFiniteSet(EventHash) /\ IsFiniteSet(Account)
  /\ ZeroAddress \notin Account \cup Token
  /\ ZeroWord \notin EventHash
  /\ NotERC8056 \notin Multiplier
  /\ Deployer \in Account /\ Payable \subseteq Account
  /\ FilterFlag \subseteq BOOLEAN
  /\ OwnerSetting \subseteq Account \cup {ZeroAddress}

ASSUME SignaturesAssumption ==
  /\ IsFiniteSet(Node)
  /\ This \in Deployment
  /\ PreSigned \subseteq Node \X Digest /\ WillSign \subseteq Node \X Digest

ASSUME NumbersAssumption ==
  /\ MAX_CHALLENGE_WINDOW \in Nat /\ MAX_UINT \in Nat
  /\ MaxValue \in Nat /\ LastRecordTime \in Nat /\ MaxTime \in Nat
  /\ MaxTime + MAX_CHALLENGE_WINDOW <= MAX_UINT
  /\ LastRecordTime <= MaxTime
  /\ BondSetting \subseteq Nat
  /\ WindowSetting \subseteq 0..MAX_UINT

VARIABLES
  verifications, challenges, pendingWithdrawals, latestVerificationForToken,
  hasDiscrepancy, requiredBond, challengeWindow, owner,
  withdrawing,   \* account inside withdraw's transfer: the reentrancy guard
  balance,       \* the contract's ether
  signed,        \* <<node, digest>> signatures that exist
  filtered,      \* what the filter precompile answers now
  uiMultiplier,  \* what each token answers now
  now            \* block.timestamp

books == <<verifications, challenges, pendingWithdrawals, balance>>
flags == <<latestVerificationForToken, hasDiscrepancy>>
config == <<requiredBond, challengeWindow, owner>>
chain == <<signed, filtered, uiMultiplier, now>>
vars == <<books, flags, config, withdrawing, chain>>

-----------------------------------------------------------------------------
(* Reading the state *)

Recorded(e) == verifications[e].recordedAt # 0

OpenChallenge(e) == challenges[e].challenger # ZeroAddress /\ ~challenges[e].resolved

\* recordedAt + challengeWindow, in checked arithmetic: the call reverts on overflow.
DeadlineFits(e) == verifications[e].recordedAt + challengeWindow <= MAX_UINT
Deadline(e) == verifications[e].recordedAt + challengeWindow

\* verifyConsensus over the digest: the expected nodes with a signature on it.
Signers(d) == {n \in Node : <<n, d>> \in signed}
ConsensusReached(d) == Cardinality(Signers(d)) >= CONSENSUS_THRESHOLD

ActualMultiplier(t) == IF t \in Token THEN uiMultiplier[t] ELSE NotERC8056

Credit_Replaces(a, amount) ==   \* seeded fault: a second credit replaces the first
  pendingWithdrawals' = [pendingWithdrawals EXCEPT ![a] = amount]

Credit(a, amount) ==
  pendingWithdrawals' = [pendingWithdrawals EXCEPT ![a] = @ + amount]

NoVerification ==
  [token |-> ZeroAddress, content |-> ZeroWord, newMultiplier |-> 0, wasFiltered |-> FALSE,
   recordedAt |-> 0, bond |-> 0, recordedBy |-> ZeroAddress]

NoChallenge == [challenger |-> ZeroAddress, amount |-> 0, resolved |-> FALSE]

-----------------------------------------------------------------------------
(* The constructor *)

Init ==
  /\ verifications = [e \in EventHash |-> NoVerification]
  /\ challenges = [e \in EventHash |-> NoChallenge]
  /\ pendingWithdrawals = [a \in Account |-> 0]
  /\ latestVerificationForToken = [t \in Token |-> ZeroWord]
  /\ hasDiscrepancy = [e \in EventHash |-> FALSE]
  /\ requiredBond \in BondSetting
  /\ challengeWindow \in {w \in WindowSetting : w <= MAX_CHALLENGE_WINDOW}
  /\ owner = Deployer
  /\ withdrawing = ZeroAddress
  /\ balance = 0
  /\ signed = PreSigned
  /\ filtered \in [EventHash -> FilterFlag]
  /\ uiMultiplier \in [Token -> Multiplier \cup {NotERC8056}]
  /\ now = 1

-----------------------------------------------------------------------------
(* Records and discrepancies *)

ClaimsMatch_FilterOnly(e, t, f, m) ==   \* seeded fault: any multiplier may be claimed
  filtered[e] = f /\ ActualMultiplier(t) # NotERC8056

\* f and m are the caller's claims, compared with the chain's answers of now.
ClaimsMatch(e, t, f, m) ==
  /\ filtered[e] = f
  /\ ActualMultiplier(t) # NotERC8056
  /\ ActualMultiplier(t) = m

MayRecord_Always(e) == TRUE   \* seeded fault: a record can be overwritten

MayRecord(e) == ~Recorded(e)

Latest_FirstOnly(t, e) ==   \* seeded fault: the pointer is set once
  IF latestVerificationForToken[t] = ZeroWord THEN e ELSE latestVerificationForToken[t]

Latest(t, e) == e

\* What is stored is what the chain answers.
RecordVerification(a, e, t, f, m, c, value) ==
  /\ ClaimsMatch(e, t, f, m)
  /\ t # ZeroAddress
  /\ MayRecord(e)
  /\ value >= requiredBond
  /\ ConsensusReached(RecordDigest(e, t, f, m, c, This))
  /\ verifications' = [verifications EXCEPT ![e] =
       [token |-> t, content |-> c, newMultiplier |-> ActualMultiplier(t),
        wasFiltered |-> filtered[e], recordedAt |-> now, bond |-> value,
        recordedBy |-> a]]
  /\ latestVerificationForToken' = [latestVerificationForToken EXCEPT ![t] = Latest(t, e)]
  /\ balance' = balance + value
  /\ UNCHANGED <<challenges, pendingWithdrawals, hasDiscrepancy, config, withdrawing, chain>>

ReportDiscrepancy_Toggles(e, r) ==   \* seeded fault: a second report takes the flag back
  /\ Recorded(e)
  /\ ConsensusReached(DiscrepancyDigest(e, r, This))
  /\ hasDiscrepancy' = [hasDiscrepancy EXCEPT ![e] = ~@]
  /\ UNCHANGED <<books, latestVerificationForToken, config, withdrawing, chain>>

ReportDiscrepancy(e, r) ==
  /\ Recorded(e)
  /\ ConsensusReached(DiscrepancyDigest(e, r, This))
  /\ hasDiscrepancy' = [hasDiscrepancy EXCEPT ![e] = TRUE]
  /\ UNCHANGED <<books, latestVerificationForToken, config, withdrawing, chain>>

-----------------------------------------------------------------------------
(* Bonds *)

Challengeable_NoBond(e) ==   \* seeded fault: a record without a bond can be challenged
  Recorded(e) /\ DeadlineFits(e) /\ now <= Deadline(e) /\ ~OpenChallenge(e)

Challengeable(e) ==
  /\ Recorded(e)
  /\ verifications[e].bond # 0
  /\ DeadlineFits(e) /\ now <= Deadline(e)
  /\ ~OpenChallenge(e)

Challenge(a, e, value) ==
  /\ Challengeable(e)
  /\ value >= verifications[e].bond
  /\ challenges' = [challenges EXCEPT ![e] =
                      [challenger |-> a, amount |-> value, resolved |-> FALSE]]
  /\ balance' = balance + value
  /\ UNCHANGED <<verifications, pendingWithdrawals, flags, config, withdrawing, chain>>

BondSpent_Kept(e) == verifications   \* seeded fault: the bond is not zeroed

BondSpent(e) == [verifications EXCEPT ![e].bond = 0]

ResolveChallenge(e, challengerWins) ==
  /\ OpenChallenge(e)
  /\ ConsensusReached(ResolveDigest(e, challengerWins, This))
  /\ verifications' = BondSpent(e)
  /\ challenges' = [challenges EXCEPT ![e].resolved = TRUE]
  /\ Credit(IF challengerWins THEN challenges[e].challenger ELSE verifications[e].recordedBy,
            verifications[e].bond + challenges[e].amount)
  /\ UNCHANGED <<flags, config, withdrawing, balance, chain>>

Reclaimable_Challenged(e) ==   \* seeded fault: an open challenge does not block it
  Recorded(e) /\ verifications[e].bond # 0 /\ DeadlineFits(e) /\ now > Deadline(e)

Reclaimable(e) ==
  /\ Recorded(e)
  /\ verifications[e].bond # 0
  /\ DeadlineFits(e) /\ now > Deadline(e)
  /\ ~OpenChallenge(e)

ReclaimBond(e) ==
  /\ Reclaimable(e)
  /\ verifications' = BondSpent(e)
  /\ Credit(verifications[e].recordedBy, verifications[e].bond)
  /\ UNCHANGED <<challenges, flags, config, withdrawing, balance, chain>>

MayWithdraw(a) == withdrawing = ZeroAddress /\ pendingWithdrawals[a] # 0

\* withdraw up to its external call; a zero balance returns at once.
WithdrawCall(a) ==
  /\ MayWithdraw(a)
  /\ a \in Payable
  /\ pendingWithdrawals' = [pendingWithdrawals EXCEPT ![a] = 0]
  /\ balance' = balance - pendingWithdrawals[a]
  /\ withdrawing' = a
  /\ UNCHANGED <<verifications, challenges, flags, config, chain>>

WithdrawReturn_GuardKept == withdrawing # ZeroAddress /\ UNCHANGED vars   \* seeded fault

WithdrawReturn ==
  /\ withdrawing # ZeroAddress
  /\ withdrawing' = ZeroAddress
  /\ UNCHANGED <<books, flags, config, chain>>

-----------------------------------------------------------------------------
(* The owner *)

SetRequiredBond(a, newBond) ==
  /\ a = owner
  /\ requiredBond' = newBond
  /\ UNCHANGED <<books, flags, challengeWindow, owner, withdrawing, chain>>

WithinCap_Any(w) == TRUE   \* seeded fault: the window has no ceiling

WithinCap(w) == w <= MAX_CHALLENGE_WINDOW

SetChallengeWindow(a, newWindow) ==
  /\ a = owner
  /\ WithinCap(newWindow)
  /\ challengeWindow' = newWindow
  /\ UNCHANGED <<books, flags, requiredBond, owner, withdrawing, chain>>

\* OpenZeppelin's Ownable: transferOwnership, and renounceOwnership to address(0).
ChangeOwner(a, newOwner) ==
  /\ a = owner
  /\ owner' = newOwner
  /\ UNCHANGED <<books, flags, requiredBond, challengeWindow, withdrawing, chain>>

-----------------------------------------------------------------------------
(* The nodes and the chain *)

NodeSign(n, d) ==
  /\ signed' = signed \cup {<<n, d>>}
  /\ UNCHANGED <<books, flags, config, withdrawing, filtered, uiMultiplier, now>>

FilterAnswers(e, f) ==
  /\ filtered' = [filtered EXCEPT ![e] = f]
  /\ UNCHANGED <<books, flags, config, withdrawing, signed, uiMultiplier, now>>

TokenAnswers(t, m) ==
  /\ uiMultiplier' = [uiMultiplier EXCEPT ![t] = m]
  /\ UNCHANGED <<books, flags, config, withdrawing, signed, filtered, now>>

\* A transfer runs inside one block: time does not pass in it.
Tick ==
  /\ withdrawing = ZeroAddress
  /\ now < MaxTime
  /\ now' = now + 1
  /\ UNCHANGED <<books, flags, config, withdrawing, signed, filtered, uiMultiplier>>

-----------------------------------------------------------------------------
(* The specification *)

Record ==
  \E a \in Account, e \in EventHash, t \in Token \cup {ZeroAddress}, f \in BOOLEAN,
     m \in Multiplier, c \in Content, value \in 0..MaxValue :
    now <= LastRecordTime /\ RecordVerification(a, e, t, f, m, c, value)

CallChallenge == \E a \in Account, e \in EventHash, value \in 0..MaxValue : Challenge(a, e, value)

Resolve(e) == \E w \in BOOLEAN : ResolveChallenge(e, w)

OwnerCall ==
  \E a \in Account :
    \/ \E b \in BondSetting : SetRequiredBond(a, b)
    \/ \E w \in WindowSetting : SetChallengeWindow(a, w)
    \/ \E o \in OwnerSetting : ChangeOwner(a, o)

ChainStep ==
  \/ \E s \in WillSign : NodeSign(s[1], s[2])
  \/ \E e \in EventHash, f \in FilterFlag : FilterAnswers(e, f)
  \/ \E t \in Token, m \in Multiplier \cup {NotERC8056} : TokenAnswers(t, m)

Next ==
  \/ Record
  \/ \E e \in EventHash, r \in Reason : ReportDiscrepancy(e, r)
  \/ CallChallenge
  \/ \E e \in EventHash : Resolve(e)
  \/ \E e \in EventHash : ReclaimBond(e)
  \/ \E a \in Account : WithdrawCall(a)
  \/ WithdrawReturn
  \/ OwnerCall
  \/ ChainStep
  \/ Tick

Spec == Init /\ [][Next]_vars

\* Nothing schedules a contract's callers.  FairSpec assumes that blocks are
\* produced, that a recorder reclaims, that an account that is owed withdraws,
\* and that the nodes bring a challenge they have signed for to its end.
FairSpec ==
  /\ Spec
  /\ WF_vars(Tick)
  /\ WF_vars(WithdrawReturn)
  /\ \A e \in EventHash : WF_vars(ReclaimBond(e)) /\ WF_vars(Resolve(e))
  /\ \A a \in Account : WF_vars(WithdrawCall(a))

-----------------------------------------------------------------------------
(* Invariants *)

Verification ==
  [token : Token \cup {ZeroAddress}, content : Content \cup {ZeroWord},
   newMultiplier : Multiplier \cup {0}, wasFiltered : BOOLEAN, recordedAt : Nat,
   bond : Nat, recordedBy : Account \cup {ZeroAddress}]

ChallengeRecord ==
  [challenger : Account \cup {ZeroAddress}, amount : Nat, resolved : BOOLEAN]

TypeOK ==
  /\ verifications \in [EventHash -> Verification]
  /\ challenges \in [EventHash -> ChallengeRecord]
  /\ pendingWithdrawals \in [Account -> Nat]
  /\ latestVerificationForToken \in [Token -> EventHash \cup {ZeroWord}]
  /\ hasDiscrepancy \in [EventHash -> BOOLEAN]
  /\ requiredBond \in Nat
  /\ challengeWindow \in 0..MAX_CHALLENGE_WINDOW
  /\ owner \in Account \cup {ZeroAddress}
  /\ withdrawing \in Account \cup {ZeroAddress}
  /\ balance \in Int
  /\ signed \subseteq Node \X Digest
  /\ filtered \in [EventHash -> BOOLEAN]
  /\ uiMultiplier \in [Token -> Multiplier \cup {NotERC8056}]
  /\ now \in 1..(MaxTime + 1)

\* What the contract owes: bonds still posted, the stakes of open challenges and
\* credits not yet withdrawn.
BondOf == [e \in EventHash |-> verifications[e].bond]
StakeOf == [e \in EventHash |-> IF OpenChallenge(e) THEN challenges[e].amount ELSE 0]
Owed == Total(BondOf) + Total(StakeOf) + Total(pendingWithdrawals)

\* The contract holds exactly the ether it owes, at every point where control
\* is outside it, the middle of a withdraw's transfer included: no call order
\* pays a bond twice, loses one, or lets a nested call see money already sent.
EscrowIsExact == balance = Owed

\* An open challenge is always over a bond that is still posted, and stakes at
\* least as much: neither reclaimBond nor a second resolution takes the bond
\* from under it (challenge 340-352, resolveChallenge 376-380, reclaimBond 404).
OpenChallengeIsCovered ==
  \A e \in EventHash :
    OpenChallenge(e) =>
      /\ Recorded(e)
      /\ verifications[e].bond > 0
      /\ challenges[e].amount >= verifications[e].bond

\* The end of a challenge window never overflows, so no setting of the owner's
\* can make both challenge and reclaimBond revert for ever (lines 118-124).
DeadlineNeverOverflows == \A e \in EventHash : Recorded(e) => DeadlineFits(e)

\* The pointer a consumer follows to a token's latest verification is to a
\* record of that token than which none is newer, and exists once there is one.
LatestIsNewest ==
  \A t \in Token, e \in EventHash :
    Recorded(e) /\ verifications[e].token = t =>
      LET l == latestVerificationForToken[t] IN
      /\ l # ZeroWord
      /\ verifications[l].token = t
      /\ verifications[l].recordedAt >= verifications[e].recordedAt

RecordedDigest(e) ==
  LET v == verifications[e]
  IN  RecordDigest(e, v.token, v.wasFiltered, v.newMultiplier, v.content, This)

\* Every record as it is stored, every flag and every resolution was signed by
\* two different nodes, for this contract on this chain: claims the chain
\* contradicts, and signatures for another deployment, leave no trace here.
EffectsAreSigned ==
  \A e \in EventHash :
    /\ Recorded(e) => ConsensusReached(RecordedDigest(e))
    /\ hasDiscrepancy[e] =>
         Recorded(e) /\ \E r \in Reason : ConsensusReached(DiscrepancyDigest(e, r, This))
    /\ challenges[e].resolved => \E w \in BOOLEAN : ConsensusReached(ResolveDigest(e, w, This))

-----------------------------------------------------------------------------
(* What a step may never do *)

\* A record is permanent: nothing but its bond ever changes, the bond only to
\* zero, and neither a flag nor a record disappears (lines 79-82, 237-238).
RecordsArePermanent ==
  [][\A e \in EventHash :
       Recorded(e) =>
         /\ \E b \in {0, verifications[e].bond} :
              verifications'[e] = [verifications[e] EXCEPT !.bond = b]
         /\ hasDiscrepancy[e] => hasDiscrepancy'[e]]_vars

\* An event is resolved at most once: after a resolution it can never be
\* challenged again, so no signature on its outcome can be used a second time,
\* although the digest names neither the challenger nor the round (line 371).
ResolvedOnce ==
  [][\A e \in EventHash : challenges[e].resolved => challenges'[e] = challenges[e]]_vars

-----------------------------------------------------------------------------
(* The abstract specifications that the registry implements *)

EscrowOf(e) ==
  LET v == verifications[e]
      stage == IF ~Recorded(e) THEN "none"
               ELSE IF v.bond = 0 THEN "settled"
               ELSE IF OpenChallenge(e) THEN "contested" ELSE "posted"
      posted == stage \in {"posted", "contested"}
      contested == stage = "contested"
  IN  [stage |-> stage,
       poster |-> IF posted THEN v.recordedBy ELSE ZeroAddress,
       bond |-> v.bond,
       contester |-> IF contested THEN challenges[e].challenger ELSE ZeroAddress,
       stake |-> IF contested THEN challenges[e].amount ELSE 0]

Escrow == INSTANCE BondEscrow WITH
  Item <- EventHash, Party <- Account, Nobody <- ZeroAddress, Amount <- 0..MaxValue,
  escrow <- [e \in EventHash |-> EscrowOf(e)], credit <- pendingWithdrawals, held <- balance

\* In every order of calls, nested ones included, a bond is posted once, matched
\* at most once and paid out once, to its poster or with the stake to one of the
\* two parties, and ether leaves only as somebody's whole credit.
ImplementsEscrow == Escrow!Spec

\* All of a stored verification but its bond.
Log == INSTANCE RecordLog WITH
  Event <- EventHash, Subject <- Token, NoRecord <- NoVerification, NoEvent <- ZeroWord,
  Fact <- [token : Token, content : Content, newMultiplier : Multiplier, wasFiltered : FilterFlag,
           recordedAt : 1..LastRecordTime, bond : {0}, recordedBy : Account],
  records <- [e \in EventHash |-> [verifications[e] EXCEPT !.bond = 0]],
  latest <- latestVerificationForToken,
  flagged <- {e \in EventHash : hasDiscrepancy[e]}

\* What the API, the pool and the display cache rely on: an append-only log whose
\* pointer and flags move only as described there, whatever else the registry does.
ImplementsRecordLog == Log!Spec

-----------------------------------------------------------------------------
(* Liveness *)

\* Every posted bond is credited to somebody in the end: an unchallenged one by
\* reclaimBond once its window is over, a challenged one by its resolution,
\* whatever the owner does to the window meanwhile.
BondsAreCredited ==
  \A e \in EventHash : verifications[e].bond > 0 ~> verifications[e].bond = 0

\* An account that accepts ether gets what it is owed even if another account
\* refuses its own payment: a recipient that reverts blocks only itself.
CreditsArePaid ==
  \A a \in Payable : pendingWithdrawals[a] > 0 ~> pendingWithdrawals[a] = 0
=============================================================================
