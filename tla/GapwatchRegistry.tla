--------------------------- MODULE GapwatchRegistry ---------------------------
(***************************************************************************)
(* GapwatchRegistry.sol (V1, on testnet): the records, bonds and           *)
(* challenges of V2, written by one relayer and decided by one owner.      *)
(*                                                                         *)
(* A step is one successful external call; withdraw, which hands control   *)
(* to its recipient, is two, and every function that is not nonReentrant   *)
(* may run between them.                                                   *)
(***************************************************************************)
EXTENDS Integers, FiniteSets

CONSTANTS
  EventHash,      \* transaction hashes that can be recorded
  Token,          \* token contracts
  Account,        \* callers
  ZeroAddress,    \* address(0), the unset value of an address
  ZeroWord,       \* bytes32(0), the unset value of a hash
  Deployer,       \* the first owner
  Payable,        \* accounts that accept an ether transfer
  Content,        \* both multipliers, wasFiltered and referenceModelHash
  RelayerSetting, \* relayers that can be named
  BondSetting,    \* arguments of setRequiredBond
  WindowSetting,  \* arguments of setChallengeWindow
  OwnerSetting,   \* owners that ownership may be handed to
  MAX_CHALLENGE_WINDOW,
  MAX_UINT,       \* 2^256 - 1
  MaxValue,       \* bound: the largest msg.value of a call
  LastRecordTime, \* bound: no record is made after this time
  MaxTime         \* bound: the time at which the clock stops

ASSUME RolesAssumption ==
  /\ IsFiniteSet(EventHash) /\ IsFiniteSet(Account)
  /\ ZeroAddress \notin Account \cup Token
  /\ ZeroWord \notin EventHash \cup Content
  /\ Deployer \in Account /\ Payable \subseteq Account
  /\ RelayerSetting \subseteq Account
  /\ OwnerSetting \subseteq Account \cup {ZeroAddress}

ASSUME NumbersAssumption ==
  /\ MAX_CHALLENGE_WINDOW \in Nat /\ MAX_UINT \in Nat
  /\ MaxValue \in Nat /\ LastRecordTime \in Nat /\ MaxTime \in Nat
  /\ MaxTime + MAX_CHALLENGE_WINDOW <= MAX_UINT
  /\ LastRecordTime <= MaxTime
  /\ BondSetting \subseteq Nat /\ WindowSetting \subseteq 0..MAX_UINT

VARIABLES
  verifications, challenges, pendingWithdrawals, latestVerificationForToken,
  hasDiscrepancy, relayer, requiredBond, challengeWindow, owner,
  withdrawing,   \* account inside withdraw's transfer: the reentrancy guard
  balance,       \* the contract's ether
  now            \* block.timestamp

books == <<verifications, challenges, pendingWithdrawals, balance>>
flags == <<latestVerificationForToken, hasDiscrepancy>>
config == <<relayer, requiredBond, challengeWindow, owner>>
vars == <<books, flags, config, withdrawing, now>>

-----------------------------------------------------------------------------
(* Reading the state *)

Recorded(e) == verifications[e].recordedAt # 0

OpenChallenge(e) == challenges[e].challenger # ZeroAddress /\ ~challenges[e].resolved

\* recordedAt + challengeWindow, in checked arithmetic: the call reverts on overflow.
Deadline(e) == verifications[e].recordedAt + challengeWindow
DeadlineFits(e) == Deadline(e) <= MAX_UINT

NoVerification ==
  [token |-> ZeroAddress, content |-> ZeroWord, recordedAt |-> 0, bond |-> 0, recordedBy |-> ZeroAddress]

NoChallenge == [challenger |-> ZeroAddress, amount |-> 0, resolved |-> FALSE]

Poster_TheRelayer(e) == relayer   \* seeded fault: the bond returns to who holds the role now

Poster(e) == verifications[e].recordedBy

Credit(a, amount) == pendingWithdrawals' = [pendingWithdrawals EXCEPT ![a] = @ + amount]

-----------------------------------------------------------------------------
(* The constructor, records and discrepancies *)

Init ==
  /\ verifications = [e \in EventHash |-> NoVerification]
  /\ challenges = [e \in EventHash |-> NoChallenge]
  /\ pendingWithdrawals = [a \in Account |-> 0]
  /\ latestVerificationForToken = [t \in Token |-> ZeroWord]
  /\ hasDiscrepancy = [e \in EventHash |-> FALSE]
  /\ relayer \in RelayerSetting
  /\ requiredBond \in BondSetting
  /\ challengeWindow \in {w \in WindowSetting : w <= MAX_CHALLENGE_WINDOW}
  /\ owner = Deployer
  /\ withdrawing = ZeroAddress
  /\ balance = 0
  /\ now = 1

MayRecord_Always(e) == TRUE   \* seeded fault: a record can be overwritten

MayRecord(e) == ~Recorded(e)

RecordVerification(a, e, t, c, value) ==
  /\ a = relayer
  /\ t # ZeroAddress
  /\ MayRecord(e)
  /\ value >= requiredBond
  /\ verifications' = [verifications EXCEPT ![e] =
       [token |-> t, content |-> c, recordedAt |-> now, bond |-> value, recordedBy |-> a]]
  /\ latestVerificationForToken' = [latestVerificationForToken EXCEPT ![t] = e]
  /\ balance' = balance + value
  /\ UNCHANGED <<challenges, pendingWithdrawals, hasDiscrepancy, config, withdrawing, now>>

ReportDiscrepancy(a, e) ==
  /\ a \in {relayer, owner}
  /\ Recorded(e)
  /\ hasDiscrepancy' = [hasDiscrepancy EXCEPT ![e] = TRUE]
  /\ UNCHANGED <<books, latestVerificationForToken, config, withdrawing, now>>

-----------------------------------------------------------------------------
(* Bonds *)

Challenge(a, e, value) ==
  /\ Recorded(e)
  /\ verifications[e].bond # 0
  /\ DeadlineFits(e) /\ now <= Deadline(e)
  /\ ~OpenChallenge(e)
  /\ value >= verifications[e].bond
  /\ challenges' = [challenges EXCEPT ![e] = [challenger |-> a, amount |-> value, resolved |-> FALSE]]
  /\ balance' = balance + value
  /\ UNCHANGED <<verifications, pendingWithdrawals, flags, config, withdrawing, now>>

BondSpent(e) == [verifications EXCEPT ![e].bond = 0]

ResolveChallenge(a, e, challengerWins) ==
  /\ a = owner
  /\ OpenChallenge(e)
  /\ verifications' = BondSpent(e)
  /\ challenges' = [challenges EXCEPT ![e].resolved = TRUE]
  /\ Credit(IF challengerWins THEN challenges[e].challenger ELSE Poster(e),
            verifications[e].bond + challenges[e].amount)
  /\ UNCHANGED <<flags, config, withdrawing, balance, now>>

ReclaimBond(e) ==
  /\ Recorded(e)
  /\ verifications[e].bond # 0
  /\ DeadlineFits(e) /\ now > Deadline(e)
  /\ ~OpenChallenge(e)
  /\ verifications' = BondSpent(e)
  /\ Credit(Poster(e), verifications[e].bond)
  /\ UNCHANGED <<challenges, flags, config, withdrawing, balance, now>>

\* withdraw up to its external call; a zero balance returns at once.
WithdrawCall(a) ==
  /\ withdrawing = ZeroAddress
  /\ pendingWithdrawals[a] # 0
  /\ a \in Payable
  /\ pendingWithdrawals' = [pendingWithdrawals EXCEPT ![a] = 0]
  /\ balance' = balance - pendingWithdrawals[a]
  /\ withdrawing' = a
  /\ UNCHANGED <<verifications, challenges, flags, config, now>>

WithdrawReturn ==
  /\ withdrawing # ZeroAddress
  /\ withdrawing' = ZeroAddress
  /\ UNCHANGED <<books, flags, config, now>>

-----------------------------------------------------------------------------
(* The owner *)

SetRelayer(a, newRelayer) ==
  /\ a = owner
  /\ relayer' = newRelayer
  /\ UNCHANGED <<books, flags, requiredBond, challengeWindow, owner, withdrawing, now>>

SetRequiredBond(a, newBond) ==
  /\ a = owner
  /\ requiredBond' = newBond
  /\ UNCHANGED <<books, flags, relayer, challengeWindow, owner, withdrawing, now>>

WithinCap_Any(w) == TRUE   \* seeded fault: the window has no ceiling

WithinCap(w) == w <= MAX_CHALLENGE_WINDOW

SetChallengeWindow(a, newWindow) ==
  /\ a = owner
  /\ WithinCap(newWindow)
  /\ challengeWindow' = newWindow
  /\ UNCHANGED <<books, flags, relayer, requiredBond, owner, withdrawing, now>>

\* OpenZeppelin's Ownable: transferOwnership, and renounceOwnership to address(0).
ChangeOwner(a, newOwner) ==
  /\ a = owner
  /\ owner' = newOwner
  /\ UNCHANGED <<books, flags, relayer, requiredBond, challengeWindow, withdrawing, now>>

\* A transfer runs inside one block: time does not pass in it.
Tick ==
  /\ withdrawing = ZeroAddress
  /\ now < MaxTime
  /\ now' = now + 1
  /\ UNCHANGED <<books, flags, config, withdrawing>>

-----------------------------------------------------------------------------
(* The specification *)

Record ==
  \E a \in Account, e \in EventHash, t \in Token \cup {ZeroAddress}, c \in Content, value \in 0..MaxValue :
    now <= LastRecordTime /\ RecordVerification(a, e, t, c, value)

Resolve(e) == \E a \in Account, w \in BOOLEAN : ResolveChallenge(a, e, w)

OwnerCall ==
  \E a \in Account :
    \/ \E r \in RelayerSetting : SetRelayer(a, r)
    \/ \E b \in BondSetting : SetRequiredBond(a, b)
    \/ \E w \in WindowSetting : SetChallengeWindow(a, w)
    \/ \E o \in OwnerSetting : ChangeOwner(a, o)

Next ==
  \/ Record
  \/ \E a \in Account, e \in EventHash : ReportDiscrepancy(a, e)
  \/ \E a \in Account, e \in EventHash, value \in 0..MaxValue : Challenge(a, e, value)
  \/ \E e \in EventHash : Resolve(e)
  \/ \E e \in EventHash : ReclaimBond(e)
  \/ \E a \in Account : WithdrawCall(a)
  \/ WithdrawReturn
  \/ OwnerCall
  \/ Tick

Spec == Init /\ [][Next]_vars

\* Nothing schedules a contract's callers.  FairSpec assumes that blocks are
\* produced, that a recorder reclaims, that an account that is owed withdraws,
\* and that the owner decides a challenge as long as there is an owner.
FairSpec ==
  /\ Spec
  /\ WF_vars(Tick)
  /\ WF_vars(WithdrawReturn)
  /\ \A e \in EventHash : WF_vars(ReclaimBond(e)) /\ WF_vars(Resolve(e))
  /\ \A a \in Account : WF_vars(WithdrawCall(a))

-----------------------------------------------------------------------------
(* The abstract specifications that the registry implements *)

EscrowOf(e) ==
  LET v == verifications[e]
      stage == IF ~Recorded(e) THEN "none"
               ELSE IF v.bond = 0 THEN "settled"
               ELSE IF OpenChallenge(e) THEN "contested" ELSE "posted"
  IN  [stage |-> stage,
       poster |-> IF stage \in {"posted", "contested"} THEN v.recordedBy ELSE ZeroAddress,
       bond |-> v.bond,
       contester |-> IF stage = "contested" THEN challenges[e].challenger ELSE ZeroAddress,
       stake |-> IF stage = "contested" THEN challenges[e].amount ELSE 0]

Escrow == INSTANCE BondEscrow WITH
  Item <- EventHash, Party <- Account, Nobody <- ZeroAddress, Amount <- 0..MaxValue,
  escrow <- [e \in EventHash |-> EscrowOf(e)], credit <- pendingWithdrawals, held <- balance

\* Whatever the owner does, a bond goes back to who posted it, not to who is the
\* relayer by then, or with the stake to one of the two parties (lines 23-30,
\* 53-57): the owner picks a winner but cannot name a third.
ImplementsEscrow == Escrow!Spec

Log == INSTANCE RecordLog WITH
  Event <- EventHash, Subject <- Token, NoRecord <- NoVerification, NoEvent <- ZeroWord,
  Fact <- [token : Token, content : Content, recordedAt : 1..LastRecordTime, bond : {0}, recordedBy : Account],
  records <- [e \in EventHash |-> [verifications[e] EXCEPT !.bond = 0]],
  latest <- latestVerificationForToken,
  flagged <- {e \in EventHash : hasDiscrepancy[e]}

\* Neither the relayer nor the owner, nor a change of either, can alter a record
\* or take a flag back: an append-only log (lines 153-158, 77-80).
ImplementsRecordLog == Log!Spec

-----------------------------------------------------------------------------
(* Liveness *)

\* Every posted bond is credited to somebody in the end, unless the owner gave
\* up ownership: then nobody can decide a challenge, and bond and stake stay.
BondsAreCredited ==
  \A e \in EventHash :
    verifications[e].bond > 0 ~> verifications[e].bond = 0 \/ owner = ZeroAddress
=============================================================================
