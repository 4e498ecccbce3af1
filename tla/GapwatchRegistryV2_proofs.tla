----------------------- MODULE GapwatchRegistryV2_proofs -----------------------
(***************************************************************************)
(* Theorems about GapwatchRegistryV2, for any number of events, accounts,  *)
(* tokens and nodes, any amounts and any bounds: its invariants, what no   *)
(* step may do, and that it implements BondEscrow and RecordLog.  And      *)
(* about MockLendingPool, the pool beside it: what is proved of the        *)
(* registry holds with the pool too, and every pause has its evidence.     *)
(***************************************************************************)
EXTENDS MockLendingPool, FiniteSetTheorems, TLAPS

-----------------------------------------------------------------------------
(* Types *)

LEMMA InitTypeOK == Init => TypeOK
BY KeysAssumption, SignaturesAssumption, NumbersAssumption
DEF Init, TypeOK, NoVerification, NoChallenge, Verification, ChallengeRecord

LEMMA RecordTypeOK ==
  ASSUME TypeOK, NEW a \in Account, NEW e \in EventHash, NEW t \in Token \cup {ZeroAddress},
         NEW f \in BOOLEAN, NEW m \in Multiplier, NEW c \in Content, NEW value \in 0..MaxValue,
         RecordVerification(a, e, t, f, m, c, value)
  PROVE  TypeOK'
<1>1. t \in Token /\ ActualMultiplier(t) \in Multiplier
  BY DEF RecordVerification, ClaimsMatch, ActualMultiplier, TypeOK
<1>2. value \in Nat
  BY NumbersAssumption
<1>3. [token |-> t, content |-> c, newMultiplier |-> ActualMultiplier(t),
       wasFiltered |-> filtered[e], recordedAt |-> now, bond |-> value,
       recordedBy |-> a] \in Verification
  BY <1>1, <1>2 DEF TypeOK, Verification
<1>4. verifications' \in [EventHash -> Verification]
  BY <1>3 DEF RecordVerification, TypeOK
<1>5. /\ latestVerificationForToken' \in [Token -> EventHash \cup {ZeroWord}]
      /\ balance' \in Int
  BY <1>2, NumbersAssumption DEF RecordVerification, TypeOK, Latest
<1> QED
  BY <1>4, <1>5 DEF RecordVerification, TypeOK, config, chain

LEMMA ChallengeTypeOK ==
  ASSUME TypeOK, NEW a \in Account, NEW e \in EventHash, NEW value \in 0..MaxValue,
         Challenge(a, e, value)
  PROVE  TypeOK'
<1>1. [challenger |-> a, amount |-> value, resolved |-> FALSE] \in ChallengeRecord
  BY NumbersAssumption DEF ChallengeRecord
<1>2. challenges' \in [EventHash -> ChallengeRecord] /\ balance' \in Int
  BY <1>1, NumbersAssumption DEF Challenge, TypeOK
<1> QED
  BY <1>2 DEF Challenge, TypeOK, flags, config, chain

\* Zeroing a bond keeps the record's type and changes nothing else in it.
LEMMA BondSpentType ==
  ASSUME TypeOK, NEW e \in EventHash
  PROVE  /\ BondSpent(e) \in [EventHash -> Verification]
         /\ BondSpent(e)[e].bond = 0
         /\ BondSpent(e)[e].recordedAt = verifications[e].recordedAt
         /\ BondSpent(e)[e].recordedBy = verifications[e].recordedBy
         /\ \A x \in EventHash \ {e} : BondSpent(e)[x] = verifications[x]
BY DEF TypeOK, BondSpent, Verification

\* A credit keeps pendingWithdrawals a mapping from accounts to amounts.
LEMMA CreditType ==
  ASSUME TypeOK, NEW a, NEW amount \in Nat, Credit(a, amount)
  PROVE  pendingWithdrawals' \in [Account -> Nat]
<1>1. pendingWithdrawals \in [Account -> Nat]
  BY DEF TypeOK
<1>2. CASE a \in Account
  BY <1>1, <1>2 DEF Credit
<1>3. CASE a \notin Account
  <2>1. pendingWithdrawals' = pendingWithdrawals
    BY <1>1, <1>3 DEF Credit
  <2> QED
    BY <1>1, <2>1
<1> QED
  BY <1>2, <1>3

LEMMA ResolveTypeOK ==
  ASSUME TypeOK, NEW e \in EventHash, NEW w \in BOOLEAN, ResolveChallenge(e, w)
  PROVE  TypeOK'
<1>1. verifications' \in [EventHash -> Verification]
  BY BondSpentType DEF ResolveChallenge
<1>2. challenges' \in [EventHash -> ChallengeRecord]
  BY DEF ResolveChallenge, TypeOK, ChallengeRecord
<1>3. verifications[e].bond + challenges[e].amount \in Nat
  BY DEF TypeOK, Verification, ChallengeRecord
<1>4. pendingWithdrawals' \in [Account -> Nat]
  BY <1>3, CreditType DEF ResolveChallenge
<1> QED
  BY <1>1, <1>2, <1>4 DEF ResolveChallenge, TypeOK, flags, config, chain

LEMMA ReclaimTypeOK ==
  ASSUME TypeOK, NEW e \in EventHash, ReclaimBond(e)
  PROVE  TypeOK'
<1>1. verifications' \in [EventHash -> Verification]
  BY BondSpentType DEF ReclaimBond
<1>2. verifications[e].bond \in Nat
  BY DEF TypeOK, Verification
<1>3. pendingWithdrawals' \in [Account -> Nat]
  BY <1>2, CreditType DEF ReclaimBond
<1> QED
  BY <1>1, <1>3 DEF ReclaimBond, TypeOK, flags, config, chain

LEMMA NextTypeOK == TypeOK /\ [Next]_vars => TypeOK'
<1> SUFFICES ASSUME TypeOK, [Next]_vars
             PROVE  TypeOK'
  OBVIOUS
<1>1. CASE Record
  BY <1>1, RecordTypeOK DEF Record
<1>2. CASE CallChallenge
  BY <1>2, ChallengeTypeOK DEF CallChallenge
<1>3. ASSUME NEW e \in EventHash, Resolve(e)
      PROVE  TypeOK'
  BY <1>3, ResolveTypeOK DEF Resolve
<1>4. ASSUME NEW e \in EventHash, ReclaimBond(e)
      PROVE  TypeOK'
  BY <1>4, ReclaimTypeOK
<1>5. ASSUME NEW e \in EventHash, NEW r \in Reason, ReportDiscrepancy(e, r)
      PROVE  TypeOK'
  BY <1>5 DEF ReportDiscrepancy, TypeOK, books, config, chain
<1>6. ASSUME NEW a \in Account, WithdrawCall(a)
      PROVE  TypeOK'
  BY <1>6 DEF WithdrawCall, MayWithdraw, TypeOK, flags, config, chain
<1>7. CASE WithdrawReturn
  BY <1>7 DEF WithdrawReturn, TypeOK, books, flags, config, chain
<1>8. CASE OwnerCall
  <2>1. ASSUME NEW a \in Account, NEW b \in BondSetting, SetRequiredBond(a, b)
        PROVE  TypeOK'
    BY <2>1, NumbersAssumption DEF SetRequiredBond, TypeOK, books, flags, chain
  <2>2. ASSUME NEW a \in Account, NEW w \in WindowSetting, SetChallengeWindow(a, w)
        PROVE  TypeOK'
    BY <2>2, NumbersAssumption DEF SetChallengeWindow, WithinCap, TypeOK, books, flags, chain
  <2>3. ASSUME NEW a \in Account, NEW o \in OwnerSetting, ChangeOwner(a, o)
        PROVE  TypeOK'
    BY <2>3, KeysAssumption DEF ChangeOwner, TypeOK, books, flags, chain
  <2> QED
    BY <1>8, <2>1, <2>2, <2>3 DEF OwnerCall
<1>9. CASE ChainStep
  <2>1. ASSUME NEW s \in WillSign, NodeSign(s[1], s[2])
        PROVE  TypeOK'
    <3>1. <<s[1], s[2]>> \in Node \X Digest
      BY SignaturesAssumption
    <3> QED
      BY <2>1, <3>1 DEF NodeSign, TypeOK, books, flags, config
  <2>2. ASSUME NEW e \in EventHash, NEW f \in FilterFlag, FilterAnswers(e, f)
        PROVE  TypeOK'
    BY <2>2, KeysAssumption DEF FilterAnswers, TypeOK, books, flags, config
  <2>3. ASSUME NEW t \in Token, NEW m \in Multiplier \cup {NotERC8056}, TokenAnswers(t, m)
        PROVE  TypeOK'
    BY <2>3 DEF TokenAnswers, TypeOK, books, flags, config
  <2> QED
    BY <1>9, <2>1, <2>2, <2>3 DEF ChainStep
<1>10. CASE Tick
  BY <1>10, NumbersAssumption DEF Tick, TypeOK, books, flags, config
<1>11. CASE UNCHANGED vars
  BY <1>11 DEF vars, books, flags, config, chain, TypeOK
<1> QED
  BY <1>1, <1>2, <1>3, <1>4, <1>5, <1>6, <1>7, <1>8, <1>9, <1>10, <1>11 DEF Next

\* Every variable of the registry keeps its type in every behaviour.
THEOREM TypeCorrect == Spec => []TypeOK
BY InitTypeOK, NextTypeOK, PTL DEF Spec
-----------------------------------------------------------------------------
(* Bonds and challenges *)

\* The inductive invariant: what is not recorded has neither bond nor challenge,
\* a resolution leaves no bond behind, and an open challenge is over a bond.
Bookkeeping(e) ==
  /\ ~Recorded(e) => verifications[e].bond = 0 /\ challenges[e] = NoChallenge
  /\ Recorded(e) => verifications[e].recordedBy \in Account /\ verifications[e].recordedAt <= MaxTime
  /\ challenges[e].resolved => verifications[e].bond = 0
  /\ OpenChallenge(e) =>
       verifications[e].bond > 0 /\ challenges[e].amount >= verifications[e].bond

BooksKept == \A e \in EventHash : Bookkeeping(e)

USE DEF Recorded, OpenChallenge, NoChallenge

LEMMA InitBooksKept == Init => BooksKept
BY DEF Init, BooksKept, Bookkeeping, NoVerification

\* An event whose record and challenge a step leaves alone stays in order.
LEMMA UntouchedBooks ==
  ASSUME NEW e \in EventHash, Bookkeeping(e),
         verifications'[e] = verifications[e], challenges'[e] = challenges[e]
  PROVE  Bookkeeping(e)'
BY DEF Bookkeeping

LEMMA RecordBooksKept ==
  ASSUME TypeOK, BooksKept, Record
  PROVE  BooksKept'
<1> PICK a \in Account, e \in EventHash, t \in Token \cup {ZeroAddress}, f \in BOOLEAN,
         m \in Multiplier, c \in Content, value \in 0..MaxValue :
           now <= LastRecordTime /\ RecordVerification(a, e, t, f, m, c, value)
  BY DEF Record
<1> SUFFICES ASSUME NEW x \in EventHash
             PROVE  Bookkeeping(x)'
  BY DEF BooksKept
<1>1. Bookkeeping(x)
  BY DEF BooksKept
<1>2. CASE x = e
  <2>1. /\ verifications'[e].recordedBy = a
        /\ verifications'[e].recordedAt = now
        /\ verifications'[e].bond = value
    BY DEF RecordVerification, TypeOK
  <2>2. challenges'[e] = NoChallenge
    BY <1>1, <1>2 DEF Bookkeeping, RecordVerification, MayRecord
  <2>3. now # 0 /\ now <= MaxTime
    BY NumbersAssumption DEF TypeOK
  <2> QED
    BY <1>2, <2>1, <2>2, <2>3 DEF Bookkeeping
<1>3. CASE x # e
  <2>1. verifications'[x] = verifications[x] /\ challenges'[x] = challenges[x]
    BY <1>3 DEF RecordVerification, TypeOK
  <2> QED
    BY <1>1, <2>1, UntouchedBooks
<1> QED
  BY <1>2, <1>3

LEMMA ChallengeBooksKept ==
  ASSUME TypeOK, BooksKept, CallChallenge
  PROVE  BooksKept'
<1> PICK a \in Account, e \in EventHash, value \in 0..MaxValue : Challenge(a, e, value)
  BY DEF CallChallenge
<1> SUFFICES ASSUME NEW x \in EventHash
             PROVE  Bookkeeping(x)'
  BY DEF BooksKept
<1>1. Bookkeeping(x)
  BY DEF BooksKept
<1>2. CASE x = e
  <2>1. /\ challenges'[e] = [challenger |-> a, amount |-> value, resolved |-> FALSE]
        /\ verifications' = verifications
    BY DEF Challenge, TypeOK
  <2>2. verifications[e].bond \in Nat
    BY DEF TypeOK, Verification
  <2>3. Recorded(e) /\ verifications[e].bond > 0 /\ value >= verifications[e].bond
    BY <2>2 DEF Challenge, Challengeable
  <2> QED
    BY <1>1, <1>2, <2>1, <2>3 DEF Bookkeeping
<1>3. CASE x # e
  <2>1. verifications'[x] = verifications[x] /\ challenges'[x] = challenges[x]
    BY <1>3 DEF Challenge, TypeOK
  <2> QED
    BY <1>1, <2>1, UntouchedBooks
<1> QED
  BY <1>2, <1>3

LEMMA ResolveBooksKept ==
  ASSUME TypeOK, BooksKept, NEW e \in EventHash, Resolve(e)
  PROVE  BooksKept'
<1> PICK w \in BOOLEAN : ResolveChallenge(e, w)
  BY DEF Resolve
<1> SUFFICES ASSUME NEW x \in EventHash
             PROVE  Bookkeeping(x)'
  BY DEF BooksKept
<1>1. Bookkeeping(x)
  BY DEF BooksKept
<1>2. CASE x = e
  <2>1. /\ verifications'[e].bond = 0
        /\ verifications'[e].recordedAt = verifications[e].recordedAt
        /\ verifications'[e].recordedBy = verifications[e].recordedBy
    BY BondSpentType DEF ResolveChallenge
  <2>2. challenges'[e].resolved
    BY DEF ResolveChallenge, TypeOK, ChallengeRecord
  <2>3. Recorded(e)
    BY <1>1, <1>2 DEF Bookkeeping, ResolveChallenge
  <2> QED
    BY <1>1, <1>2, <2>1, <2>2, <2>3 DEF Bookkeeping
<1>3. CASE x # e
  <2>1. verifications'[x] = verifications[x] /\ challenges'[x] = challenges[x]
    BY <1>3, BondSpentType DEF ResolveChallenge, TypeOK
  <2> QED
    BY <1>1, <2>1, UntouchedBooks
<1> QED
  BY <1>2, <1>3

LEMMA ReclaimBooksKept ==
  ASSUME TypeOK, BooksKept, NEW e \in EventHash, ReclaimBond(e)
  PROVE  BooksKept'
<1> SUFFICES ASSUME NEW x \in EventHash
             PROVE  Bookkeeping(x)'
  BY DEF BooksKept
<1>1. Bookkeeping(x)
  BY DEF BooksKept
<1>2. CASE x = e
  <2>1. /\ verifications'[e].bond = 0
        /\ verifications'[e].recordedAt = verifications[e].recordedAt
        /\ verifications'[e].recordedBy = verifications[e].recordedBy
        /\ challenges' = challenges
    BY BondSpentType DEF ReclaimBond
  <2>2. Recorded(e) /\ ~OpenChallenge(e)
    BY DEF ReclaimBond, Reclaimable
  <2> QED
    BY <1>1, <1>2, <2>1, <2>2 DEF Bookkeeping
<1>3. CASE x # e
  <2>1. verifications'[x] = verifications[x] /\ challenges'[x] = challenges[x]
    BY <1>3, BondSpentType DEF ReclaimBond
  <2> QED
    BY <1>1, <2>1, UntouchedBooks
<1> QED
  BY <1>2, <1>3

\* The other steps touch neither records nor challenges.
OtherStep ==
  \/ \E e \in EventHash, r \in Reason : ReportDiscrepancy(e, r)
  \/ \E a \in Account : WithdrawCall(a)
  \/ WithdrawReturn \/ OwnerCall \/ ChainStep \/ Tick

LEMMA OtherStepKeeps ==
  OtherStep \/ UNCHANGED vars => UNCHANGED <<verifications, challenges>>
BY DEF OtherStep, ReportDiscrepancy, WithdrawCall, WithdrawReturn, OwnerCall, SetRequiredBond,
       SetChallengeWindow, ChangeOwner, ChainStep, NodeSign, FilterAnswers, TokenAnswers, Tick,
       books, vars

LEMMA NextSplits ==
  ASSUME [Next]_vars
  PROVE  \/ Record \/ CallChallenge \/ OtherStep \/ UNCHANGED vars
         \/ \E e \in EventHash : Resolve(e)
         \/ \E e \in EventHash : ReclaimBond(e)
BY DEF Next, OtherStep

LEMMA NextBooksKept == TypeOK /\ BooksKept /\ [Next]_vars => BooksKept'
<1> SUFFICES ASSUME TypeOK, BooksKept, [Next]_vars
             PROVE  BooksKept'
  OBVIOUS
<1>1. CASE OtherStep \/ UNCHANGED vars
  BY <1>1, OtherStepKeeps DEF BooksKept, Bookkeeping
<1> QED
  BY <1>1, NextSplits, RecordBooksKept, ChallengeBooksKept, ResolveBooksKept, ReclaimBooksKept

LEMMA BooksAreKept == Spec => []BooksKept
BY InitBooksKept, NextBooksKept, TypeCorrect, PTL DEF Spec

\* An open challenge is always over a bond still posted, and stakes as much.
THEOREM ChallengesCovered == Spec => []OpenChallengeIsCovered
<1>1. BooksKept => OpenChallengeIsCovered
  BY DEF BooksKept, Bookkeeping, OpenChallengeIsCovered
<1> QED
  BY <1>1, BooksAreKept, PTL

\* No challenge window set by the owner makes a deadline overflow.
THEOREM DeadlinesFit == Spec => []DeadlineNeverOverflows
<1>1. TypeOK /\ BooksKept => DeadlineNeverOverflows
  BY NumbersAssumption
  DEF BooksKept, Bookkeeping, DeadlineNeverOverflows, DeadlineFits, TypeOK, Verification
<1> QED
  BY <1>1, BooksAreKept, TypeCorrect, PTL
LEMMA OtherStepBooks ==
  OtherStep \/ UNCHANGED vars => (\E a \in Account : WithdrawCall(a)) \/ UNCHANGED books
BY DEF OtherStep, ReportDiscrepancy, WithdrawReturn, OwnerCall, SetRequiredBond,
       SetChallengeWindow, ChangeOwner, ChainStep, NodeSign, FilterAnswers, TokenAnswers, Tick, vars

-----------------------------------------------------------------------------
(* What a step may never do *)

\* A resolved challenge is final: the bond is gone, so it cannot be reopened.
THEOREM ResolutionIsFinal == Spec => ResolvedOnce
<1>1. TypeOK /\ BooksKept /\ [Next]_vars =>
        [\A e \in EventHash : challenges[e].resolved => challenges'[e] = challenges[e]]_vars
  <2> SUFFICES ASSUME TypeOK, BooksKept, [Next]_vars,
                      NEW e \in EventHash, challenges[e].resolved
               PROVE  challenges'[e] = challenges[e]
    OBVIOUS
  <2>1. verifications[e].bond = 0
    BY DEF BooksKept, Bookkeeping
  <2>2. CASE CallChallenge
    BY <2>1, <2>2 DEF CallChallenge, Challenge, Challengeable, TypeOK
  <2>3. ASSUME NEW x \in EventHash, Resolve(x)
        PROVE  challenges'[e] = challenges[e]
    BY <2>3 DEF Resolve, ResolveChallenge, TypeOK
  <2>4. CASE Record
    BY <2>4 DEF Record, RecordVerification
  <2>5. ASSUME NEW x \in EventHash, ReclaimBond(x)
        PROVE  challenges'[e] = challenges[e]
    BY <2>5 DEF ReclaimBond
  <2> QED
    BY <2>2, <2>3, <2>4, <2>5, NextSplits, OtherStepKeeps
<1> QED
  BY <1>1, BooksAreKept, TypeCorrect, PTL DEF Spec, ResolvedOnce

\* What a step may do to a recorded event.
RecordKept(e) ==
  /\ \E b \in {0, verifications[e].bond} : verifications'[e] = [verifications[e] EXCEPT !.bond = b]
  /\ hasDiscrepancy[e] => hasDiscrepancy'[e]

LEMMA SameRecordKept ==
  ASSUME TypeOK, NEW e \in EventHash, verifications'[e] = verifications[e],
         hasDiscrepancy[e] => hasDiscrepancy'[e]
  PROVE  RecordKept(e)
<1>1. verifications[e] = [verifications[e] EXCEPT !.bond = verifications[e].bond]
  BY DEF TypeOK, Verification
<1> QED
  BY <1>1 DEF RecordKept

LEMMA SpentRecordKept ==
  ASSUME TypeOK, NEW x \in EventHash, verifications' = BondSpent(x),
         hasDiscrepancy' = hasDiscrepancy, NEW e \in EventHash
  PROVE  RecordKept(e)
<1>1. CASE e = x
  <2>1. verifications'[e] = [verifications[e] EXCEPT !.bond = 0]
    BY <1>1 DEF BondSpent, TypeOK
  <2> QED
    BY <2>1 DEF RecordKept
<1>2. CASE e # x
  BY <1>2, BondSpentType, SameRecordKept
<1> QED
  BY <1>1, <1>2

LEMMA OtherStepFlags ==
  ASSUME TypeOK, OtherStep \/ UNCHANGED vars, NEW e \in EventHash
  PROVE  hasDiscrepancy[e] => hasDiscrepancy'[e]
BY DEF OtherStep, ReportDiscrepancy, WithdrawCall, WithdrawReturn, OwnerCall, SetRequiredBond,
       SetChallengeWindow, ChangeOwner, ChainStep, NodeSign, FilterAnswers, TokenAnswers, Tick,
       flags, vars, TypeOK

LEMMA NextRecordKept ==
  ASSUME TypeOK, [Next]_vars, NEW e \in EventHash, Recorded(e)
  PROVE  RecordKept(e)
<1>1. CASE Record
  <2>1. verifications'[e] = verifications[e] /\ hasDiscrepancy' = hasDiscrepancy
    BY <1>1 DEF Record, RecordVerification, MayRecord, TypeOK
  <2> QED
    BY <2>1, SameRecordKept
<1>2. CASE CallChallenge
  <2>1. verifications' = verifications /\ hasDiscrepancy' = hasDiscrepancy
    BY <1>2 DEF CallChallenge, Challenge, flags
  <2> QED
    BY <2>1, SameRecordKept
<1>3. ASSUME NEW x \in EventHash, Resolve(x)
      PROVE  RecordKept(e)
  BY <1>3, SpentRecordKept DEF Resolve, ResolveChallenge, flags
<1>4. ASSUME NEW x \in EventHash, ReclaimBond(x)
      PROVE  RecordKept(e)
  BY <1>4, SpentRecordKept DEF ReclaimBond, flags
<1>5. CASE OtherStep \/ UNCHANGED vars
  BY <1>5, OtherStepKeeps, OtherStepFlags, SameRecordKept
<1> QED
  BY <1>1, <1>2, <1>3, <1>4, <1>5, NextSplits

\* Records and discrepancy flags are permanent.
THEOREM RecordsPermanent == Spec => RecordsArePermanent
<1>1. TypeOK /\ [Next]_vars => [\A e \in EventHash : Recorded(e) => RecordKept(e)]_vars
  BY NextRecordKept
<1> QED
  BY <1>1, TypeCorrect, PTL DEF Spec, RecordsArePermanent, RecordKept

-----------------------------------------------------------------------------
(* The latest verification of a token *)

NoFutureRecord == \A e \in EventHash : verifications[e].recordedAt <= now

LEMMA NextNoFuture == TypeOK /\ NoFutureRecord /\ [Next]_vars => NoFutureRecord'
<1> SUFFICES ASSUME TypeOK, NoFutureRecord, [Next]_vars, NEW e \in EventHash
             PROVE  verifications'[e].recordedAt <= now'
  BY DEF NoFutureRecord
<1>1. now <= now' /\ now' \in Int
  BY NumbersAssumption, NextTypeOK DEF TypeOK, Next, Record, RecordVerification, ReportDiscrepancy, CallChallenge,
     Challenge, Resolve, ResolveChallenge, ReclaimBond, WithdrawCall, WithdrawReturn, OwnerCall,
     SetRequiredBond, SetChallengeWindow, ChangeOwner, ChainStep, NodeSign, FilterAnswers,
     TokenAnswers, Tick, chain, vars
<1>2. verifications[e].recordedAt <= now /\ verifications[e].recordedAt \in Int /\ now \in Int
  BY DEF NoFutureRecord, TypeOK, Verification
<1>3. verifications'[e].recordedAt \in {verifications[e].recordedAt, now}
  <2>1. CASE Record
    BY <2>1 DEF Record, RecordVerification, TypeOK
  <2>2. CASE verifications' = verifications
    BY <2>2
  <2>3. ASSUME NEW x \in EventHash, verifications' = BondSpent(x)
        PROVE  verifications'[e].recordedAt = verifications[e].recordedAt
    BY <2>3 DEF BondSpent, TypeOK, Verification
  <2> QED
    BY <2>1, <2>2, <2>3, NextSplits, OtherStepKeeps
    DEF CallChallenge, Challenge, Resolve, ResolveChallenge, ReclaimBond
<1> QED
  BY <1>1, <1>2, <1>3

\* Only Record moves the pointers, and only Record changes which token a record
\* is of or when it was made.
LEMMA PointerSteps ==
  ASSUME TypeOK, [Next]_vars, ~Record
  PROVE  /\ latestVerificationForToken' = latestVerificationForToken
         /\ \A e \in EventHash : /\ verifications'[e].token = verifications[e].token
                               /\ verifications'[e].recordedAt = verifications[e].recordedAt
<1>1. latestVerificationForToken' = latestVerificationForToken
  BY NextSplits
  DEF OtherStep, ReportDiscrepancy, WithdrawCall, WithdrawReturn, OwnerCall, SetRequiredBond,
      SetChallengeWindow, ChangeOwner, ChainStep, NodeSign, FilterAnswers, TokenAnswers, Tick,
      CallChallenge, Challenge, Resolve, ResolveChallenge, ReclaimBond, flags, vars
<1>2. ASSUME NEW x \in EventHash, verifications' = BondSpent(x), NEW e \in EventHash
      PROVE  /\ verifications'[e].token = verifications[e].token
             /\ verifications'[e].recordedAt = verifications[e].recordedAt
  BY <1>2 DEF BondSpent, TypeOK, Verification
<1> QED
  BY <1>1, <1>2, NextSplits, OtherStepKeeps
  DEF CallChallenge, Challenge, Resolve, ResolveChallenge, ReclaimBond

\* The pointer of a token leads to a record of it than which none is newer.
THEOREM LatestNewest == Spec => []LatestIsNewest
<1>1. Init => NoFutureRecord /\ LatestIsNewest
  BY DEF Init, NoFutureRecord, LatestIsNewest, NoVerification
<1>2. TypeOK /\ NoFutureRecord /\ LatestIsNewest /\ [Next]_vars => LatestIsNewest'
  <2> SUFFICES ASSUME TypeOK, NoFutureRecord, LatestIsNewest, [Next]_vars
               PROVE  LatestIsNewest'
    OBVIOUS
  <2>1. CASE ~Record
    <3>1. \A t \in Token : latestVerificationForToken[t] \in EventHash \cup {ZeroWord}
      BY DEF TypeOK
    <3> QED
      BY <2>1, <3>1, PointerSteps DEF LatestIsNewest
  <2>2. CASE Record
    <3> PICK a \in Account, e \in EventHash, t \in Token \cup {ZeroAddress}, f \in BOOLEAN,
             m \in Multiplier, c \in Content, value \in 0..MaxValue :
               RecordVerification(a, e, t, f, m, c, value)
      BY <2>2 DEF Record
    <3>1. /\ verifications'[e].token = t /\ verifications'[e].recordedAt = now
          /\ \A x \in EventHash \ {e} : verifications'[x] = verifications[x]
          /\ verifications[e].recordedAt = 0
      BY DEF RecordVerification, MayRecord, TypeOK
    <3>2. /\ t \in Token /\ latestVerificationForToken'[t] = e
          /\ \A u \in Token \ {t} : latestVerificationForToken'[u] = latestVerificationForToken[u]
      BY DEF RecordVerification, Latest, TypeOK
    <3>3. \A x \in EventHash : verifications[x].recordedAt \in Nat /\ verifications[x].recordedAt <= now
      BY DEF NoFutureRecord, TypeOK, Verification
    <3>4. now \in Int /\ now # 0 /\ ZeroWord \notin EventHash
      BY KeysAssumption DEF TypeOK
    <3> SUFFICES ASSUME NEW u \in Token, NEW x \in EventHash,
                        Recorded(x)', verifications'[x].token = u
                 PROVE  /\ latestVerificationForToken'[u] # ZeroWord
                        /\ verifications'[latestVerificationForToken'[u]].token = u
                        /\ verifications'[latestVerificationForToken'[u]].recordedAt
                             >= verifications'[x].recordedAt
      BY DEF LatestIsNewest
    <3>5. CASE u = t
      BY <3>1, <3>2, <3>3, <3>4, <3>5
    <3>6. CASE u # t
      <4> DEFINE l == latestVerificationForToken[u]
      <4>1. x # e /\ latestVerificationForToken'[u] = l
        BY <3>1, <3>2, <3>6
      <4>2. /\ l # ZeroWord /\ verifications[l].token = u
            /\ verifications[l].recordedAt >= verifications[x].recordedAt
        BY <3>1, <4>1 DEF LatestIsNewest
      <4>3. l \in EventHash
        BY <4>2 DEF TypeOK
      <4>4. l # e
        <5>1. verifications[x].recordedAt # 0 /\ verifications[x].recordedAt \in Nat
          BY <3>1, <3>3, <4>1
        <5> QED
          BY <3>1, <4>2, <5>1
      <4> QED
        BY <3>1, <4>1, <4>2, <4>3, <4>4
    <3> QED
      BY <3>5, <3>6
  <2> QED
    BY <2>1, <2>2
<1> QED
  BY <1>1, <1>2, NextNoFuture, TypeCorrect, PTL DEF Spec

-----------------------------------------------------------------------------
(* Signatures *)

\* Signatures are never lost, so consensus once reached stays reached.
LEMMA ConsensusStays ==
  ASSUME [Next]_vars, NEW d, ConsensusReached(d)
  PROVE  ConsensusReached(d)'
<1>1. signed \subseteq signed'
  BY DEF Next, Record, RecordVerification, ReportDiscrepancy, CallChallenge, Challenge, Resolve,
         ResolveChallenge, ReclaimBond, WithdrawCall, WithdrawReturn, OwnerCall, SetRequiredBond,
         SetChallengeWindow, ChangeOwner, ChainStep, NodeSign, FilterAnswers, TokenAnswers, Tick,
         chain, vars
<1>2. Signers(d) \subseteq Signers(d)' /\ Signers(d)' \subseteq Node
  BY <1>1 DEF Signers
<1>3. IsFiniteSet(Signers(d)')
  BY <1>2, SignaturesAssumption, FS_Subset
<1>4. /\ Cardinality(Signers(d)) <= Cardinality(Signers(d)')
      /\ Cardinality(Signers(d)) \in Nat /\ Cardinality(Signers(d)') \in Nat
  BY <1>2, <1>3, FS_Subset, FS_CardinalityType
<1> QED
  BY <1>4 DEF ConsensusReached, CONSENSUS_THRESHOLD

\* Fewer faulty nodes than the threshold cannot reach consensus by themselves:
\* at least one signature is of a node that is not faulty.
THEOREM NoConsensusOfFaultyNodes ==
  ASSUME NEW Faulty, Faulty \subseteq Node, Cardinality(Faulty) < CONSENSUS_THRESHOLD,
         NEW d, ConsensusReached(d)
  PROVE  \E n \in Node \ Faulty : <<n, d>> \in signed
<1> SUFFICES ASSUME Signers(d) \subseteq Faulty
             PROVE  FALSE
  BY DEF Signers
<1>1. IsFiniteSet(Faulty)
  BY SignaturesAssumption, FS_Subset
<1>2. /\ Cardinality(Signers(d)) <= Cardinality(Faulty)
      /\ Cardinality(Signers(d)) \in Nat /\ Cardinality(Faulty) \in Nat
  BY <1>1, FS_Subset, FS_CardinalityType
<1> QED
  BY <1>2 DEF ConsensusReached, CONSENSUS_THRESHOLD

SignedEffects(e) ==
  /\ Recorded(e) => ConsensusReached(RecordedDigest(e))
  /\ hasDiscrepancy[e] => Recorded(e) /\ \E r \in Reason : ConsensusReached(DiscrepancyDigest(e, r, This))
  /\ challenges[e].resolved => \E w \in BOOLEAN : ConsensusReached(ResolveDigest(e, w, This))

\* What the three parts of SignedEffects say of a recorded event depends on the
\* record only through the fields that RecordKept leaves alone.
LEMMA KeptRecordDigest ==
  ASSUME TypeOK, NEW e \in EventHash, RecordKept(e)
  PROVE  RecordedDigest(e)' = RecordedDigest(e) /\ (Recorded(e)' <=> Recorded(e))
BY DEF RecordKept, RecordedDigest, RecordDigest, TypeOK, Verification
\* A record enters as the nodes signed it: its stored values are their claims.
LEMMA NewRecordSigned ==
  ASSUME TypeOK, [Next]_vars, NEW e \in EventHash, ~Recorded(e), Recorded(e)'
  PROVE  ConsensusReached(RecordedDigest(e))'
<1>1. Record
  BY BondSpentType, NextSplits, OtherStepKeeps DEF CallChallenge, Challenge, Resolve, ResolveChallenge, ReclaimBond
<1>2. PICK a \in Account, x \in EventHash, t \in Token \cup {ZeroAddress}, f \in BOOLEAN,
           m \in Multiplier, c \in Content, value \in 0..MaxValue :
             RecordVerification(a, x, t, f, m, c, value)
  BY <1>1 DEF Record
<1>3. x = e
  BY <1>2 DEF RecordVerification, TypeOK
<1>4. ConsensusReached(RecordDigest(e, t, f, m, c, This))
  BY <1>2, <1>3 DEF RecordVerification
<1>5. /\ verifications'[e].token = t /\ verifications'[e].content = c
      /\ verifications'[e].wasFiltered = f /\ verifications'[e].newMultiplier = m
  BY <1>2, <1>3 DEF RecordVerification, ClaimsMatch, TypeOK
<1>6. RecordedDigest(e)' = RecordDigest(e, t, f, m, c, This)
  BY <1>5 DEF RecordedDigest, RecordDigest
<1>7. PICK d : d = RecordDigest(e, t, f, m, c, This)
  OBVIOUS
<1>8. ConsensusReached(d)'
  BY <1>4, <1>7, ConsensusStays
<1> QED
  BY <1>6, <1>7, <1>8 DEF ConsensusReached, Signers

LEMMA SignedEffectsStep ==
  ASSUME TypeOK, BooksKept, [Next]_vars, NEW e \in EventHash, SignedEffects(e)
  PROVE  SignedEffects(e)'
<1>1. Recorded(e)' => ConsensusReached(RecordedDigest(e))'
  <2>1. CASE Recorded(e)
    <3>1. PICK d : d = RecordedDigest(e)
      OBVIOUS
    <3>2. ConsensusReached(d)' /\ RecordedDigest(e)' = d
      BY <2>1, <3>1, ConsensusStays, NextRecordKept, KeptRecordDigest DEF SignedEffects
    <3> QED
      BY <3>2 DEF ConsensusReached, Signers
  <2> QED
    BY <2>1, NewRecordSigned
<1>2. Recorded(e) => Recorded(e)'
  BY NextRecordKept, KeptRecordDigest
<1>3. ASSUME hasDiscrepancy'[e]
      PROVE  Recorded(e) /\ \E r \in Reason : ConsensusReached(DiscrepancyDigest(e, r, This))
  <2>1. CASE hasDiscrepancy[e]
    BY <2>1 DEF SignedEffects
  <2>2. CASE ~hasDiscrepancy[e]
    <3>1. hasDiscrepancy' # hasDiscrepancy
      BY <1>3, <2>2
    <3>2. \E x \in EventHash, r \in Reason : ReportDiscrepancy(x, r)
      BY <3>1, NextSplits DEF OtherStep, WithdrawCall, WithdrawReturn, OwnerCall,
         SetRequiredBond, SetChallengeWindow, ChangeOwner, ChainStep, NodeSign, FilterAnswers,
         TokenAnswers, Tick, Record, RecordVerification, CallChallenge, Challenge, Resolve,
         ResolveChallenge, ReclaimBond, flags, vars
    <3> QED
      BY <1>3, <2>2, <3>2 DEF ReportDiscrepancy, TypeOK
  <2> QED
    BY <2>1, <2>2
<1>4. ASSUME challenges'[e].resolved
      PROVE  \E w \in BOOLEAN : ConsensusReached(ResolveDigest(e, w, This))
  <2>1. CASE challenges[e].resolved
    BY <2>1 DEF SignedEffects
  <2>2. CASE ~challenges[e].resolved
    <3>1. challenges'[e] # challenges[e]
      BY <1>4, <2>2
    <3>2. CASE CallChallenge
      BY <1>4, <2>2, <3>2 DEF CallChallenge, Challenge, TypeOK
    <3>3. ASSUME NEW x \in EventHash, Resolve(x)
          PROVE  \E w \in BOOLEAN : ConsensusReached(ResolveDigest(e, w, This))
      BY <3>1, <3>3 DEF Resolve, ResolveChallenge, TypeOK
    <3> QED
      BY <3>1, <3>2, <3>3, NextSplits, OtherStepKeeps DEF Record, RecordVerification, ReclaimBond
  <2> QED
    BY <2>1, <2>2
<1>5. hasDiscrepancy'[e] => Recorded(e)' /\ \E r \in Reason : ConsensusReached(DiscrepancyDigest(e, r, This))'
  BY <1>2, <1>3, ConsensusStays
<1>6. challenges'[e].resolved => \E w \in BOOLEAN : ConsensusReached(ResolveDigest(e, w, This))'
  BY <1>4, ConsensusStays
<1> QED
  BY <1>1, <1>5, <1>6 DEF SignedEffects

\* Every record, flag and resolution was signed by two nodes for this contract.
THEOREM EffectsSigned == Spec => []EffectsAreSigned
<1> DEFINE Signed == \A e \in EventHash : SignedEffects(e)
<1>1. Init => Signed
  BY DEF Init, NoVerification, SignedEffects
<1>2. TypeOK /\ BooksKept /\ Signed /\ [Next]_vars => Signed'
  BY SignedEffectsStep
<1>3. Signed => EffectsAreSigned
  BY DEF SignedEffects, EffectsAreSigned
<1> HIDE DEF Signed
<1> QED
  BY <1>1, <1>2, <1>3, BooksAreKept, TypeCorrect, PTL DEF Spec

\* Some node that is not faulty has signed the digest.
HonestlySigned(d, Faulty) == \E n \in Node \ Faulty : <<n, d>> \in signed

\* As long as fewer nodes than the threshold are faulty, whatever they sign and
\* whoever submits it: every record as it is stored, every flag and every
\* resolution has a signature of a node that is not faulty behind it.
THEOREM EffectsAreHonest ==
  ASSUME NEW Faulty, Faulty \subseteq Node, Cardinality(Faulty) < CONSENSUS_THRESHOLD
  PROVE  Spec => [](\A e \in EventHash :
           /\ Recorded(e) => HonestlySigned(RecordedDigest(e), Faulty)
           /\ hasDiscrepancy[e] => \E r \in Reason : HonestlySigned(DiscrepancyDigest(e, r, This), Faulty)
           /\ challenges[e].resolved => \E w \in BOOLEAN : HonestlySigned(ResolveDigest(e, w, This), Faulty))
<1>1. \A d : ConsensusReached(d) => HonestlySigned(d, Faulty)
  BY NoConsensusOfFaultyNodes DEF HonestlySigned
<1>2. EffectsAreSigned => \A e \in EventHash :
        /\ Recorded(e) => HonestlySigned(RecordedDigest(e), Faulty)
        /\ hasDiscrepancy[e] => \E r \in Reason : HonestlySigned(DiscrepancyDigest(e, r, This), Faulty)
        /\ challenges[e].resolved => \E w \in BOOLEAN : HonestlySigned(ResolveDigest(e, w, This), Faulty)
  BY <1>1 DEF EffectsAreSigned
<1> QED
  BY <1>2, EffectsSigned, PTL

-----------------------------------------------------------------------------
(* The registry implements its two abstract specifications *)

-----------------------------------------------------------------------------
(* The log of records *)

\* What the mapping to the log needs of a state: an event without a record has
\* the zero record, and the precompile gives one of the answers that occur.
Clean ==
  /\ \A e \in EventHash : ~Recorded(e) => verifications[e] = NoVerification
  /\ filtered \in [EventHash -> FilterFlag]

LEMMA InitClean == Init => Clean
BY DEF Init, Clean, NoVerification

LEMMA NextClean == TypeOK /\ BooksKept /\ Clean /\ [Next]_vars => Clean'
<1> SUFFICES ASSUME TypeOK, BooksKept, Clean, [Next]_vars
             PROVE  Clean'
  OBVIOUS
<1>1. filtered' \in [EventHash -> FilterFlag]
  <2>1. CASE ChainStep
    BY <2>1 DEF ChainStep, NodeSign, FilterAnswers, TokenAnswers, Clean
  <2>2. CASE ~ChainStep
    BY <2>2 DEF Next, Record, RecordVerification, CallChallenge, Challenge, Resolve, ResolveChallenge,
       ReclaimBond, ReportDiscrepancy, WithdrawCall, WithdrawReturn, OwnerCall, SetRequiredBond,
       SetChallengeWindow, ChangeOwner, Tick, chain, vars, Clean
  <2> QED
    BY <2>1, <2>2
<1>2. ASSUME NEW e \in EventHash, verifications'[e].recordedAt = 0
      PROVE  verifications'[e] = NoVerification
  <2>1. CASE Recorded(e)
    <3>1. verifications'[e].recordedAt = verifications[e].recordedAt
      <4>1. RecordKept(e)
        BY <2>1, NextRecordKept
      <4> QED
        BY <4>1 DEF RecordKept, TypeOK, Verification
    <3> QED
      BY <1>2, <2>1, <3>1
  <2>2. CASE ~Recorded(e)
    <3>1. verifications[e] = NoVerification
      BY <2>2 DEF Clean
    <3>2. CASE Record
      <4> PICK a \in Account, x \in EventHash, t \in Token \cup {ZeroAddress}, f \in BOOLEAN,
               m \in Multiplier, c \in Content, value \in 0..MaxValue :
                 RecordVerification(a, x, t, f, m, c, value)
        BY <3>2 DEF Record
      <4>1. verifications'[x].recordedAt = now /\ now # 0
        BY DEF RecordVerification, TypeOK
      <4> QED
        BY <1>2, <3>1, <4>1 DEF RecordVerification, TypeOK
    <3>3. CASE CallChallenge
      BY <3>1, <3>3 DEF CallChallenge, Challenge
    <3>4. ASSUME NEW x \in EventHash, Resolve(x) \/ ReclaimBond(x)
          PROVE  verifications'[e] = NoVerification
      <4>1. Recorded(x) /\ verifications' = BondSpent(x)
        BY <3>4 DEF Resolve, ResolveChallenge, ReclaimBond, Reclaimable, BooksKept, Bookkeeping
      <4> QED
        BY <2>2, <3>1, <4>1, BondSpentType
    <3>5. CASE OtherStep \/ UNCHANGED vars
      BY <3>1, <3>5, OtherStepKeeps
    <3> QED
      BY <3>2, <3>3, <3>4, <3>5, NextSplits
  <2> QED
    BY <2>1, <2>2
<1> QED
  BY <1>1, <1>2 DEF Clean

LEMMA AlwaysClean == Spec => []Clean
BY InitClean, NextClean, BooksAreKept, TypeCorrect, PTL DEF Spec

\* The log's view of one event.
Entry(e) == [verifications[e] EXCEPT !.bond = 0]

LEMMA NoBondLeft ==
  ASSUME NEW v \in Verification, v.bond = 0
  PROVE  [v EXCEPT !.bond = 0] = v
BY DEF Verification

\* The zero record is its own entry, and that of no event with a record.
LEMMA Entries ==
  ASSUME NEW e \in EventHash, verifications \in [EventHash -> Verification]
  PROVE  /\ verifications[e] = NoVerification => Entry(e) = NoVerification
         /\ Recorded(e) => Entry(e) # NoVerification
         /\ Entry(e).bond = 0
<1>1. verifications[e] \in Verification
  OBVIOUS
<1>2. Entry(e).recordedAt = verifications[e].recordedAt /\ Entry(e).bond = 0
  BY <1>1 DEF Entry, Verification
<1>3. NoVerification.recordedAt = 0
  BY DEF NoVerification
<1>4. [NoVerification EXCEPT !.bond = 0] = NoVerification
  <2>1. NoVerification \in Verification /\ NoVerification.bond = 0
    BY DEF NoVerification, Verification
  <2> QED
    BY <2>1, NoBondLeft
<1> QED
  BY <1>2, <1>3, <1>4 DEF Entry

LEMMA LogInitially == Init => Log!Init
<1> SUFFICES ASSUME Init PROVE Log!Init
  OBVIOUS
<1>1. \A e \in EventHash : Entry(e) = NoVerification
  BY InitTypeOK, Entries DEF Init, TypeOK
<1> QED
  BY <1>1 DEF Init, Log!Init, Entry

\* A successful recordVerification writes one entry.
LEMMA RecordWrites ==
  ASSUME TypeOK, Clean, Record
  PROVE  Log!Next
<1> PICK a \in Account, e \in EventHash, t \in Token \cup {ZeroAddress}, f \in BOOLEAN,
         m \in Multiplier, c \in Content, value \in 0..MaxValue :
           now <= LastRecordTime /\ RecordVerification(a, e, t, f, m, c, value)
  BY DEF Record
<1>1. t \in Token /\ ActualMultiplier(t) \in Multiplier
  BY DEF RecordVerification, ClaimsMatch, ActualMultiplier, TypeOK
<1>2. filtered[e] \in FilterFlag /\ now \in 1..LastRecordTime
  BY NumbersAssumption DEF Clean, TypeOK
<1>3. PICK fact \in [token : Token, content : Content, newMultiplier : Multiplier,
                     wasFiltered : FilterFlag, recordedAt : 1..LastRecordTime, bond : {0},
                     recordedBy : Account] :
        fact = [token |-> t, content |-> c, newMultiplier |-> ActualMultiplier(t),
                wasFiltered |-> filtered[e], recordedAt |-> now, bond |-> 0, recordedBy |-> a]
  BY <1>1, <1>2
<1>4. Entry(e) = NoVerification
  BY Entries DEF RecordVerification, MayRecord, Clean, TypeOK
<1>5. Entry(e)' = fact /\ \A x \in EventHash \ {e} : Entry(x)' = Entry(x)
  BY <1>3 DEF RecordVerification, TypeOK, Entry
<1>6. [x \in EventHash |-> Entry(x)]' = [[x \in EventHash |-> Entry(x)] EXCEPT ![e] = fact]
  BY <1>5
<1>7. /\ latestVerificationForToken' = [latestVerificationForToken EXCEPT ![fact.token] = e]
      /\ hasDiscrepancy' = hasDiscrepancy
  BY <1>3 DEF RecordVerification, Latest
<1>8. Log!Write(e, fact)
  BY <1>4, <1>6, <1>7 DEF Log!Write, Log!Written, Entry
<1> QED
  BY <1>3, <1>8 DEF Log!Next

LEMMA ReportFlags ==
  ASSUME TypeOK, NEW e \in EventHash, NEW r \in Reason, ReportDiscrepancy(e, r)
  PROVE  Log!Next
<1>1. Entry(e) # NoVerification
  BY Entries DEF ReportDiscrepancy, TypeOK
<1>2. {x \in EventHash : hasDiscrepancy[x]}' = {x \in EventHash : hasDiscrepancy[x]} \cup {e}
  BY DEF ReportDiscrepancy, TypeOK
<1>3. verifications' = verifications /\ latestVerificationForToken' = latestVerificationForToken
  BY DEF ReportDiscrepancy, books
<1>4. Log!Flag(e)
  BY <1>1, <1>2, <1>3 DEF Log!Flag, Log!Written, Entry
<1> QED
  BY <1>4 DEF Log!Next

\* Every other step changes of a record at most its bond, and neither a flag nor
\* a pointer.
LEMMA OthersStutter ==
  ASSUME TypeOK, [Next]_vars, ~Record, ~\E e \in EventHash, r \in Reason : ReportDiscrepancy(e, r)
  PROVE  UNCHANGED Log!logVars
<1>1. UNCHANGED flags
  BY DEF Next, CallChallenge, Challenge, Resolve, ResolveChallenge, ReclaimBond, WithdrawCall,
     WithdrawReturn, OwnerCall, SetRequiredBond, SetChallengeWindow, ChangeOwner, ChainStep, NodeSign,
     FilterAnswers, TokenAnswers, Tick, vars
<1>2. ASSUME NEW e \in EventHash PROVE Entry(e)' = Entry(e)
  <2>1. ASSUME NEW x \in EventHash, Resolve(x) \/ ReclaimBond(x) PROVE Entry(e)' = Entry(e)
    <3>1. verifications' = BondSpent(x)
      BY <2>1 DEF Resolve, ResolveChallenge, ReclaimBond
    <3> QED
      BY <3>1 DEF BondSpent, Entry, TypeOK, Verification
  <2>2. CASE CallChallenge
    BY <2>2 DEF CallChallenge, Challenge, Entry
  <2>3. CASE OtherStep \/ UNCHANGED vars
    BY <2>3, OtherStepKeeps DEF Entry
  <2> QED
    BY <2>1, <2>2, <2>3, NextSplits
<1> QED
  BY <1>1, <1>2 DEF Log!logVars, flags, Entry

\* Whatever else the registry does, what its readers see of it is an append-only
\* log of records with flags that are never taken back (V2 79-82, 237-238).
THEOREM RefinesRecordLog == Spec => ImplementsRecordLog
<1>1. TypeOK /\ Clean /\ [Next]_vars => [Log!Next]_(Log!logVars)
  BY RecordWrites, ReportFlags, OthersStutter
<1> QED
  BY <1>1, LogInitially, AlwaysClean, TypeCorrect, PTL DEF Spec, ImplementsRecordLog, Log!Spec

-----------------------------------------------------------------------------
(* The escrow of bonds *)

\* How the state of an item reads, case by case.
LEMMA EscrowCases ==
  ASSUME TypeOK, NEW e \in EventHash
  PROVE  /\ EscrowOf(e).bond = verifications[e].bond
         /\ ~Recorded(e) => EscrowOf(e).stage = "none"
         /\ ~Recorded(e) /\ verifications[e].bond = 0 => EscrowOf(e) = Escrow!NotPosted
         /\ Recorded(e) /\ verifications[e].bond = 0 => EscrowOf(e) = Escrow!Settled
         /\ Recorded(e) /\ verifications[e].bond # 0 /\ ~OpenChallenge(e) =>
              EscrowOf(e) = [stage |-> "posted", poster |-> verifications[e].recordedBy,
                             bond |-> verifications[e].bond, contester |-> ZeroAddress, stake |-> 0]
         /\ Recorded(e) /\ verifications[e].bond # 0 /\ OpenChallenge(e) =>
              EscrowOf(e) = [stage |-> "contested", poster |-> verifications[e].recordedBy,
                             bond |-> verifications[e].bond,
                             contester |-> challenges[e].challenger, stake |-> challenges[e].amount]
BY DEF EscrowOf, Escrow!NotPosted, Escrow!Settled

\* An item changes only if its record or its challenge does.
LEMMA EscrowUntouched ==
  ASSUME NEW e, verifications'[e] = verifications[e], challenges'[e] = challenges[e]
  PROVE  EscrowOf(e)' = EscrowOf(e)
BY DEF EscrowOf

LEMMA EscrowStarts == Init => Escrow!Init
<1> SUFFICES ASSUME Init PROVE Escrow!Init
  OBVIOUS
<1>1. \A e \in EventHash : EscrowOf(e) = Escrow!NotPosted
  BY InitTypeOK, EscrowCases DEF Init, NoVerification
<1> QED
  BY <1>1 DEF Init, Escrow!Init

LEMMA RecordPosts ==
  ASSUME TypeOK, TypeOK', BooksKept, Record
  PROVE  Escrow!Next
<1> PICK a \in Account, e \in EventHash, t \in Token \cup {ZeroAddress}, f \in BOOLEAN,
         m \in Multiplier, c \in Content, value \in 0..MaxValue :
           RecordVerification(a, e, t, f, m, c, value)
  BY DEF Record
<1>1. EscrowOf(e) = Escrow!NotPosted
  BY EscrowCases DEF RecordVerification, MayRecord, BooksKept, Bookkeeping
<1>2. /\ verifications'[e].recordedAt # 0
      /\ verifications'[e].bond = value /\ verifications'[e].recordedBy = a
  BY DEF RecordVerification, TypeOK
<1>3. challenges'[e] = NoChallenge
  BY DEF RecordVerification, MayRecord, BooksKept, Bookkeeping
<1> DEFINE posted == IF value = 0 THEN Escrow!Settled
                     ELSE [Escrow!NotPosted EXCEPT !.stage = "posted", !.poster = a, !.bond = value]
<1>4. EscrowOf(e)' = posted
  <2>1. CASE value = 0
    BY <1>2, <1>3, <2>1 DEF EscrowOf, Escrow!NotPosted, Escrow!Settled
  <2>2. CASE value # 0
    <3>1. EscrowOf(e)' = [stage |-> "posted", poster |-> a, bond |-> value,
                          contester |-> ZeroAddress, stake |-> 0]
      BY <1>2, <1>3, <2>2 DEF EscrowOf
    <3>2. Escrow!NotPosted = [stage |-> "none", poster |-> ZeroAddress, bond |-> 0,
                             contester |-> ZeroAddress, stake |-> 0]
      BY DEF Escrow!NotPosted
    <3>3. ASSUME NEW y, y = [Escrow!NotPosted EXCEPT !.stage = "posted", !.poster = a, !.bond = value]
          PROVE  y = [stage |-> "posted", poster |-> a, bond |-> value,
                      contester |-> ZeroAddress, stake |-> 0]
      BY <3>2, <3>3
    <3>4. posted = [Escrow!NotPosted EXCEPT !.stage = "posted", !.poster = a, !.bond = value]
      BY <2>2
    <3> QED
      BY <3>1, <3>3, <3>4, Zenon
  <2> QED
    BY <2>1, <2>2
<1>5. \A x \in EventHash \ {e} : EscrowOf(x)' = EscrowOf(x)
  BY EscrowUntouched DEF RecordVerification, TypeOK
<1>6. [x \in EventHash |-> EscrowOf(x)]' = [[x \in EventHash |-> EscrowOf(x)] EXCEPT ![e] = posted]
  <2> HIDE DEF posted
  <2> QED
    BY <1>4, <1>5
<1>7. balance' = balance + value /\ pendingWithdrawals' = pendingWithdrawals
  BY DEF RecordVerification
<1>8. Escrow!Post(e, a, value)
  BY <1>1, <1>6, <1>7 DEF Escrow!Post
<1> QED
  BY <1>8 DEF Escrow!Next

LEMMA ChallengeContests ==
  ASSUME TypeOK, TypeOK', BooksKept, CallChallenge
  PROVE  Escrow!Next
<1> PICK a \in Account, e \in EventHash, value \in 0..MaxValue : Challenge(a, e, value)
  BY DEF CallChallenge
<1>1. EscrowOf(e) = [stage |-> "posted", poster |-> verifications[e].recordedBy,
                     bond |-> verifications[e].bond, contester |-> ZeroAddress, stake |-> 0]
  BY EscrowCases DEF Challenge, Challengeable
<1>2. /\ challenges'[e] = [challenger |-> a, amount |-> value, resolved |-> FALSE]
      /\ verifications' = verifications
  BY DEF Challenge, TypeOK
<1>3. /\ verifications'[e].recordedAt # 0 /\ verifications'[e].bond # 0
      /\ challenges'[e].challenger # ZeroAddress /\ ~challenges'[e].resolved
  BY <1>2, KeysAssumption DEF Challenge, Challengeable
<1>4. EscrowOf(e)' = [stage |-> "contested", poster |-> verifications[e].recordedBy,
                      bond |-> verifications[e].bond, contester |-> a, stake |-> value]
  BY <1>2, <1>3 DEF EscrowOf
<1>5. EscrowOf(e)' = [EscrowOf(e) EXCEPT !.stage = "contested", !.contester = a, !.stake = value]
  <2>1. ASSUME NEW r, NEW o, NEW b, NEW y,
               r = [stage |-> "posted", poster |-> o, bond |-> b, contester |-> ZeroAddress, stake |-> 0],
               y = [r EXCEPT !.stage = "contested", !.contester = a, !.stake = value]
        PROVE  y = [stage |-> "contested", poster |-> o, bond |-> b, contester |-> a, stake |-> value]
    BY <2>1
  <2> QED
    BY <1>1, <1>4, <2>1, Zenon
<1>6. \A x \in EventHash \ {e} : EscrowOf(x)' = EscrowOf(x)
  BY EscrowUntouched DEF Challenge, TypeOK
<1>7. [x \in EventHash |-> EscrowOf(x)]' =
        [[x \in EventHash |-> EscrowOf(x)] EXCEPT
           ![e] = [@ EXCEPT !.stage = "contested", !.contester = a, !.stake = value]]
  BY <1>5, <1>6
<1>8. /\ value >= verifications[e].bond
      /\ balance' = balance + value /\ pendingWithdrawals' = pendingWithdrawals
  BY DEF Challenge
<1>9. Escrow!Contest(e, a, value)
  BY <1>1, <1>7, <1>8 DEF Escrow!Contest
<1> QED
  BY <1>9 DEF Escrow!Next

\* What resolveChallenge and reclaimBond leave of the item.
LEMMA SpentIsSettled ==
  ASSUME TypeOK, TypeOK', NEW e \in EventHash, Recorded(e), verifications' = BondSpent(e),
         \A x \in EventHash \ {e} : challenges'[x] = challenges[x]
  PROVE  [x \in EventHash |-> EscrowOf(x)]' =
           [[x \in EventHash |-> EscrowOf(x)] EXCEPT ![e] = Escrow!Settled]
<1>1. verifications'[e].recordedAt # 0 /\ verifications'[e].bond = 0
  BY BondSpentType
<1>2. EscrowOf(e)' = Escrow!Settled
  BY <1>1 DEF EscrowOf, Escrow!Settled, Escrow!NotPosted
<1>3. \A x \in EventHash \ {e} : EscrowOf(x)' = EscrowOf(x)
  BY EscrowUntouched, BondSpentType
<1> QED
  BY <1>2, <1>3

LEMMA ResolveDecides ==
  ASSUME TypeOK, TypeOK', BooksKept, NEW e \in EventHash, Resolve(e)
  PROVE  Escrow!Next
<1> PICK w \in BOOLEAN : ResolveChallenge(e, w)
  BY DEF Resolve
<1>1. /\ Recorded(e) /\ verifications[e].bond # 0 /\ OpenChallenge(e)
      /\ verifications[e].recordedBy \in Account /\ challenges[e].challenger \in Account
      /\ verifications[e].bond \in Nat /\ challenges[e].amount \in Nat
  BY DEF ResolveChallenge, BooksKept, Bookkeeping, TypeOK, Verification, ChallengeRecord
<1>2. EscrowOf(e) = [stage |-> "contested", poster |-> verifications[e].recordedBy,
                     bond |-> verifications[e].bond,
                     contester |-> challenges[e].challenger, stake |-> challenges[e].amount]
  BY <1>1, EscrowCases
<1>3. PICK p \in Account :
        p = IF w THEN challenges[e].challenger ELSE verifications[e].recordedBy
  BY <1>1
<1>4. p \in {EscrowOf(e).poster, EscrowOf(e).contester}
  BY <1>2, <1>3
<1>5. pendingWithdrawals' =
        [pendingWithdrawals EXCEPT ![p] = @ + (verifications[e].bond + challenges[e].amount)]
  BY <1>3 DEF ResolveChallenge, Credit
<1>6. pendingWithdrawals[p] \in Nat
  BY DEF TypeOK
<1>7. pendingWithdrawals' =
        [pendingWithdrawals EXCEPT ![p] = @ + EscrowOf(e).bond + EscrowOf(e).stake]
  <2>1. pendingWithdrawals[p] + (verifications[e].bond + challenges[e].amount)
          = pendingWithdrawals[p] + EscrowOf(e).bond + EscrowOf(e).stake
    BY <1>1, <1>2, <1>6
  <2> QED
    BY <1>5, <2>1
<1>8. [x \in EventHash |-> EscrowOf(x)]' =
        [[x \in EventHash |-> EscrowOf(x)] EXCEPT ![e] = Escrow!Settled]
  BY <1>1, SpentIsSettled DEF ResolveChallenge, TypeOK
<1>9. EscrowOf(e).stage = "contested" /\ balance' = balance
  BY <1>2 DEF ResolveChallenge
<1>10. Escrow!Decide(e, p)
  BY <1>4, <1>7, <1>8, <1>9 DEF Escrow!Decide
<1> QED
  BY <1>10 DEF Escrow!Next

LEMMA ReclaimReleases ==
  ASSUME TypeOK, TypeOK', BooksKept, NEW e \in EventHash, ReclaimBond(e)
  PROVE  Escrow!Next
<1>1. Recorded(e) /\ verifications[e].bond # 0 /\ ~OpenChallenge(e)
  BY DEF ReclaimBond, Reclaimable
<1>2. EscrowOf(e) = [stage |-> "posted", poster |-> verifications[e].recordedBy,
                     bond |-> verifications[e].bond, contester |-> ZeroAddress, stake |-> 0]
  BY <1>1, EscrowCases
<1>3. pendingWithdrawals' =
        [pendingWithdrawals EXCEPT ![EscrowOf(e).poster] = @ + EscrowOf(e).bond]
  BY <1>2 DEF ReclaimBond, Credit
<1>4. [x \in EventHash |-> EscrowOf(x)]' =
        [[x \in EventHash |-> EscrowOf(x)] EXCEPT ![e] = Escrow!Settled]
  BY <1>1, SpentIsSettled DEF ReclaimBond
<1>5. EscrowOf(e).stage = "posted" /\ balance' = balance
  BY <1>2 DEF ReclaimBond
<1>6. Escrow!Release(e)
  BY <1>3, <1>4, <1>5 DEF Escrow!Release
<1> QED
  BY <1>6 DEF Escrow!Next

LEMMA WithdrawPays ==
  ASSUME TypeOK, NEW a \in Account, WithdrawCall(a)
  PROVE  Escrow!Next
<1>1. pendingWithdrawals[a] > 0
  BY DEF WithdrawCall, MayWithdraw, TypeOK
<1>2. [x \in EventHash |-> EscrowOf(x)]' = [x \in EventHash |-> EscrowOf(x)]
  BY EscrowUntouched DEF WithdrawCall
<1>3. Escrow!Pay(a)
  BY <1>1, <1>2 DEF WithdrawCall, Escrow!Pay
<1> QED
  BY <1>3 DEF Escrow!Next

\* In every order of calls, and from inside a transfer too, money moves only as
\* BondEscrow says: one posting, one match, one settlement, whole credits paid.
THEOREM RefinesBondEscrow == Spec => ImplementsEscrow
<1>1. TypeOK /\ TypeOK' /\ BooksKept /\ [Next]_vars => [Escrow!Next]_(Escrow!escrowVars)
  <2> SUFFICES ASSUME TypeOK, TypeOK', BooksKept, [Next]_vars
               PROVE  [Escrow!Next]_(Escrow!escrowVars)
    OBVIOUS
  <2>1. CASE UNCHANGED books
    <3>1. [x \in EventHash |-> EscrowOf(x)]' = [x \in EventHash |-> EscrowOf(x)]
      BY <2>1, EscrowUntouched DEF books
    <3> QED
      BY <2>1, <3>1 DEF books, Escrow!escrowVars
  <2>2. ASSUME NEW a \in Account, WithdrawCall(a)
        PROVE  Escrow!Next
    BY <2>2, WithdrawPays
  <2> QED
    BY <2>1, <2>2, NextSplits, OtherStepBooks, RecordPosts, ChallengeContests, ResolveDecides,
       ReclaimReleases
<1> QED
  BY <1>1, EscrowStarts, BooksAreKept, TypeCorrect, PTL DEF Spec, ImplementsEscrow, Escrow!Spec

-----------------------------------------------------------------------------
(* What the registry inherits from the escrow *)

EscrowFacts == INSTANCE BondEscrow_proofs WITH
  Item <- EventHash, Party <- Account, Nobody <- ZeroAddress, Amount <- 0..MaxValue,
  escrow <- [e \in EventHash |-> EscrowOf(e)], credit <- pendingWithdrawals, held <- balance

\* The instance about which BondEscrow's theorems speak is the one that the
\* registry implements, and events and accounts are finitely many.
LEMMA EscrowInherits == EscrowFacts!Bounded /\ (Spec => EscrowFacts!Spec)
<1>1. EscrowFacts!Bounded
  <2>1. EscrowFacts!IsFiniteSet(EventHash) /\ EscrowFacts!IsFiniteSet(Account)
    BY KeysAssumption DEF EscrowFacts!IsFiniteSet, IsFiniteSet
  <2> QED
    BY <2>1, NumbersAssumption DEF EscrowFacts!Bounded
<1>2. (EscrowFacts!Init <=> Escrow!Init) /\ (EscrowFacts!Next <=> Escrow!Next)
  BY DEF EscrowFacts!Init, Escrow!Init, EscrowFacts!Next, Escrow!Next,
     EscrowFacts!Post, Escrow!Post,
     EscrowFacts!Contest, Escrow!Contest, EscrowFacts!Decide, Escrow!Decide,
     EscrowFacts!Release, Escrow!Release, EscrowFacts!Pay, Escrow!Pay,
     EscrowFacts!NotPosted, Escrow!NotPosted, EscrowFacts!Settled, Escrow!Settled
<1>3. Escrow!Init => EscrowFacts!Init
  BY <1>2
<1>4. [Escrow!Next]_(Escrow!escrowVars) => [EscrowFacts!Next]_(EscrowFacts!escrowVars)
  BY <1>2 DEF EscrowFacts!escrowVars, Escrow!escrowVars
<1>5. Escrow!Spec => EscrowFacts!Spec
  BY <1>3, <1>4, PTL DEF Escrow!Spec, EscrowFacts!Spec
<1> QED
  BY <1>1, <1>5, RefinesBondEscrow, PTL DEF ImplementsEscrow

\* A sum of wei is the same in the instance and here.
LEMMA SameTotal == ASSUME NEW f PROVE EscrowFacts!Total(f) = Total(f)
BY DEF EscrowFacts!Total, Total, EscrowFacts!Coins, Coins, EscrowFacts!Cardinality, Cardinality

\* The contract always holds exactly the ether it owes.
THEOREM EscrowExact == Spec => []EscrowIsExact
<1>1. TypeOK /\ BooksKept /\ EscrowFacts!HeldIsOwed => EscrowIsExact
  <2> SUFFICES ASSUME TypeOK, BooksKept, EscrowFacts!HeldIsOwed PROVE EscrowIsExact
    OBVIOUS
  <2> DEFINE escrow == [e \in EventHash |-> EscrowOf(e)]
  <2>1. ASSUME NEW e \in EventHash
        PROVE  /\ EscrowOf(e).bond = verifications[e].bond
               /\ EscrowOf(e).stake = IF OpenChallenge(e) THEN challenges[e].amount ELSE 0
    BY EscrowCases DEF BooksKept, Bookkeeping, TypeOK, Verification, EscrowOf
  <2>2. /\ [e \in EventHash |-> escrow[e].bond] = BondOf
        /\ [e \in EventHash |-> escrow[e].stake] = StakeOf
    BY <2>1 DEF BondOf, StakeOf
  <2> QED
    BY <2>2, SameTotal DEF EscrowFacts!HeldIsOwed, EscrowIsExact, Owed
<1> QED
  BY <1>1, EscrowInherits, EscrowFacts!EscrowHoldsWhatItOwes, BooksAreKept, TypeCorrect, PTL

\* withdraw never finds less ether in the contract than it is about to send, so
\* only the recipient can make the transfer fail (V2 418-425).
THEOREM CreditsFunded == Spec => [](\A a \in Account : pendingWithdrawals[a] <= balance)
<1>1. EscrowFacts!CreditsAreFunded => \A a \in Account : pendingWithdrawals[a] <= balance
  BY DEF EscrowFacts!CreditsAreFunded
<1> QED
  BY <1>1, EscrowInherits, EscrowFacts!CreditsFunded, PTL

-----------------------------------------------------------------------------
(* The pool *)

\* The pool is a stutter of the registry: every behaviour of the two together
\* is one of the registry, so all that is proved of Spec holds of PoolSpec.
THEOREM PoolRunsTheRegistry == PoolSpec => Spec
<1>1. PoolInit => Init
  BY DEF PoolInit
<1>2. [PoolNext]_<<vars, poolVars>> => [Next]_vars
  BY DEF PoolNext, PoolStep, OpenPosition, PauseLiquidation
<1> QED
  BY <1>1, <1>2, PTL DEF PoolSpec, Spec

\* Types of the pool's own state.
THEOREM PoolTypeCorrect == PoolSpec => []PoolTypeOK
<1>1. PoolInit => PoolTypeOK
  BY AmountAssumption DEF PoolInit, PoolTypeOK
<1>2. PoolTypeOK /\ [PoolNext]_<<vars, poolVars>> => PoolTypeOK'
  <2> SUFFICES ASSUME PoolTypeOK, [PoolNext]_<<vars, poolVars>>
               PROVE  PoolTypeOK'
    OBVIOUS
  <2>1. ASSUME NEW a \in Account, NEW t \in Token \cup {ZeroAddress}, NEW amount \in 0..MaxAmount,
               OpenPosition(a, t, amount)
        PROVE  PoolTypeOK'
    BY <2>1 DEF PoolTypeOK, OpenPosition
  <2>2. ASSUME NEW t \in Token, PauseLiquidation(t)
        PROVE  PoolTypeOK'
    BY <2>2 DEF PoolTypeOK, PauseLiquidation
  <2>3. CASE UNCHANGED poolVars
    BY <2>3 DEF PoolTypeOK, poolVars
  <2> QED
    BY <2>1, <2>2, <2>3 DEF PoolNext, PoolStep
<1> QED
  BY <1>1, <1>2, PTL DEF PoolSpec

Evidence(t, e) ==
  /\ Recorded(e) /\ verifications[e].token = t
  /\ hasDiscrepancy[e]

Backed == \A t \in Token : tokenLiquidationPaused[t] => \E e \in EventHash : Evidence(t, e)

\* Evidence is never lost.
LEMMA EvidenceStays ==
  ASSUME TypeOK, [Next]_vars, NEW t, NEW e \in EventHash, Evidence(t, e)
  PROVE  Evidence(t, e)'
<1>1. RecordKept(e)
  BY NextRecordKept DEF Evidence
<1>2. /\ verifications'[e].recordedAt = verifications[e].recordedAt
      /\ verifications'[e].token = verifications[e].token
  BY <1>1 DEF RecordKept, TypeOK, Verification
<1> QED
  BY <1>1, <1>2 DEF Evidence, RecordKept, Recorded

\* A pointer that is set leads to a record of its token.
PointsToOwn ==
  \A t \in Token :
    LET l == latestVerificationForToken[t]
    IN  l # ZeroWord => Recorded(l) /\ verifications[l].token = t

LEMMA PointersLeadHome == Spec => []PointsToOwn
<1>1. Init => PointsToOwn
  BY DEF Init, PointsToOwn
<1>2. TypeOK /\ PointsToOwn /\ [Next]_vars => PointsToOwn'
  <2> SUFFICES ASSUME TypeOK, PointsToOwn, [Next]_vars, NEW u \in Token,
                      latestVerificationForToken'[u] # ZeroWord
               PROVE  /\ verifications'[latestVerificationForToken'[u]].recordedAt # 0
                      /\ verifications'[latestVerificationForToken'[u]].token = u
    BY DEF PointsToOwn, Recorded
  <2>1. CASE ~Record
    <3>1. latestVerificationForToken[u] \in EventHash \cup {ZeroWord}
      BY DEF TypeOK
    <3> QED
      BY <2>1, <3>1, PointerSteps DEF PointsToOwn, Recorded
  <2>2. CASE Record
    <3> PICK a \in Account, e \in EventHash, t \in Token \cup {ZeroAddress}, f \in BOOLEAN,
             m \in Multiplier, c \in Content, value \in 0..MaxValue :
               RecordVerification(a, e, t, f, m, c, value)
      BY <2>2 DEF Record
    <3>1. /\ verifications'[e].token = t /\ verifications'[e].recordedAt = now
          /\ \A x \in EventHash \ {e} : verifications'[x] = verifications[x]
          /\ verifications[e].recordedAt = 0 /\ now # 0
      BY DEF RecordVerification, MayRecord, Recorded, TypeOK
    <3>2. /\ t \in Token /\ latestVerificationForToken'[t] = e
          /\ \A x \in Token \ {t} : latestVerificationForToken'[x] = latestVerificationForToken[x]
      BY DEF RecordVerification, Latest, TypeOK
    <3>3. CASE u = t
      BY <3>1, <3>2, <3>3
    <3>4. CASE u # t
      <4>1. latestVerificationForToken[u] \in EventHash
        BY <3>2, <3>4 DEF TypeOK
      <4>2. /\ verifications[latestVerificationForToken[u]].recordedAt # 0
            /\ verifications[latestVerificationForToken[u]].token = u
        BY <3>2, <3>4 DEF PointsToOwn, Recorded
      <4> QED
        BY <3>1, <3>2, <3>4, <4>1, <4>2
    <3> QED
      BY <3>3, <3>4
  <2> QED
    BY <2>1, <2>2
<1> QED
  BY <1>1, <1>2, TypeCorrect, PTL DEF Spec

\* A flagged latest verification is evidence about the token that it was looked
\* up for: the pointer is what connects the two.
LEMMA FlaggedIsEvidence ==
  ASSUME TypeOK, PointsToOwn, NEW t \in Token, DiscrepancyFlagged(t)
  PROVE  \E e \in EventHash : Evidence(t, e)
<1>1. latestVerificationForToken[t] \in EventHash
  BY DEF DiscrepancyFlagged, TypeOK
<1> QED
  BY <1>1 DEF Evidence, DiscrepancyFlagged, PointsToOwn

LEMMA NextBacked ==
  TypeOK /\ PointsToOwn /\ PoolTypeOK /\ Backed /\ [PoolNext]_<<vars, poolVars>> => Backed'
<1> SUFFICES ASSUME TypeOK, PointsToOwn, PoolTypeOK, Backed, [PoolNext]_<<vars, poolVars>>,
                    NEW t \in Token, tokenLiquidationPaused'[t]
             PROVE  \E e \in EventHash : Evidence(t, e)'
  BY DEF Backed
<1>1. [Next]_vars
  BY DEF PoolNext, PoolStep, OpenPosition, PauseLiquidation
<1>2. tokenLiquidationPaused[t] \/ DiscrepancyFlagged(t)
  BY DEF PoolNext, PoolStep, OpenPosition, PauseLiquidation, PoolTypeOK, poolVars
<1>3. PICK e \in EventHash : Evidence(t, e)
  BY <1>2, FlaggedIsEvidence DEF Backed
<1> QED
  BY <1>1, <1>3, EvidenceStays

\* Liquidations of a token are paused only on a flagged record of that very
\* token, which two nodes signed for, however the registry moves on afterwards.
THEOREM PausesHaveEvidence == PoolSpec => []PauseHasEvidence
<1>1. PoolInit => Backed
  BY DEF PoolInit, Backed
<1>2. Backed /\ EffectsAreSigned => PauseHasEvidence
  BY DEF Backed, Evidence, EffectsAreSigned, PauseHasEvidence
<1> QED
  BY <1>1, <1>2, NextBacked, PoolRunsTheRegistry, PoolTypeCorrect, TypeCorrect, PointersLeadHome,
     EffectsSigned, PTL DEF PoolSpec
=============================================================================
