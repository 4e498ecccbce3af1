------------------------ MODULE GapwatchRegistry_proofs ------------------------
(***************************************************************************)
(* Theorems about GapwatchRegistry (V1), for any number of events, tokens  *)
(* and accounts, any amounts and any bounds: it implements BondEscrow and  *)
(* RecordLog, holds the ether it owes, and what a renounced ownership      *)
(* freezes stays frozen.                                                   *)
(***************************************************************************)
EXTENDS GapwatchRegistry, FiniteSetTheorems, TLAPS

-----------------------------------------------------------------------------
(* Types *)

Verification ==
  [token : Token \cup {ZeroAddress}, content : Content \cup {ZeroWord}, recordedAt : Nat,
   bond : Nat, recordedBy : Account \cup {ZeroAddress}]

ChallengeRecord ==
  [challenger : Account \cup {ZeroAddress}, amount : Nat, resolved : BOOLEAN]

TypeOK ==
  /\ verifications \in [EventHash -> Verification]
  /\ challenges \in [EventHash -> ChallengeRecord]
  /\ pendingWithdrawals \in [Account -> Nat]
  /\ latestVerificationForToken \in [Token -> EventHash \cup {ZeroWord}]
  /\ hasDiscrepancy \in [EventHash -> BOOLEAN]
  /\ relayer \in Account
  /\ requiredBond \in Nat
  /\ challengeWindow \in 0..MAX_CHALLENGE_WINDOW
  /\ owner \in Account \cup {ZeroAddress}
  /\ withdrawing \in Account \cup {ZeroAddress}
  /\ balance \in Int
  /\ now \in 1..(MaxTime + 1)

LEMMA InitTypeOK == Init => TypeOK
BY RolesAssumption, NumbersAssumption
DEF Init, TypeOK, NoVerification, NoChallenge, Verification, ChallengeRecord

LEMMA RecordTypeOK ==
  ASSUME TypeOK, Record
  PROVE  TypeOK'
<1> PICK a \in Account, e \in EventHash, t \in Token \cup {ZeroAddress}, c \in Content,
         value \in 0..MaxValue : RecordVerification(a, e, t, c, value)
  BY DEF Record
<1>1. t \in Token /\ value \in Nat
  BY NumbersAssumption DEF RecordVerification
<1>2. [token |-> t, content |-> c, recordedAt |-> now, bond |-> value, recordedBy |-> a]
        \in Verification
  BY <1>1 DEF TypeOK, Verification
<1>3. verifications' \in [EventHash -> Verification]
  BY <1>2 DEF RecordVerification, TypeOK
<1>4. latestVerificationForToken' \in [Token -> EventHash \cup {ZeroWord}] /\ balance' \in Int
  BY <1>1 DEF RecordVerification, TypeOK
<1> QED
  BY <1>3, <1>4 DEF RecordVerification, TypeOK, config

CallChallenge == \E a \in Account, e \in EventHash, value \in 0..MaxValue : Challenge(a, e, value)

LEMMA ChallengeTypeOK ==
  ASSUME TypeOK, CallChallenge
  PROVE  TypeOK'
<1> PICK a \in Account, e \in EventHash, value \in 0..MaxValue : Challenge(a, e, value)
  BY DEF CallChallenge
<1>1. [challenger |-> a, amount |-> value, resolved |-> FALSE] \in ChallengeRecord
  BY NumbersAssumption DEF ChallengeRecord
<1>2. challenges' \in [EventHash -> ChallengeRecord] /\ balance' \in Int
  BY <1>1, NumbersAssumption DEF Challenge, TypeOK
<1> QED
  BY <1>2 DEF Challenge, TypeOK, flags, config

\* Zeroing a bond keeps the record's type and changes nothing else in it.
LEMMA BondSpentType ==
  ASSUME TypeOK, NEW e \in EventHash
  PROVE  /\ BondSpent(e) \in [EventHash -> Verification]
         /\ BondSpent(e)[e].bond = 0
         /\ BondSpent(e)[e].recordedAt = verifications[e].recordedAt
         /\ BondSpent(e)[e].recordedBy = verifications[e].recordedBy
         /\ \A x \in EventHash \ {e} : BondSpent(e)[x] = verifications[x]
BY DEF TypeOK, BondSpent, Verification

\* A credit keeps pendingWithdrawals a mapping from accounts to amounts.
LEMMA CreditType ==
  ASSUME TypeOK, NEW a, NEW amount \in Nat, Credit(a, amount)
  PROVE  pendingWithdrawals' \in [Account -> Nat]
<1>1. pendingWithdrawals \in [Account -> Nat]
  BY DEF TypeOK
<1>2. CASE a \in Account
  BY <1>1, <1>2 DEF Credit
<1>3. CASE a \notin Account
  <2>1. pendingWithdrawals' = pendingWithdrawals
    BY <1>1, <1>3 DEF Credit
  <2> QED
    BY <1>1, <2>1
<1> QED
  BY <1>2, <1>3

LEMMA ResolveTypeOK ==
  ASSUME TypeOK, NEW e \in EventHash, Resolve(e)
  PROVE  TypeOK'
<1> PICK a \in Account, w \in BOOLEAN : ResolveChallenge(a, e, w)
  BY DEF Resolve
<1>1. verifications' \in [EventHash -> Verification]
  BY BondSpentType DEF ResolveChallenge
<1>2. challenges' \in [EventHash -> ChallengeRecord]
  BY DEF ResolveChallenge, TypeOK, ChallengeRecord
<1>3. verifications[e].bond + challenges[e].amount \in Nat
  BY DEF TypeOK, Verification, ChallengeRecord
<1>4. pendingWithdrawals' \in [Account -> Nat]
  BY <1>3, CreditType DEF ResolveChallenge
<1> QED
  BY <1>1, <1>2, <1>4 DEF ResolveChallenge, TypeOK, flags, config

LEMMA ReclaimTypeOK ==
  ASSUME TypeOK, NEW e \in EventHash, ReclaimBond(e)
  PROVE  TypeOK'
<1>1. verifications' \in [EventHash -> Verification]
  BY BondSpentType DEF ReclaimBond
<1>2. verifications[e].bond \in Nat
  BY DEF TypeOK, Verification
<1>3. pendingWithdrawals' \in [Account -> Nat]
  BY <1>2, CreditType DEF ReclaimBond
<1> QED
  BY <1>1, <1>3 DEF ReclaimBond, TypeOK, flags, config

LEMMA NextTypeOK == TypeOK /\ [Next]_vars => TypeOK'
<1> SUFFICES ASSUME TypeOK, [Next]_vars
             PROVE  TypeOK'
  OBVIOUS
<1>1. ASSUME NEW a \in Account, NEW e \in EventHash, ReportDiscrepancy(a, e)
      PROVE  TypeOK'
  BY <1>1 DEF ReportDiscrepancy, TypeOK, books, config
<1>2. ASSUME NEW a \in Account, WithdrawCall(a)
      PROVE  TypeOK'
  BY <1>2 DEF WithdrawCall, TypeOK, flags, config
<1>3. CASE WithdrawReturn
  BY <1>3 DEF WithdrawReturn, TypeOK, books, flags, config
<1>4. CASE OwnerCall
  <2>1. ASSUME NEW a \in Account, NEW r \in RelayerSetting, SetRelayer(a, r)
        PROVE  TypeOK'
    BY <2>1, RolesAssumption DEF SetRelayer, TypeOK, books, flags
  <2>2. ASSUME NEW a \in Account, NEW b \in BondSetting, SetRequiredBond(a, b)
        PROVE  TypeOK'
    BY <2>2, NumbersAssumption DEF SetRequiredBond, TypeOK, books, flags
  <2>3. ASSUME NEW a \in Account, NEW w \in WindowSetting, SetChallengeWindow(a, w)
        PROVE  TypeOK'
    BY <2>3, NumbersAssumption DEF SetChallengeWindow, WithinCap, TypeOK, books, flags
  <2>4. ASSUME NEW a \in Account, NEW o \in OwnerSetting, ChangeOwner(a, o)
        PROVE  TypeOK'
    BY <2>4, RolesAssumption DEF ChangeOwner, TypeOK, books, flags
  <2> QED
    BY <1>4, <2>1, <2>2, <2>3, <2>4 DEF OwnerCall
<1>5. CASE Tick
  BY <1>5, NumbersAssumption DEF Tick, TypeOK, books, flags, config
<1>6. CASE UNCHANGED vars
  BY <1>6 DEF vars, books, flags, config, TypeOK
<1> QED
  BY <1>1, <1>2, <1>3, <1>4, <1>5, <1>6, RecordTypeOK, ChallengeTypeOK, ResolveTypeOK, ReclaimTypeOK
  DEF Next, CallChallenge

\* Every variable of the registry keeps its type in every behaviour.
THEOREM TypeCorrect == Spec => []TypeOK
BY InitTypeOK, NextTypeOK, PTL DEF Spec

-----------------------------------------------------------------------------
(* Bonds and challenges *)

\* The inductive invariant: what is not recorded has the zero record and no
\* challenge, a resolution leaves no bond behind, and an open challenge is over
\* a bond.
Bookkeeping(e) ==
  /\ ~Recorded(e) => verifications[e] = NoVerification /\ challenges[e] = NoChallenge
  /\ Recorded(e) => verifications[e].recordedBy \in Account /\ verifications[e].recordedAt <= MaxTime
  /\ challenges[e].resolved => verifications[e].bond = 0
  /\ OpenChallenge(e) =>
       verifications[e].bond > 0 /\ challenges[e].amount >= verifications[e].bond

BooksKept == \A e \in EventHash : Bookkeeping(e)

USE DEF Recorded, OpenChallenge, NoChallenge

LEMMA InitBooksKept == Init => BooksKept
BY DEF Init, BooksKept, Bookkeeping, NoVerification

\* An event whose record and challenge a step leaves alone stays in order.
LEMMA UntouchedBooks ==
  ASSUME NEW e \in EventHash, Bookkeeping(e),
         verifications'[e] = verifications[e], challenges'[e] = challenges[e]
  PROVE  Bookkeeping(e)'
BY DEF Bookkeeping

LEMMA RecordBooksKept ==
  ASSUME TypeOK, BooksKept, Record
  PROVE  BooksKept'
<1> PICK a \in Account, e \in EventHash, t \in Token \cup {ZeroAddress}, c \in Content,
         value \in 0..MaxValue : now <= LastRecordTime /\ RecordVerification(a, e, t, c, value)
  BY DEF Record
<1> SUFFICES ASSUME NEW x \in EventHash
             PROVE  Bookkeeping(x)'
  BY DEF BooksKept
<1>1. Bookkeeping(x)
  BY DEF BooksKept
<1>2. CASE x = e
  <2>1. /\ verifications'[e].recordedBy = a
        /\ verifications'[e].recordedAt = now
        /\ verifications'[e].bond = value
    BY DEF RecordVerification, TypeOK
  <2>2. challenges'[e] = NoChallenge
    BY <1>1, <1>2 DEF Bookkeeping, RecordVerification, MayRecord
  <2>3. now # 0 /\ now <= MaxTime
    BY NumbersAssumption DEF TypeOK
  <2> QED
    BY <1>2, <2>1, <2>2, <2>3 DEF Bookkeeping
<1>3. CASE x # e
  <2>1. verifications'[x] = verifications[x] /\ challenges'[x] = challenges[x]
    BY <1>3 DEF RecordVerification, TypeOK
  <2> QED
    BY <1>1, <2>1, UntouchedBooks
<1> QED
  BY <1>2, <1>3

LEMMA ChallengeBooksKept ==
  ASSUME TypeOK, BooksKept, CallChallenge
  PROVE  BooksKept'
<1> PICK a \in Account, e \in EventHash, value \in 0..MaxValue : Challenge(a, e, value)
  BY DEF CallChallenge
<1> SUFFICES ASSUME NEW x \in EventHash
             PROVE  Bookkeeping(x)'
  BY DEF BooksKept
<1>1. Bookkeeping(x)
  BY DEF BooksKept
<1>2. CASE x = e
  <2>1. /\ challenges'[e] = [challenger |-> a, amount |-> value, resolved |-> FALSE]
        /\ verifications' = verifications
    BY DEF Challenge, TypeOK
  <2>2. verifications[e].bond \in Nat
    BY DEF TypeOK, Verification
  <2>3. Recorded(e) /\ verifications[e].bond > 0 /\ value >= verifications[e].bond
    BY <2>2 DEF Challenge
  <2> QED
    BY <1>1, <1>2, <2>1, <2>3 DEF Bookkeeping
<1>3. CASE x # e
  <2>1. verifications'[x] = verifications[x] /\ challenges'[x] = challenges[x]
    BY <1>3 DEF Challenge, TypeOK
  <2> QED
    BY <1>1, <2>1, UntouchedBooks
<1> QED
  BY <1>2, <1>3

\* What settles a recorded event and leaves no challenge open keeps the books.
LEMMA SettledBooksKept ==
  ASSUME TypeOK, BooksKept, NEW e \in EventHash, Recorded(e), verifications' = BondSpent(e),
         \A x \in EventHash \ {e} : challenges'[x] = challenges[x],
         ~OpenChallenge(e)'
  PROVE  BooksKept'
<1> SUFFICES ASSUME NEW x \in EventHash
             PROVE  Bookkeeping(x)'
  BY DEF BooksKept
<1>1. Bookkeeping(x)
  BY DEF BooksKept
<1>2. CASE x = e
  <2>1. /\ verifications'[e].bond = 0
        /\ verifications'[e].recordedAt = verifications[e].recordedAt
        /\ verifications'[e].recordedBy = verifications[e].recordedBy
    BY BondSpentType
  <2> QED
    BY <1>1, <1>2, <2>1 DEF Bookkeeping
<1>3. CASE x # e
  BY <1>1, <1>3, UntouchedBooks, BondSpentType
<1> QED
  BY <1>2, <1>3

LEMMA ResolveBooksKept ==
  ASSUME TypeOK, BooksKept, NEW e \in EventHash, Resolve(e)
  PROVE  BooksKept'
<1>1. Recorded(e)
  BY DEF Resolve, ResolveChallenge, BooksKept, Bookkeeping
<1>2. ~OpenChallenge(e)' /\ \A x \in EventHash \ {e} : challenges'[x] = challenges[x]
  BY DEF Resolve, ResolveChallenge, TypeOK, ChallengeRecord
<1>3. verifications' = BondSpent(e)
  BY DEF Resolve, ResolveChallenge
<1> QED
  BY <1>1, <1>2, <1>3, SettledBooksKept

LEMMA ReclaimBooksKept ==
  ASSUME TypeOK, BooksKept, NEW e \in EventHash, ReclaimBond(e)
  PROVE  BooksKept'
<1>1. Recorded(e) /\ verifications' = BondSpent(e) /\ challenges' = challenges /\ ~OpenChallenge(e)
  BY DEF ReclaimBond
<1> QED
  BY <1>1, SettledBooksKept

\* The other steps touch neither records nor challenges.
OtherStep ==
  \/ \E a \in Account, e \in EventHash : ReportDiscrepancy(a, e)
  \/ \E a \in Account : WithdrawCall(a)
  \/ WithdrawReturn \/ OwnerCall \/ Tick

LEMMA OtherStepKeeps ==
  OtherStep \/ UNCHANGED vars => UNCHANGED <<verifications, challenges>>
BY DEF OtherStep, ReportDiscrepancy, WithdrawCall, WithdrawReturn, OwnerCall, SetRelayer,
       SetRequiredBond, SetChallengeWindow, ChangeOwner, Tick, books, vars

LEMMA OtherStepBooks ==
  OtherStep \/ UNCHANGED vars => (\E a \in Account : WithdrawCall(a)) \/ UNCHANGED books
BY DEF OtherStep, ReportDiscrepancy, WithdrawReturn, OwnerCall, SetRelayer,
       SetRequiredBond, SetChallengeWindow, ChangeOwner, Tick, vars

LEMMA NextSplits ==
  ASSUME [Next]_vars
  PROVE  \/ Record \/ CallChallenge \/ OtherStep \/ UNCHANGED vars
         \/ \E e \in EventHash : Resolve(e)
         \/ \E e \in EventHash : ReclaimBond(e)
BY DEF Next, OtherStep, CallChallenge

LEMMA NextBooksKept == TypeOK /\ BooksKept /\ [Next]_vars => BooksKept'
<1> SUFFICES ASSUME TypeOK, BooksKept, [Next]_vars
             PROVE  BooksKept'
  OBVIOUS
<1>1. CASE OtherStep \/ UNCHANGED vars
  BY <1>1, OtherStepKeeps DEF BooksKept, Bookkeeping
<1> QED
  BY <1>1, NextSplits, RecordBooksKept, ChallengeBooksKept, ResolveBooksKept, ReclaimBooksKept

LEMMA BooksAreKept == Spec => []BooksKept
BY InitBooksKept, NextBooksKept, TypeCorrect, PTL DEF Spec

\* No challenge window the owner can set makes a deadline overflow, so neither
\* challenge nor reclaimBond is ever locked by the arithmetic of the deadline.
THEOREM DeadlinesFit == Spec => [](\A e \in EventHash : Recorded(e) => DeadlineFits(e))
<1>1. TypeOK /\ BooksKept => \A e \in EventHash : Recorded(e) => DeadlineFits(e)
  BY NumbersAssumption DEF BooksKept, Bookkeeping, DeadlineFits, Deadline, TypeOK, Verification
<1> QED
  BY <1>1, BooksAreKept, TypeCorrect, PTL

\* A resolved challenge is final although the contract has no such guard: the
\* bond is spent, and challenge refuses a record without one.
ResolvedOnce ==
  [][\A e \in EventHash : challenges[e].resolved => challenges'[e] = challenges[e]]_vars

\* V1 decides an event at most once, as V2 does.
THEOREM ResolutionIsFinal == Spec => ResolvedOnce
<1>1. TypeOK /\ BooksKept /\ [Next]_vars =>
        [\A e \in EventHash : challenges[e].resolved => challenges'[e] = challenges[e]]_vars
  <2> SUFFICES ASSUME TypeOK, BooksKept, [Next]_vars,
                      NEW e \in EventHash, challenges[e].resolved
               PROVE  challenges'[e] = challenges[e]
    OBVIOUS
  <2>1. verifications[e].bond = 0
    BY DEF BooksKept, Bookkeeping
  <2>2. CASE Record
    BY <2>2 DEF Record, RecordVerification
  <2>3. CASE CallChallenge
    BY <2>1, <2>3 DEF CallChallenge, Challenge, TypeOK
  <2>4. ASSUME NEW x \in EventHash, Resolve(x)
        PROVE  challenges'[e] = challenges[e]
    BY <2>4 DEF Resolve, ResolveChallenge, TypeOK
  <2>5. ASSUME NEW x \in EventHash, ReclaimBond(x)
        PROVE  challenges'[e] = challenges[e]
    BY <2>5 DEF ReclaimBond
  <2> QED
    BY <2>2, <2>3, <2>4, <2>5, NextSplits, OtherStepKeeps
<1> QED
  BY <1>1, BooksAreKept, TypeCorrect, PTL DEF Spec, ResolvedOnce

-----------------------------------------------------------------------------
(* A renounced ownership *)

\* A challenge that nobody may decide any more.
Frozen(e) == owner = ZeroAddress /\ OpenChallenge(e)

\* Once the owner renounces, a challenge that is open then stays open for ever,
\* and neither its bond nor its stake can move: the other side of
\* BondsAreCredited's exception.
FrozenForever ==
  [][\A e \in EventHash :
       Frozen(e) => Frozen(e)' /\ verifications'[e] = verifications[e] /\ challenges'[e] = challenges[e]]_vars

THEOREM RenouncingFreezes == Spec => FrozenForever
<1>1. TypeOK /\ BooksKept /\ [Next]_vars =>
        [\A e \in EventHash :
           Frozen(e) => Frozen(e)' /\ verifications'[e] = verifications[e] /\ challenges'[e] = challenges[e]]_vars
  <2> SUFFICES ASSUME TypeOK, BooksKept, [Next]_vars, NEW e \in EventHash, Frozen(e)
               PROVE  Frozen(e)' /\ verifications'[e] = verifications[e] /\ challenges'[e] = challenges[e]
    OBVIOUS
  <2>1. \A a \in Account : a # owner
    BY RolesAssumption DEF Frozen
  <2>2. owner' = owner
    BY <2>1, NextSplits
    DEF Record, RecordVerification, CallChallenge, Challenge, Resolve, ResolveChallenge, ReclaimBond,
        OtherStep, ReportDiscrepancy, WithdrawCall, WithdrawReturn, OwnerCall, SetRelayer,
        SetRequiredBond, SetChallengeWindow, ChangeOwner, Tick, config, vars
  <2>3. Recorded(e)
    BY DEF BooksKept, Bookkeeping, Frozen
  <2>4. verifications'[e] = verifications[e] /\ challenges'[e] = challenges[e]
    <3>1. CASE Record
      BY <2>3, <3>1 DEF Record, RecordVerification, MayRecord, TypeOK
    <3>2. CASE CallChallenge
      BY <3>2 DEF CallChallenge, Challenge, TypeOK, Frozen
    <3>3. ASSUME NEW x \in EventHash, Resolve(x)
          PROVE  FALSE
      BY <2>1, <3>3 DEF Resolve, ResolveChallenge
    <3>4. ASSUME NEW x \in EventHash, ReclaimBond(x)
          PROVE  verifications'[e] = verifications[e] /\ challenges'[e] = challenges[e]
      BY <3>4, BondSpentType DEF ReclaimBond, Frozen
    <3> QED
      BY <3>1, <3>2, <3>3, <3>4, NextSplits, OtherStepKeeps
  <2> QED
    BY <2>2, <2>4 DEF Frozen
<1> QED
  BY <1>1, BooksAreKept, TypeCorrect, PTL DEF Spec, FrozenForever

-----------------------------------------------------------------------------
(* The log of records *)

\* The log's view of one event.
Entry(e) == [verifications[e] EXCEPT !.bond = 0]

\* The zero record is its own entry, and that of no event with a record.
LEMMA Entries ==
  ASSUME NEW e \in EventHash, verifications \in [EventHash -> Verification]
  PROVE  /\ verifications[e] = NoVerification => Entry(e) = NoVerification
         /\ Recorded(e) => Entry(e) # NoVerification
<1>1. Entry(e).recordedAt = verifications[e].recordedAt
  BY DEF Entry, Verification
<1>2. NoVerification.recordedAt = 0
  BY DEF NoVerification
<1>3. [NoVerification EXCEPT !.bond = 0] = NoVerification
  <2>1. NoVerification \in Verification /\ NoVerification.bond = 0
    BY DEF NoVerification, Verification
  <2>2. ASSUME NEW v \in Verification, v.bond = 0 PROVE [v EXCEPT !.bond = 0] = v
    BY <2>2 DEF Verification
  <2> QED
    BY <2>1, <2>2
<1> QED
  BY <1>1, <1>2, <1>3 DEF Entry

LEMMA LogInitially == Init => Log!Init
<1> SUFFICES ASSUME Init PROVE Log!Init
  OBVIOUS
<1>1. \A e \in EventHash : Entry(e) = NoVerification
  BY InitTypeOK, Entries DEF Init, TypeOK
<1> QED
  BY <1>1 DEF Init, Log!Init, Entry

\* A successful recordVerification writes one entry.
LEMMA RecordWrites ==
  ASSUME TypeOK, BooksKept, Record
  PROVE  Log!Next
<1> PICK a \in Account, e \in EventHash, t \in Token \cup {ZeroAddress}, c \in Content,
         value \in 0..MaxValue : now <= LastRecordTime /\ RecordVerification(a, e, t, c, value)
  BY DEF Record
<1>1. t \in Token /\ now \in 1..LastRecordTime
  BY NumbersAssumption DEF RecordVerification, TypeOK
<1>2. PICK fact \in [token : Token, content : Content, recordedAt : 1..LastRecordTime, bond : {0},
                     recordedBy : Account] :
        fact = [token |-> t, content |-> c, recordedAt |-> now, bond |-> 0, recordedBy |-> a]
  BY <1>1
<1>3. Entry(e) = NoVerification
  BY Entries DEF RecordVerification, MayRecord, BooksKept, Bookkeeping, TypeOK
<1>4. Entry(e)' = fact /\ \A x \in EventHash \ {e} : Entry(x)' = Entry(x)
  BY <1>2 DEF RecordVerification, TypeOK, Entry
<1>5. [x \in EventHash |-> Entry(x)]' = [[x \in EventHash |-> Entry(x)] EXCEPT ![e] = fact]
  BY <1>4
<1>6. /\ latestVerificationForToken' = [latestVerificationForToken EXCEPT ![fact.token] = e]
      /\ hasDiscrepancy' = hasDiscrepancy
  BY <1>2 DEF RecordVerification
<1>7. Log!Write(e, fact)
  BY <1>3, <1>5, <1>6 DEF Log!Write, Log!Written, Entry
<1> QED
  BY <1>2, <1>7 DEF Log!Next

LEMMA ReportFlags ==
  ASSUME TypeOK, NEW a \in Account, NEW e \in EventHash, ReportDiscrepancy(a, e)
  PROVE  Log!Next
<1>1. Entry(e) # NoVerification
  BY Entries DEF ReportDiscrepancy, TypeOK
<1>2. {x \in EventHash : hasDiscrepancy[x]}' = {x \in EventHash : hasDiscrepancy[x]} \cup {e}
  BY DEF ReportDiscrepancy, TypeOK
<1>3. verifications' = verifications /\ latestVerificationForToken' = latestVerificationForToken
  BY DEF ReportDiscrepancy, books
<1>4. Log!Flag(e)
  BY <1>1, <1>2, <1>3 DEF Log!Flag, Log!Written, Entry
<1> QED
  BY <1>4 DEF Log!Next

\* Every other step changes of a record at most its bond, and neither a flag nor
\* a pointer.
LEMMA OthersStutter ==
  ASSUME TypeOK, [Next]_vars, ~Record, ~\E a \in Account, e \in EventHash : ReportDiscrepancy(a, e)
  PROVE  UNCHANGED Log!logVars
<1>1. UNCHANGED flags
  BY DEF Next, Challenge, Resolve, ResolveChallenge, ReclaimBond, WithdrawCall, WithdrawReturn,
     OwnerCall, SetRelayer, SetRequiredBond, SetChallengeWindow, ChangeOwner, Tick, vars
<1>2. ASSUME NEW e \in EventHash PROVE Entry(e)' = Entry(e)
  <2>1. ASSUME NEW x \in EventHash, Resolve(x) \/ ReclaimBond(x) PROVE Entry(e)' = Entry(e)
    <3>1. verifications' = BondSpent(x)
      BY <2>1 DEF Resolve, ResolveChallenge, ReclaimBond
    <3> QED
      BY <3>1 DEF BondSpent, Entry, TypeOK, Verification
  <2>2. CASE CallChallenge
    BY <2>2 DEF CallChallenge, Challenge, Entry
  <2>3. CASE OtherStep \/ UNCHANGED vars
    BY <2>3, OtherStepKeeps DEF Entry
  <2> QED
    BY <2>1, <2>2, <2>3, NextSplits
<1> QED
  BY <1>1, <1>2 DEF Log!logVars, flags, Entry

\* Neither the relayer nor the owner, nor whoever holds the roles next, can alter
\* a record or take a flag back: an append-only log (lines 153-158, 77-80).
THEOREM RefinesRecordLog == Spec => ImplementsRecordLog
<1>1. TypeOK /\ BooksKept /\ [Next]_vars => [Log!Next]_(Log!logVars)
  BY RecordWrites, ReportFlags, OthersStutter
<1> QED
  BY <1>1, LogInitially, BooksAreKept, TypeCorrect, PTL DEF Spec, ImplementsRecordLog, Log!Spec

-----------------------------------------------------------------------------
(* The escrow of bonds *)

\* How the state of an item reads, case by case.
LEMMA EscrowCases ==
  ASSUME TypeOK, NEW e \in EventHash
  PROVE  /\ ~Recorded(e) /\ verifications[e].bond = 0 => EscrowOf(e) = Escrow!NotPosted
         /\ Recorded(e) /\ verifications[e].bond = 0 => EscrowOf(e) = Escrow!Settled
         /\ Recorded(e) /\ verifications[e].bond # 0 /\ ~OpenChallenge(e) =>
              EscrowOf(e) = [stage |-> "posted", poster |-> verifications[e].recordedBy,
                             bond |-> verifications[e].bond, contester |-> ZeroAddress, stake |-> 0]
         /\ Recorded(e) /\ verifications[e].bond # 0 /\ OpenChallenge(e) =>
              EscrowOf(e) = [stage |-> "contested", poster |-> verifications[e].recordedBy,
                             bond |-> verifications[e].bond,
                             contester |-> challenges[e].challenger, stake |-> challenges[e].amount]
BY DEF EscrowOf, Escrow!NotPosted, Escrow!Settled

\* An item changes only if its record or its challenge does.
LEMMA EscrowUntouched ==
  ASSUME NEW e, verifications'[e] = verifications[e], challenges'[e] = challenges[e]
  PROVE  EscrowOf(e)' = EscrowOf(e)
BY DEF EscrowOf

LEMMA EscrowStarts == Init => Escrow!Init
<1> SUFFICES ASSUME Init PROVE Escrow!Init
  OBVIOUS
<1>1. \A e \in EventHash : EscrowOf(e) = Escrow!NotPosted
  BY InitTypeOK, EscrowCases DEF Init, NoVerification
<1> QED
  BY <1>1 DEF Init, Escrow!Init

LEMMA RecordPosts ==
  ASSUME TypeOK, TypeOK', BooksKept, Record
  PROVE  Escrow!Next
<1> PICK a \in Account, e \in EventHash, t \in Token \cup {ZeroAddress}, c \in Content,
         value \in 0..MaxValue : RecordVerification(a, e, t, c, value)
  BY DEF Record
<1>1. EscrowOf(e) = Escrow!NotPosted
  BY EscrowCases DEF RecordVerification, MayRecord, BooksKept, Bookkeeping, NoVerification
<1>2. /\ verifications'[e].recordedAt # 0
      /\ verifications'[e].bond = value /\ verifications'[e].recordedBy = a
  BY DEF RecordVerification, TypeOK
<1>3. challenges'[e] = NoChallenge
  BY DEF RecordVerification, MayRecord, BooksKept, Bookkeeping
<1> DEFINE posted == IF value = 0 THEN Escrow!Settled
                     ELSE [Escrow!NotPosted EXCEPT !.stage = "posted", !.poster = a, !.bond = value]
<1>4. EscrowOf(e)' = posted
  <2>1. CASE value = 0
    BY <1>2, <1>3, <2>1 DEF EscrowOf, Escrow!NotPosted, Escrow!Settled
  <2>2. CASE value # 0
    <3>1. EscrowOf(e)' = [stage |-> "posted", poster |-> a, bond |-> value,
                          contester |-> ZeroAddress, stake |-> 0]
      BY <1>2, <1>3, <2>2 DEF EscrowOf
    <3>2. Escrow!NotPosted = [stage |-> "none", poster |-> ZeroAddress, bond |-> 0,
                             contester |-> ZeroAddress, stake |-> 0]
      BY DEF Escrow!NotPosted
    <3>3. ASSUME NEW y, y = [Escrow!NotPosted EXCEPT !.stage = "posted", !.poster = a, !.bond = value]
          PROVE  y = [stage |-> "posted", poster |-> a, bond |-> value,
                      contester |-> ZeroAddress, stake |-> 0]
      BY <3>2, <3>3
    <3>4. posted = [Escrow!NotPosted EXCEPT !.stage = "posted", !.poster = a, !.bond = value]
      BY <2>2
    <3> QED
      BY <3>1, <3>3, <3>4, Zenon
  <2> QED
    BY <2>1, <2>2
<1>5. \A x \in EventHash \ {e} : EscrowOf(x)' = EscrowOf(x)
  BY EscrowUntouched DEF RecordVerification, TypeOK
<1>6. [x \in EventHash |-> EscrowOf(x)]' = [[x \in EventHash |-> EscrowOf(x)] EXCEPT ![e] = posted]
  <2> HIDE DEF posted
  <2> QED
    BY <1>4, <1>5
<1>7. balance' = balance + value /\ pendingWithdrawals' = pendingWithdrawals
  BY DEF RecordVerification
<1>8. Escrow!Post(e, a, value)
  BY <1>1, <1>6, <1>7 DEF Escrow!Post
<1> QED
  BY <1>8 DEF Escrow!Next

LEMMA ChallengeContests ==
  ASSUME TypeOK, TypeOK', BooksKept, CallChallenge
  PROVE  Escrow!Next
<1> PICK a \in Account, e \in EventHash, value \in 0..MaxValue : Challenge(a, e, value)
  BY DEF CallChallenge
<1>1. EscrowOf(e) = [stage |-> "posted", poster |-> verifications[e].recordedBy,
                     bond |-> verifications[e].bond, contester |-> ZeroAddress, stake |-> 0]
  BY EscrowCases DEF Challenge
<1>2. /\ challenges'[e] = [challenger |-> a, amount |-> value, resolved |-> FALSE]
      /\ verifications' = verifications
  BY DEF Challenge, TypeOK
<1>3. /\ verifications'[e].recordedAt # 0 /\ verifications'[e].bond # 0
      /\ challenges'[e].challenger # ZeroAddress /\ ~challenges'[e].resolved
  BY <1>2, RolesAssumption DEF Challenge
<1>4. EscrowOf(e)' = [stage |-> "contested", poster |-> verifications[e].recordedBy,
                      bond |-> verifications[e].bond, contester |-> a, stake |-> value]
  BY <1>2, <1>3 DEF EscrowOf
<1>5. EscrowOf(e)' = [EscrowOf(e) EXCEPT !.stage = "contested", !.contester = a, !.stake = value]
  <2>1. ASSUME NEW r, NEW o, NEW b, NEW y,
               r = [stage |-> "posted", poster |-> o, bond |-> b, contester |-> ZeroAddress, stake |-> 0],
               y = [r EXCEPT !.stage = "contested", !.contester = a, !.stake = value]
        PROVE  y = [stage |-> "contested", poster |-> o, bond |-> b, contester |-> a, stake |-> value]
    BY <2>1
  <2> QED
    BY <1>1, <1>4, <2>1, Zenon
<1>6. \A x \in EventHash \ {e} : EscrowOf(x)' = EscrowOf(x)
  BY EscrowUntouched DEF Challenge, TypeOK
<1>7. [x \in EventHash |-> EscrowOf(x)]' =
        [[x \in EventHash |-> EscrowOf(x)] EXCEPT
           ![e] = [@ EXCEPT !.stage = "contested", !.contester = a, !.stake = value]]
  BY <1>5, <1>6
<1>8. /\ value >= verifications[e].bond
      /\ balance' = balance + value /\ pendingWithdrawals' = pendingWithdrawals
  BY DEF Challenge
<1>9. Escrow!Contest(e, a, value)
  BY <1>1, <1>7, <1>8 DEF Escrow!Contest
<1> QED
  BY <1>9 DEF Escrow!Next

\* What resolveChallenge and reclaimBond leave of the item.
LEMMA SpentIsSettled ==
  ASSUME TypeOK, TypeOK', NEW e \in EventHash, Recorded(e), verifications' = BondSpent(e),
         \A x \in EventHash \ {e} : challenges'[x] = challenges[x]
  PROVE  [x \in EventHash |-> EscrowOf(x)]' =
           [[x \in EventHash |-> EscrowOf(x)] EXCEPT ![e] = Escrow!Settled]
<1>1. verifications'[e].recordedAt # 0 /\ verifications'[e].bond = 0
  BY BondSpentType
<1>2. EscrowOf(e)' = Escrow!Settled
  BY <1>1 DEF EscrowOf, Escrow!Settled, Escrow!NotPosted
<1>3. \A x \in EventHash \ {e} : EscrowOf(x)' = EscrowOf(x)
  BY EscrowUntouched, BondSpentType
<1> QED
  BY <1>2, <1>3

LEMMA ResolveDecides ==
  ASSUME TypeOK, TypeOK', BooksKept, NEW e \in EventHash, Resolve(e)
  PROVE  Escrow!Next
<1> PICK a \in Account, w \in BOOLEAN : ResolveChallenge(a, e, w)
  BY DEF Resolve
<1>1. /\ Recorded(e) /\ verifications[e].bond # 0 /\ OpenChallenge(e)
      /\ verifications[e].recordedBy \in Account /\ challenges[e].challenger \in Account
      /\ verifications[e].bond \in Nat /\ challenges[e].amount \in Nat
  BY DEF ResolveChallenge, BooksKept, Bookkeeping, TypeOK, Verification, ChallengeRecord
<1>2. EscrowOf(e) = [stage |-> "contested", poster |-> verifications[e].recordedBy,
                     bond |-> verifications[e].bond,
                     contester |-> challenges[e].challenger, stake |-> challenges[e].amount]
  BY <1>1, EscrowCases
<1>3. PICK p \in Account : p = IF w THEN challenges[e].challenger ELSE Poster(e)
  BY <1>1 DEF Poster
<1>4. p \in {EscrowOf(e).poster, EscrowOf(e).contester}
  BY <1>2, <1>3 DEF Poster
<1>5. pendingWithdrawals' =
        [pendingWithdrawals EXCEPT ![p] = @ + (verifications[e].bond + challenges[e].amount)]
  BY <1>3 DEF ResolveChallenge, Credit
<1>6. pendingWithdrawals[p] \in Nat
  BY DEF TypeOK
<1>7. pendingWithdrawals' =
        [pendingWithdrawals EXCEPT ![p] = @ + EscrowOf(e).bond + EscrowOf(e).stake]
  <2>1. pendingWithdrawals[p] + (verifications[e].bond + challenges[e].amount)
          = pendingWithdrawals[p] + EscrowOf(e).bond + EscrowOf(e).stake
    BY <1>1, <1>2, <1>6
  <2> QED
    BY <1>5, <2>1
<1>8. [x \in EventHash |-> EscrowOf(x)]' =
        [[x \in EventHash |-> EscrowOf(x)] EXCEPT ![e] = Escrow!Settled]
  BY <1>1, SpentIsSettled DEF ResolveChallenge, TypeOK
<1>9. EscrowOf(e).stage = "contested" /\ balance' = balance
  BY <1>2 DEF ResolveChallenge
<1>10. Escrow!Decide(e, p)
  BY <1>4, <1>7, <1>8, <1>9 DEF Escrow!Decide
<1> QED
  BY <1>10 DEF Escrow!Next

LEMMA ReclaimReleases ==
  ASSUME TypeOK, TypeOK', BooksKept, NEW e \in EventHash, ReclaimBond(e)
  PROVE  Escrow!Next
<1>1. EscrowOf(e) = [stage |-> "posted", poster |-> verifications[e].recordedBy,
                     bond |-> verifications[e].bond, contester |-> ZeroAddress, stake |-> 0]
  BY EscrowCases DEF ReclaimBond
<1>2. pendingWithdrawals' =
        [pendingWithdrawals EXCEPT ![EscrowOf(e).poster] = @ + EscrowOf(e).bond]
  BY <1>1 DEF ReclaimBond, Credit, Poster
<1>3. [x \in EventHash |-> EscrowOf(x)]' =
        [[x \in EventHash |-> EscrowOf(x)] EXCEPT ![e] = Escrow!Settled]
  BY SpentIsSettled DEF ReclaimBond
<1>4. EscrowOf(e).stage = "posted" /\ balance' = balance
  BY <1>1 DEF ReclaimBond
<1>5. Escrow!Release(e)
  BY <1>2, <1>3, <1>4 DEF Escrow!Release
<1> QED
  BY <1>5 DEF Escrow!Next

LEMMA WithdrawPays ==
  ASSUME TypeOK, NEW a \in Account, WithdrawCall(a)
  PROVE  Escrow!Next
<1>1. pendingWithdrawals[a] > 0
  BY DEF WithdrawCall, TypeOK
<1>2. [x \in EventHash |-> EscrowOf(x)]' = [x \in EventHash |-> EscrowOf(x)]
  BY EscrowUntouched DEF WithdrawCall
<1>3. Escrow!Pay(a)
  BY <1>1, <1>2 DEF WithdrawCall, Escrow!Pay
<1> QED
  BY <1>3 DEF Escrow!Next

\* Whatever the owner does and whoever the relayer is by then, a bond goes back
\* to who posted it or, with the stake, to one of the two parties.
THEOREM RefinesBondEscrow == Spec => ImplementsEscrow
<1>1. TypeOK /\ TypeOK' /\ BooksKept /\ [Next]_vars => [Escrow!Next]_(Escrow!escrowVars)
  <2> SUFFICES ASSUME TypeOK, TypeOK', BooksKept, [Next]_vars
               PROVE  [Escrow!Next]_(Escrow!escrowVars)
    OBVIOUS
  <2>1. CASE UNCHANGED books
    <3>1. [x \in EventHash |-> EscrowOf(x)]' = [x \in EventHash |-> EscrowOf(x)]
      BY <2>1, EscrowUntouched DEF books
    <3> QED
      BY <2>1, <3>1 DEF books, Escrow!escrowVars
  <2>2. ASSUME NEW a \in Account, WithdrawCall(a)
        PROVE  Escrow!Next
    BY <2>2, WithdrawPays
  <2> QED
    BY <2>1, <2>2, NextSplits, OtherStepBooks, RecordPosts, ChallengeContests, ResolveDecides,
       ReclaimReleases
<1> QED
  BY <1>1, EscrowStarts, BooksAreKept, TypeCorrect, PTL DEF Spec, ImplementsEscrow, Escrow!Spec

-----------------------------------------------------------------------------
(* What the registry inherits from the escrow *)

EscrowFacts == INSTANCE BondEscrow_proofs WITH
  Item <- EventHash, Party <- Account, Nobody <- ZeroAddress, Amount <- 0..MaxValue,
  escrow <- [e \in EventHash |-> EscrowOf(e)], credit <- pendingWithdrawals, held <- balance

\* The instance about which BondEscrow's theorems speak is the one that the
\* registry implements, and events and accounts are finitely many.
LEMMA EscrowInherits == EscrowFacts!Bounded /\ (Spec => EscrowFacts!Spec)
<1>1. EscrowFacts!Bounded
  <2>1. EscrowFacts!IsFiniteSet(EventHash) /\ EscrowFacts!IsFiniteSet(Account)
    BY RolesAssumption DEF EscrowFacts!IsFiniteSet, IsFiniteSet
  <2> QED
    BY <2>1, NumbersAssumption DEF EscrowFacts!Bounded
<1>2. (EscrowFacts!Init <=> Escrow!Init) /\ (EscrowFacts!Next <=> Escrow!Next)
  BY DEF EscrowFacts!Init, Escrow!Init, EscrowFacts!Next, Escrow!Next,
     EscrowFacts!Post, Escrow!Post, EscrowFacts!Contest, Escrow!Contest,
     EscrowFacts!Decide, Escrow!Decide, EscrowFacts!Release, Escrow!Release,
     EscrowFacts!Pay, Escrow!Pay, EscrowFacts!NotPosted, Escrow!NotPosted,
     EscrowFacts!Settled, Escrow!Settled
<1>3. Escrow!Init => EscrowFacts!Init
  BY <1>2
<1>4. [Escrow!Next]_(Escrow!escrowVars) => [EscrowFacts!Next]_(EscrowFacts!escrowVars)
  BY <1>2 DEF EscrowFacts!escrowVars, Escrow!escrowVars
<1>5. Escrow!Spec => EscrowFacts!Spec
  BY <1>3, <1>4, PTL DEF Escrow!Spec, EscrowFacts!Spec
<1> QED
  BY <1>1, <1>5, RefinesBondEscrow, PTL DEF ImplementsEscrow

\* V1 too always holds exactly the ether it owes for bonds, stakes and credits.
THEOREM HoldsWhatItOwes == Spec => []EscrowFacts!HeldIsOwed
BY EscrowInherits, EscrowFacts!EscrowHoldsWhatItOwes, PTL

\* withdraw never finds less ether in the contract than it is about to send.
THEOREM CreditsFunded == Spec => [](\A a \in Account : pendingWithdrawals[a] <= balance)
<1>1. EscrowFacts!CreditsAreFunded => \A a \in Account : pendingWithdrawals[a] <= balance
  BY DEF EscrowFacts!CreditsAreFunded
<1> QED
  BY <1>1, EscrowInherits, EscrowFacts!CreditsFunded, PTL
=============================================================================
