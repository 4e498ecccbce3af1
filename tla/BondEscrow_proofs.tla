--------------------------- MODULE BondEscrow_proofs ---------------------------
(***************************************************************************)
(* What every registry that implements BondEscrow inherits, for any number *)
(* of items and parties and any amounts: the escrow holds what it owes, so *)
(* no credit is ever more than the ether there is to pay it with.  First   *)
(* the facts about the sums of WeiTotals that this rests on.               *)
(***************************************************************************)
EXTENDS BondEscrow, FiniteSetTheorems, Integers, TLAPS

-----------------------------------------------------------------------------
(* Sums of wei *)

CoinsAt(f, x) == {x} \X (1..f[x])

\* The coins under one key are as many as its amount.
LEMMA CoinsAtCard ==
  ASSUME NEW f, NEW x, f[x] \in Nat
  PROVE  /\ IsFiniteSet(CoinsAt(f, x))
         /\ Cardinality(CoinsAt(f, x)) = f[x]
<1>1. IsFiniteSet({x}) /\ Cardinality({x}) = 1
  BY FS_Singleton
<1>2. IsFiniteSet(1..f[x]) /\ Cardinality(1..f[x]) = f[x]
  BY FS_Interval
<1>3. /\ IsFiniteSet({x} \X (1..f[x]))
      /\ Cardinality({x} \X (1..f[x])) = Cardinality({x}) * Cardinality(1..f[x])
  BY <1>1, <1>2, FS_Product
<1> QED
  BY <1>1, <1>2, <1>3 DEF CoinsAt

\* A mapping with finitely many keys holds finitely many coins.
LEMMA CoinsFinite ==
  ASSUME NEW S, IsFiniteSet(S), NEW f \in [S -> Nat]
  PROVE  IsFiniteSet(Coins(f))
<1> DEFINE g == [x \in S |-> CoinsAt(f, x)]
           T == {CoinsAt(f, x) : x \in S}
<1>1. g \in Surjection(S, T)
  BY DEF Surjection
<1>2. IsFiniteSet(T)
  BY <1>1, FS_Surjection
<1>3. \A t \in T : IsFiniteSet(t)
  BY CoinsAtCard
<1>4. IsFiniteSet(UNION T)
  BY <1>2, <1>3, FS_UNION
<1>5. Coins(f) = UNION T
  BY DEF Coins, CoinsAt
<1> QED
  BY <1>4, <1>5

\* The sum of a mapping is a natural number.
LEMMA TotalType ==
  ASSUME NEW S, IsFiniteSet(S), NEW f \in [S -> Nat]
  PROVE  Total(f) \in Nat
BY CoinsFinite, FS_CardinalityType DEF Total

\* The sum of a mapping that is zero everywhere is zero.
LEMMA TotalZero ==
  ASSUME NEW S, NEW f \in [S -> Nat], \A x \in S : f[x] = 0
  PROVE  Total(f) = 0
<1>1. Coins(f) = {}
  BY DEF Coins
<1> QED
  BY <1>1, FS_EmptySet DEF Total

\* Changing the entry of one key changes the sum by the difference.
LEMMA TotalUpdate ==
  ASSUME NEW S, IsFiniteSet(S), NEW f \in [S -> Nat], NEW g \in [S -> Nat],
         NEW x \in S, \A y \in S \ {x} : g[y] = f[y]
  PROVE  Total(g) = Total(f) - f[x] + g[x]
<1> DEFINE Rest(h) == UNION {CoinsAt(h, y) : y \in S \ {x}}
<1>1. ASSUME NEW h \in [S -> Nat]
      PROVE  Total(h) = Cardinality(Rest(h)) + h[x] /\ Cardinality(Rest(h)) \in Nat
  <2>1. Coins(h) = Rest(h) \cup CoinsAt(h, x)
    BY DEF Coins, CoinsAt
  <2>2. Rest(h) \cap CoinsAt(h, x) = {}
    BY DEF CoinsAt
  <2>3. IsFiniteSet(Coins(h))
    BY CoinsFinite
  <2>4. IsFiniteSet(Rest(h))
    BY <2>1, <2>3, FS_Subset
  <2>5. IsFiniteSet(CoinsAt(h, x)) /\ Cardinality(CoinsAt(h, x)) = h[x]
    BY CoinsAtCard
  <2>6. Cardinality(Rest(h) \cap CoinsAt(h, x)) = 0
    BY <2>2, FS_EmptySet
  <2>7. Cardinality(Coins(h)) = Cardinality(Rest(h)) + h[x] - 0
    BY <2>1, <2>4, <2>5, <2>6, FS_Union
  <2>8. Cardinality(Rest(h)) \in Nat
    BY <2>4, FS_CardinalityType
  <2> QED
    BY <2>7, <2>8 DEF Total
<1>2. Rest(f) = Rest(g)
  BY DEF CoinsAt
<1>3. /\ Total(f) = Cardinality(Rest(f)) + f[x]
      /\ Total(g) = Cardinality(Rest(g)) + g[x]
      /\ Cardinality(Rest(f)) \in Nat
  BY <1>1
<1>4. f[x] \in Nat /\ g[x] \in Nat
  OBVIOUS
<1> HIDE DEF Rest
<1> QED
  BY <1>2, <1>3, <1>4

\* No entry is more than the sum.
LEMMA TotalCovers ==
  ASSUME NEW S, IsFiniteSet(S), NEW f \in [S -> Nat], NEW x \in S
  PROVE  f[x] <= Total(f)
<1>1. IsFiniteSet(Coins(f)) /\ CoinsAt(f, x) \subseteq Coins(f)
  BY CoinsFinite DEF Coins, CoinsAt
<1>2. Cardinality(CoinsAt(f, x)) <= Cardinality(Coins(f))
  BY <1>1, FS_Subset
<1> QED
  BY <1>2, CoinsAtCard DEF Total

-----------------------------------------------------------------------------
(* The escrow *)

Entry ==
  [stage : {"none", "posted", "contested", "settled"}, poster : Party \cup {Nobody}, bond : Nat,
   contester : Party \cup {Nobody}, stake : Nat]

EscrowTypeOK ==
  /\ escrow \in [Item -> Entry]
  /\ credit \in [Party -> Nat]
  /\ held \in Int

\* An item that can be released or decided has its parties, and no stake before
\* it is contested.
Parties ==
  \A i \in Item :
    /\ escrow[i].stage = "none" => escrow[i] = NotPosted
    /\ escrow[i].stage = "posted" => escrow[i].poster \in Party /\ escrow[i].stake = 0
    /\ escrow[i].stage = "contested" => escrow[i].poster \in Party /\ escrow[i].contester \in Party

BondOf == [i \in Item |-> escrow[i].bond]
StakeOf == [i \in Item |-> escrow[i].stake]

EscrowInv == EscrowTypeOK /\ Parties /\ HeldIsOwed

Bounded == IsFiniteSet(Item) /\ IsFiniteSet(Party) /\ Amount \subseteq Nat

\* When one item changes, the bonds and the stakes change by its own.
LEMMA ItemMoves ==
  ASSUME Bounded, EscrowTypeOK, NEW i \in Item, NEW x \in Entry, escrow' = [escrow EXCEPT ![i] = x]
  PROVE  /\ escrow' \in [Item -> Entry]
         /\ Total(BondOf)' = Total(BondOf) - escrow[i].bond + x.bond
         /\ Total(StakeOf)' = Total(StakeOf) - escrow[i].stake + x.stake
<1> DEFINE b == BondOf  b1 == [BondOf EXCEPT ![i] = x.bond]
           s == StakeOf  s1 == [StakeOf EXCEPT ![i] = x.stake]
<1>1. /\ b \in [Item -> Nat] /\ s \in [Item -> Nat]
      /\ b1 \in [Item -> Nat] /\ s1 \in [Item -> Nat]
  BY DEF EscrowTypeOK, Entry, BondOf, StakeOf
<1>2. BondOf' = b1 /\ StakeOf' = s1
  BY DEF EscrowTypeOK, Entry, BondOf, StakeOf
<1>3. escrow' \in [Item -> Entry]
  BY DEF EscrowTypeOK
<1>4. /\ b1[i] = x.bond /\ \A j \in Item \ {i} : b1[j] = b[j]
      /\ s1[i] = x.stake /\ \A j \in Item \ {i} : s1[j] = s[j]
      /\ b[i] = escrow[i].bond /\ s[i] = escrow[i].stake
  BY <1>1 DEF BondOf, StakeOf, EscrowTypeOK
<1> HIDE DEF b, b1, s, s1
<1>5. Total(b1) = Total(b) - b[i] + b1[i] /\ Total(s1) = Total(s) - s[i] + s1[i]
  <2>1. Total(b1) = Total(b) - b[i] + b1[i]
    BY <1>1, <1>4, TotalUpdate DEF Bounded
  <2>2. Total(s1) = Total(s) - s[i] + s1[i]
    BY <1>1, <1>4, TotalUpdate DEF Bounded
  <2> QED
    BY <2>1, <2>2
<1>6. Total(BondOf)' = Total(b1) /\ Total(StakeOf)' = Total(s1)
  BY <1>2 DEF Total, Coins
<1> QED
  BY <1>3, <1>4, <1>5, <1>6 DEF b, s

\* When one credit changes, their sum changes by the difference.
LEMMA CreditMoves ==
  ASSUME Bounded, EscrowTypeOK, NEW p \in Party, NEW c \in Nat, credit' = [credit EXCEPT ![p] = c]
  PROVE  /\ credit' \in [Party -> Nat]
         /\ Total(credit)' = Total(credit) - credit[p] + c
<1>1. credit \in [Party -> Nat] /\ [credit EXCEPT ![p] = c] \in [Party -> Nat]
  BY DEF EscrowTypeOK
<1>2. Total([credit EXCEPT ![p] = c]) = Total(credit) - credit[p] + [credit EXCEPT ![p] = c][p]
  BY <1>1, TotalUpdate DEF Bounded
<1>3. Total(credit)' = Total([credit EXCEPT ![p] = c])
  BY DEF Total, Coins
<1> QED
  BY <1>1, <1>2, <1>3

\* The sums are natural numbers, and stay while what they are over stays.
LEMMA SumsAreNat ==
  ASSUME Bounded, EscrowTypeOK
  PROVE  /\ Total(BondOf) \in Nat /\ Total(StakeOf) \in Nat /\ Total(credit) \in Nat
         /\ escrow' = escrow => Total(BondOf)' = Total(BondOf) /\ Total(StakeOf)' = Total(StakeOf)
         /\ credit' = credit => Total(credit)' = Total(credit)
<1>1. BondOf \in [Item -> Nat] /\ StakeOf \in [Item -> Nat] /\ credit \in [Party -> Nat]
  BY DEF EscrowTypeOK, Entry, BondOf, StakeOf
<1>2. Total(BondOf) \in Nat /\ Total(StakeOf) \in Nat /\ Total(credit) \in Nat
  BY <1>1, TotalType DEF Bounded
<1>3. ASSUME escrow' = escrow PROVE Total(BondOf)' = Total(BondOf) /\ Total(StakeOf)' = Total(StakeOf)
  BY <1>3 DEF BondOf, StakeOf, Total, Coins
<1>4. ASSUME credit' = credit PROVE Total(credit)' = Total(credit)
  BY <1>4 DEF Total, Coins
<1> QED
  BY <1>2, <1>3, <1>4

LEMMA EscrowInitially == ASSUME Bounded PROVE Init => EscrowInv
<1> SUFFICES ASSUME Init PROVE EscrowInv
  OBVIOUS
<1>1. EscrowTypeOK /\ Parties
  BY DEF Init, EscrowTypeOK, Parties, Entry, NotPosted
<1>2. Total(BondOf) = 0 /\ Total(StakeOf) = 0 /\ Total(credit) = 0
  <2>1. BondOf \in [Item -> Nat] /\ \A i \in Item : BondOf[i] = 0
    BY DEF Init, NotPosted, BondOf
  <2>2. StakeOf \in [Item -> Nat] /\ \A i \in Item : StakeOf[i] = 0
    BY DEF Init, NotPosted, StakeOf
  <2>3. credit \in [Party -> Nat] /\ \A p \in Party : credit[p] = 0
    BY DEF Init
  <2> QED
    BY <2>1, <2>2, <2>3, TotalZero
<1> QED
  BY <1>1, <1>2 DEF EscrowInv, HeldIsOwed, BondOf, StakeOf, Init

\* Money that comes in for an item is owed for that item.
LEMMA MoneyComesIn ==
  ASSUME Bounded, EscrowInv, NEW i \in Item, NEW p \in Party, NEW v \in Amount, Post(i, p, v) \/ Contest(i, p, v)
  PROVE  EscrowInv'
<1> DEFINE posted == IF v = 0 THEN Settled
                     ELSE [NotPosted EXCEPT !.stage = "posted", !.poster = p, !.bond = v]
           contested == [escrow[i] EXCEPT !.stage = "contested", !.contester = p, !.stake = v]
<1>1. v \in Nat /\ escrow[i] \in Entry /\ posted \in Entry /\ contested \in Entry
  BY DEF Bounded, EscrowInv, EscrowTypeOK, Entry, NotPosted, Settled
<1>2. EscrowTypeOK /\ Parties /\ held \in Int
  BY DEF EscrowInv, EscrowTypeOK
<1>3. held = Total(BondOf) + Total(StakeOf) + Total(credit)
  BY DEF EscrowInv, HeldIsOwed, BondOf, StakeOf
<1>4. /\ Total(BondOf) \in Nat /\ Total(StakeOf) \in Nat /\ Total(credit) \in Nat
      /\ credit' = credit => Total(credit)' = Total(credit)
  BY <1>2, SumsAreNat
<1>5. CASE Post(i, p, v)
  <2>1. escrow' = [escrow EXCEPT ![i] = posted] /\ held' = held + v /\ credit' = credit /\ escrow[i] = NotPosted
    BY <1>5 DEF Post
  <2>2. /\ posted.bond = v /\ posted.stake = 0 /\ posted.stage \in {"posted", "settled"}
        /\ posted.stage = "posted" => posted.poster = p
        /\ escrow[i].bond = 0 /\ escrow[i].stake = 0
    BY <1>1, <2>1 DEF NotPosted, Settled
  <2> HIDE DEF posted
  <2>3. /\ escrow' \in [Item -> Entry]
        /\ Total(BondOf)' = Total(BondOf) - escrow[i].bond + posted.bond
        /\ Total(StakeOf)' = Total(StakeOf) - escrow[i].stake + posted.stake
    BY <1>1, <1>2, <2>1, ItemMoves
  <2>4. EscrowTypeOK'
    BY <1>1, <1>2, <2>1, <2>3 DEF EscrowTypeOK
  <2>5. Parties'
    BY <1>2, <2>1, <2>2 DEF Parties, EscrowTypeOK
  <2>6. held' = Total(BondOf)' + Total(StakeOf)' + Total(credit)'
    BY <1>1, <1>2, <1>3, <1>4, <2>1, <2>2, <2>3
  <2> QED
    BY <2>4, <2>5, <2>6 DEF EscrowInv, HeldIsOwed, BondOf, StakeOf
<1>6. CASE Contest(i, p, v)
  <2>1. escrow' = [escrow EXCEPT ![i] = contested] /\ held' = held + v /\ credit' = credit
    BY <1>6 DEF Contest
  <2>2. /\ contested.bond = escrow[i].bond /\ contested.stake = v /\ contested.stage = "contested"
        /\ contested.poster = escrow[i].poster /\ contested.contester = p
        /\ escrow[i].poster \in Party /\ escrow[i].stake = 0
    BY <1>1, <1>2, <1>6 DEF Contest, Entry, Parties
  <2> HIDE DEF contested
  <2>3. /\ escrow' \in [Item -> Entry]
        /\ Total(BondOf)' = Total(BondOf) - escrow[i].bond + contested.bond
        /\ Total(StakeOf)' = Total(StakeOf) - escrow[i].stake + contested.stake
    BY <1>1, <1>2, <2>1, ItemMoves
  <2>4. EscrowTypeOK'
    BY <1>1, <1>2, <2>1, <2>3 DEF EscrowTypeOK
  <2>5. Parties'
    BY <1>2, <2>1, <2>2 DEF Parties, EscrowTypeOK
  <2>6. held' = Total(BondOf)' + Total(StakeOf)' + Total(credit)'
    <3>1. escrow[i].bond \in Nat
      BY <1>1 DEF Entry
    <3> QED
      BY <1>1, <1>2, <1>3, <1>4, <2>1, <2>2, <2>3, <3>1
  <2> QED
    BY <2>4, <2>5, <2>6 DEF EscrowInv, HeldIsOwed, BondOf, StakeOf
<1> QED
  BY <1>5, <1>6

\* A settlement turns what is in escrow for an item into a credit.
LEMMA Settles ==
  ASSUME Bounded, EscrowInv, NEW i \in Item, Release(i) \/ \E w \in Party : Decide(i, w)
  PROVE  EscrowInv'
<1>1. EscrowTypeOK /\ Parties /\ held \in Int /\ escrow[i] \in Entry /\ credit \in [Party -> Nat]
  BY DEF EscrowInv, EscrowTypeOK
<1>2. PICK p \in Party :
        /\ credit' = [credit EXCEPT ![p] = credit[p] + escrow[i].bond + escrow[i].stake]
        /\ escrow' = [escrow EXCEPT ![i] = Settled]
        /\ held' = held
  <2>1. CASE Release(i)
    <3>1. escrow[i].poster \in Party /\ escrow[i].stake = 0 /\ escrow[i].bond \in Nat
      BY <1>1, <2>1 DEF Release, Parties, Entry
    <3>2. credit[escrow[i].poster] + escrow[i].bond
            = credit[escrow[i].poster] + escrow[i].bond + escrow[i].stake
      BY <1>1, <3>1
    <3> QED
      BY <1>1, <2>1, <3>1, <3>2 DEF Release
  <2>2. CASE \E w \in Party : Decide(i, w)
    BY <1>1, <2>2 DEF Decide
  <2> QED
    BY <2>1, <2>2
<1>3. /\ Settled \in Entry /\ Settled.bond = 0 /\ Settled.stake = 0 /\ Settled.stage = "settled"
      /\ escrow[i].bond \in Nat /\ escrow[i].stake \in Nat
  BY <1>1 DEF Settled, NotPosted, Entry
<1>4. /\ escrow' \in [Item -> Entry]
      /\ Total(BondOf)' = Total(BondOf) - escrow[i].bond + Settled.bond
      /\ Total(StakeOf)' = Total(StakeOf) - escrow[i].stake + Settled.stake
  BY <1>1, <1>2, <1>3, ItemMoves
<1>5. credit[p] + escrow[i].bond + escrow[i].stake \in Nat
  BY <1>1, <1>3
<1>6. /\ credit' \in [Party -> Nat]
      /\ Total(credit)' = Total(credit) - credit[p] + (credit[p] + escrow[i].bond + escrow[i].stake)
  BY <1>1, <1>2, <1>5, CreditMoves
<1>7. Total(BondOf) \in Nat /\ Total(StakeOf) \in Nat /\ Total(credit) \in Nat
  BY <1>1, SumsAreNat
<1>8. held = Total(BondOf) + Total(StakeOf) + Total(credit)
  BY DEF EscrowInv, HeldIsOwed, BondOf, StakeOf
<1>9. held' = Total(BondOf)' + Total(StakeOf)' + Total(credit)'
  BY <1>1, <1>2, <1>3, <1>4, <1>6, <1>7, <1>8
<1>10. EscrowTypeOK'
  BY <1>1, <1>2, <1>4, <1>6 DEF EscrowTypeOK
<1>11. Parties'
  BY <1>1, <1>2, <1>3 DEF Parties, EscrowTypeOK
<1> QED
  BY <1>9, <1>10, <1>11 DEF EscrowInv, HeldIsOwed, BondOf, StakeOf

\* A payment takes from what is held what it takes from the credits.
LEMMA Pays ==
  ASSUME Bounded, EscrowInv, NEW p \in Party, Pay(p)
  PROVE  EscrowInv'
<1>1. EscrowTypeOK /\ Parties /\ held \in Int /\ credit[p] \in Nat
  BY DEF EscrowInv, EscrowTypeOK
<1>2. credit' = [credit EXCEPT ![p] = 0] /\ held' = held - credit[p] /\ escrow' = escrow
  BY DEF Pay
<1>3. credit' \in [Party -> Nat] /\ Total(credit)' = Total(credit) - credit[p] + 0
  BY <1>1, <1>2, CreditMoves
<1>4. /\ Total(BondOf) \in Nat /\ Total(StakeOf) \in Nat /\ Total(credit) \in Nat
      /\ Total(BondOf)' = Total(BondOf) /\ Total(StakeOf)' = Total(StakeOf)
  BY <1>1, <1>2, SumsAreNat
<1>5. held = Total(BondOf) + Total(StakeOf) + Total(credit)
  BY DEF EscrowInv, HeldIsOwed, BondOf, StakeOf
<1>6. held' = Total(BondOf)' + Total(StakeOf)' + Total(credit)'
  BY <1>1, <1>2, <1>3, <1>4, <1>5
<1>7. EscrowTypeOK' /\ Parties'
  BY <1>1, <1>2, <1>3 DEF EscrowTypeOK, Parties
<1> QED
  BY <1>6, <1>7 DEF EscrowInv, HeldIsOwed, BondOf, StakeOf

LEMMA EscrowInvariant == ASSUME Bounded PROVE Spec => []EscrowInv
<1>1. Init => EscrowInv
  BY EscrowInitially
<1>2. EscrowInv /\ [Next]_escrowVars => EscrowInv'
  <2> SUFFICES ASSUME EscrowInv, [Next]_escrowVars PROVE EscrowInv'
    OBVIOUS
  <2>1. CASE UNCHANGED escrowVars
    <3>1. EscrowTypeOK' /\ Parties'
      BY <2>1 DEF EscrowInv, EscrowTypeOK, Parties, escrowVars
    <3>2. /\ Total(BondOf)' = Total(BondOf) /\ Total(StakeOf)' = Total(StakeOf)
          /\ Total(credit)' = Total(credit) /\ held' = held
      BY <2>1, SumsAreNat DEF EscrowInv, escrowVars
    <3> QED
      BY <3>1, <3>2 DEF EscrowInv, HeldIsOwed, BondOf, StakeOf
  <2>2. CASE \E i \in Item, p \in Party, v \in Amount : Post(i, p, v) \/ Contest(i, p, v)
    BY <2>2, MoneyComesIn
  <2>3. CASE \E i \in Item : Release(i) \/ \E p \in Party : Decide(i, p)
    BY <2>3, Settles
  <2>4. CASE \E p \in Party : Pay(p)
    BY <2>4, Pays
  <2> QED
    BY <2>1, <2>2, <2>3, <2>4 DEF Next
<1> QED
  BY <1>1, <1>2, PTL DEF Spec

\* The escrow of BondEscrow holds at every moment exactly what it owes.
THEOREM EscrowHoldsWhatItOwes == ASSUME Bounded PROVE Spec => []HeldIsOwed
<1>1. EscrowInv => HeldIsOwed
  BY DEF EscrowInv
<1> QED
  BY <1>1, EscrowInvariant, PTL

\* What a party may withdraw is there: a payment never finds too little ether,
\* whoever was paid before.
CreditsAreFunded == \A p \in Party : credit[p] \in Nat /\ credit[p] <= held

THEOREM CreditsFunded == ASSUME Bounded PROVE Spec => []CreditsAreFunded
<1>1. EscrowInv => CreditsAreFunded
  <2> SUFFICES ASSUME EscrowInv, NEW p \in Party PROVE credit[p] \in Nat /\ credit[p] <= held
    BY DEF CreditsAreFunded
  <2>1. EscrowTypeOK /\ credit \in [Party -> Nat]
    BY DEF EscrowInv, EscrowTypeOK
  <2>2. Total(BondOf) \in Nat /\ Total(StakeOf) \in Nat /\ Total(credit) \in Nat
    BY <2>1, SumsAreNat
  <2>3. held = Total(BondOf) + Total(StakeOf) + Total(credit)
    BY DEF EscrowInv, HeldIsOwed, BondOf, StakeOf
  <2>4. credit[p] \in Nat /\ credit[p] <= Total(credit)
    BY <2>1, TotalCovers DEF Bounded
  <2> QED
    BY <2>2, <2>3, <2>4
<1> QED
  BY <1>1, EscrowInvariant, PTL
=============================================================================
