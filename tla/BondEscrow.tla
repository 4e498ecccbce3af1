------------------------------ MODULE BondEscrow ------------------------------
(***************************************************************************)
(* What both registries promise about money, without time, roles, records  *)
(* or signatures.  A bond is posted for an item at most once.  It leaves   *)
(* in one of two ways: released to its poster, or, once somebody has put   *)
(* at least as much against it, paid together with that stake to one of    *)
(* the two parties.  Nobody is sent ether but by withdrawing a credit, all *)
(* of it at once.                                                          *)
(***************************************************************************)
EXTENDS Naturals, WeiTotals

CONSTANTS
  Item,     \* what bonds are posted for
  Party,    \* who can post, contest and be paid
  Nobody,   \* no party
  Amount    \* amounts of ether, from Nat, that a call can carry

VARIABLES
  escrow,   \* the state of each item
  credit,   \* what each party may withdraw
  held      \* the ether in the contract

escrowVars == <<escrow, credit, held>>

NotPosted == [stage |-> "none", poster |-> Nobody, bond |-> 0, contester |-> Nobody, stake |-> 0]

Settled == [NotPosted EXCEPT !.stage = "settled"]

Init ==
  /\ escrow = [i \in Item |-> NotPosted]
  /\ credit = [p \in Party |-> 0]
  /\ held = 0

\* A bond of nothing is settled at once: there is nothing to contest.
Post(i, p, v) ==
  /\ escrow[i] = NotPosted
  /\ escrow' = [escrow EXCEPT ![i] =
       IF v = 0 THEN Settled ELSE [NotPosted EXCEPT !.stage = "posted", !.poster = p, !.bond = v]]
  /\ held' = held + v
  /\ UNCHANGED credit

Contest(i, p, v) ==
  /\ escrow[i].stage = "posted"
  /\ v >= escrow[i].bond
  /\ escrow' = [escrow EXCEPT ![i] = [@ EXCEPT !.stage = "contested", !.contester = p, !.stake = v]]
  /\ held' = held + v
  /\ UNCHANGED credit

Decide(i, winner) ==
  /\ escrow[i].stage = "contested"
  /\ winner \in {escrow[i].poster, escrow[i].contester}
  /\ credit' = [credit EXCEPT ![winner] = @ + escrow[i].bond + escrow[i].stake]
  /\ escrow' = [escrow EXCEPT ![i] = Settled]
  /\ UNCHANGED held

Release(i) ==
  /\ escrow[i].stage = "posted"
  /\ credit' = [credit EXCEPT ![escrow[i].poster] = @ + escrow[i].bond]
  /\ escrow' = [escrow EXCEPT ![i] = Settled]
  /\ UNCHANGED held

Pay(p) ==
  /\ credit[p] > 0
  /\ credit' = [credit EXCEPT ![p] = 0]
  /\ held' = held - credit[p]
  /\ UNCHANGED escrow

Next ==
  \/ \E i \in Item, p \in Party, v \in Amount : Post(i, p, v) \/ Contest(i, p, v)
  \/ \E i \in Item : Release(i) \/ \E p \in Party : Decide(i, p)
  \/ \E p \in Party : Pay(p)

Spec == Init /\ [][Next]_escrowVars

-----------------------------------------------------------------------------

\* The ether held is what is owed: posted bonds, stakes against them, and credits.
HeldIsOwed ==
  held = Total([i \in Item |-> escrow[i].bond]) + Total([i \in Item |-> escrow[i].stake]) + Total(credit)
=============================================================================
