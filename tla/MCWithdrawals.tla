---------------------------- MODULE MCWithdrawals ---------------------------
(* Small instances of Withdrawals for TLC.                                 *)
EXTENDS Withdrawals

CONSTANTS alice, bob, coin

n1 == [id |-> 1, token |-> coin, value |-> 2]
n2 == [id |-> 2, token |-> coin, value |-> 1]

Deposit(n, value) ==
  [circuit |-> "deposit", token |-> n.token, value |-> value, fee |-> 0, recipient |-> alice,
   nullifiers |-> {}, commitments |-> {n}, escrow |-> n]
Pass(n, m, fee) ==
  [circuit |-> "transfer", token |-> n.token, value |-> 0, fee |-> fee, recipient |-> alice,
   nullifiers |-> {n}, commitments |-> {m}, escrow |-> ZERO]
Redeem(n, u) ==
  [circuit |-> "withdraw", token |-> n.token, value |-> n.value, fee |-> 0, recipient |-> u,
   nullifiers |-> {n}, commitments |-> {}, escrow |-> ZERO]

(* A coin that is deposited, changes hands for a fee and is withdrawn, or  *)
(* is withdrawn and changes hands in one bad block; and a deposit that     *)
(* says less than its commitment is worth, which marks it all the same.    *)
right == Deposit(n1, 2)
short == Deposit(n1, 1)
Notes        == {n1, n2}
Transactions == {right, short, Pass(n1, n2, 1), Redeem(n2, bob), Redeem(n1, alice)}
Bodies       == {<<right>>, <<short>>, <<Pass(n1, n2, 1)>>, <<Redeem(n2, bob)>>,
                 <<Pass(n1, n2, 1), Redeem(n1, alice)>>}

Unlimited == {-1}
=============================================================================
