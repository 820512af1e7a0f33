------------------------------ MODULE MCRollup -----------------------------
(* Small instances of Rollup for TLC: the inputs too structured for a cfg. *)
EXTENDS Rollup

Transfer == [commitment |-> 7, isEscrowRequired |-> FALSE, fee |-> 1]
Paid     == [commitment |-> 8, isEscrowRequired |-> TRUE,  fee |-> 0]
Free     == [commitment |-> 0, isEscrowRequired |-> TRUE,  fee |-> 0]

(* One block content; two, of which one needs an escrowed deposit.         *)
OneBody   == {<<Transfer>>}
TwoBodies == {<<Transfer>>, <<Free, Paid>>}

Unpaid    == {<<[Transfer EXCEPT !.fee = 0]>>}

(* Sound where BootProposer is not one of them.                            *)
Symmetry == Permutations(Proposer) \cup Permutations(Challenger)
=============================================================================
