----------------------------- MODULE MCOptimist -----------------------------
(* Instances of Optimist: transactions that do not clash; t1 is a deposit, *)
(* which refers to no root, the others may refer to any block's.           *)
EXTENDS Optimist

CONSTANTS t1, t2

MCFee == [t \in Tx |-> IF t = t1 THEN 2 ELSE 1]
MCCommitments == [t \in Tx |-> {<<"c", t>>}]
MCDeposits == [t \in Tx |-> {}]
MCTransfers == [t \in Tx |-> IF t = t1 THEN {} ELSE {<<"n", t>>}]
=============================================================================
