----------------------------- MODULE MCRestart ------------------------------
(* Instances of OptimistRestart: deposits, which refer to no root.         *)
EXTENDS OptimistRestart

CONSTANTS t1, t2

MCFee == [t \in Tx |-> IF t = t1 THEN 2 ELSE 1]
MCCommitments == [t \in Tx |-> {<<"c", t>>}]
MCDeposits == [t \in Tx |-> {}]
=============================================================================
