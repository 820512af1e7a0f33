------------------------------- MODULE Shield ------------------------------
(***************************************************************************)
(* What Shield.sol does to the storage of State: escrowing the commitment  *)
(* of a deposit, paying a proposer for a block once it is final, and       *)
(* State.withdraw.  The tokens Shield holds are in module Withdrawals.     *)
(***************************************************************************)
EXTENDS Challenges

(* submitTransaction of a deposit that is not escrowed yet.                *)
SubmitDeposit(commitment) ==
  /\ ~paused["Shield"]
  /\ commitment \notin isCommitmentEscrowed
  /\ isCommitmentEscrowed' = isCommitmentEscrowed \cup {commitment}
  /\ UNCHANGED <<now, chainVars, moneyVars, ringVars, ownerVars, committers>>

(* A block may be paid for when it cannot be challenged any more.          *)
FinalTooEarly(block) == block.time + CHALLENGE_PERIOD <= now
IsFinal(block) == block.time + CHALLENGE_PERIOD < now

RequestBlockPayment(p, i) ==
  LET block == blockHashes[i]
      info  == blockInfo[block.blockHash]
      stake == stakeAccounts[p]
  IN /\ i \in DOMAIN blockHashes
     /\ IsFinal(block)
     /\ block.proposer = p
     /\ ~info.stakeClaimed
     /\ stake.challengeLocked >= block.blockStake      \* checked subtraction
     /\ blockInfo' = [blockInfo EXCEPT ![block.blockHash] =
                        [feesL2 |-> 0, stakeClaimed |-> TRUE]]
     /\ stakeAccounts' = [stakeAccounts EXCEPT ![p] =
          [amount          |-> stake.amount + block.blockStake,
           challengeLocked |-> stake.challengeLocked - block.blockStake,
           time            |-> 0]]
     /\ pendingWithdrawalsFees' =
          AddPendingWithdrawal(pendingWithdrawalsFees, p, 0, info.feesL2)
     /\ UNCHANGED <<now, blockHashes, isCommitmentEscrowed, ethBalance, ringVars,
                    ownerVars, committers>>

(* withdraw pays both kinds of fees; with nothing pending it does nothing. *)
Withdraw(a) ==
  /\ ~paused["State"]
  /\ pendingWithdrawalsFees[a] # EmptyFees
  /\ pendingWithdrawalsFees[a].feesL1 <= ethBalance   \* else `Transfer failed.'
  /\ ethBalance' = ethBalance - pendingWithdrawalsFees[a].feesL1
  /\ pendingWithdrawalsFees' = [pendingWithdrawalsFees EXCEPT ![a] = EmptyFees]
  /\ UNCHANGED <<now, chainVars, isCommitmentEscrowed, stakeAccounts, ringVars,
                 ownerVars, committers>>
=============================================================================
