----------------------------- MODULE Proposers -----------------------------
(***************************************************************************)
(* Proposers.sol: registering behind a stake, leaving, taking the stake    *)
(* out and adding to it.  Senders are taken to be certified (Certified.sol *)
(* is a component of its own); url and fee of a proposer are not state     *)
(* that any decision of the contracts reads, and are left out.             *)
(***************************************************************************)
EXTENDS State

(***************************************************************************)
(* registerProposer.  The first proposer is linked to itself; a later one  *)
(* is spliced in just behind the current proposer.                         *)
(***************************************************************************)
LinkFirst(f, p) ==
  [f EXCEPT
     !.proposers[p] = [EmptyAddress EXCEPT !.thisAddress     = p,
                                           !.previousAddress = p,
                                           !.nextAddress     = p],
     !.proposerStartBlock = now]

SpliceBehindCurrent(f, p) ==
  LET current  == f.currentProposer.thisAddress
      previous == f.currentProposer.previousAddress
      second   == f.proposers[previous].thisAddress = f.proposers[current].thisAddress
      newcomer == [EmptyAddress EXCEPT !.thisAddress     = p,
                                       !.nextAddress     = current,
                                       !.previousAddress = previous]
      storedPrevious == [f.proposers[previous] EXCEPT !.nextAddress = p]
      storedCurrent  ==
        [f.proposers[current] EXCEPT !.previousAddress = p,
                                     !.nextAddress = IF second THEN p ELSE @]
      linked == IF second THEN f.proposers
                ELSE [f.proposers EXCEPT ![storedPrevious.thisAddress] = storedPrevious]
  IN [f EXCEPT !.proposers =
        [linked EXCEPT ![storedCurrent.thisAddress] = storedCurrent,
                       ![p] = newcomer]]

RegisterProposer(p, value, seed) ==
  LET stake   == stakeAccounts[p].amount + value
      funded  == SetStakeAccount(Frame, p, stake, stakeAccounts[p].challengeLocked)
      first   == currentProposer.thisAddress = NoAddress
      linked  == IF first THEN LinkFirst(funded, p) ELSE SpliceBehindCurrent(funded, p)
      current == IF first THEN p ELSE currentProposer.thisAddress
  IN /\ numProposers < maxProposers["Proposers"]
     /\ stake >= MinimumStake
     /\ proposers[p].thisAddress = NoAddress
     /\ Commit(SetNumProposers(
                 [linked EXCEPT !.currentProposer = linked.proposers[current]],
                 numProposers + 1, seed))
     /\ ethBalance' = ethBalance + value
     /\ UNCHANGED <<now, chainVars, isCommitmentEscrowed, pendingWithdrawalsFees,
                    ownerVars, committers>>

DeRegisterProposer(p, seed) ==
  LET f == RemoveProposer(Frame, p, seed)
  IN /\ proposers[p].thisAddress # NoAddress
     /\ Commit([f EXCEPT !.stakeAccounts[p].time = now])
     /\ UNCHANGED <<now, chainVars, isCommitmentEscrowed, pendingWithdrawalsFees,
                    ethBalance, ownerVars, committers>>

(* withdrawStake pays out what is locked behind blocks as well.            *)
WithdrawStake(p) ==
  LET stake == stakeAccounts[p]
  IN /\ stake.time + CHALLENGE_PERIOD < now
     /\ proposers[p].thisAddress = NoAddress
     /\ stakeAccounts' = [stakeAccounts EXCEPT ![p] = EmptyStake]
     /\ pendingWithdrawalsFees' =
          AddPendingWithdrawal(pendingWithdrawalsFees, p,
                               stake.amount + stake.challengeLocked, 0)
     /\ UNCHANGED <<now, chainVars, isCommitmentEscrowed, ethBalance, ringVars,
                    ownerVars, committers>>

UpdateProposer(p, value) ==
  /\ value > 0
  /\ proposers[p].thisAddress # NoAddress
  /\ stakeAccounts' = [stakeAccounts EXCEPT ![p] =
       [amount          |-> stakeAccounts[p].amount + value,
        challengeLocked |-> stakeAccounts[p].challengeLocked,
        time            |-> 0]]
  /\ ethBalance' = ethBalance + value
  /\ UNCHANGED <<now, chainVars, isCommitmentEscrowed, pendingWithdrawalsFees,
                 ringVars, ownerVars, committers>>

(* Anyone may call changeCurrentProposer once the sprint is over.          *)
RotateProposer(seed) ==
  /\ Commit(ChangeCurrentProposer(Frame, seed))
  /\ UNCHANGED <<now, chainVars, isCommitmentEscrowed, pendingWithdrawalsFees,
                 ethBalance, ownerVars, committers>>
=============================================================================
