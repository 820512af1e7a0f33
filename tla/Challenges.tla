----------------------------- MODULE Challenges ----------------------------
(***************************************************************************)
(* The queue of layer 2 blocks: State.proposeBlock appends to it, and a    *)
(* challenge that Challenges.sol accepts cuts it back to before the bad    *)
(* block, expels the bad block's proposer and rewards the challenger.      *)
(*                                                                         *)
(* `valid' stands for everything a challenge function can refute: leaf     *)
(* count, frontier, root, duplicate commitments and nullifiers, historic   *)
(* roots and proofs.  The challenge functions differ in that check only;   *)
(* all start with checkCommit and isBlockReal and end in                   *)
(* challengeAccepted.                                                      *)
(***************************************************************************)
EXTENDS Proposers

CONSTANTS
  Body,   \* lists of transactions a block may carry
  Salt    \* salts of challenge commitments

(***************************************************************************)
(* A transaction: [commitment |-> its first commitment (0 if none),        *)
(* isEscrowRequired |-> whether its circuit escrows, fee |-> its fee].     *)
(***************************************************************************)
ASSUME BodyAssumption ==
  Body \subseteq Seq([commitment : Nat, isEscrowRequired : BOOLEAN, fee : Nat])

(* keccak256 without collisions: only equality of hashes is ever used.     *)
HashBlock(b) == <<"keccak256", b>>
Preimage(hash) == hash[2]   \* the block a caller passes along with its hash

FirstBlockHash ==
  IF blockHashes = <<>> THEN <<>> ELSE blockHashes[1].blockHash

LastBlockHash ==
  IF blockHashes = <<>> THEN <<>> ELSE blockHashes[Len(blockHashes)].blockHash

NextBlock(p, transactions, valid) ==
  [blockNumberL2     |-> Len(blockHashes),
   previousBlockHash |-> LastBlockHash,
   proposer          |-> p,
   transactions      |-> transactions,
   valid             |-> valid]

IsEscrowed(tx) ==
  tx.isEscrowRequired /\ tx.commitment # 0 => tx.commitment \in isCommitmentEscrowed

FeesL2(transactions) == FoldLeft(LAMBDA fees, tx : fees + tx.fee, 0, transactions)

(* Sets blockInfo[hash], whether or not the hash is known already.         *)
SetBlockInfo(hash, info) ==
  [h \in DOMAIN blockInfo \cup {hash} |-> IF h = hash THEN info ELSE blockInfo[h]]

IsClaimed(hash) == hash \in DOMAIN blockInfo /\ blockInfo[hash].stakeClaimed

NoStakeCheck(p, value) == TRUE
HasBlockStake(p, value) == stakeAccounts[p].amount + value >= blockStake

ProposeBlock(p, transactions, valid, value) ==
  LET hash  == HashBlock(NextBlock(p, transactions, valid))
      stake == stakeAccounts[p]
  IN /\ p = currentProposer.thisAddress
     /\ ~paused["State"]
     /\ transactions # <<>>
     /\ HasBlockStake(p, value)
     /\ \A i \in DOMAIN transactions : IsEscrowed(transactions[i])
     /\ stakeAccounts' = [stakeAccounts EXCEPT ![p] =
          [amount          |-> stake.amount + value - blockStake,
           challengeLocked |-> stake.challengeLocked + blockStake,
           time            |-> 0]]
     /\ blockInfo' = SetBlockInfo(hash, [feesL2       |-> FeesL2(transactions),
                                         stakeClaimed |-> IsClaimed(hash)])
     /\ blockHashes' = Append(blockHashes, [blockHash  |-> hash,
                                            time       |-> now,
                                            proposer   |-> p,
                                            blockStake |-> blockStake])
     /\ ethBalance' = ethBalance + value
     /\ UNCHANGED <<now, isCommitmentEscrowed, pendingWithdrawalsFees, ringVars,
                    ownerVars, committers>>

-----------------------------------------------------------------------------
(* Commit to a challenge, then reveal it.  The commitment is the hash of   *)
(* the challenge's call data: the block in question and a salt.            *)

CommitToChallenge(c, hash, salt) ==
  /\ <<hash, salt>> \notin DOMAIN committers
  /\ committers' = [k \in DOMAIN committers \cup {<<hash, salt>>} |->
                      IF k = <<hash, salt>> THEN c ELSE committers[k]]
  /\ UNCHANGED <<now, chainVars, isCommitmentEscrowed, moneyVars, ringVars, ownerVars>>

CheckCommit(c, hash, salt) ==
  /\ <<hash, salt>> \in DOMAIN committers
  /\ committers[<<hash, salt>>] = c
  /\ committers' = Restrict(committers, DOMAIN committers \ {<<hash, salt>>})

(* Config.CHALLENGE_PERIOD is `1 weeks', challengeAccepted says `7 days'.  *)
IsChallengeableLonger(block) == block.time + 1 >= now - CHALLENGE_PERIOD
IsChallengeable(block) == block.time >= now - CHALLENGE_PERIOD

(***************************************************************************)
(* rewardChallenger, after the proposer is removed: for each bad block,    *)
(* last block first, the account of THAT block's proposer, less the        *)
(* block's stake, is written to the account of the challenged proposer.    *)
(***************************************************************************)
TakeOneBlockStake(f, proposer, badBlocks) ==
  LET stake == f.stakeAccounts[proposer]
  IN SetStakeAccount(f, proposer, stake.amount,
                     stake.challengeLocked - badBlocks[1].blockStake)

TakeBlockStakes(f, proposer, badBlocks) ==
  FoldLeft(LAMBDA g, bad :
      LET stake == g.stakeAccounts[bad.proposer]
      IN SetStakeAccount(
           Require(g, stake.challengeLocked >= bad.blockStake),
           proposer, stake.amount, stake.challengeLocked - bad.blockStake),
    f, Reverse(badBlocks))

RewardAtCurrentStake(badBlocks) == Len(badBlocks) * blockStake
Reward(badBlocks) == FoldLeft(LAMBDA r, bad : r + bad.blockStake, 0, badBlocks)

(* setBlockStakeWithdrawn for every block removed.                         *)
StakesNotMarked(hashes) == blockInfo
StakesWithdrawn(hashes) ==
  [h \in DOMAIN blockInfo |->
     [feesL2       |-> blockInfo[h].feesL2,
      stakeClaimed |-> h \in hashes \/ blockInfo[h].stakeClaimed]]

(* rewardChallenger, for the rollback of the blocks from index i on.       *)
RewardChallenger(i, seed) ==
  TakeBlockStakes(RemoveProposer(Frame, blockHashes[i].proposer, seed),
                  blockHashes[i].proposer,
                  SubSeq(blockHashes, i, Len(blockHashes)))

(* A challenge to the block with index i that the contract accepts.        *)
ChallengeBlock(c, i, salt, seed) ==
  LET bad       == blockHashes[i]
      badBlocks == SubSeq(blockHashes, i, Len(blockHashes))
      removed   == {badBlocks[k].blockHash : k \in DOMAIN badBlocks}
  IN /\ i \in DOMAIN blockHashes
     /\ ~Preimage(bad.blockHash).valid
     /\ CheckCommit(c, bad.blockHash, salt)
     /\ IsChallengeable(bad)
     /\ blockHashes' = SubSeq(blockHashes, 1, i - 1)
     /\ blockInfo' = StakesWithdrawn(removed)
     /\ Commit(RewardChallenger(i, seed))
     /\ pendingWithdrawalsFees' =
          AddPendingWithdrawal(pendingWithdrawalsFees, c, Reward(badBlocks), 0)
     /\ UNCHANGED <<now, isCommitmentEscrowed, ethBalance, ownerVars>>
=============================================================================
