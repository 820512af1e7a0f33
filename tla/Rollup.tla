------------------------------- MODULE Rollup ------------------------------
(***************************************************************************)
(* The layer 1 half of the rollup: every external call of the contracts    *)
(* that proposes, challenges or pays for blocks, moves stake or changes    *)
(* who may propose, in any order, by anyone, while the L1 clock runs.      *)
(***************************************************************************)
EXTENDS Shield

CONSTANTS
  Seed,         \* values of keccak256(block.timestamp) in the shuffle
  Value,        \* ether a call may carry
  NewMaxProposers, NewBlockStake,   \* what the owner may set
  Calls,        \* the optional calls that are made in this instance
  MaxTime, MaxBlocks, MaxEther, MaxCommits   \* bounds of the model

ASSUME InputAssumption == /\ Seed \subseteq Nat
                          /\ Value \subseteq Nat
                          /\ NewMaxProposers \subseteq Nat \ {0}
                          /\ NewBlockStake \subseteq Nat \ {0}
                          /\ Calls \subseteq {"pause", "updateProposer", "withdraw"}
ASSUME BoundAssumption == {MaxTime, MaxBlocks, MaxEther, MaxCommits} \subseteq Nat

VARIABLES
  slashed,    \* history: hashes of blocks whose stake went to a challenger
  returned    \* history: hashes of blocks whose stake was returned

history == <<slashed, returned>>
vars == <<now, paused, blockHashes, blockInfo, isCommitmentEscrowed,
          pendingWithdrawalsFees, stakeAccounts, ethBalance, proposers,
          currentProposer, proposerStartBlock, numProposers, proposersSet,
          currentSprint, spanProposersList, blockStake, maxProposers, committers,
          slashed, returned>>

Init == /\ StateInit
        /\ slashed = {}
        /\ returned = {}

-----------------------------------------------------------------------------
Tick == /\ now < MaxTime
        /\ now' = now + 1
        /\ UNCHANGED <<chainVars, isCommitmentEscrowed, moneyVars, ringVars,
                       ownerVars, committers, history>>

(* The owner's calls, on whichever contract they are made.                 *)
SetPaused(c) ==
  /\ "pause" \in Calls
  /\ c \in {"State", "Shield"}
  /\ paused' = [paused EXCEPT ![c] = ~@]
  /\ UNCHANGED <<now, chainVars, isCommitmentEscrowed, moneyVars, ringVars,
                 blockStake, maxProposers, committers, history>>

SetMaxProposers(c, n) ==
  /\ c \in {"State", "Proposers"}
  /\ maxProposers' = [maxProposers EXCEPT ![c] = n]
  /\ UNCHANGED <<now, chainVars, isCommitmentEscrowed, moneyVars, ringVars,
                 paused, blockStake, committers, history>>

SetBlockStake(n) ==
  /\ blockStake' = n
  /\ UNCHANGED <<now, chainVars, isCommitmentEscrowed, moneyVars, ringVars,
                 paused, maxProposers, committers, history>>

Owner == \/ \E c \in Contract : SetPaused(c)
         \/ \E c \in Contract, n \in NewMaxProposers : SetMaxProposers(c, n)
         \/ \E n \in NewBlockStake : SetBlockStake(n)

-----------------------------------------------------------------------------
Register(p, value, seed) ==
  ethBalance + value <= MaxEther /\ RegisterProposer(p, value, seed) /\ UNCHANGED history
DeRegister(p, seed) == DeRegisterProposer(p, seed) /\ UNCHANGED history
AddStake(p, value) ==
  /\ "updateProposer" \in Calls
  /\ ethBalance + value <= MaxEther
  /\ UpdateProposer(p, value)
  /\ UNCHANGED history
TakeStake(p) == WithdrawStake(p) /\ UNCHANGED history
Rotate(seed) == RotateProposer(seed) /\ UNCHANGED history

Staking ==
  \E p \in Proposer :
    \/ TakeStake(p)
    \/ \E seed \in Seed : DeRegister(p, seed)
    \/ \E value \in Value : AddStake(p, value)
    \/ \E value \in Value, seed \in Seed : Register(p, value, seed)

Propose(p, transactions, valid, value) ==
  /\ Len(blockHashes) < MaxBlocks
  /\ ethBalance + value <= MaxEther
  /\ ProposeBlock(p, transactions, valid, value)
  /\ UNCHANGED history

(* Challengers commit to challenges of bad blocks only.                    *)
CommitChallenge(c, i, salt) ==
  /\ i \in DOMAIN blockHashes
  /\ ~Preimage(blockHashes[i].blockHash).valid
  /\ Cardinality(DOMAIN committers) < MaxCommits
  /\ CommitToChallenge(c, blockHashes[i].blockHash, salt)
  /\ UNCHANGED history

Challenge(c, i, salt, seed) ==
  /\ ChallengeBlock(c, i, salt, seed)
  /\ slashed' = slashed \cup
                  {blockHashes[k].blockHash : k \in i..Len(blockHashes)}
  /\ UNCHANGED returned

PayBlock(p, i) ==
  /\ RequestBlockPayment(p, i)
  /\ returned' = returned \cup {blockHashes[i].blockHash}
  /\ UNCHANGED slashed

Challenging ==
  \E c \in Challenger, i \in DOMAIN blockHashes, salt \in Salt :
    \/ CommitChallenge(c, i, salt)
    \/ \E seed \in Seed : Challenge(c, i, salt, seed)

Deposit == /\ \E transactions \in Body : \E i \in DOMAIN transactions :
                /\ transactions[i].isEscrowRequired
                /\ SubmitDeposit(transactions[i].commitment)
           /\ UNCHANGED history

Collect(a) == "withdraw" \in Calls /\ Withdraw(a) /\ UNCHANGED history

Next ==
  \/ Tick
  \/ Owner
  \/ Staking
  \/ \E seed \in Seed : Rotate(seed)
  \/ \E p \in Proposer, transactions \in Body, valid \in BOOLEAN, value \in Value :
       Propose(p, transactions, valid, value)
  \/ Challenging
  \/ \E p \in Proposer, i \in DOMAIN blockHashes : PayBlock(p, i)
  \/ Deposit
  \/ \E a \in Address : Collect(a)

Spec == Init /\ [][Next]_vars

-----------------------------------------------------------------------------
(* Vocabulary of the properties.                                           *)

Registered == {p \in Proposer : proposers[p].thisAddress = p}

Hashes(chain) == {chain[i].blockHash : i \in DOMAIN chain}

(* Stake behind the blocks of p on the chain that was not returned yet.    *)
OpenBlocks(p) == {i \in DOMAIN blockHashes :
                    /\ blockHashes[i].proposer = p
                    /\ blockHashes[i].blockHash \notin returned}

OpenStake(p) ==
  SumFunctionOnSet([i \in DOMAIN blockHashes |-> blockHashes[i].blockStake],
                   OpenBlocks(p))

(* Ether of the State contract that nobody has a claim to.                 *)
StakeOf == [p \in Proposer |-> stakeAccounts[p].amount
                                + stakeAccounts[p].challengeLocked]
FeesOf  == [a \in Address |-> pendingWithdrawalsFees[a].feesL1]

Surplus == ethBalance - SumFunctionOnSet(StakeOf, Proposer)
                      - SumFunctionOnSet(FeesOf, Address)

(* A rollback that removes blocks of proposers other than the one slashed. *)
RemovedBlocks == {i \in DOMAIN blockHashes : i > Len(blockHashes')}
MixedRollback ==
  \E i, j \in RemovedBlocks : blockHashes[i].proposer # blockHashes[j].proposer

(* A proposer that takes its stake out while blocks of it are unpaid.      *)
AbandonsBlocks == \E p \in Proposer : OpenStake(p) > 0 /\ WithdrawStake(p)

-----------------------------------------------------------------------------
(***************************************************************************)
(* Types of the variables, those of the queue of blocks first.             *)
(***************************************************************************)
BlockData == [blockHash : DOMAIN blockInfo, time : Nat,
              proposer : Proposer, blockStake : Nat \ {0}]

ChainTypeOK == /\ now \in Nat
               /\ blockStake \in Nat \ {0}
               /\ blockHashes \in Seq(BlockData)

TypeOK ==
  /\ ChainTypeOK
  /\ paused \in [Contract -> BOOLEAN]
  /\ \A h \in DOMAIN blockInfo : blockInfo[h] \in [feesL2 : Nat, stakeClaimed : BOOLEAN]
  /\ isCommitmentEscrowed \subseteq Nat
  /\ pendingWithdrawalsFees \in [Address -> [feesL1 : Nat, feesL2 : Nat]]
  /\ stakeAccounts \in [Proposer \cup {NoAddress} ->
                          [amount : Nat, challengeLocked : Nat, time : Nat]]
  /\ ethBalance \in Nat
  /\ proposers \in [Proposer \cup {NoAddress} ->
       [thisAddress     : Proposer \cup {NoAddress},
        previousAddress : Proposer \cup {NoAddress},
        nextAddress     : Proposer \cup {NoAddress},
        inProposerSet : BOOLEAN, indexProposerSet : Nat]]
  /\ \A a \in DOMAIN proposers : proposers[a].thisAddress \in {a, NoAddress}
  /\ proposerStartBlock \in Nat
  /\ numProposers \in Nat
  /\ currentSprint \in Nat
  /\ \A i \in DOMAIN spanProposersList : spanProposersList[i] \in Proposer
  /\ maxProposers \in [Contract -> Nat \ {0}]
  /\ \A k \in DOMAIN committers : committers[k] \in Challenger

(***************************************************************************)
(* The queue of blocks is a hash chain in the order of time: each block    *)
(* carries its own index and the hash of the block before it, and no block *)
(* is younger than its successor (State.proposeBlock, removeBlockHashes).  *)
(***************************************************************************)
ChainWellFormed ==
  \A i \in DOMAIN blockHashes :
    /\ Preimage(blockHashes[i].blockHash).blockNumberL2 = i - 1
    /\ Preimage(blockHashes[i].blockHash).previousBlockHash =
         IF i = 1 THEN <<>> ELSE blockHashes[i - 1].blockHash
    /\ blockHashes[i].time <= now
    /\ \A j \in DOMAIN blockHashes : i <= j => blockHashes[i].time <= blockHashes[j].time

(***************************************************************************)
(* The stake behind a block either goes to a challenger or back to the     *)
(* proposer, never both, whatever is rolled back, proposed again and asked *)
(* to be paid (setBlockStakeWithdrawn, called from both paths).            *)
(***************************************************************************)
SlashedXorReturned == slashed \cap returned = {}

(***************************************************************************)
(* What makes SlashedXorReturned inductive: a block whose stake was        *)
(* returned is still at its place and final, and blockInfo remembers every *)
(* stake that was given away, so that proposing the block again does not   *)
(* bring it back.                                                          *)
(***************************************************************************)
ReturnedStay ==
  \A h \in returned :
    \E i \in DOMAIN blockHashes : /\ blockHashes[i].blockHash = h
                                 /\ IsFinal(blockHashes[i])

ClaimsRemembered == \A h \in slashed \cup returned : IsClaimed(h)

StakeInv == /\ ChainWellFormed
            /\ ReturnedStay
            /\ ClaimsRemembered
            /\ SlashedXorReturned

(***************************************************************************)
(* Whoever is current is registered, and the copy of its LinkedAddress in  *)
(* currentProposer has the links of the list, which the next registration  *)
(* and removal read from it.                                               *)
(***************************************************************************)
CurrentCopyFresh ==
  LET current == currentProposer.thisAddress
  IN current # NoAddress =>
       /\ proposers[current].thisAddress     = current
       /\ proposers[current].nextAddress     = currentProposer.nextAddress
       /\ proposers[current].previousAddress = currentProposer.previousAddress

(***************************************************************************)
(* The proposers form doubly linked circular lists: following nextAddress  *)
(* and coming back along previousAddress, or the other way, a registered   *)
(* proposer meets registered proposers only and returns to itself.         *)
(***************************************************************************)
RingLinked ==
  \A p \in Registered :
    /\ proposers[p].nextAddress \in Registered
    /\ proposers[p].previousAddress \in Registered
    /\ proposers[proposers[p].nextAddress].previousAddress = p
    /\ proposers[proposers[p].previousAddress].nextAddress = p

(***************************************************************************)
(* A block older than the challenge period stays in the queue, at its      *)
(* place, for ever: no rollback reaches it, not even one that cuts away    *)
(* its successors (challengeAccepted, removeBlockHashes).                  *)
(***************************************************************************)
FinalsKept ==
  \A i \in DOMAIN blockHashes : IsFinal(blockHashes[i]) =>
    /\ i \in DOMAIN blockHashes'
    /\ blockHashes'[i] = blockHashes[i]

FinalNeverRolledBack == [][FinalsKept]_vars

(***************************************************************************)
(* The contracts keep what BlockQueue promises: the queue of hashes, the   *)
(* blocks that can be paid for, and who got the stakes.                    *)
(***************************************************************************)
QueueOfHashes == [i \in DOMAIN blockHashes |-> blockHashes[i].blockHash]
FinalBlocks   == {i \in DOMAIN blockHashes : IsFinal(blockHashes[i])}

Queue == INSTANCE BlockQueue WITH queue <- QueueOfHashes, final <- FinalBlocks

ImplementsBlockQueue == Queue!Spec

(***************************************************************************)
(* challengeLocked of a proposer is the stake behind its blocks on the     *)
(* chain not paid yet.  Every call keeps this but two: a rollback that     *)
(* hits several proposers (rewardChallenger, State.sol:490) and            *)
(* withdrawStake with blocks unpaid.                                       *)
(***************************************************************************)
LocksMatchBlocks ==
  \A p \in Proposer : stakeAccounts[p].challengeLocked = OpenStake(p)

LocksKept ==
  [][~MixedRollback /\ ~AbandonsBlocks /\ LocksMatchBlocks => LocksMatchBlocks']_vars

(***************************************************************************)
(* Every wei State holds is somebody's stake or pending withdrawal, and    *)
(* stays covered: a call moves ether between the accounts but creates no   *)
(* claim and loses none, save a rollback that hits several proposers.      *)
(***************************************************************************)
ClaimsConserved == [][~MixedRollback => Surplus' = Surplus]_vars
=============================================================================
