---------------------------- MODULE RollupProof ----------------------------
(***************************************************************************)
(* Proofs about Rollup for every set of proposers and challengers, every   *)
(* period and every bound: the stake of a block goes to a challenger or    *)
(* back to its proposer but not both, and a final block stays for ever.    *)
(***************************************************************************)
EXTENDS Rollup, SequenceTheorems, TLAPS

IInv == ChainTypeOK /\ StakeInv

-----------------------------------------------------------------------------
(* What the types say of the queue.                                        *)
LEMMA QueueTypes ==
  ASSUME ChainTypeOK
  PROVE  /\ Len(blockHashes) \in Nat
         /\ DOMAIN blockHashes = 1..Len(blockHashes)
         /\ \A i \in DOMAIN blockHashes :
              /\ blockHashes[i] \in BlockData
              /\ blockHashes[i].time \in Nat
              /\ blockHashes[i].blockHash \in DOMAIN blockInfo
<1>1. Len(blockHashes) \in Nat /\ DOMAIN blockHashes = 1..Len(blockHashes)
  BY DEF ChainTypeOK
<1>2. \A i \in DOMAIN blockHashes : blockHashes[i] \in BlockData
  BY DEF ChainTypeOK
<1>3. \A b \in BlockData : b.time \in Nat /\ b.blockHash \in DOMAIN blockInfo
  BY DEF BlockData
<1> QED
  BY <1>1, <1>2, <1>3

(* The hash a caller passes along stands for one block only.               *)
LEMMA PreimageOfHash == ASSUME NEW b PROVE Preimage(HashBlock(b)) = b
  BY DEF Preimage, HashBlock

(* A block's index is part of its hash, so no hash is in the queue twice.  *)
LEMMA HashesAtOnePlace ==
  ASSUME ChainTypeOK, ChainWellFormed,
         NEW i \in DOMAIN blockHashes, NEW j \in DOMAIN blockHashes,
         blockHashes[i].blockHash = blockHashes[j].blockHash
  PROVE  i = j
  BY DEF ChainTypeOK, ChainWellFormed

(* Blocks age in order: what follows a challengeable block is challengeable. *)
LEMMA FinalBeforeChallengeable ==
  ASSUME ChainTypeOK, ChainWellFormed,
         NEW i \in DOMAIN blockHashes, NEW j \in DOMAIN blockHashes,
         IsFinal(blockHashes[i]), IsChallengeable(blockHashes[j])
  PROVE  i < j
<1> SUFFICES ASSUME j <= i PROVE FALSE
  BY QueueTypes
<1>1. blockHashes[j].time <= blockHashes[i].time
  BY DEF ChainWellFormed
<1>2. /\ blockHashes[i].time \in Nat
      /\ blockHashes[j].time \in Nat
      /\ now \in Nat
  BY QueueTypes DEF ChainTypeOK
<1> QED
  BY <1>1, <1>2, PeriodAssumption DEF IsFinal, IsChallengeable

(* Whatever is final now is final later.                                   *)
LEMMA FinalStays ==
  ASSUME ChainTypeOK, now' \in Nat, now' >= now,
         NEW i \in DOMAIN blockHashes, IsFinal(blockHashes[i]),
         blockHashes'[i] = blockHashes[i]
  PROVE  IsFinal(blockHashes[i])'
  BY PeriodAssumption, QueueTypes DEF ChainTypeOK, IsFinal

-----------------------------------------------------------------------------
(* Initially the queue is empty and no stake went anywhere.                *)
LEMMA InitIInv == Init => IInv
  BY PeriodAssumption, StakeAssumption
     DEF Init, StateInit, StartTime, IInv, ChainTypeOK, StakeInv, ChainWellFormed,
         ReturnedStay, ClaimsRemembered, SlashedXorReturned, BlockData

(* A step that leaves the queue of blocks alone.                           *)
QueueAlone == /\ UNCHANGED <<chainVars, slashed, returned>>
              /\ now' \in Nat /\ now' >= now
              /\ blockStake' \in Nat \ {0}

LEMMA QueueAloneIInv == IInv /\ QueueAlone => IInv'
<1> SUFFICES ASSUME IInv, QueueAlone PROVE IInv'
  OBVIOUS
<1> USE DEF IInv, QueueAlone, StakeInv, chainVars
<1>1. ChainTypeOK'
  BY DEF ChainTypeOK, BlockData
<1>2. ChainWellFormed'
  <2> SUFFICES ASSUME NEW i \in DOMAIN blockHashes
               PROVE  blockHashes[i].time <= now'
    BY DEF ChainWellFormed, Preimage
  <2> QED
    BY QueueTypes DEF ChainWellFormed, ChainTypeOK
<1>3. ReturnedStay'
  BY FinalStays DEF ReturnedStay
<1>4. ClaimsRemembered' /\ SlashedXorReturned'
  BY DEF ClaimsRemembered, SlashedXorReturned, IsClaimed
<1> QED
  BY <1>1, <1>2, <1>3, <1>4

-----------------------------------------------------------------------------
(* Proposing a block appends it, and forgets no claim.                     *)
LEMMA ProposeIInv ==
  ASSUME IInv, NEW p \in Proposer, NEW transactions, NEW valid, NEW value,
         Propose(p, transactions, valid, value)
  PROVE  IInv'
<1> DEFINE n     == Len(blockHashes)
           hash  == HashBlock(NextBlock(p, transactions, valid))
           block == [blockHash |-> hash, time |-> now,
                     proposer |-> p, blockStake |-> blockStake]
<1> USE DEF IInv, StakeInv
<1>1. /\ blockHashes' = Append(blockHashes, block)
      /\ blockInfo' = SetBlockInfo(hash, [feesL2 |-> FeesL2(transactions),
                                          stakeClaimed |-> IsClaimed(hash)])
      /\ UNCHANGED <<now, blockStake, slashed, returned>>
  BY DEF Propose, ProposeBlock, ownerVars, history
<1>2. /\ DOMAIN blockInfo' = DOMAIN blockInfo \cup {hash}
      /\ \A h : IsClaimed(h) => IsClaimed(h)'
  BY <1>1 DEF SetBlockInfo, IsClaimed
<1>3. BlockData \subseteq BlockData' /\ block \in BlockData'
  BY <1>1, <1>2 DEF BlockData, ChainTypeOK
<1>4. blockHashes \in Seq(BlockData')
  BY <1>3 DEF ChainTypeOK
<1> HIDE DEF block
<1>5. /\ blockHashes' \in Seq(BlockData')
      /\ n \in Nat /\ DOMAIN blockHashes = 1..n
      /\ DOMAIN blockHashes' = 1..n + 1
      /\ \A i \in 1..n : blockHashes'[i] = blockHashes[i]
      /\ blockHashes'[n + 1] = block
  <2>1. /\ Append(blockHashes, block) \in Seq(BlockData')
        /\ Len(Append(blockHashes, block)) = n + 1
        /\ \A i \in 1..n : Append(blockHashes, block)[i] = blockHashes[i]
        /\ Append(blockHashes, block)[n + 1] = block
    BY <1>3, <1>4, AppendProperties
  <2> QED
    BY <1>1, <1>4, <2>1
<1>6. ChainTypeOK'
  BY <1>1, <1>5 DEF ChainTypeOK
<1>7. ChainWellFormed'
  <2> SUFFICES ASSUME NEW i \in 1..n + 1
      PROVE  /\ Preimage(blockHashes'[i].blockHash).blockNumberL2 = i - 1
             /\ Preimage(blockHashes'[i].blockHash).previousBlockHash =
                  IF i = 1 THEN <<>> ELSE blockHashes'[i - 1].blockHash
             /\ blockHashes'[i].time <= now'
             /\ \A j \in 1..n + 1 :
                  i <= j => blockHashes'[i].time <= blockHashes'[j].time
    BY <1>5 DEF ChainWellFormed, Preimage
  <2>1. /\ now \in Nat
        /\ \A j \in 1..n : blockHashes[j].time \in Nat /\ blockHashes[j].time <= now
    BY <1>5, QueueTypes DEF ChainWellFormed, ChainTypeOK
  <2>2. block.time = now /\ block.blockHash = hash
    BY DEF block
  <2>3. CASE i \in 1..n
    <3>1. \A j \in 1..n + 1 : i <= j => blockHashes'[i].time <= blockHashes'[j].time
      BY <1>5, <2>1, <2>2, <2>3 DEF ChainWellFormed
    <3>2. i # 1 => i - 1 \in 1..n
      BY <1>5, <2>3
    <3> QED
      BY <1>1, <1>5, <2>1, <2>3, <3>1, <3>2 DEF ChainWellFormed
  <2>4. CASE i = n + 1
    <3>1. /\ Preimage(hash).blockNumberL2 = n
          /\ Preimage(hash).previousBlockHash =
               IF blockHashes = <<>> THEN <<>> ELSE blockHashes[n].blockHash
      BY PreimageOfHash DEF NextBlock, LastBlockHash
    <3>2. blockHashes = <<>> <=> n = 0
      BY <1>4, EmptySeq
    <3>3. n # 0 => blockHashes'[n] = blockHashes[n]
      BY <1>5
    <3>4. /\ i - 1 = n
          /\ blockHashes'[i].blockHash = hash
          /\ blockHashes'[i].time = now
      BY <1>5, <2>2, <2>4
    <3>5. IF i = 1 THEN n = 0 ELSE n # 0 /\ blockHashes'[i - 1] = blockHashes[n]
      BY <1>5, <2>4, <3>3, <3>4
    <3>6. \A j \in 1..n + 1 : i <= j => j = i
      BY <1>5, <2>4
    <3> HIDE DEF hash
    <3> QED
      BY <1>1, <2>1, <3>1, <3>2, <3>4, <3>5, <3>6
  <2> QED
    BY <1>5, <2>3, <2>4
<1>8. ReturnedStay'
  BY <1>1, <1>5, FinalStays DEF ReturnedStay, ChainTypeOK
<1>9. ClaimsRemembered' /\ SlashedXorReturned'
  BY <1>1, <1>2 DEF ClaimsRemembered, SlashedXorReturned
<1> QED
  BY <1>6, <1>7, <1>8, <1>9

(* A challenge cuts the queue before the bad block and claims what it cut. *)
LEMMA ChallengeEffect ==
  ASSUME IInv, NEW c, NEW i \in DOMAIN blockHashes, NEW salt, NEW seed,
         ChallengeBlock(c, i, salt, seed)
  PROVE  /\ blockHashes' \in Seq(BlockData)
         /\ DOMAIN blockHashes' = 1..i - 1
         /\ \A j \in 1..i - 1 : blockHashes'[j] = blockHashes[j]
         /\ blockInfo' = StakesWithdrawn({blockHashes[k].blockHash :
                                             k \in i..Len(blockHashes)})
         /\ IsChallengeable(blockHashes[i])
         /\ UNCHANGED <<now, blockStake>>
<1> DEFINE n   == Len(blockHashes)
           bad == SubSeq(blockHashes, i, n)
<1>1. n \in Nat /\ i \in 1..n /\ i \in Int /\ blockHashes \in Seq(BlockData)
  BY QueueTypes DEF IInv, ChainTypeOK
<1>2. /\ SubSeq(blockHashes, 1, i - 1) \in Seq(BlockData)
      /\ DOMAIN SubSeq(blockHashes, 1, i - 1) = 1..i - 1
      /\ \A j \in 1..i - 1 : SubSeq(blockHashes, 1, i - 1)[j] = blockHashes[j]
  <2>1. \A j \in 1..i - 1 : blockHashes[j] \in BlockData
    BY <1>1, QueueTypes DEF IInv
  <2> QED
    BY <1>1, <2>1, SubSeqProperties
<1>3. {bad[k].blockHash : k \in DOMAIN bad} = {blockHashes[k].blockHash : k \in i..n}
  <2>1. \A j \in i..n : blockHashes[j] \in BlockData
    BY <1>1, QueueTypes DEF IInv
  <2>2. /\ DOMAIN bad = 1..n - i + 1
        /\ \A k \in 1..n - i + 1 : bad[k] = blockHashes[i + k - 1]
    BY <1>1, <2>1, SubSeqProperties
  <2>3. \A k \in i..n : k - i + 1 \in 1..n - i + 1 /\ i + (k - i + 1) - 1 = k
    BY <1>1
  <2>4. \A k \in 1..n - i + 1 : i + k - 1 \in i..n
    BY <1>1
  <2> HIDE DEF bad, n
  <2>5. \A k \in DOMAIN bad : \E j \in i..n : bad[k] = blockHashes[j]
    BY <2>2, <2>4
  <2>6. \A k \in i..n : \E j \in DOMAIN bad : bad[j] = blockHashes[k]
    BY <2>2, <2>3
  <2>7. {bad[k].blockHash : k \in DOMAIN bad}
          \subseteq {blockHashes[k].blockHash : k \in i..n}
    BY <2>5
  <2>8. {blockHashes[k].blockHash : k \in i..n}
          \subseteq {bad[k].blockHash : k \in DOMAIN bad}
    BY <2>6
  <2> QED
    BY <2>7, <2>8
<1>4. /\ blockHashes' = SubSeq(blockHashes, 1, i - 1)
      /\ blockInfo' = StakesWithdrawn({bad[k].blockHash : k \in DOMAIN bad})
      /\ IsChallengeable(blockHashes[i])
      /\ UNCHANGED <<now, blockStake>>
  BY DEF ChallengeBlock, ownerVars
<1> QED
  BY <1>1, <1>2, <1>3, <1>4

LEMMA ChallengeIInv ==
  ASSUME IInv, NEW c, NEW i \in DOMAIN blockHashes, NEW salt, NEW seed,
         Challenge(c, i, salt, seed)
  PROVE  IInv'
<1> DEFINE n       == Len(blockHashes)
           removed == {blockHashes[k].blockHash : k \in i..n}
<1> USE DEF IInv, StakeInv
<1>1. /\ blockHashes' \in Seq(BlockData)
      /\ DOMAIN blockHashes' = 1..i - 1
      /\ \A j \in 1..i - 1 : blockHashes'[j] = blockHashes[j]
      /\ blockInfo' = StakesWithdrawn(removed)
      /\ IsChallengeable(blockHashes[i])
      /\ UNCHANGED <<now, blockStake>>
  BY ChallengeEffect DEF Challenge
<1>2. slashed' = slashed \cup removed /\ returned' = returned
  BY DEF Challenge
<1>3. n \in Nat /\ DOMAIN blockHashes = 1..n /\ i \in 1..n
  BY QueueTypes
<1>4. /\ DOMAIN blockInfo' = DOMAIN blockInfo
      /\ \A h : IsClaimed(h) => IsClaimed(h)'
      /\ \A h \in removed : IsClaimed(h)'
  <2>1. \A h \in removed : h \in DOMAIN blockInfo
    BY <1>3, QueueTypes
  <2> QED
    BY <1>1, <2>1 DEF StakesWithdrawn, IsClaimed
<1> HIDE DEF removed
<1>5. ChainTypeOK'
  BY <1>1, <1>4 DEF ChainTypeOK, BlockData
<1>6. ChainWellFormed'
  <2>1. \A j \in 1..i - 1 : j \in DOMAIN blockHashes
    BY <1>3
  <2>2. \A j \in 1..i - 1 : j # 1 => j - 1 \in 1..i - 1
    BY <1>3
  <2> QED
    BY <1>1, <2>1, <2>2 DEF ChainWellFormed, Preimage
<1>7. ASSUME NEW h \in returned
      PROVE  /\ h \notin removed
             /\ \E j \in DOMAIN blockHashes' : /\ blockHashes'[j].blockHash = h
                                               /\ IsFinal(blockHashes[j])'
  <2>1. PICK j \in DOMAIN blockHashes : blockHashes[j].blockHash = h
                                        /\ IsFinal(blockHashes[j])
    BY DEF ReturnedStay
  <2>2. j < i
    BY <1>1, <2>1, FinalBeforeChallengeable
  <2>3. h \notin removed
    BY <1>3, <2>1, <2>2, HashesAtOnePlace DEF removed
  <2>4. j \in 1..i - 1
    BY <1>3, <2>2
  <2> QED
    BY <1>1, <2>1, <2>3, <2>4 DEF IsFinal
<1>8. ReturnedStay'
  BY <1>2, <1>7 DEF ReturnedStay
<1>9. ClaimsRemembered' /\ SlashedXorReturned'
  BY <1>2, <1>4, <1>7 DEF ClaimsRemembered, SlashedXorReturned
<1> QED
  BY <1>5, <1>6, <1>8, <1>9

(* A payment claims the stake of a final block that nobody claimed before. *)
LEMMA PayBlockIInv ==
  ASSUME IInv, NEW p, NEW i \in DOMAIN blockHashes, PayBlock(p, i)
  PROVE  IInv'
<1> DEFINE hash == blockHashes[i].blockHash
<1> USE DEF IInv, StakeInv
<1>1. /\ IsFinal(blockHashes[i])
      /\ ~blockInfo[hash].stakeClaimed
      /\ blockInfo' = [blockInfo EXCEPT ![hash] =
                         [feesL2 |-> 0, stakeClaimed |-> TRUE]]
      /\ UNCHANGED <<now, blockHashes, blockStake, slashed>>
      /\ returned' = returned \cup {hash}
  BY DEF PayBlock, RequestBlockPayment, ownerVars
<1>2. hash \in DOMAIN blockInfo
  BY QueueTypes
<1>3. /\ DOMAIN blockInfo' = DOMAIN blockInfo
      /\ \A h : IsClaimed(h) => IsClaimed(h)'
      /\ IsClaimed(hash)'
  BY <1>1, <1>2 DEF IsClaimed
<1>4. hash \notin slashed
  BY <1>1 DEF ClaimsRemembered, IsClaimed
<1>5. ChainTypeOK'
  BY <1>1, <1>3 DEF ChainTypeOK, BlockData
<1>6. ChainWellFormed'
  BY <1>1 DEF ChainWellFormed, Preimage
<1>7. ReturnedStay'
  BY <1>1 DEF ReturnedStay, IsFinal
<1>8. ClaimsRemembered' /\ SlashedXorReturned'
  BY <1>1, <1>3, <1>4 DEF ClaimsRemembered, SlashedXorReturned
<1> QED
  BY <1>5, <1>6, <1>7, <1>8

-----------------------------------------------------------------------------
(* Every step but those three leaves the queue alone.                      *)
QueueStep ==
  \/ \E p \in Proposer, transactions \in Body, valid \in BOOLEAN, value \in Value :
       Propose(p, transactions, valid, value)
  \/ \E c \in Challenger, i \in DOMAIN blockHashes, salt \in Salt, seed \in Seed :
       Challenge(c, i, salt, seed)
  \/ \E p \in Proposer, i \in DOMAIN blockHashes : PayBlock(p, i)

LEMMA NextCases == ASSUME ChainTypeOK, Next PROVE QueueStep \/ QueueAlone
<1> USE DEF ChainTypeOK, QueueAlone, chainVars, ownerVars, history
<1>1. CASE Tick
  BY <1>1 DEF Tick
<1>2. CASE Owner
  BY <1>2, InputAssumption DEF Owner, SetPaused, SetMaxProposers, SetBlockStake
<1>3. CASE Staking
  <2>1. ASSUME NEW p \in Proposer, TakeStake(p) PROVE QueueAlone
    BY <2>1 DEF TakeStake, WithdrawStake
  <2>2. ASSUME NEW p \in Proposer, NEW seed, DeRegister(p, seed) PROVE QueueAlone
    BY <2>2 DEF DeRegister, DeRegisterProposer
  <2>3. ASSUME NEW p \in Proposer, NEW value, AddStake(p, value) PROVE QueueAlone
    BY <2>3 DEF AddStake, UpdateProposer
  <2>4. ASSUME NEW p \in Proposer, NEW value, NEW seed, Register(p, value, seed)
        PROVE  QueueAlone
    BY <2>4 DEF Register, RegisterProposer
  <2> QED
    BY <1>3, <2>1, <2>2, <2>3, <2>4 DEF Staking
<1>4. CASE \E seed \in Seed : Rotate(seed)
  BY <1>4 DEF Rotate, RotateProposer
<1>5. CASE Challenging
  <2>1. ASSUME NEW c, NEW i, NEW salt, CommitChallenge(c, i, salt) PROVE QueueAlone
    BY <2>1 DEF CommitChallenge, CommitToChallenge
  <2> QED
    BY <1>5, <2>1 DEF Challenging, QueueStep
<1>6. CASE Deposit
  BY <1>6 DEF Deposit, SubmitDeposit
<1>7. CASE \E a \in Address : Collect(a)
  BY <1>7 DEF Collect, Withdraw
<1> QED
  BY <1>1, <1>2, <1>3, <1>4, <1>5, <1>6, <1>7 DEF Next, QueueStep

(* The invariant is inductive.                                             *)
LEMMA StepIInv == IInv /\ [Next]_vars => IInv'
<1> SUFFICES ASSUME IInv, [Next]_vars PROVE IInv'
  OBVIOUS
<1>1. CASE QueueStep
  BY <1>1, ProposeIInv, ChallengeIInv, PayBlockIInv DEF QueueStep
<1>2. CASE QueueAlone
  BY <1>2, QueueAloneIInv
<1>3. CASE UNCHANGED vars
  <2>1. QueueAlone
    BY <1>3 DEF vars, QueueAlone, chainVars, IInv, ChainTypeOK
  <2> QED
    BY <2>1, QueueAloneIInv
<1> QED
  BY <1>1, <1>2, <1>3, NextCases DEF IInv

(* The invariant holds in every reachable state.                           *)
THEOREM Invariance == Spec => []IInv
  BY InitIInv, StepIInv, PTL DEF Spec

-----------------------------------------------------------------------------
(***************************************************************************)
(* The types of the queue hold in every reachable state.                   *)
(***************************************************************************)
THEOREM ChainTypes == Spec => []ChainTypeOK
<1>1. IInv => ChainTypeOK
  BY DEF IInv
<1> QED
  BY <1>1, Invariance, PTL

(***************************************************************************)
(* Whatever is proposed, challenged, rolled back, proposed again and paid  *)
(* for, in any order, the stake behind a block is not given away twice     *)
(* (setBlockStakeWithdrawn in removeBlockHashes and requestBlockPayment).  *)
(***************************************************************************)
THEOREM StakeGivenOnce == Spec => []SlashedXorReturned
<1>1. IInv => SlashedXorReturned
  BY DEF IInv, StakeInv
<1> QED
  BY <1>1, Invariance, PTL

(***************************************************************************)
(* The whole of the invariant the runs check.                              *)
(***************************************************************************)
THEOREM StakeInvariance == Spec => []StakeInv
<1>1. IInv => StakeInv
  BY DEF IInv
<1> QED
  BY <1>1, Invariance, PTL

(***************************************************************************)
(* No call removes or moves a block older than the challenge period        *)
(* (challengeAccepted).                                                    *)
(***************************************************************************)
THEOREM Finality == Spec => FinalNeverRolledBack
<1>1. IInv /\ [Next]_vars => [FinalsKept]_vars
  <2> DEFINE Kept(i) == i \in DOMAIN blockHashes' /\ blockHashes'[i] = blockHashes[i]
  <2> SUFFICES ASSUME IInv, Next PROVE FinalsKept
    OBVIOUS
  <2>1. SUFFICES ASSUME NEW i \in DOMAIN blockHashes, IsFinal(blockHashes[i])
                 PROVE  Kept(i)
    BY DEF FinalsKept
  <2>2. ASSUME NEW p, NEW transactions, NEW valid, NEW value,
               Propose(p, transactions, valid, value)
        PROVE  Kept(i)
    <3>1. PICK block : blockHashes' = Append(blockHashes, block)
      BY <2>2 DEF Propose, ProposeBlock
    <3>2. blockHashes \in Seq(BlockData \cup {block})
      BY SeqMonotonic DEF IInv, ChainTypeOK
    <3> QED
      BY <3>1, <3>2, AppendProperties
  <2>3. ASSUME NEW c, NEW k \in DOMAIN blockHashes, NEW salt, NEW seed,
               Challenge(c, k, salt, seed)
        PROVE  Kept(i)
    <3>1. /\ DOMAIN blockHashes' = 1..k - 1
          /\ \A j \in 1..k - 1 : blockHashes'[j] = blockHashes[j]
          /\ IsChallengeable(blockHashes[k])
      BY <2>3, ChallengeEffect DEF Challenge
    <3>2. i < k
      BY <2>1, <3>1, FinalBeforeChallengeable DEF IInv, StakeInv
    <3> QED
      BY <3>1, <3>2, QueueTypes DEF IInv
  <2>4. ASSUME NEW p, NEW k, PayBlock(p, k) PROVE Kept(i)
    BY <2>4 DEF PayBlock, RequestBlockPayment
  <2>5. CASE QueueAlone
    BY <2>5 DEF QueueAlone, chainVars
  <2> QED
    BY <2>2, <2>3, <2>4, <2>5, NextCases DEF IInv, QueueStep
<1> QED
  BY <1>1, Invariance, PTL DEF Spec, FinalNeverRolledBack

-----------------------------------------------------------------------------
(* The abstract queue has the length of the queue of blocks.               *)
LEMMA QueueOfHashesTypes ==
  ASSUME ChainTypeOK
  PROVE  /\ DOMAIN QueueOfHashes = DOMAIN blockHashes
         /\ Len(QueueOfHashes) = Len(blockHashes)
         /\ \A i \in DOMAIN blockHashes : QueueOfHashes[i] = blockHashes[i].blockHash
<1>1. DOMAIN QueueOfHashes = 1..Len(blockHashes) /\ Len(blockHashes) \in Nat
  BY QueueTypes DEF QueueOfHashes
<1>2. Len(QueueOfHashes) = Len(blockHashes)
  BY <1>1
<1> QED
  BY <1>1, <1>2, QueueTypes DEF QueueOfHashes

(* A proposal adds a block to the abstract queue.                          *)
LEMMA ProposeAdds ==
  ASSUME IInv, IInv', NEW p \in Proposer, NEW transactions, NEW valid, NEW value,
         Propose(p, transactions, valid, value)
  PROVE  Queue!Add
<1> DEFINE n == Len(blockHashes)
<1>1. PICK block : blockHashes' = Append(blockHashes, block) /\ block.time = now
  BY DEF Propose, ProposeBlock
<1>2. UNCHANGED <<now, slashed, returned>>
  BY DEF Propose, ProposeBlock, history
<1>3. /\ n \in Nat /\ DOMAIN blockHashes = 1..n
      /\ DOMAIN blockHashes' = 1..n + 1
      /\ \A i \in 1..n : blockHashes'[i] = blockHashes[i]
      /\ blockHashes'[n + 1] = block
  <2>1. blockHashes \in Seq(BlockData \cup {block})
    BY SeqMonotonic DEF IInv, ChainTypeOK
  <2> QED
    BY <1>1, <2>1, AppendProperties
<1>4. /\ DOMAIN QueueOfHashes' = 1..Len(QueueOfHashes) + 1
      /\ Len(QueueOfHashes) = n
      /\ \A i \in 1..n : QueueOfHashes'[i] = QueueOfHashes[i]
  BY <1>3, QueueOfHashesTypes DEF QueueOfHashes, IInv
<1>5. FinalBlocks' = FinalBlocks
  <2>1. \A i \in 1..n : IsFinal(blockHashes[i])' <=> IsFinal(blockHashes[i])
    BY <1>2, <1>3 DEF IsFinal
  <2>2. \A i \in {n + 1} : ~IsFinal(blockHashes[i])'
    BY <1>1, <1>2, <1>3, PeriodAssumption DEF IsFinal, IInv, ChainTypeOK
  <2>3. 1..n + 1 = 1..n \cup {n + 1}
    BY <1>3
  <2> QED
    BY <1>3, <2>1, <2>2, <2>3 DEF FinalBlocks
<1> QED
  BY <1>2, <1>4, <1>5 DEF Queue!Add, Queue!Keeps

(* A challenge cuts the abstract queue behind everything final.            *)
LEMMA ChallengeCuts ==
  ASSUME IInv, IInv', NEW c, NEW i \in DOMAIN blockHashes, NEW salt, NEW seed,
         Challenge(c, i, salt, seed)
  PROVE  Queue!Cut(i)
<1>1. /\ DOMAIN blockHashes' = 1..i - 1
      /\ \A j \in 1..i - 1 : blockHashes'[j] = blockHashes[j]
      /\ IsChallengeable(blockHashes[i])
      /\ now' = now
  BY ChallengeEffect DEF Challenge
<1>2. \A k \in FinalBlocks : k < i
  BY <1>1, FinalBeforeChallengeable DEF FinalBlocks, IInv, StakeInv
<1>3. /\ DOMAIN blockHashes = 1..Len(blockHashes)
      /\ Len(blockHashes) \in Nat /\ i \in 1..Len(blockHashes)
  BY QueueTypes DEF IInv
<1>4. /\ DOMAIN QueueOfHashes' = 1..i - 1
      /\ \A j \in 1..i - 1 : QueueOfHashes'[j] = QueueOfHashes[j]
  BY <1>1, <1>3 DEF QueueOfHashes
<1>5. FinalBlocks' = FinalBlocks
  <2>1. FinalBlocks' \subseteq FinalBlocks
    BY <1>1, <1>3 DEF FinalBlocks, IsFinal
  <2>2. FinalBlocks \subseteq 1..i - 1
    BY <1>2, <1>3 DEF FinalBlocks
  <2> QED
    BY <1>1, <2>1, <2>2 DEF FinalBlocks, IsFinal
<1>6. /\ slashed' = slashed \cup {blockHashes[k].blockHash : k \in i..Len(blockHashes)}
      /\ returned' = returned
  BY DEF Challenge
<1>7. {blockHashes[k].blockHash : k \in i..Len(blockHashes)}
        = {QueueOfHashes[k] : k \in i..Len(QueueOfHashes)}
  BY <1>3, QueueOfHashesTypes DEF IInv
<1> QED
  BY <1>2, <1>4, <1>5, <1>6, <1>7 DEF Queue!Cut, Queue!Keeps

(* A payment returns the stake of a final block nobody got before.         *)
LEMMA PayBlockReturns ==
  ASSUME IInv, NEW p, NEW i \in DOMAIN blockHashes, PayBlock(p, i)
  PROVE  Queue!Return(i)
<1>1. /\ IsFinal(blockHashes[i])
      /\ ~blockInfo[blockHashes[i].blockHash].stakeClaimed
      /\ UNCHANGED <<now, blockHashes, slashed>>
      /\ returned' = returned \cup {blockHashes[i].blockHash}
  BY DEF PayBlock, RequestBlockPayment
<1>2. blockHashes[i].blockHash \notin slashed \cup returned
  BY <1>1 DEF IInv, StakeInv, ClaimsRemembered, IsClaimed
<1>3. UNCHANGED <<QueueOfHashes, FinalBlocks>>
  BY <1>1 DEF QueueOfHashes, FinalBlocks, IsFinal
<1>4. QueueOfHashes[i] = blockHashes[i].blockHash
  BY DEF QueueOfHashes
<1> QED
  BY <1>1, <1>2, <1>3, <1>4 DEF Queue!Return, FinalBlocks

(* Whatever else happens, time can only make more blocks final.            *)
LEMMA QueueAloneAges == ASSUME IInv, QueueAlone PROVE Queue!Age
<1>1. UNCHANGED <<blockHashes, slashed, returned>>
  BY DEF QueueAlone, chainVars
<1>2. FinalBlocks \subseteq FinalBlocks'
  BY <1>1, FinalStays DEF FinalBlocks, QueueAlone, IInv
<1>3. UNCHANGED QueueOfHashes
  BY <1>1 DEF QueueOfHashes
<1> QED
  BY <1>1, <1>2, <1>3 DEF Queue!Age

(***************************************************************************)
(* The contracts implement the abstract queue of blocks.                   *)
(***************************************************************************)
THEOREM Implementation == Spec => ImplementsBlockQueue
<1>1. Init => Queue!Init
  BY DEF Init, StateInit, Queue!Init, QueueOfHashes, FinalBlocks
<1>2. IInv /\ IInv' /\ [Next]_vars => [Queue!Next]_(Queue!vars)
  <2> SUFFICES ASSUME IInv, IInv', [Next]_vars PROVE [Queue!Next]_(Queue!vars)
    OBVIOUS
  <2>1. DOMAIN QueueOfHashes = DOMAIN blockHashes
    BY DEF QueueOfHashes
  <2>2. CASE QueueStep
    BY <2>1, <2>2, ProposeAdds, ChallengeCuts, PayBlockReturns DEF QueueStep, Queue!Next
  <2>3. CASE QueueAlone
    BY <2>3, QueueAloneAges DEF Queue!Next
  <2>4. CASE UNCHANGED vars
    BY <2>4 DEF vars, Queue!vars, QueueOfHashes, FinalBlocks, IsFinal
  <2> QED
    BY <2>2, <2>3, <2>4, NextCases DEF IInv
<1> QED
  BY <1>1, <1>2, Invariance, PTL DEF Spec, ImplementsBlockQueue, Queue!Spec
=============================================================================
