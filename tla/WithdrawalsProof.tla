-------------------------- MODULE WithdrawalsProof -------------------------
(***************************************************************************)
(* Theorems about Withdrawals, for any users, tokens, transactions, any    *)
(* length of the queue and any challenge period.                           *)
(***************************************************************************)
EXTENDS Withdrawals, FoldLemmas, SequenceTheorems

IInv == QueueTypeOK /\ TimesOrdered /\ PaidStayFinal

(* Positions and times are numbers.                                        *)
LEMMA TimeTypes ==
  ASSUME QueueTypeOK, NEW i \in DOMAIN blockHashes
  PROVE  i \in Nat /\ blockHashes[i].time \in Nat
<1>1. i \in 1..Len(blockHashes) /\ Len(blockHashes) \in Nat
  BY DEF QueueTypeOK
<1>2. blockHashes[i] \in BlockData
  BY <1>1 DEF QueueTypeOK
<1>3. QED  BY <1>1, <1>2 DEF BlockData

(***************************************************************************)
(* A block that is final lies before every block that can be challenged:   *)
(* the two conditions (finaliseWithdrawal, challengeAccepted) exclude each *)
(* other, and blocks are in the order of time.                             *)
(***************************************************************************)
LEMMA FinalBeforeChallengeable ==
  ASSUME QueueTypeOK, TimesOrdered,
         NEW i \in DOMAIN blockHashes, IsChallengeable(blockHashes[i]),
         NEW j \in DOMAIN blockHashes, IsFinal(blockHashes[j])
  PROVE  j < i
<1>1. /\ blockHashes[i].time \in Nat /\ blockHashes[j].time \in Nat
      /\ i \in Nat /\ j \in Nat
  BY TimeTypes
<1>2. blockHashes[j].time < blockHashes[i].time
  BY <1>1, PeriodAssumption DEF QueueTypeOK, IsChallengeable, IsFinal
<1>3. i <= j => blockHashes[i].time <= blockHashes[j].time
  BY DEF TimesOrdered
<1>4. QED  BY <1>1, <1>2, <1>3

(* Calls that leave the clock, the queue and what was paid alone.          *)
LEMMA PaidAloneIInv ==
  ASSUME IInv, UNCHANGED <<now, blockHashes>>,
         \A t \in Withdrawing : advancedWithdrawals'[t].isWithdrawn
                                  => advancedWithdrawals[t].isWithdrawn
  PROVE  IInv'
BY DEF IInv, QueueTypeOK, TimesOrdered, PaidStayFinal, TransactionsIn, IsFinal

(* Time passes: final blocks stay final.                                   *)
LEMMA TickIInv ==
  ASSUME IInv, Tick
  PROVE  IInv'
<1>1. /\ now \in Nat /\ now' = now + 1
      /\ blockHashes' = blockHashes /\ advancedWithdrawals' = advancedWithdrawals
  BY DEF IInv, QueueTypeOK, Tick, marketVars
<1>2. blockHashes \in Seq(BlockData)
  BY DEF IInv, QueueTypeOK
<1>3. QueueTypeOK'  BY <1>1, <1>2 DEF QueueTypeOK
<1>4. TimesOrdered'  BY <1>1, <1>2, TimeTypes DEF IInv, TimesOrdered
<1>5. PaidStayFinal'
  <2>1. \A i \in DOMAIN blockHashes : IsFinal(blockHashes[i]) => IsFinal(blockHashes[i])'
    BY <1>1, <1>2, TimeTypes, PeriodAssumption DEF IInv, IsFinal
  <2>2. QED  BY <1>1, <2>1 DEF IInv, PaidStayFinal, TransactionsIn
<1>6. QED  BY <1>3, <1>4, <1>5 DEF IInv

LEMMA FeesTypes ==
  ASSUME NEW transactions \in Body
  PROVE  FeesOf(transactions) \in Nat
<1> DEFINE fees == [k \in DOMAIN transactions |-> transactions[k].fee]
<1>1. transactions \in Seq(Transaction) /\ Len(transactions) \in Nat
  BY InputAssumption
<1>2. DOMAIN transactions = 1..Len(transactions) /\ IsFiniteSet(DOMAIN transactions)
  BY <1>1, FS_Interval
<1>3. \A k \in DOMAIN transactions : fees[k] \in Nat
  BY <1>1, TransactionAssumption
<1>4. FeesOf(transactions) = SumFunctionOnSet(fees, DOMAIN transactions)
  BY DEF FeesOf, SumFunction
<1>5. QED BY <1>2, <1>3, <1>4, SumNat

(* A block is added at the end, no older than the others.                  *)
LEMMA ProposeIInv ==
  ASSUME IInv, NEW transactions \in Body, ProposeBlock(transactions)
  PROVE  IInv'
<1> DEFINE block == [transactions |-> transactions, time |-> now,
                     feesL2 |-> FeesOf(transactions)]
<1>1. /\ blockHashes' = Append(blockHashes, block) /\ now' = now
      /\ advancedWithdrawals' = advancedWithdrawals
  BY DEF ProposeBlock, marketVars
<1>2. /\ blockHashes \in Seq(BlockData)
      /\ block \in BlockData
      /\ now \in Nat
  BY FeesTypes DEF IInv, QueueTypeOK, BlockData
<1>3. QueueTypeOK'  BY <1>1, <1>2 DEF QueueTypeOK
<1>4. /\ DOMAIN blockHashes' = 1..Len(blockHashes) + 1
      /\ \A k \in DOMAIN blockHashes : k \in DOMAIN blockHashes'
                                        /\ blockHashes'[k] = blockHashes[k]
      /\ blockHashes'[Len(blockHashes) + 1] = block
      /\ DOMAIN blockHashes = 1..Len(blockHashes) /\ Len(blockHashes) \in Nat
  BY <1>1, <1>2
<1>5. TimesOrdered'
  <2>1. \A k \in DOMAIN blockHashes' :
          k \in DOMAIN blockHashes \/ blockHashes'[k].time = now
    BY <1>4
  <2>2. \A k \in DOMAIN blockHashes : blockHashes[k].time \in Nat
    BY TimeTypes DEF IInv
  <2>3. \A k \in DOMAIN blockHashes' : blockHashes'[k].time <= now
    BY <1>2, <1>4, <2>1 DEF IInv, TimesOrdered
  <2>4. ASSUME NEW i \in DOMAIN blockHashes', NEW j \in DOMAIN blockHashes', i <= j
        PROVE  blockHashes'[i].time <= blockHashes'[j].time
    <3>1. CASE j \in DOMAIN blockHashes
      <4>1. i \in DOMAIN blockHashes  BY <1>4, <2>4, <3>1
      <4>2. QED  BY <1>4, <2>4, <3>1, <4>1 DEF IInv, TimesOrdered
    <3>2. CASE j \notin DOMAIN blockHashes
      BY <2>1, <2>3, <3>2
    <3>3. QED  BY <3>1, <3>2
  <2>5. QED  BY <1>1, <2>3, <2>4 DEF TimesOrdered
<1>6. PaidStayFinal'
  BY <1>1, <1>4 DEF IInv, PaidStayFinal, TransactionsIn, IsFinal
<1>7. QED  BY <1>3, <1>5, <1>6 DEF IInv

(* The fees of a block are paid: the block stays, with nothing due.        *)
LEMMA PaymentIInv ==
  ASSUME IInv, NEW i \in DOMAIN blockHashes, RequestBlockPayment(i)
  PROVE  IInv'
<1>1. /\ blockHashes' = [blockHashes EXCEPT ![i].feesL2 = 0] /\ now' = now
      /\ advancedWithdrawals' = advancedWithdrawals
  BY DEF RequestBlockPayment, marketVars
<1>2. blockHashes \in Seq(BlockData) /\ \A k \in DOMAIN blockHashes : blockHashes[k] \in BlockData
  BY DEF IInv, QueueTypeOK
<1>3. /\ blockHashes' \in Seq(BlockData)
      /\ DOMAIN blockHashes' = DOMAIN blockHashes
      /\ \A k \in DOMAIN blockHashes :
           /\ blockHashes'[k].time = blockHashes[k].time
           /\ blockHashes'[k].transactions = blockHashes[k].transactions
  <2>1. [blockHashes[i] EXCEPT !.feesL2 = 0] \in BlockData
    BY <1>2 DEF BlockData
  <2>2. /\ [blockHashes[i] EXCEPT !.feesL2 = 0].time = blockHashes[i].time
        /\ [blockHashes[i] EXCEPT !.feesL2 = 0].transactions = blockHashes[i].transactions
    BY <1>2 DEF BlockData
  <2>3. PICK b : b = [blockHashes[i] EXCEPT !.feesL2 = 0]
    OBVIOUS
  <2>4. blockHashes' = [blockHashes EXCEPT ![i] = b]
    BY <1>1, <2>3
  <2>5. QED BY <1>2, <2>1, <2>2, <2>3, <2>4
<1>4. QED
  BY <1>1, <1>3 DEF IInv, QueueTypeOK, TimesOrdered, PaidStayFinal, TransactionsIn, IsFinal

(* A rollback cuts challengeable blocks, hence none that is final.         *)
LEMMA ChallengeIInv ==
  ASSUME IInv, NEW i \in DOMAIN blockHashes, ChallengeBlock(i)
  PROVE  IInv'
<1>1. /\ blockHashes' = SubSeq(blockHashes, 1, i - 1) /\ now' = now
      /\ advancedWithdrawals' = advancedWithdrawals
      /\ IsChallengeable(blockHashes[i])
  BY DEF ChallengeBlock, marketVars
<1>2. /\ blockHashes \in Seq(BlockData)
      /\ i \in 1..Len(blockHashes) /\ Len(blockHashes) \in Nat
  BY DEF IInv, QueueTypeOK
<1>3. /\ blockHashes' \in Seq(BlockData)
      /\ DOMAIN blockHashes' = 1..i - 1
      /\ \A k \in 1..i - 1 : blockHashes'[k] = blockHashes[k]
      /\ DOMAIN blockHashes' \subseteq DOMAIN blockHashes
  BY <1>1, <1>2
<1>4. QueueTypeOK'  BY <1>1, <1>3 DEF IInv, QueueTypeOK
<1>5. TimesOrdered'  BY <1>1, <1>3 DEF IInv, TimesOrdered
<1>6. PaidStayFinal'
  <2>1. \A j \in DOMAIN blockHashes : IsFinal(blockHashes[j]) => j \in 1..i - 1
    BY <1>1, <1>2, FinalBeforeChallengeable DEF IInv
  <2>2. QED  BY <1>1, <1>3, <2>1 DEF IInv, PaidStayFinal, TransactionsIn, IsFinal
<1>7. QED  BY <1>4, <1>5, <1>6 DEF IInv

(* A withdrawal is paid out of a final block.                              *)
LEMMA FinaliseIInv ==
  ASSUME IInv, NEW i \in DOMAIN blockHashes, NEW t \in TransactionsIn(i),
         FinaliseWithdrawal(i, t)
  PROVE  IInv'
<1>1. /\ UNCHANGED <<now, blockHashes>>
      /\ IsFinal(blockHashes[i])
      /\ advancedWithdrawals' = [advancedWithdrawals EXCEPT ![t].isWithdrawn = TRUE]
  BY DEF FinaliseWithdrawal
<1>2. \A s : s # t => advancedWithdrawals'[s] = advancedWithdrawals[s]
  BY <1>1
<1>3. QED
  BY <1>1 DEF IInv, QueueTypeOK, TimesOrdered, PaidStayFinal, TransactionsIn, IsFinal

-----------------------------------------------------------------------------
(***************************************************************************)
(* Selling: whose tokens a withdrawal is.                                  *)
(***************************************************************************)
SaleInv == QueueTypeOK /\ SaleTypeOK /\ PaidThroughOnce

(* What a block carries are transactions.                                  *)
LEMMA BlockTransactions ==
  ASSUME QueueTypeOK, NEW i \in DOMAIN blockHashes, NEW t \in TransactionsIn(i)
  PROVE  t \in Transaction
<1>1. blockHashes[i] \in BlockData
  BY DEF QueueTypeOK
<1>2. blockHashes[i].transactions \in Seq(Transaction)
  BY <1>1, InputAssumption DEF BlockData
<1>3. QED  BY <1>2 DEF TransactionsIn, Range

(* A withdrawal has a recipient, an amount and an owner.                   *)
LEMMA WithdrawalTypes ==
  ASSUME SaleTypeOK, NEW t \in Withdrawing
  PROVE  /\ t.recipient \in User /\ t.value \in Nat
         /\ CurrentOwner(t) \in User
         /\ \A u \in User : received[t][u] \in Int
<1>1. t.recipient \in User /\ t.value \in Nat
  BY TransactionAssumption DEF Withdrawing
<1>2. /\ advancedWithdrawals[t].currentOwner \in User \cup {NoAddress}
      /\ \A u \in User : received[t][u] \in Int
  BY DEF SaleTypeOK
<1>3. QED  BY <1>1, <1>2 DEF CurrentOwner

LEMMA SaleAloneInv ==
  ASSUME SaleInv, UNCHANGED <<advancedWithdrawals, received>>, QueueTypeOK'
  PROVE  SaleInv'
BY DEF SaleInv, SaleTypeOK, PaidThroughOnce, CurrentOwner

(* A higher fee changes nothing of who owns what.                          *)
LEMMA SetFeeSaleInv ==
  ASSUME SaleInv, NEW u \in User, NEW i \in DOMAIN blockHashes,
         NEW t \in TransactionsIn(i), NEW value \in Fee,
         SetAdvanceWithdrawalFee(u, i, t, value), QueueTypeOK'
  PROVE  SaleInv'
<1>1. /\ advancedWithdrawals' = [advancedWithdrawals EXCEPT ![t].advanceFee = @ + value]
      /\ received' = received
      /\ t \in Withdrawing /\ value \in Nat
  BY BlockTransactions, InputAssumption
     DEF SetAdvanceWithdrawalFee, SaleInv, Withdrawing
<1>2. SaleTypeOK'
  <2> DEFINE sale   == advancedWithdrawals[t]
             raised == [sale EXCEPT !.advanceFee = @ + value]
  <2>1. sale \in [currentOwner : User \cup {NoAddress},
                  advanceFee : Nat, isWithdrawn : BOOLEAN]
    BY <1>1 DEF SaleInv, SaleTypeOK
  <2>2. raised \in [currentOwner : User \cup {NoAddress},
                    advanceFee : Nat, isWithdrawn : BOOLEAN]
    <3> HIDE DEF sale
    <3>1. QED  BY <1>1, <2>1
  <2>3. advancedWithdrawals' = [advancedWithdrawals EXCEPT ![t] = raised]
    BY <1>1
  <2>4. QED
    <3> HIDE DEF raised
    <3>1. QED  BY <1>1, <2>2, <2>3 DEF SaleInv, SaleTypeOK
<1>3. ASSUME NEW s \in Withdrawing
      PROVE  /\ advancedWithdrawals'[s].currentOwner = advancedWithdrawals[s].currentOwner
             /\ advancedWithdrawals'[s].isWithdrawn = advancedWithdrawals[s].isWithdrawn
  <2>1. advancedWithdrawals[s] \in [currentOwner : User \cup {NoAddress},
                                    advanceFee : Nat, isWithdrawn : BOOLEAN]
    BY DEF SaleInv, SaleTypeOK
  <2>2. CASE s = t
    BY <1>1, <2>1, <2>2 DEF SaleInv, SaleTypeOK
  <2>3. CASE s # t
    BY <1>1, <2>3 DEF SaleInv, SaleTypeOK
  <2>4. QED  BY <2>2, <2>3
<1>4. QED  BY <1>1, <1>2, <1>3 DEF SaleInv, PaidThroughOnce, CurrentOwner

(* The buyer takes the place of the owner, and pays it.                    *)
LEMMA AdvanceSaleInv ==
  ASSUME SaleInv, NEW u \in User, NEW i \in DOMAIN blockHashes,
         NEW t \in TransactionsIn(i), AdvanceWithdrawal(u, i, t), QueueTypeOK'
  PROVE  SaleInv'
<1> DEFINE owner == CurrentOwner(t)
           paid  == [received[t] EXCEPT ![u] = @ - t.value]
           got   == [paid EXCEPT ![owner] = @ + t.value]
<1>1. /\ advancedWithdrawals' =
           [advancedWithdrawals EXCEPT ![t].currentOwner = u, ![t].advanceFee = 0]
      /\ ~advancedWithdrawals[t].isWithdrawn
      /\ received' = [received EXCEPT ![t] = got]
      /\ t \in Withdrawing
  <2>1. t \in Withdrawing
    BY BlockTransactions DEF AdvanceWithdrawal, SaleInv, Withdrawing
  <2>2. received' = [received EXCEPT ![t] = got]
    BY DEF AdvanceWithdrawal, Moved
  <2>3. QED  BY <2>1, <2>2 DEF AdvanceWithdrawal, Sold
<1>2. /\ owner \in User /\ t.value \in Nat /\ t.recipient \in User
      /\ \A w \in User : received[t][w] \in Int
  BY <1>1, WithdrawalTypes DEF SaleInv
<1>3. SaleTypeOK'
  <2>1. advancedWithdrawals' \in
          [Withdrawing -> [currentOwner : User \cup {NoAddress},
                           advanceFee : Nat, isWithdrawn : BOOLEAN]]
    BY <1>1 DEF SaleInv, SaleTypeOK
  <2>2. received[t] \in [User -> Int]
    BY <1>1 DEF SaleInv, SaleTypeOK
  <2>3. got \in [User -> Int]
    BY <1>2, <2>2
  <2>4. received' \in [Withdrawing -> [User -> Int]]
    <3> HIDE DEF got
    <3>1. QED  BY <1>1, <2>3 DEF SaleInv, SaleTypeOK
  <2>5. QED  BY <2>1, <2>4 DEF SaleTypeOK
<1>4. /\ advancedWithdrawals'[t].currentOwner = u
      /\ ~advancedWithdrawals'[t].isWithdrawn
      /\ \A s \in Withdrawing \ {t} : /\ advancedWithdrawals'[s] = advancedWithdrawals[s]
                                      /\ received'[s] = received[s]
  BY <1>1 DEF SaleInv, SaleTypeOK
<1>5. \A w \in User : received'[t][w] = received[t][w]
                        - (IF w = u THEN t.value ELSE 0)
                        + (IF w = owner THEN t.value ELSE 0)
  <2>1. received'[t] = got
    <3> HIDE DEF got
    <3>1. QED  BY <1>1 DEF SaleInv, SaleTypeOK
  <2>2. received[t] \in [User -> Int]
    BY <1>1 DEF SaleInv, SaleTypeOK
  <2> HIDE DEF owner
  <2>3. ASSUME NEW w \in User
        PROVE  paid[w] = received[t][w] - (IF w = u THEN t.value ELSE 0)
    BY <1>2, <2>2
  <2>4. ASSUME NEW w \in User
        PROVE  got[w] = paid[w] + (IF w = owner THEN t.value ELSE 0)
    BY <1>2, <2>2
  <2>5. QED  BY <2>1, <2>3, <2>4
<1>6. \A w \in User :
        received[t][w] = (IF w = t.recipient /\ owner # w THEN t.value ELSE 0)
                         - (IF w = owner /\ w # t.recipient THEN t.value ELSE 0)
  BY <1>1 DEF SaleInv, PaidThroughOnce
<1>7. u # NoAddress  BY InputAssumption
<1>8. PaidThroughOnce'
  <2>1. ASSUME NEW w \in User
        PROVE  received'[t][w] = (IF w = t.recipient /\ u # w THEN t.value ELSE 0)
                                 - (IF w = u /\ w # t.recipient THEN t.value ELSE 0)
    BY <1>2, <1>5, <1>6
  <2>2. CurrentOwner(t)' = u  BY <1>4, <1>7 DEF CurrentOwner
  <2>3. QED
    BY <1>4, <2>1, <2>2 DEF SaleInv, PaidThroughOnce, CurrentOwner
<1>9. QED  BY <1>3, <1>8 DEF SaleInv

(* Shield pays the owner; everybody in between is even.                    *)
LEMMA FinaliseSaleInv ==
  ASSUME SaleInv, NEW i \in DOMAIN blockHashes, NEW t \in TransactionsIn(i),
         FinaliseWithdrawal(i, t), QueueTypeOK'
  PROVE  SaleInv'
<1> DEFINE owner == CurrentOwner(t)
<1>1. /\ advancedWithdrawals' = [advancedWithdrawals EXCEPT ![t].isWithdrawn = TRUE]
      /\ received' = [received EXCEPT ![t][owner] = @ + t.value]
      /\ ~advancedWithdrawals[t].isWithdrawn
      /\ t \in Withdrawing
  BY BlockTransactions DEF FinaliseWithdrawal, IsWithdrawn, SaleInv, Withdrawing
<1>2. /\ owner \in User /\ t.value \in Nat /\ t.recipient \in User
      /\ \A w \in User : received[t][w] \in Int
  BY <1>1, WithdrawalTypes DEF SaleInv
<1>3. SaleTypeOK'
  <2>1. advancedWithdrawals' \in
          [Withdrawing -> [currentOwner : User \cup {NoAddress},
                           advanceFee : Nat, isWithdrawn : BOOLEAN]]
    BY <1>1 DEF SaleInv, SaleTypeOK
  <2>2. [received[t] EXCEPT ![owner] = @ + t.value] \in [User -> Int]
    BY <1>1, <1>2 DEF SaleInv, SaleTypeOK
  <2>3. received' \in [Withdrawing -> [User -> Int]]
    BY <1>1, <2>2 DEF SaleInv, SaleTypeOK
  <2>4. QED  BY <2>1, <2>3 DEF SaleTypeOK
<1>4. /\ advancedWithdrawals'[t].isWithdrawn
      /\ advancedWithdrawals'[t].currentOwner = advancedWithdrawals[t].currentOwner
      /\ \A s \in Withdrawing \ {t} : /\ advancedWithdrawals'[s] = advancedWithdrawals[s]
                                      /\ received'[s] = received[s]
  BY <1>1 DEF SaleInv, SaleTypeOK
<1>5. \A w \in User : received'[t][w] = received[t][w]
                        + (IF w = owner THEN t.value ELSE 0)
  BY <1>1, <1>2 DEF SaleInv, SaleTypeOK
<1>6. \A w \in User :
        received[t][w] = (IF w = t.recipient /\ owner # w THEN t.value ELSE 0)
                         - (IF w = owner /\ w # t.recipient THEN t.value ELSE 0)
  BY <1>1 DEF SaleInv, PaidThroughOnce
<1>7. \A w \in User : received'[t][w] = (IF w = t.recipient THEN t.value ELSE 0)
  BY <1>2, <1>5, <1>6
<1>8. PaidThroughOnce'
  BY <1>2, <1>4, <1>7 DEF SaleInv, PaidThroughOnce, CurrentOwner
<1>9. QED  BY <1>3, <1>8 DEF SaleInv

-----------------------------------------------------------------------------
LEMMA InitInv ==
  ASSUME Init
  PROVE  IInv /\ SaleInv
<1>1. QueueTypeOK /\ TimesOrdered /\ PaidStayFinal
  BY PeriodAssumption
     DEF Init, QueueTypeOK, TimesOrdered, PaidStayFinal, FreshWithdrawal
<1>2. SaleTypeOK
  BY DEF Init, SaleTypeOK, FreshWithdrawal
<1>3. PaidThroughOnce
  BY TransactionAssumption
     DEF Init, PaidThroughOnce, CurrentOwner, FreshWithdrawal, Withdrawing
<1>4. QED  BY <1>1, <1>2, <1>3 DEF IInv, SaleInv

(* Every step keeps both invariants.                                       *)
LEMMA NextInv ==
  ASSUME IInv, SaleInv, [Next]_vars
  PROVE  IInv' /\ SaleInv'
<1>1. CASE Tick
  BY <1>1, TickIInv, SaleAloneInv DEF Tick, marketVars, IInv
<1>2. CASE Owner
  <2>1. UNCHANGED <<now, blockHashes, advancedWithdrawals, received>>
    BY <1>2 DEF Owner, SetPaused, RestrictTokens, RemoveRestriction,
                SetRestriction, marketVars
  <2>2. QED  BY <2>1, PaidAloneIInv, SaleAloneInv DEF IInv
<1>3. ASSUME NEW u \in User, NEW t \in Deposits, SubmitTransaction(u, t)
      PROVE  IInv' /\ SaleInv'
  <2>1. UNCHANGED <<now, blockHashes, advancedWithdrawals, received>>
    BY <1>3 DEF SubmitTransaction, marketVars
  <2>2. QED  BY <2>1, PaidAloneIInv, SaleAloneInv DEF IInv
<1>4. ASSUME NEW transactions \in Body, ProposeBlock(transactions)
      PROVE  IInv' /\ SaleInv'
  BY <1>4, ProposeIInv, SaleAloneInv DEF ProposeBlock, marketVars, IInv
<1>5. ASSUME NEW i \in DOMAIN blockHashes, ChallengeBlock(i)
      PROVE  IInv' /\ SaleInv'
  BY <1>5, ChallengeIInv, SaleAloneInv DEF ChallengeBlock, marketVars, IInv
<1>5a. ASSUME NEW i \in DOMAIN blockHashes, RequestBlockPayment(i)
       PROVE  IInv' /\ SaleInv'
  BY <1>5a, PaymentIInv, SaleAloneInv DEF RequestBlockPayment, marketVars, IInv
<1>6. ASSUME NEW u \in User, NEW i \in DOMAIN blockHashes,
             NEW t \in TransactionsIn(i), NEW value \in Fee,
             SetAdvanceWithdrawalFee(u, i, t, value)
      PROVE  IInv' /\ SaleInv'
  <2>1. /\ UNCHANGED <<now, blockHashes>>
        /\ advancedWithdrawals' =
             [advancedWithdrawals EXCEPT ![t].advanceFee = @ + value]
    BY <1>6 DEF SetAdvanceWithdrawalFee
  <2>2. \A s \in Withdrawing :
          advancedWithdrawals'[s].isWithdrawn = advancedWithdrawals[s].isWithdrawn
    BY <2>1 DEF SaleInv, SaleTypeOK
  <2>3. IInv'  BY <2>1, <2>2, PaidAloneIInv
  <2>4. QED  BY <1>6, <2>3, SetFeeSaleInv DEF IInv
<1>7. ASSUME NEW u \in User, NEW i \in DOMAIN blockHashes,
             NEW t \in TransactionsIn(i), AdvanceWithdrawal(u, i, t)
      PROVE  IInv' /\ SaleInv'
  <2>1. /\ UNCHANGED <<now, blockHashes>>
        /\ advancedWithdrawals' =
             [advancedWithdrawals EXCEPT ![t].currentOwner = u, ![t].advanceFee = 0]
    BY <1>7 DEF AdvanceWithdrawal, Sold
  <2>2. \A s \in Withdrawing :
          advancedWithdrawals'[s].isWithdrawn = advancedWithdrawals[s].isWithdrawn
    BY <2>1 DEF SaleInv, SaleTypeOK
  <2>3. IInv'  BY <2>1, <2>2, PaidAloneIInv
  <2>4. QED  BY <1>7, <2>3, AdvanceSaleInv DEF IInv
<1>8. ASSUME NEW i \in DOMAIN blockHashes, NEW t \in TransactionsIn(i),
             FinaliseWithdrawal(i, t)
      PROVE  IInv' /\ SaleInv'
  <2>1. IInv'  BY <1>8, FinaliseIInv
  <2>2. QED  BY <1>8, <2>1, FinaliseSaleInv DEF IInv
<1>9. CASE UNCHANGED vars
  BY <1>9, PaidAloneIInv, SaleAloneInv DEF vars, marketVars, IInv
<1>10. QED
  BY <1>1, <1>2, <1>3, <1>4, <1>5, <1>6, <1>7, <1>8, <1>9, <1>5a DEF Next, Selling

(***************************************************************************)
(* The queue is in order of time, what was paid stays final and every user *)
(* has got what it is due: the invariant of the two theorems below.        *)
(***************************************************************************)
THEOREM Invariance == Spec => [](IInv /\ SaleInv)
<1>1. Init => IInv /\ SaleInv  BY InitInv
<1>2. IInv /\ SaleInv /\ [Next]_vars => (IInv /\ SaleInv)'  BY NextInv
<1>3. QED  BY <1>1, <1>2, PTL DEF Spec

(***************************************************************************)
(* A withdrawal that was paid out stays in a final block: no rollback can  *)
(* bring back the note it spent.                                           *)
(***************************************************************************)
THEOREM PaidWithdrawalsStay == Spec => []PaidStayFinal
<1>1. IInv => PaidStayFinal  BY DEF IInv
<1>2. QED  BY <1>1, Invariance, PTL

(***************************************************************************)
(* However often a withdrawal is sold, its recipient gets its value once   *)
(* and every buyer gets back what it paid.                                 *)
(***************************************************************************)
THEOREM WithdrawalsPaidOnce == Spec => []PaidThroughOnce
<1>1. SaleInv => PaidThroughOnce  BY DEF SaleInv
<1>2. QED  BY <1>1, Invariance, PTL
=============================================================================
