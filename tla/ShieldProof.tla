----------------------------- MODULE ShieldProof -----------------------------
(***************************************************************************)
(* Theorems about what Shield holds: the ether of the fees on offer, and   *)
(* the tokens layer 2 owes, for any users, tokens, notes and transactions, *)
(* any length of the queue and any challenge period.                       *)
(***************************************************************************)
EXTENDS WithdrawalsProof, FoldLemmas

(***************************************************************************)
(* Fees.                                                                   *)
(***************************************************************************)
Fees    == [t \in Withdrawing |-> advancedWithdrawals[t].advanceFee]
OnOffer == {t \in Withdrawing : ~advancedWithdrawals[t].isWithdrawn}

LEMMA FeeTypes ==
  ASSUME SaleTypeOK
  PROVE  /\ \A t \in Withdrawing : Fees[t] \in Nat /\ Fees[t] = advancedWithdrawals[t].advanceFee
         /\ IsFiniteSet(OnOffer) /\ OnOffer \subseteq Withdrawing
         /\ FeesBacked <=> ether = SumFunctionOnSet(Fees, OnOffer)
<1>1. IsFiniteSet(Withdrawing)
  BY FinitenessAssumption, FS_Subset DEF Withdrawing
<1>2. OnOffer \in SUBSET Withdrawing
  BY DEF OnOffer
<1>3. IsFiniteSet(OnOffer)
  BY <1>1, <1>2, FS_Subset
<1>4. \A t \in Withdrawing : Fees[t] \in Nat /\ Fees[t] = advancedWithdrawals[t].advanceFee
  BY DEF SaleTypeOK, Fees
<1>5. FeesBacked <=> ether = SumFunctionOnSet(Fees, OnOffer)
  BY DEF FeesBacked, Fees, OnOffer
<1>6. QED BY <1>2, <1>3, <1>4, <1>5

(* One withdrawal on offer has another fee: the ether follows the fee.     *)
LEMMA FeeChange ==
  ASSUME SaleTypeOK, SaleTypeOK', FeesBacked, NEW t \in OnOffer,
         \A s \in Withdrawing :
           /\ advancedWithdrawals'[s].isWithdrawn = advancedWithdrawals[s].isWithdrawn
           /\ s # t => advancedWithdrawals'[s].advanceFee = advancedWithdrawals[s].advanceFee,
         ether' = ether - advancedWithdrawals[t].advanceFee + advancedWithdrawals'[t].advanceFee
  PROVE  FeesBacked'
<1>1. OnOffer' = OnOffer
  BY DEF OnOffer
<1>2. /\ \A s \in OnOffer : Fees[s] \in Int /\ Fees'[s] \in Int
      /\ \A s \in OnOffer \ {t} : Fees'[s] = Fees[s]
      /\ IsFiniteSet(OnOffer)
      /\ Fees[t] = advancedWithdrawals[t].advanceFee
      /\ Fees'[t] = advancedWithdrawals'[t].advanceFee
  <2>1. \A s \in Withdrawing : Fees'[s] \in Nat /\ Fees'[s] = advancedWithdrawals'[s].advanceFee
    BY DEF SaleTypeOK, Fees
  <2>2. QED BY <2>1, FeeTypes
<1>3. SumFunctionOnSet(Fees', OnOffer) = SumFunctionOnSet(Fees, OnOffer) - Fees[t] + Fees'[t]
  BY <1>2, SumChange
<1>4. ether = SumFunctionOnSet(Fees, OnOffer)
  BY FeeTypes
<1>5. ether' = SumFunctionOnSet(Fees', OnOffer')
  BY <1>1, <1>2, <1>3, <1>4
<1>6. QED BY <1>5 DEF FeesBacked, Fees, OnOffer

(* A withdrawal is paid: its fee, if nobody earned it, leaves with it.     *)
LEMMA FeePaid ==
  ASSUME SaleTypeOK, FeesBacked, NEW t \in OnOffer,
         OnOffer' = OnOffer \ {t},
         \A s \in Withdrawing :
           advancedWithdrawals'[s].advanceFee = advancedWithdrawals[s].advanceFee,
         ether' = ether - advancedWithdrawals[t].advanceFee
  PROVE  FeesBacked'
<1>1. Fees' = Fees
  BY DEF Fees
<1>2. /\ \A s \in OnOffer : Fees[s] \in Int
      /\ IsFiniteSet(OnOffer)
      /\ Fees[t] = advancedWithdrawals[t].advanceFee
  BY FeeTypes
<1>3. /\ SumFunctionOnSet(Fees, OnOffer) = Fees[t] + SumFunctionOnSet(Fees, OnOffer \ {t})
      /\ SumFunctionOnSet(Fees, OnOffer \ {t}) \in Int
  BY <1>2, SumRemove, SumInt, FS_Subset
<1>4. ether = SumFunctionOnSet(Fees, OnOffer)
  BY FeeTypes
<1>5. ether' = SumFunctionOnSet(Fees', OnOffer')
  BY <1>1, <1>2, <1>3, <1>4
<1>6. QED BY <1>5 DEF FeesBacked, Fees, OnOffer

(***************************************************************************)
(* Balances, claims and limits.                                            *)
(***************************************************************************)
MoneyTypeOK == /\ isCommitmentEscrowed \subseteq Note \cup {ZERO}
               /\ paidIn \in [Note \cup {ZERO} -> [Token -> Nat]]
               /\ tokens \in [Token -> [Holder -> Nat]]
               /\ ether \in Nat
               /\ pendingWithdrawalsFees \in [User -> Nat]
               /\ paused \in BOOLEAN /\ restrictTokens \in BOOLEAN
               /\ erc20limit \in [Token -> [deposit : Limit \cup {0}, withdraw : Limit \cup {0}]]

(* Tokens move between two holders, from one that has enough.              *)
LEMMA MovedTypes ==
  ASSUME tokens \in [Token -> [Holder -> Nat]], NEW token \in Token,
         NEW from \in Holder, NEW to \in Holder, NEW value \in Nat,
         tokens[token][from] >= value,
         tokens' = [tokens EXCEPT ![token] = Moved(@, from, to, value)]
  PROVE  tokens' \in [Token -> [Holder -> Nat]]
<1> DEFINE paid == [tokens[token] EXCEPT ![from] = @ - value]
           got  == [paid EXCEPT ![to] = @ + value]
<1>1. tokens[token] \in [Holder -> Nat]
  OBVIOUS
<1>2. tokens[token][from] - value \in Nat
  BY <1>1
<1>3. paid \in [Holder -> Nat]
  BY <1>1, <1>2
<1>4. got \in [Holder -> Nat]
  <2> HIDE DEF paid
  <2>1. paid[to] + value \in Nat BY <1>3
  <2>2. QED BY <1>3, <2>1
<1>5. tokens' = [tokens EXCEPT ![token] = got]
  BY DEF Moved
<1> HIDE DEF got
<1>6. QED BY <1>4, <1>5

LEMMA PaidFeeTypes ==
  ASSUME ether \in Nat, pendingWithdrawalsFees \in [User -> Nat],
         NEW u \in User, NEW fee \in Nat, fee <= ether,
         pendingWithdrawalsFees' = [pendingWithdrawalsFees EXCEPT ![u] = @ + fee],
         ether' = ether - fee
  PROVE  ether' \in Nat /\ pendingWithdrawalsFees' \in [User -> Nat]
OBVIOUS

(* No fee is more than the ether there is.                                 *)
LEMMA FeeInEther ==
  ASSUME SaleTypeOK, FeesBacked, NEW t \in OnOffer
  PROVE  advancedWithdrawals[t].advanceFee \in Nat /\ advancedWithdrawals[t].advanceFee <= ether
<1>1. \A s \in OnOffer : Fees[s] \in Nat
  BY FeeTypes
<1>2. Fees[t] <= SumFunctionOnSet(Fees, OnOffer)
  BY <1>1, FeeTypes, SumMember
<1>3. QED BY <1>1, <1>2, FeeTypes

MoneyInv == MoneyTypeOK /\ FeesBacked

LEMMA InitMoney ==
  ASSUME Init
  PROVE  MoneyInv
<1>1. \A token \in Token : Supply(token) \in Nat
  <2>1. ASSUME NEW token \in Token
        PROVE  Supply(token) \in Nat
    <3>1. IsFiniteSet({n \in Note : n.token = token})
      BY NoteAssumption, FS_Subset
    <3>2. \A n \in {m \in Note : m.token = token} : Value[n] \in Nat
      BY NoteAssumption DEF Value
    <3>3. QED BY <3>1, <3>2, SumNat DEF Supply, Worth
  <2>2. QED BY <2>1
<1>2. MoneyTypeOK
  <2>1. tokens \in [Token -> [Holder -> Nat]]
    BY <1>1 DEF Init, Holder
  <2>2. erc20limit \in [Token -> [deposit : Limit \cup {0}, withdraw : Limit \cup {0}]]
    BY DEF Init, NoLimits
  <2>3. paidIn \in [Note \cup {ZERO} -> [Token -> Nat]]
    BY DEF Init
  <2>4. QED BY <2>1, <2>2, <2>3 DEF Init, MoneyTypeOK
<1>3. FeesBacked
  <2>1. SaleTypeOK /\ \A t \in OnOffer : Fees[t] = 0
    BY InitInv DEF Init, SaleInv, Fees, OnOffer, FreshWithdrawal
  <2>2. SumFunctionOnSet(Fees, OnOffer) = 0
    BY <2>1, FeeTypes, SumZero
  <2>3. QED BY <2>1, <2>2, FeeTypes DEF Init
<1>4. QED BY <1>2, <1>3 DEF MoneyInv

LEMMA MoneyAlone ==
  ASSUME MoneyInv,
         UNCHANGED <<escrowVars, tokens, marketVars, ownerVars>>
  PROVE  MoneyInv'
BY DEF MoneyInv, MoneyTypeOK, FeesBacked, escrowVars, marketVars, ownerVars

LEMMA OwnerMoney ==
  ASSUME MoneyInv, Owner
  PROVE  MoneyInv'
<1>1. UNCHANGED <<isCommitmentEscrowed, paidIn, tokens, advancedWithdrawals, ether,
                 pendingWithdrawalsFees>>
  BY DEF Owner, SetPaused, RestrictTokens, RemoveRestriction, SetRestriction,
         escrowVars, marketVars
<1>2. paused' \in BOOLEAN /\ restrictTokens' \in BOOLEAN
  BY DEF Owner, SetPaused, RestrictTokens, RemoveRestriction, SetRestriction,
         MoneyInv, MoneyTypeOK
<1>3. erc20limit' \in [Token -> [deposit : Limit \cup {0}, withdraw : Limit \cup {0}]]
  <2>1. ASSUME NEW token \in Fungible,
               NEW limits \in [deposit : Limit \cup {0}, withdraw : Limit \cup {0}],
               SetRestriction(token, limits)
        PROVE  erc20limit' \in [Token -> [deposit : Limit \cup {0}, withdraw : Limit \cup {0}]]
    BY <2>1 DEF SetRestriction, MoneyInv, MoneyTypeOK
  <2>2. NoLimits \in [deposit : Limit \cup {0}, withdraw : Limit \cup {0}]
    BY DEF NoLimits
  <2>3. [deposit : Limit, withdraw : Limit] \subseteq [deposit : Limit \cup {0}, withdraw : Limit \cup {0}]
    OBVIOUS
  <2>4. CASE SetPaused \/ RestrictTokens
    BY <2>4 DEF SetPaused, RestrictTokens, MoneyInv, MoneyTypeOK
  <2>5. CASE \E token \in Fungible : RemoveRestriction(token)
    BY <2>1, <2>2, <2>5 DEF RemoveRestriction
  <2>6. CASE \E token \in Fungible, limits \in [deposit : Limit, withdraw : Limit] :
               SetRestriction(token, limits)
    BY <2>1, <2>3, <2>6
  <2>7. QED BY <2>4, <2>5, <2>6 DEF Owner
<1>4. QED BY <1>1, <1>2, <1>3 DEF MoneyInv, MoneyTypeOK, FeesBacked

LEMMA SubmitMoney ==
  ASSUME MoneyInv, NEW u \in User, NEW t \in Deposits, SubmitTransaction(u, t)
  PROVE  MoneyInv'
<1>1. /\ t.token \in Token /\ t.value \in Nat /\ t.escrow \in Note \cup {ZERO}
      /\ u \in Holder /\ Shield \in Holder
  BY TransactionAssumption DEF Deposits, Holder
<1>2. tokens' \in [Token -> [Holder -> Nat]]
  BY <1>1, MovedTypes DEF SubmitTransaction, MoneyInv, MoneyTypeOK
<1>3. /\ isCommitmentEscrowed' \subseteq Note \cup {ZERO}
      /\ UNCHANGED <<advancedWithdrawals, ether, pendingWithdrawalsFees,
                     paused, restrictTokens, erc20limit>>
  BY <1>1 DEF SubmitTransaction, MoneyInv, MoneyTypeOK, marketVars, ownerVars
<1>4. paidIn' \in [Note \cup {ZERO} -> [Token -> Nat]]
  <2>1. /\ paidIn \in [Note \cup {ZERO} -> [Token -> Nat]]
        /\ paidIn' = [paidIn EXCEPT ![t.escrow][t.token] = @ + t.value]
    BY DEF SubmitTransaction, MoneyInv, MoneyTypeOK
  <2>2. paidIn[t.escrow] \in [Token -> Nat] /\ paidIn[t.escrow][t.token] + t.value \in Nat
    BY <1>1, <2>1
  <2>3. QED BY <1>1, <2>1, <2>2
<1>5. QED BY <1>2, <1>3, <1>4 DEF MoneyInv, MoneyTypeOK, FeesBacked

(* The fees of a block leave Shield for State.                             *)
LEMMA PaymentMoney ==
  ASSUME MoneyInv, QueueTypeOK, NEW i \in DOMAIN blockHashes, RequestBlockPayment(i)
  PROVE  MoneyInv'
<1>1. /\ FeeToken \in Token /\ blockHashes[i].feesL2 \in Nat
      /\ Shield \in Holder /\ State \in Holder
  <2>1. blockHashes[i] \in BlockData
    BY DEF QueueTypeOK
  <2>2. QED BY <2>1, InputAssumption DEF BlockData, Holder
<1>2. tokens' \in [Token -> [Holder -> Nat]]
  BY <1>1, MovedTypes DEF RequestBlockPayment, MoneyInv, MoneyTypeOK
<1>3. QED
  BY <1>2 DEF RequestBlockPayment, MoneyInv, MoneyTypeOK, FeesBacked,
              escrowVars, marketVars, ownerVars

LEMMA SetFeeMoney ==
  ASSUME MoneyInv, SaleInv, SaleInv', NEW u \in User, NEW i \in DOMAIN blockHashes,
         NEW t \in TransactionsIn(i), NEW value \in Fee,
         SetAdvanceWithdrawalFee(u, i, t, value)
  PROVE  MoneyInv'
<1>1. /\ t \in Withdrawing /\ ~advancedWithdrawals[t].isWithdrawn
      /\ advancedWithdrawals' = [advancedWithdrawals EXCEPT ![t].advanceFee = @ + value]
      /\ value \in Nat
      /\ ether' = ether + value
      /\ UNCHANGED <<escrowVars, tokens, pendingWithdrawalsFees, ownerVars>>
  BY BlockTransactions, InputAssumption
     DEF SetAdvanceWithdrawalFee, SaleInv, Withdrawing
<1>2. /\ \A s \in Withdrawing :
           /\ advancedWithdrawals'[s].isWithdrawn = advancedWithdrawals[s].isWithdrawn
           /\ s # t => advancedWithdrawals'[s].advanceFee = advancedWithdrawals[s].advanceFee
      /\ advancedWithdrawals'[t].advanceFee = advancedWithdrawals[t].advanceFee + value
      /\ advancedWithdrawals[t].advanceFee \in Nat
  BY <1>1 DEF SaleInv, SaleTypeOK
<1>3. t \in OnOffer /\ ether \in Nat /\ SaleTypeOK /\ SaleTypeOK' /\ FeesBacked
  BY <1>1 DEF OnOffer, MoneyInv, MoneyTypeOK, SaleInv
<1>4. ether' = ether - advancedWithdrawals[t].advanceFee + advancedWithdrawals'[t].advanceFee
  BY <1>1, <1>2, <1>3
<1>5. FeesBacked'
  BY <1>2, <1>3, <1>4, FeeChange
<1>6. QED BY <1>1, <1>3, <1>5 DEF MoneyInv, MoneyTypeOK, escrowVars, ownerVars

LEMMA AdvanceMoney ==
  ASSUME MoneyInv, SaleInv, SaleInv', NEW u \in User, NEW i \in DOMAIN blockHashes,
         NEW t \in TransactionsIn(i), AdvanceWithdrawal(u, i, t)
  PROVE  MoneyInv'
<1> DEFINE fee == advancedWithdrawals[t].advanceFee
<1>1. /\ t \in Withdrawing /\ ~advancedWithdrawals[t].isWithdrawn
      /\ advancedWithdrawals' =
           [advancedWithdrawals EXCEPT ![t].currentOwner = u, ![t].advanceFee = 0]
      /\ ether' = ether - fee
      /\ pendingWithdrawalsFees' = [pendingWithdrawalsFees EXCEPT ![u] = @ + fee]
      /\ tokens[t.token][u] >= t.value
      /\ tokens' = [tokens EXCEPT ![t.token] = Moved(@, u, CurrentOwner(t), t.value)]
      /\ UNCHANGED <<escrowVars, ownerVars>>
  BY BlockTransactions DEF AdvanceWithdrawal, Sold, SaleInv, Withdrawing
<1>2. /\ \A s \in Withdrawing :
           /\ advancedWithdrawals'[s].isWithdrawn = advancedWithdrawals[s].isWithdrawn
           /\ s # t => advancedWithdrawals'[s].advanceFee = advancedWithdrawals[s].advanceFee
      /\ advancedWithdrawals'[t].advanceFee = 0
  BY <1>1 DEF SaleInv, SaleTypeOK
<1>3. t \in OnOffer /\ ether \in Nat /\ SaleTypeOK /\ SaleTypeOK' /\ FeesBacked
  BY <1>1 DEF OnOffer, MoneyInv, MoneyTypeOK, SaleInv
<1>4. fee \in Nat /\ fee <= ether
  BY <1>3, FeeInEther
<1>5. ether' = ether - advancedWithdrawals[t].advanceFee + advancedWithdrawals'[t].advanceFee
  BY <1>1, <1>2, <1>3, <1>4
<1>6. FeesBacked'
  BY <1>2, <1>3, <1>5, FeeChange
<1>7. ether' \in Nat /\ pendingWithdrawalsFees' \in [User -> Nat]
  <2> HIDE DEF fee
  <2>1. QED BY <1>1, <1>3, <1>4, PaidFeeTypes DEF MoneyInv, MoneyTypeOK
<1>8. tokens' \in [Token -> [Holder -> Nat]]
  <2>1. /\ t.token \in Token /\ t.value \in Nat
        /\ u \in Holder /\ CurrentOwner(t) \in Holder
    BY <1>1, <1>3, WithdrawalTypes, TransactionAssumption DEF Withdrawing, Holder
  <2>2. QED BY <1>1, <2>1, MovedTypes DEF MoneyInv, MoneyTypeOK
<1>9. QED BY <1>1, <1>6, <1>7, <1>8 DEF MoneyInv, MoneyTypeOK, escrowVars, ownerVars

LEMMA FinaliseMoney ==
  ASSUME MoneyInv, SaleInv, NEW i \in DOMAIN blockHashes,
         NEW t \in TransactionsIn(i), FinaliseWithdrawal(i, t)
  PROVE  MoneyInv'
<1> DEFINE fee == advancedWithdrawals[t].advanceFee
<1>1. /\ t \in Withdrawing /\ ~advancedWithdrawals[t].isWithdrawn
      /\ advancedWithdrawals' = [advancedWithdrawals EXCEPT ![t].isWithdrawn = TRUE]
      /\ ether' = ether - fee
      /\ pendingWithdrawalsFees' =
           [pendingWithdrawalsFees EXCEPT ![CurrentOwner(t)] = @ + fee]
      /\ tokens[t.token][Shield] >= t.value
      /\ tokens' = [tokens EXCEPT ![t.token] = Moved(@, Shield, CurrentOwner(t), t.value)]
      /\ UNCHANGED <<escrowVars, ownerVars>>
  BY BlockTransactions DEF FinaliseWithdrawal, IsWithdrawn, SaleInv, Withdrawing
<1>2. /\ \A s \in Withdrawing :
           /\ advancedWithdrawals'[s].advanceFee = advancedWithdrawals[s].advanceFee
           /\ s # t => advancedWithdrawals'[s].isWithdrawn = advancedWithdrawals[s].isWithdrawn
      /\ advancedWithdrawals'[t].isWithdrawn
  BY <1>1 DEF SaleInv, SaleTypeOK
<1>3. /\ t \in OnOffer /\ OnOffer' = OnOffer \ {t}
      /\ ether \in Nat /\ SaleTypeOK /\ FeesBacked
  BY <1>1, <1>2 DEF OnOffer, MoneyInv, MoneyTypeOK, SaleInv
<1>4. fee \in Nat /\ fee <= ether
  BY <1>3, FeeInEther
<1>5. FeesBacked'
  BY <1>1, <1>2, <1>3, FeePaid
<1>6. CurrentOwner(t) \in User
  BY <1>1, <1>3, WithdrawalTypes
<1>7. ether' \in Nat /\ pendingWithdrawalsFees' \in [User -> Nat]
  <2> HIDE DEF fee
  <2>1. QED BY <1>1, <1>3, <1>4, <1>6, PaidFeeTypes DEF MoneyInv, MoneyTypeOK
<1>8. tokens' \in [Token -> [Holder -> Nat]]
  <2>1. /\ t.token \in Token /\ t.value \in Nat
        /\ Shield \in Holder /\ CurrentOwner(t) \in Holder
    BY <1>1, <1>6, TransactionAssumption DEF Withdrawing, Holder
  <2>2. QED BY <1>1, <2>1, MovedTypes DEF MoneyInv, MoneyTypeOK
<1>9. QED BY <1>1, <1>5, <1>7, <1>8 DEF MoneyInv, MoneyTypeOK, escrowVars, ownerVars

-----------------------------------------------------------------------------
(***************************************************************************)
(* What notes are worth, and what a set of transactions does to it.        *)
(***************************************************************************)
LEMMA WorthTypes ==
  ASSUME NEW token \in Token, NEW A \in SUBSET Note
  PROVE  /\ Worth(token, A) \in Nat
         /\ IsFiniteSet({n \in A : n.token = token})
         /\ \A n \in {m \in A : m.token = token} : Value[n] \in Nat
<1>1. {n \in A : n.token = token} \in SUBSET Note
  OBVIOUS
<1>2. IsFiniteSet({n \in A : n.token = token})
  BY <1>1, NoteAssumption, FS_Subset
<1>3. \A n \in {m \in A : m.token = token} : Value[n] \in Nat
  BY NoteAssumption DEF Value
<1>4. QED BY <1>2, <1>3, SumNat DEF Worth

LEMMA WorthUnion ==
  ASSUME NEW token \in Token, NEW A \in SUBSET Note, NEW B \in SUBSET Note, A \cap B = {}
  PROVE  Worth(token, A \cup B) = Worth(token, A) + Worth(token, B)
<1> DEFINE Of(C) == {n \in C : n.token = token}
<1>1. /\ IsFiniteSet(Of(A)) /\ IsFiniteSet(Of(B)) /\ Of(A) \cap Of(B) = {}
      /\ \A n \in Of(A) \cup Of(B) : Value[n] \in Int
      /\ Of(A \cup B) = Of(A) \cup Of(B)
  <2>1. IsFiniteSet(Of(A)) /\ \A n \in Of(A) : Value[n] \in Nat
    BY WorthTypes
  <2>2. IsFiniteSet(Of(B)) /\ \A n \in Of(B) : Value[n] \in Nat
    BY WorthTypes
  <2>3. QED BY <2>1, <2>2
<1>2. SumFunctionOnSet(Value, Of(A) \cup Of(B))
        = SumFunctionOnSet(Value, Of(A)) + SumFunctionOnSet(Value, Of(B))
  <2> HIDE DEF Of
  <2>1. QED BY <1>1, SumUnion
<1>3. QED BY <1>1, <1>2 DEF Worth

LEMMA WorthPart ==
  ASSUME NEW token \in Token, NEW A \in SUBSET Note, NEW B \in SUBSET A
  PROVE  Worth(token, A) = Worth(token, B) + Worth(token, A \ B)
<1>1. A = B \cup (A \ B) /\ B \in SUBSET Note /\ A \ B \in SUBSET Note /\ B \cap (A \ B) = {}
  OBVIOUS
<1>2. QED BY <1>1, WorthUnion

LEMMA WorthEmpty ==
  ASSUME NEW token \in Token
  PROVE  Worth(token, {}) = 0
<1>1. {n \in {} : n.token = token} = {}
  OBVIOUS
<1>2. QED BY <1>1, SumEmpty DEF Worth

CommitmentsOf(U) == UNION {t.commitments : t \in U}
NullifiersOf(U)  == UNION {t.nullifiers : t \in U}

DepositsOf(token, U)    == {t \in U : IsEscrowRequired(t) /\ t.token = token}
WithdrawalsOf(token, U) == {t \in U : IsWithdrawing(t) /\ t.token = token}

PaidIn(token, U)  == SumFunctionOnSet(Amount, DepositsOf(token, U))
PaidOut(token, U) == SumFunctionOnSet(Amount, WithdrawalsOf(token, U))

LEMMA AmountTypes ==
  ASSUME NEW U \in SUBSET Transaction
  PROVE  /\ IsFiniteSet(U)
         /\ \A t \in U : Amount[t] \in Nat /\ Amount[t] = t.value
         /\ SumFunctionOnSet(Amount, U) \in Nat
<1>1. IsFiniteSet(U)
  BY FinitenessAssumption, FS_Subset
<1>2. \A t \in U : Amount[t] \in Nat /\ Amount[t] = t.value
  BY TransactionAssumption DEF Amount
<1>3. QED BY <1>1, <1>2, SumNat

LEMMA TransactionNotes ==
  ASSUME NEW t \in Transaction
  PROVE  t.nullifiers \in SUBSET Note /\ t.commitments \in SUBSET Note
BY TransactionAssumption

(* One transaction more.                                                   *)
LEMMA PaidWithOneMore ==
  ASSUME NEW token \in Token, NEW U \in SUBSET Transaction, NEW x \in U
  PROVE  /\ PaidIn(token, U) = PaidIn(token, U \ {x})
               + (IF IsEscrowRequired(x) /\ x.token = token THEN x.value ELSE 0)
         /\ PaidOut(token, U) = PaidOut(token, U \ {x})
               + (IF IsWithdrawing(x) /\ x.token = token THEN x.value ELSE 0)
<1> DEFINE W == U \ {x}
<1>1. ASSUME NEW A \in SUBSET Transaction, x \in A
      PROVE  SumFunctionOnSet(Amount, A) = SumFunctionOnSet(Amount, A \ {x}) + x.value
  <2>1. /\ IsFiniteSet(A) /\ \A t \in A : Amount[t] \in Int
        /\ Amount[x] = x.value /\ Amount[x] \in Nat
        /\ SumFunctionOnSet(Amount, A \ {x}) \in Nat
    BY <1>1, AmountTypes
  <2>2. SumFunctionOnSet(Amount, A) = Amount[x] + SumFunctionOnSet(Amount, A \ {x})
    BY <1>1, <2>1, SumRemove
  <2>3. QED BY <2>1, <2>2
<1>2. /\ DepositsOf(token, U) \in SUBSET Transaction
      /\ DepositsOf(token, W) = DepositsOf(token, U) \ {x}
      /\ x \in DepositsOf(token, U) <=> IsEscrowRequired(x) /\ x.token = token
  BY DEF DepositsOf
<1>3. /\ WithdrawalsOf(token, U) \in SUBSET Transaction
      /\ WithdrawalsOf(token, W) = WithdrawalsOf(token, U) \ {x}
      /\ x \in WithdrawalsOf(token, U) <=> IsWithdrawing(x) /\ x.token = token
  BY DEF WithdrawalsOf
<1>4. /\ SumFunctionOnSet(Amount, DepositsOf(token, U)) \in Nat
      /\ SumFunctionOnSet(Amount, WithdrawalsOf(token, U)) \in Nat
  BY <1>2, <1>3, AmountTypes
<1>6. /\ PaidIn(token, U) = PaidIn(token, W)
           + (IF IsEscrowRequired(x) /\ x.token = token THEN x.value ELSE 0)
  <2>1. CASE x \in DepositsOf(token, U)
    BY <1>1, <1>2, <2>1 DEF PaidIn
  <2>2. CASE x \notin DepositsOf(token, U)
    <3>1. DepositsOf(token, W) = DepositsOf(token, U)
      BY <1>2, <2>2
    <3>2. QED BY <1>2, <1>4, <2>2, <3>1 DEF PaidIn
  <2>3. QED BY <2>1, <2>2
<1>7. /\ PaidOut(token, U) = PaidOut(token, W)
           + (IF IsWithdrawing(x) /\ x.token = token THEN x.value ELSE 0)
  <2>1. CASE x \in WithdrawalsOf(token, U)
    BY <1>1, <1>3, <2>1 DEF PaidOut
  <2>2. CASE x \notin WithdrawalsOf(token, U)
    <3>1. WithdrawalsOf(token, W) = WithdrawalsOf(token, U)
      BY <1>3, <2>2
    <3>2. QED BY <1>3, <1>4, <2>2, <3>1 DEF PaidOut
  <2>3. QED BY <2>1, <2>2
<1>8. QED BY <1>6, <1>7

(* No note is made or spent by two of the transactions.                    *)
Apart(U) == \A s, t \in U : s # t => /\ s.commitments \cap t.commitments = {}
                                     /\ s.nullifiers \cap t.nullifiers = {}

(* The layer 2 fees of a set of transactions, all of them in FeeToken.     *)
FeeOf == [t \in Transaction |-> t.fee]
FeesFor(token, U) == IF token = FeeToken THEN SumFunctionOnSet(FeeOf, U) ELSE 0

LEMMA FeesForTypes ==
  ASSUME NEW token \in Token, NEW U \in SUBSET Transaction
  PROVE  /\ IsFiniteSet(U)
         /\ \A t \in U : FeeOf[t] \in Nat /\ FeeOf[t] = t.fee
         /\ SumFunctionOnSet(FeeOf, U) \in Nat
         /\ FeesFor(token, U) \in Nat
<1>1. IsFiniteSet(U)
  BY FinitenessAssumption, FS_Subset
<1>2. \A t \in U : FeeOf[t] \in Nat /\ FeeOf[t] = t.fee
  BY TransactionAssumption DEF FeeOf
<1>3. SumFunctionOnSet(FeeOf, U) \in Nat
  BY <1>1, <1>2, SumNat
<1>4. QED BY <1>1, <1>2, <1>3 DEF FeesFor

LEMMA FeesWithOneMore ==
  ASSUME NEW token \in Token, NEW U \in SUBSET Transaction, NEW x \in U
  PROVE  FeesFor(token, U) = FeesFor(token, U \ {x}) + (IF token = FeeToken THEN x.fee ELSE 0)
<1>1. U \ {x} \in SUBSET Transaction
  OBVIOUS
<1>2. /\ IsFiniteSet(U) /\ \A t \in U : FeeOf[t] \in Int
      /\ FeeOf[x] = x.fee /\ x.fee \in Nat
  BY FeesForTypes
<1>3. SumFunctionOnSet(FeeOf, U) = FeeOf[x] + SumFunctionOnSet(FeeOf, U \ {x})
  BY <1>2, SumRemove
<1>4. SumFunctionOnSet(FeeOf, U \ {x}) \in Nat
  BY <1>1, FeesForTypes
<1>5. QED BY <1>2, <1>3, <1>4 DEF FeesFor

(***************************************************************************)
(* The circuits add up values of the transaction's token and of the fee    *)
(* token alike (nullifiersSum === commitmentsSum + fee + value).  That     *)
(* each token adds up on its own, nobody checks on chain.                  *)
(***************************************************************************)
Balanced(t, token) ==
  (IF IsEscrowRequired(t) /\ t.token = token THEN t.value ELSE 0) + Worth(token, t.nullifiers)
    = (IF IsWithdrawing(t) /\ t.token = token THEN t.value ELSE 0)
      + (IF token = FeeToken THEN t.fee ELSE 0) + Worth(token, t.commitments)

TokenByToken ==
  \A t \in Transaction : Proven(t) => \A token \in Token : Balanced(t, token)

(* What a block does to the notes is what comes in and what goes out.      *)
LEMMA Conserved ==
  ASSUME NEW token \in Token, NEW S \in SUBSET Transaction, Apart(S),
         \A t \in S : Balanced(t, token)
  PROVE  PaidIn(token, S) + Worth(token, NullifiersOf(S))
           = PaidOut(token, S) + FeesFor(token, S) + Worth(token, CommitmentsOf(S))
<1> DEFINE Claim(U) == PaidIn(token, U) + Worth(token, NullifiersOf(U))
                         = PaidOut(token, U) + FeesFor(token, U) + Worth(token, CommitmentsOf(U))
           P == {U \in SUBSET S : Claim(U)}
<1>1. \A U \in SUBSET S : /\ CommitmentsOf(U) \in SUBSET Note
                          /\ NullifiersOf(U) \in SUBSET Note
                          /\ PaidIn(token, U) \in Nat /\ PaidOut(token, U) \in Nat
                          /\ FeesFor(token, U) \in Nat
                          /\ Worth(token, CommitmentsOf(U)) \in Nat
                          /\ Worth(token, NullifiersOf(U)) \in Nat
  <2>1. ASSUME NEW U \in SUBSET S
        PROVE  CommitmentsOf(U) \in SUBSET Note /\ NullifiersOf(U) \in SUBSET Note
    BY TransactionAssumption DEF CommitmentsOf, NullifiersOf
  <2>2. ASSUME NEW U \in SUBSET S
        PROVE  PaidIn(token, U) \in Nat /\ PaidOut(token, U) \in Nat
    <3>1. /\ DepositsOf(token, U) \in SUBSET Transaction
          /\ WithdrawalsOf(token, U) \in SUBSET Transaction
      BY DEF DepositsOf, WithdrawalsOf
    <3>2. QED BY <3>1, AmountTypes DEF PaidIn, PaidOut
  <2>3. ASSUME NEW U \in SUBSET S
        PROVE  FeesFor(token, U) \in Nat
    <3>1. U \in SUBSET Transaction
      OBVIOUS
    <3>2. QED BY <3>1, FeesForTypes
  <2>4. QED BY <2>1, <2>2, <2>3, WorthTypes
<1>2. {} \in P
  <2>1. /\ CommitmentsOf({}) = {} /\ NullifiersOf({}) = {}
        /\ DepositsOf(token, {}) = {} /\ WithdrawalsOf(token, {}) = {}
    BY DEF CommitmentsOf, NullifiersOf, DepositsOf, WithdrawalsOf
  <2>2. Claim({})
    BY <2>1, SumEmpty, WorthEmpty DEF PaidIn, PaidOut, FeesFor
  <2>3. QED BY <2>2
<1>3. ASSUME NEW U \in SUBSET S, U # {}, \A x \in U : (U \ {x}) \in P
      PROVE  U \in P
  <2>1. PICK x \in U : TRUE
    BY <1>3
  <2> DEFINE W == U \ {x}
             in  == IF IsEscrowRequired(x) /\ x.token = token THEN x.value ELSE 0
             out == IF IsWithdrawing(x) /\ x.token = token THEN x.value ELSE 0
             fee == IF token = FeeToken THEN x.fee ELSE 0
  <2>2. Claim(W) /\ W \in SUBSET S
    BY <1>3, <2>1
  <2>3. /\ PaidIn(token, U) = PaidIn(token, W) + in /\ PaidOut(token, U) = PaidOut(token, W) + out
        /\ FeesFor(token, U) = FeesFor(token, W) + fee
    BY PaidWithOneMore, FeesWithOneMore
  <2>4. Worth(token, NullifiersOf(U)) = Worth(token, NullifiersOf(W)) + Worth(token, x.nullifiers)
    <3>1. /\ NullifiersOf(U) = NullifiersOf(W) \cup x.nullifiers
          /\ NullifiersOf(W) \cap x.nullifiers = {}
      BY DEF NullifiersOf, Apart
    <3>2. NullifiersOf(W) \in SUBSET Note /\ x.nullifiers \in SUBSET Note
      BY <1>1, <2>2, TransactionNotes
    <3>3. Worth(token, NullifiersOf(W) \cup x.nullifiers)
            = Worth(token, NullifiersOf(W)) + Worth(token, x.nullifiers)
      <4> HIDE DEF W
      <4>1. QED BY <3>1, <3>2, WorthUnion
    <3>4. QED BY <3>1, <3>3
  <2>5. Worth(token, CommitmentsOf(U)) = Worth(token, CommitmentsOf(W)) + Worth(token, x.commitments)
    <3>1. /\ CommitmentsOf(U) = CommitmentsOf(W) \cup x.commitments
          /\ CommitmentsOf(W) \cap x.commitments = {}
      BY DEF CommitmentsOf, Apart
    <3>2. CommitmentsOf(W) \in SUBSET Note /\ x.commitments \in SUBSET Note
      BY <1>1, <2>2, TransactionNotes
    <3>3. Worth(token, CommitmentsOf(W) \cup x.commitments)
            = Worth(token, CommitmentsOf(W)) + Worth(token, x.commitments)
      <4> HIDE DEF W
      <4>1. QED BY <3>1, <3>2, WorthUnion
    <3>4. QED BY <3>1, <3>3
  <2>6. in + Worth(token, x.nullifiers) = out + fee + Worth(token, x.commitments)
    BY DEF Balanced
  <2>7. /\ in \in Nat /\ out \in Nat /\ fee \in Nat
        /\ Worth(token, x.nullifiers) \in Nat /\ Worth(token, x.commitments) \in Nat
    BY TransactionAssumption, WorthTypes
  <2>8. Claim(U)
    <3>1. /\ PaidIn(token, W) \in Nat /\ PaidOut(token, W) \in Nat
          /\ FeesFor(token, W) \in Nat
          /\ Worth(token, CommitmentsOf(W)) \in Nat
          /\ Worth(token, NullifiersOf(W)) \in Nat
      BY <1>1, <2>2
    <3> HIDE DEF W, in, out, fee
    <3>2. QED BY <2>2, <2>3, <2>4, <2>5, <2>6, <2>7, <3>1
  <2>9. QED BY <2>8
<1> HIDE DEF P
<1>4. S \in P
  <2>1. IsFiniteSet(S)  BY AmountTypes
  <2>2. QED BY <1>2, <1>3, <2>1, SubsetInduction
<1>5. QED BY <1>4 DEF P

(* A proven transaction that neither spends nor makes a note is nothing.   *)
LEMMA NothingForNothing ==
  ASSUME NEW t \in Transaction, Proven(t), t.nullifiers = {}, t.commitments = {}
  PROVE  ~IsEscrowRequired(t) /\ Out(t) = 0 /\ t.fee = 0
<1>1. ~IsEscrowRequired(t)
  BY TransactionAssumption DEF Proven
<1>2. Total({}) = 0
  BY SumEmpty DEF Total
<1>3. Out(t) \in Nat /\ t.fee \in Nat
  BY TransactionAssumption DEF Out
<1>4. 0 = Out(t) + t.fee
  BY <1>1, <1>2, <1>3 DEF Proven, In
<1>5. QED BY <1>1, <1>3, <1>4

LEMMA NothingPaid ==
  ASSUME NEW token \in Token, NEW T \in SUBSET Transaction,
         \A t \in T : Proven(t) /\ t.nullifiers = {} /\ t.commitments = {}
  PROVE  PaidOut(token, T) = 0 /\ PaidIn(token, T) = 0
<1>1. \A t \in T : ~IsEscrowRequired(t) /\ Out(t) = 0
  BY NothingForNothing
<1>2. DepositsOf(token, T) = {}
  BY <1>1 DEF DepositsOf
<1>3. \A t \in WithdrawalsOf(token, T) : Amount[t] = 0
  BY <1>1 DEF WithdrawalsOf, Out, Amount
<1>4. IsFiniteSet(WithdrawalsOf(token, T))
  BY AmountTypes DEF WithdrawalsOf
<1>5. QED BY <1>2, <1>3, <1>4, SumZero, SumEmpty DEF PaidOut, PaidIn

LEMMA PaidUnion ==
  ASSUME NEW token \in Token, NEW A \in SUBSET Transaction, NEW B \in SUBSET Transaction,
         A \cap B = {}
  PROVE  /\ PaidOut(token, A \cup B) = PaidOut(token, A) + PaidOut(token, B)
         /\ PaidIn(token, A \cup B) = PaidIn(token, A) + PaidIn(token, B)
<1>1. ASSUME NEW X \in SUBSET Transaction, NEW Y \in SUBSET Transaction, X \cap Y = {}
      PROVE  SumFunctionOnSet(Amount, X \cup Y)
               = SumFunctionOnSet(Amount, X) + SumFunctionOnSet(Amount, Y)
  <2>1. /\ IsFiniteSet(X) /\ IsFiniteSet(Y)
        /\ \A t \in X \cup Y : Amount[t] \in Int
    BY AmountTypes
  <2>2. QED BY <1>1, <2>1, SumUnion
<1>2. /\ WithdrawalsOf(token, A \cup B) = WithdrawalsOf(token, A) \cup WithdrawalsOf(token, B)
      /\ WithdrawalsOf(token, A) \cap WithdrawalsOf(token, B) = {}
      /\ WithdrawalsOf(token, A) \in SUBSET Transaction
      /\ WithdrawalsOf(token, B) \in SUBSET Transaction
  BY DEF WithdrawalsOf
<1>3. /\ DepositsOf(token, A \cup B) = DepositsOf(token, A) \cup DepositsOf(token, B)
      /\ DepositsOf(token, A) \cap DepositsOf(token, B) = {}
      /\ DepositsOf(token, A) \in SUBSET Transaction
      /\ DepositsOf(token, B) \in SUBSET Transaction
  BY DEF DepositsOf
<1>4. QED BY <1>1, <1>2, <1>3 DEF PaidOut, PaidIn

LEMMA PaidNat ==
  ASSUME NEW token \in Token, NEW A \in SUBSET Transaction
  PROVE  PaidOut(token, A) \in Nat /\ PaidIn(token, A) \in Nat
<1>1. WithdrawalsOf(token, A) \in SUBSET Transaction /\ DepositsOf(token, A) \in SUBSET Transaction
  BY DEF WithdrawalsOf, DepositsOf
<1>2. QED BY <1>1, AmountTypes DEF PaidOut, PaidIn

(***************************************************************************)
(* What the transactions O of the chain leave owing in a token, when the   *)
(* withdrawals among unpaid are due, less what their deposits brought in.  *)
(***************************************************************************)
Balance(token, O, unpaid) ==
  Worth(token, CommitmentsOf(O) \ NullifiersOf(O)) + PaidOut(token, unpaid) - PaidIn(token, O)

LEMMA BalanceTypes ==
  ASSUME NEW token \in Token, NEW O \in SUBSET Transaction, NEW U \in SUBSET Transaction
  PROVE  /\ Worth(token, CommitmentsOf(O) \ NullifiersOf(O)) \in Nat
         /\ PaidOut(token, U) \in Nat /\ PaidIn(token, O) \in Nat
         /\ Balance(token, O, U) \in Int
<1>1. CommitmentsOf(O) \ NullifiersOf(O) \in SUBSET Note
  BY TransactionNotes DEF CommitmentsOf
<1>2. Worth(token, CommitmentsOf(O) \ NullifiersOf(O)) \in Nat
  BY <1>1, WorthTypes
<1>3. QED BY <1>2, PaidNat DEF Balance

(***************************************************************************)
(* A correct block of the transactions T, after those in O, of which paid  *)
(* were withdrawn.                                                         *)
(***************************************************************************)
BlockFits(O, T, paid) ==
  /\ O \subseteq Transaction /\ T \subseteq Transaction /\ paid \subseteq O
  /\ NullifiersOf(O) \subseteq CommitmentsOf(O)
  /\ Apart(T) /\ \A t \in T : Proven(t)
  /\ NullifiersOf(T) \subseteq CommitmentsOf(O) \ NullifiersOf(O)
  /\ CommitmentsOf(T) \cap CommitmentsOf(O) = {}

(***************************************************************************)
(* Such a block turns what is owed into other notes, withdrawals and fees. *)
(***************************************************************************)
LEMMA BlockAccounts ==
  ASSUME NEW token \in Token, NEW O, NEW T, NEW paid, BlockFits(O, T, paid),
         \A t \in T : Balanced(t, token)
  PROVE  Balance(token, O \cup T, (O \cup T) \ paid) + FeesFor(token, T)
           = Balance(token, O, O \ paid)
<1> DEFINE C == CommitmentsOf(O)
           S == NullifiersOf(O)
           M == CommitmentsOf(T)
           N == NullifiersOf(T)
<1>0. /\ O \in SUBSET Transaction /\ T \in SUBSET Transaction /\ paid \subseteq O
      /\ S \subseteq C /\ Apart(T) /\ N \subseteq C \ S /\ M \cap C = {}
      /\ \A t \in T : Proven(t)
  BY DEF BlockFits
<1>1. CommitmentsOf(O \cup T) = C \cup M /\ NullifiersOf(O \cup T) = S \cup N
  BY DEF CommitmentsOf, NullifiersOf
<1>2. /\ C \in SUBSET Note /\ S \in SUBSET Note /\ M \in SUBSET Note /\ N \in SUBSET Note
  BY <1>0, TransactionNotes DEF CommitmentsOf, NullifiersOf
<1>3. PaidIn(token, T) + Worth(token, N) = PaidOut(token, T) + FeesFor(token, T) + Worth(token, M)
  BY <1>0, Conserved
<1>4. PaidOut(token, T \cap O) = 0 /\ PaidIn(token, T \cap O) = 0
  <2>1. \A t \in T \cap O : Proven(t) /\ t.nullifiers = {} /\ t.commitments = {}
    BY <1>0 DEF CommitmentsOf, NullifiersOf
  <2>2. T \cap O \in SUBSET Transaction
    BY <1>0
  <2>3. QED BY <2>1, <2>2, NothingPaid
<1>5. /\ PaidOut(token, (O \cup T) \ paid) = PaidOut(token, O \ paid) + PaidOut(token, T)
      /\ PaidIn(token, O \cup T) = PaidIn(token, O) + PaidIn(token, T)
  <2>1. /\ (O \cup T) \ paid = (O \ paid) \cup (T \ O) /\ (O \ paid) \cap (T \ O) = {}
        /\ O \cup T = O \cup (T \ O) /\ O \cap (T \ O) = {}
        /\ T = (T \ O) \cup (T \cap O) /\ (T \ O) \cap (T \cap O) = {}
        /\ O \ paid \in SUBSET Transaction /\ T \ O \in SUBSET Transaction
        /\ T \cap O \in SUBSET Transaction
    BY <1>0
  <2>2. /\ PaidOut(token, (O \cup T) \ paid) = PaidOut(token, O \ paid) + PaidOut(token, T \ O)
        /\ PaidIn(token, O \cup T) = PaidIn(token, O) + PaidIn(token, T \ O)
    BY <1>0, <2>1, PaidUnion
  <2>3. /\ PaidOut(token, T) = PaidOut(token, T \ O) + PaidOut(token, T \cap O)
        /\ PaidIn(token, T) = PaidIn(token, T \ O) + PaidIn(token, T \cap O)
    BY <2>1, PaidUnion
  <2>4. PaidOut(token, T \ O) \in Nat /\ PaidIn(token, T \ O) \in Nat
    BY <2>1, PaidNat
  <2>5. QED BY <1>4, <2>2, <2>3, <2>4
<1> HIDE DEF C, S, M, N
<1>6. Worth(token, (C \cup M) \ (S \cup N)) = Worth(token, (C \ S) \ N) + Worth(token, M)
  <2>1. /\ (C \cup M) \ (S \cup N) = ((C \ S) \ N) \cup M
        /\ ((C \ S) \ N) \cap M = {}
        /\ (C \ S) \ N \in SUBSET Note
    BY <1>0, <1>2
  <2>2. QED BY <1>2, <2>1, WorthUnion
<1>7. Worth(token, C \ S) = Worth(token, N) + Worth(token, (C \ S) \ N)
  <2>1. N \in SUBSET (C \ S) /\ C \ S \in SUBSET Note
    BY <1>0, <1>2
  <2>2. QED BY <2>1, WorthPart
<1>8. /\ Worth(token, N) \in Nat /\ Worth(token, M) \in Nat
      /\ Worth(token, (C \ S) \ N) \in Nat
  BY <1>2, WorthTypes
<1>9. /\ PaidOut(token, O \ paid) \in Nat /\ PaidOut(token, T) \in Nat
      /\ PaidIn(token, O) \in Nat /\ PaidIn(token, T) \in Nat
      /\ FeesFor(token, T) \in Nat
  BY <1>0, PaidNat, FeesForTypes
<1>10. Balance(token, O, O \ paid)
         = Worth(token, C \ S) + PaidOut(token, O \ paid) - PaidIn(token, O)
  BY DEF Balance, C, S
<1>11. Balance(token, O \cup T, (O \cup T) \ paid)
         = Worth(token, (C \cup M) \ (S \cup N)) + PaidOut(token, (O \cup T) \ paid)
             - PaidIn(token, O \cup T)
  BY <1>1 DEF Balance
<1>12. QED
  BY <1>3, <1>5, <1>6, <1>7, <1>8, <1>9, <1>10, <1>11

(***************************************************************************)
(* The fees of a correct block are those of its transactions: one that is  *)
(* in it twice is nothing, and pays none.                                  *)
(***************************************************************************)
LEMMA FeesOfSet ==
  ASSUME NEW ts \in Seq(Transaction), \A k \in DOMAIN ts : Proven(ts[k]),
         \A k, l \in DOMAIN ts : k # l =>
           /\ ts[k].nullifiers \cap ts[l].nullifiers = {}
           /\ ts[k].commitments \cap ts[l].commitments = {}
  PROVE  FeesOf(ts) = SumFunctionOnSet(FeeOf, Range(ts))
<1> DEFINE D == DOMAIN ts
           E == Range(ts)
           fees == [k \in D |-> ts[k].fee]
           sums == [e \in E |-> SumFunctionOnSet(fees, {k \in D : ts[k] = e})]
<1>1. /\ IsFiniteSet(D) /\ E \in SUBSET Transaction
      /\ \A k \in D : ts[k] \in E /\ ts[k] \in Transaction
  <2>1. D = 1..Len(ts) /\ Len(ts) \in Nat /\ \A k \in D : ts[k] \in Transaction
    OBVIOUS
  <2>2. IsFiniteSet(D)
    BY <2>1, FS_Interval
  <2>3. QED BY <2>1, <2>2 DEF Range
<1>2. IsFiniteSet(E)
  BY <1>1, FinitenessAssumption, FS_Subset
<1>3. \A k \in D : fees[k] \in Int /\ fees[k] = ts[k].fee
  BY <1>1, TransactionAssumption
<1>4. SumFunctionOnSet(sums, E) = SumFunctionOnSet(fees, D)
  <2> HIDE DEF D, E, fees
  <2>1. SumOfGroups(fees, ts, D, E) = SumFunctionOnSet(fees, D)
    BY <1>1, <1>2, <1>3, SumGrouped
  <2>2. QED BY <2>1 DEF SumOfGroups
<1>5. ASSUME NEW e \in E
      PROVE  SumFunctionOnSet(fees, {k \in D : ts[k] = e}) = e.fee
  <2> DEFINE K == {k \in D : ts[k] = e}
  <2>1. PICK k \in D : ts[k] = e
    BY DEF Range
  <2>2. IsFiniteSet(K)
    BY <1>1, FS_Subset
  <2>3. CASE K = {k}
    <3>1. fees[k] \in Int /\ fees[k] = e.fee
      BY <1>3, <2>1
    <3>2. K \ {k} = {} /\ k \in K /\ \A x \in K : fees[x] \in Int
      BY <2>1, <2>3, <1>3
    <3> HIDE DEF K
    <3>3. SumFunctionOnSet(fees, K) = fees[k] + SumFunctionOnSet(fees, K \ {k})
      BY <2>2, <3>2, SumRemove
    <3>4. SumFunctionOnSet(fees, K \ {k}) = 0
      BY <3>2, SumEmpty
    <3> HIDE DEF fees
    <3>5. SumFunctionOnSet(fees, K) = e.fee
      BY <3>1, <3>3, <3>4
    <3>6. QED BY <3>5 DEF K
  <2>4. CASE K # {k}
    <3>1. PICK l \in D : l # k /\ ts[l] = e
      BY <2>1, <2>4
    <3>2. e.nullifiers = {} /\ e.commitments = {} /\ e \in Transaction /\ Proven(e)
      BY <1>1, <2>1, <3>1
    <3>3. e.fee = 0
      BY <3>2, NothingForNothing
    <3>4. \A x \in K : fees[x] = 0
      BY <1>3, <3>3
    <3> HIDE DEF K
    <3>5. SumFunctionOnSet(fees, K) = 0
      BY <2>2, <3>4, SumZero
    <3>6. QED BY <3>3, <3>5 DEF K
  <2>5. QED BY <2>3, <2>4
<1>6. \A e \in E : sums[e] = FeeOf[e]
  BY <1>1, <1>5 DEF FeeOf
<1>7. SumFunctionOnSet(sums, E) = SumFunctionOnSet(FeeOf, E)
  <2> HIDE DEF E, sums
  <2>1. QED BY <1>2, <1>6, SumSame
<1>8. FeesOf(ts) = SumFunctionOnSet(fees, D)
  BY DEF FeesOf, SumFunction
<1>9. QED BY <1>4, <1>7, <1>8

-----------------------------------------------------------------------------
(***************************************************************************)
(* The blocks before the first bad one.                                    *)
(***************************************************************************)
Paid == {t \in Withdrawing : advancedWithdrawals[t].isWithdrawn}

LEMMA PrefixTypes ==
  ASSUME QueueTypeOK, NEW n \in 0..Len(blockHashes)
  PROVE  /\ OnChain(n) \in SUBSET Transaction
         /\ Created(n) = CommitmentsOf(OnChain(n)) /\ Created(n) \in SUBSET Note
         /\ Spent(n) = NullifiersOf(OnChain(n)) /\ Spent(n) \in SUBSET Note
<1>1. \A i \in 1..n : i \in DOMAIN blockHashes
  BY DEF QueueTypeOK
<1>2. OnChain(n) \in SUBSET Transaction
  BY <1>1, BlockTransactions DEF OnChain
<1>3. Created(n) = CommitmentsOf(OnChain(n)) /\ Spent(n) = NullifiersOf(OnChain(n))
  BY DEF Created, Spent, CommitmentsOf, NullifiersOf
<1>4. QED BY <1>2, <1>3, TransactionNotes DEF CommitmentsOf, NullifiersOf

(* A block is as correct as the transactions up to it make it.             *)
LEMMA SamePrefix ==
  ASSUME NEW n \in Nat,
         \A j \in 1..n : blockHashes'[j].transactions = blockHashes[j].transactions
  PROVE  /\ \A i \in 0..n : /\ OnChain(i)' = OnChain(i)
                            /\ Created(i)' = Created(i)
                            /\ Spent(i)' = Spent(i)
         /\ \A i \in 1..n : Correct(i)' <=> Correct(i)
<1>1. \A j \in 1..n : TransactionsIn(j)' = TransactionsIn(j)
  BY DEF TransactionsIn
<1>2. \A i \in 0..n : OnChain(i)' = OnChain(i)
  <2>1. ASSUME NEW i \in 0..n
        PROVE  OnChain(i)' = OnChain(i)
    <3>1. 1..i \subseteq 1..n
      OBVIOUS
    <3>2. QED BY <1>1, <3>1 DEF OnChain
  <2>2. QED BY <2>1
<1>3. \A i \in 0..n : Created(i)' = Created(i) /\ Spent(i)' = Spent(i)
  BY <1>2 DEF Created, Spent
<1>4. \A i \in 1..n : Correct(i)' <=> Correct(i)
  <2>1. ASSUME NEW i \in 1..n
        PROVE  Correct(i)' <=> Correct(i)
    <3>1. i - 1 \in 0..n
      OBVIOUS
    <3>2. /\ blockHashes'[i].transactions = blockHashes[i].transactions
          /\ Created(i - 1)' = Created(i - 1) /\ Spent(i - 1)' = Spent(i - 1)
      BY <1>3, <3>1
    <3>3. QED BY <3>2 DEF Correct
  <2>2. QED BY <2>1
<1>5. QED BY <1>2, <1>3, <1>4

(* The number of correct blocks is where the first bad one, if any, is.    *)
LEMMA PrefixIs ==
  ASSUME QueueTypeOK, NEW n \in 0..Len(blockHashes), \A i \in 1..n : Correct(i),
         n = Len(blockHashes) \/ ~Correct(n + 1)
  PROVE  CorrectBlocks = n
<1>1. Len(blockHashes) \in Nat /\ n \in Nat /\ n <= Len(blockHashes)
  BY DEF QueueTypeOK
<1>2. DOMAIN blockHashes = 1..Len(blockHashes)
  BY DEF QueueTypeOK
<1>3. ASSUME NEW i \in 1..Len(blockHashes), \A j \in 1..i : Correct(j)
      PROVE  i \in 1..n
  <2>1. CASE n = Len(blockHashes)
    BY <1>1, <2>1
  <2>2. CASE ~Correct(n + 1)
    <3>1. ~(n + 1 \in 1..i)
      BY <1>3, <2>2
    <3>2. QED BY <1>1, <3>1
  <2>3. QED BY <2>1, <2>2
<1>4. ASSUME NEW i \in 1..n
      PROVE  i \in 1..Len(blockHashes) /\ \A j \in 1..i : j \in 1..n
  BY <1>1
<1>5. {i \in DOMAIN blockHashes : \A j \in 1..i : Correct(j)} = 1..n
  BY <1>2, <1>3, <1>4
<1>6. Cardinality(1..n) = n
  <2>1. Cardinality(1..n) = IF 1 > n THEN 0 ELSE n - 1 + 1
    BY <1>1, FS_Interval
  <2>2. QED BY <1>1, <2>1
<1>7. QED BY <1>5, <1>6 DEF CorrectBlocks

PrefixUnique ==
  \A n \in 0..Len(blockHashes) :
    (\A i \in 1..n : Correct(i)) /\ (n = Len(blockHashes) \/ ~Correct(n + 1))
      => CorrectBlocks = n

LEMMA PrefixIsUnique == QueueTypeOK => PrefixUnique
BY PrefixIs DEF PrefixUnique

LEMMA PrefixIsUniquePrime == (QueueTypeOK => PrefixUnique)'
BY PrefixIsUnique, PTL

LEMMA PrefixIsPrime ==
  ASSUME QueueTypeOK', NEW n \in 0..Len(blockHashes'), \A i \in 1..n : Correct(i)',
         n = Len(blockHashes') \/ ~Correct(n + 1)'
  PROVE  CorrectBlocks' = n
BY PrefixIsUniquePrime DEF PrefixUnique

LEMMA PrefixExists ==
  ASSUME QueueTypeOK
  PROVE  /\ CorrectBlocks \in 0..Len(blockHashes)
         /\ \A i \in 1..CorrectBlocks : Correct(i)
         /\ CorrectBlocks = Len(blockHashes) \/ ~Correct(CorrectBlocks + 1)
<1> DEFINE bad == {i \in 1..Len(blockHashes) : ~Correct(i)}
<1>1. Len(blockHashes) \in Nat
  BY DEF QueueTypeOK
<1>2. PICK n \in 0..Len(blockHashes) :
        (\A i \in 1..n : Correct(i)) /\ (n = Len(blockHashes) \/ ~Correct(n + 1))
  <2>1. CASE bad = {}
    BY <1>1, <2>1
  <2>2. CASE bad # {}
    <3>1. PICK m \in bad : \A k \in bad : m <= k
      <4>1. bad \in SUBSET Nat
        BY <1>1
      <4> HIDE DEF bad
      <4>2. QED BY <2>2, <4>1, LeastOf
    <3>2. /\ m - 1 \in 0..Len(blockHashes) /\ (m - 1) + 1 = m /\ ~Correct(m)
          /\ \A i \in 1..m - 1 : i \in 1..Len(blockHashes) /\ i < m
      BY <1>1, <3>1
    <3>3. \A i \in 1..m - 1 : Correct(i)
      BY <1>1, <3>1, <3>2
    <3>4. QED BY <3>2, <3>3
  <2>3. QED BY <2>1, <2>2
<1>3. CorrectBlocks = n
  BY <1>2, PrefixIs
<1>4. QED BY <1>2, <1>3

LEMMA PrefixRange == QueueTypeOK => CorrectBlocks \in 0..Len(blockHashes)
BY PrefixExists

LEMMA PrefixRangePrime == (QueueTypeOK => CorrectBlocks \in 0..Len(blockHashes))'
BY PrefixRange, PTL

(* Correct blocks spend what was created before them.                      *)
LEMMA SpentWasCreated ==
  ASSUME QueueTypeOK, NEW n \in 0..Len(blockHashes), \A i \in 1..n : Correct(i)
  PROVE  Spent(n) \subseteq Created(n)
<1>1. Len(blockHashes) \in Nat
  BY DEF QueueTypeOK
<1>2. ASSUME NEW i \in 1..n, NEW t \in TransactionsIn(i)
      PROVE  t.nullifiers \subseteq Created(n)
  <2>1. PICK k \in DOMAIN blockHashes[i].transactions : t = blockHashes[i].transactions[k]
    BY DEF TransactionsIn, Range
  <2>2. t.nullifiers \subseteq Created(i - 1)
    BY <2>1 DEF Correct
  <2>3. 1..i - 1 \subseteq 1..n
    BY <1>1
  <2>4. Created(i - 1) \subseteq Created(n)
    BY <2>3 DEF Created, OnChain
  <2>5. QED BY <2>2, <2>4
<1>3. QED BY <1>2 DEF Spent, OnChain

-----------------------------------------------------------------------------
-----------------------------------------------------------------------------
(***************************************************************************)
(* The ledger: what Shield holds of each token is the balance of the       *)
(* transactions in correct blocks, the fees due to their proposers and all *)
(* that was ever paid in to mark commitments.                              *)
(***************************************************************************)
PaymentsIn(token) == [c \in Note \cup {ZERO} |-> paidIn[c][token]]
PaidFor(token) == SumFunctionOnSet(PaymentsIn(token), Note \cup {ZERO})

DueIn(token, n) == IF token = FeeToken THEN FeesDue(n) ELSE 0

Held(O, n) ==
  \A token \in Token :
    tokens[token][Shield] = Balance(token, O, O \ Paid) + DueIn(token, n) + PaidFor(token)

Ledger == Held(OnChain(CorrectBlocks), CorrectBlocks)

(* Somebody challenges every bad block in time.                            *)
FinalCorrect ==
  \A i \in DOMAIN blockHashes :
    Correct(i) \/ blockHashes[i].time + CHALLENGE_PERIOD >= now

(* Deposits are marked before a block takes them; a mark is paid for once. *)
EscrowedFirst ==
  /\ \A c \in Note \cup {ZERO} : c \notin isCommitmentEscrowed =>
       \A token \in Token : paidIn[c][token] = 0
  /\ \A i \in DOMAIN blockHashes, t \in Deposits :
       t \in TransactionsIn(i) => t.escrow \in isCommitmentEscrowed \cup {ZERO}

ChainInv == FinalCorrect /\ EscrowedFirst /\ (TokenByToken => Ledger)

LEMMA PaymentTypes ==
  ASSUME MoneyTypeOK, NEW token \in Token
  PROVE  /\ IsFiniteSet(Note \cup {ZERO})
         /\ \A c \in Note \cup {ZERO} : /\ PaymentsIn(token)[c] = paidIn[c][token]
                                        /\ PaymentsIn(token)[c] \in Nat
         /\ PaidFor(token) \in Nat
<1>1. IsFiniteSet(Note \cup {ZERO})
  BY NoteAssumption, FS_AddElement
<1>2. \A c \in Note \cup {ZERO} : /\ PaymentsIn(token)[c] = paidIn[c][token]
                                  /\ PaymentsIn(token)[c] \in Nat
  BY DEF PaymentsIn, MoneyTypeOK
<1>3. QED BY <1>1, <1>2, SumNat DEF PaidFor

(* Fees of blocks not paid yet.                                            *)
Dues(n) == [i \in 1..n |-> blockHashes[i].feesL2]

LEMMA DuesTypes ==
  ASSUME QueueTypeOK, NEW n \in 0..Len(blockHashes)
  PROVE  /\ IsFiniteSet(1..n)
         /\ \A i \in 1..n : /\ Dues(n)[i] = blockHashes[i].feesL2
                            /\ blockHashes[i].feesL2 \in Nat
         /\ FeesDue(n) = SumFunctionOnSet(Dues(n), 1..n)
         /\ FeesDue(n) \in Nat
<1>1. n \in Nat /\ IsFiniteSet(1..n)
  <2>1. n \in Nat
    BY DEF QueueTypeOK
  <2>2. QED BY <2>1, FS_Interval
<1>2. \A i \in 1..n : blockHashes[i].feesL2 \in Nat
  <2>1. \A i \in 1..n : blockHashes[i] \in BlockData
    BY DEF QueueTypeOK
  <2>2. QED BY <2>1 DEF BlockData
<1>3. \A i \in 1..n : Dues(n)[i] = blockHashes[i].feesL2
  BY DEF Dues
<1>4. FeesDue(n) = SumFunctionOnSet(Dues(n), 1..n)
  BY DEF FeesDue, Dues, SumFunction
<1>5. QED BY <1>1, <1>2, <1>3, <1>4, SumNat

DuesKnown ==
  \A n \in 0..Len(blockHashes) :
    /\ \A i \in 1..n : /\ Dues(n)[i] = blockHashes[i].feesL2
                       /\ blockHashes[i].feesL2 \in Nat
    /\ FeesDue(n) = SumFunctionOnSet(Dues(n), 1..n)
    /\ FeesDue(n) \in Nat

LEMMA DuesAreKnown == QueueTypeOK => DuesKnown
BY DuesTypes DEF DuesKnown

LEMMA DuesAreKnownPrime == (QueueTypeOK => DuesKnown)'
BY DuesAreKnown, PTL

(***************************************************************************)
(* What is left of payments for commitments, added up, is what was paid in *)
(* less the deposits in correct blocks; so the ledger says that Shield     *)
(* covers the chain.                                                       *)
(***************************************************************************)
LEMMA UnusedIs ==
  ASSUME QueueTypeOK, MoneyTypeOK, EscrowedFirst, NEW token \in Token
  PROVE  LET n == CorrectBlocks
         IN Unused(token, n) = PaidFor(token) - PaidIn(token, OnChain(n))
<1> DEFINE escrow == [t \in Transaction |-> t.escrow]
           For(c, n) == SumFunctionOnSet(Amount, DepositsFor(token, c, n))
           used(n)   == [c \in isCommitmentEscrowed |-> For(c, n)]
           left(n)   == [c \in isCommitmentEscrowed |-> Left(token, c, n)]
<1>1. PICK n, E : n = CorrectBlocks /\ E = isCommitmentEscrowed
  OBVIOUS
<1>2. /\ n \in 0..Len(blockHashes) /\ Len(blockHashes) \in Nat
      /\ \A i \in 1..n : Correct(i)
      /\ OnChain(n) \in SUBSET Transaction
  <2>1. n \in 0..Len(blockHashes) /\ \A i \in 1..n : Correct(i)
    BY <1>1, PrefixExists
  <2>2. QED BY <2>1, PrefixTypes DEF QueueTypeOK
<1>3. /\ E \in SUBSET (Note \cup {ZERO}) /\ IsFiniteSet(E)
      /\ IsFiniteSet(Note \cup {ZERO})
      /\ \A c \in Note \cup {ZERO} : /\ PaymentsIn(token)[c] = paidIn[c][token]
                                     /\ PaymentsIn(token)[c] \in Int
      /\ \A c \in (Note \cup {ZERO}) \ E : PaymentsIn(token)[c] = 0
  <2>1. E \in SUBSET (Note \cup {ZERO})
    BY <1>1 DEF MoneyTypeOK
  <2>2. QED BY <1>1, <2>1, PaymentTypes, FS_Subset DEF EscrowedFirst
<1>4. PaidFor(token) = SumFunctionOnSet(PaymentsIn(token), E)
  <2>1. /\ PaidFor(token) = SumFunctionOnSet(PaymentsIn(token), E)
                              + SumFunctionOnSet(PaymentsIn(token), (Note \cup {ZERO}) \ E)
        /\ SumFunctionOnSet(PaymentsIn(token), E) \in Int
    <3>1. PICK v, X : v = PaymentsIn(token) /\ X = Note \cup {ZERO}
      OBVIOUS
    <3>2. /\ IsFiniteSet(X) /\ E \in SUBSET X /\ \A c \in X : v[c] \in Int
          /\ PaidFor(token) = SumFunctionOnSet(v, X)
      BY <1>3, <3>1 DEF PaidFor
    <3>3. /\ SumFunctionOnSet(v, X) = SumFunctionOnSet(v, E) + SumFunctionOnSet(v, X \ E)
          /\ SumFunctionOnSet(v, E) \in Int
      <4>1. /\ IsFiniteSet(E) /\ IsFiniteSet(X \ E)
            /\ E \cap (X \ E) = {} /\ E \cup (X \ E) = X
        BY <3>2, FS_Subset
      <4>2. \A c \in E \cup (X \ E) : v[c] \in Int
        BY <3>2
      <4>3. SumFunctionOnSet(v, E \cup (X \ E))
              = SumFunctionOnSet(v, E) + SumFunctionOnSet(v, X \ E)
        BY <4>1, <4>2, SumUnion
      <4>4. SumFunctionOnSet(v, E) \in Int
        BY <4>1, <4>2, SumInt
      <4>5. QED BY <4>1, <4>3, <4>4
    <3>4. QED BY <3>1, <3>2, <3>3
  <2>2. IsFiniteSet((Note \cup {ZERO}) \ E)
    BY <1>3, FS_Subset
  <2>3. SumFunctionOnSet(PaymentsIn(token), (Note \cup {ZERO}) \ E) = 0
    BY <1>3, <2>2, SumZero
  <2>4. QED BY <2>1, <2>3
<1>5. \A t \in DepositsOf(token, OnChain(n)) :
        t \in Transaction /\ escrow[t] = t.escrow /\ t.escrow \in E
  <2>1. ASSUME NEW t \in DepositsOf(token, OnChain(n))
        PROVE  t \in Transaction /\ t.escrow \in E
    <3>1. t \in Deposits /\ t \in OnChain(n)
      BY <1>2, <2>1 DEF DepositsOf, Deposits
    <3>2. PICK i \in 1..n : t \in TransactionsIn(i)
      BY <3>1 DEF OnChain
    <3>3. i \in DOMAIN blockHashes
      BY <1>2 DEF QueueTypeOK
    <3>4. Proven(t)
      BY <1>2, <3>2 DEF Correct, TransactionsIn, Range
    <3>5. QED BY <1>1, <3>1, <3>2, <3>3, <3>4 DEF EscrowedFirst, Proven, Deposits
  <2>2. QED BY <2>1
<1>6. SumFunctionOnSet(used(n), E) = PaidIn(token, OnChain(n))
  <2> DEFINE S == DepositsOf(token, OnChain(n))
  <2>1. /\ IsFiniteSet(S) /\ S \in SUBSET Transaction
        /\ \A t \in S : Amount[t] \in Int
    <3>1. S \in SUBSET Transaction
      BY <1>2 DEF DepositsOf
    <3>2. QED BY <3>1, AmountTypes
  <2>2. \A t \in S : escrow[t] \in E
    BY <1>5
  <2>3. SumOfGroups(Amount, escrow, S, E) = SumFunctionOnSet(Amount, S)
    <3> HIDE DEF S, escrow
    <3>1. QED BY <1>3, <2>1, <2>2, SumGrouped
  <2>4. \A c \in E : {t \in S : escrow[t] = c} = DepositsFor(token, c, n)
    BY <1>2 DEF DepositsOf, DepositsFor
  <2>5. [c \in E |-> SumFunctionOnSet(Amount, {t \in S : escrow[t] = c})] = used(n)
    BY <1>1, <2>4
  <2>6. QED BY <2>3, <2>5 DEF SumOfGroups, PaidIn
<1>7. \A c \in E : /\ PaymentsIn(token)[c] \in Int /\ used(n)[c] \in Int
                   /\ left(n)[c] = PaymentsIn(token)[c] - used(n)[c]
  <2>1. ASSUME NEW c \in E
        PROVE  /\ PaymentsIn(token)[c] \in Int /\ used(n)[c] \in Int
               /\ left(n)[c] = PaymentsIn(token)[c] - used(n)[c]
    <3>1. DepositsFor(token, c, n) \in SUBSET Transaction
      BY <1>2 DEF DepositsFor
    <3>2. used(n)[c] = For(c, n) /\ For(c, n) \in Int
      BY <1>1, <3>1, AmountTypes
    <3>3. left(n)[c] = Left(token, c, n)
      BY <1>1
    <3>4. Left(token, c, n) = PaymentsIn(token)[c] - For(c, n)
      BY <1>3 DEF Left
    <3>5. QED BY <1>3, <3>2, <3>3, <3>4
  <2>2. QED BY <2>1
<1>8. Unused(token, n) = SumFunctionOnSet(left(n), E)
  BY <1>1 DEF Unused, SumFunction
<1>9. SumFunctionOnSet(left(n), E)
        = SumFunctionOnSet(PaymentsIn(token), E) - SumFunctionOnSet(used(n), E)
  <2> HIDE DEF left, used
  <2>1. QED BY <1>3, <1>7, SumDifference
<1>10. Unused(token, n) = PaidFor(token) - PaidIn(token, OnChain(n))
  <2> HIDE DEF left, used
  <2>1. QED BY <1>4, <1>6, <1>8, <1>9
<1>11. QED BY <1>1, <1>10

LEMMA OwedIs ==
  ASSUME QueueTypeOK, NEW token \in Token, NEW n \in 0..Len(blockHashes)
  PROVE  Owed(token, n) = Balance(token, OnChain(n), OnChain(n) \ Paid)
                            + PaidIn(token, OnChain(n)) + DueIn(token, n)
<1>1. /\ OnChain(n) \in SUBSET Transaction /\ OnChain(n) \ Paid \in SUBSET Transaction
      /\ Created(n) = CommitmentsOf(OnChain(n)) /\ Spent(n) = NullifiersOf(OnChain(n))
  BY PrefixTypes
<1>2. {t \in OwedPayments(n) : t.token = token} = WithdrawalsOf(token, OnChain(n) \ Paid)
  BY <1>1 DEF OwedPayments, WithdrawalsOf, Paid, Withdrawing
<1>3. Owed(token, n) = Worth(token, CommitmentsOf(OnChain(n)) \ NullifiersOf(OnChain(n)))
                         + PaidOut(token, OnChain(n) \ Paid) + DueIn(token, n)
  BY <1>1, <1>2 DEF Owed, PaidOut, DueIn
<1>4. /\ Worth(token, CommitmentsOf(OnChain(n)) \ NullifiersOf(OnChain(n))) \in Nat
      /\ PaidOut(token, OnChain(n) \ Paid) \in Nat /\ PaidIn(token, OnChain(n)) \in Nat
      /\ DueIn(token, n) \in Nat
  BY <1>1, BalanceTypes, DuesTypes DEF DueIn
<1>5. QED BY <1>3, <1>4 DEF Balance

LEMMA LedgerCovers ==
  ASSUME QueueTypeOK, MoneyTypeOK, EscrowedFirst, Ledger
  PROVE  ShieldCoversChain
<1> SUFFICES ASSUME NEW token \in Token
             PROVE  tokens[token][Shield]
                      = Owed(token, CorrectBlocks) + Unused(token, CorrectBlocks)
  BY DEF ShieldCoversChain
<1>1. PICK n : n = CorrectBlocks
  OBVIOUS
<1>2. /\ n \in 0..Len(blockHashes) /\ OnChain(n) \in SUBSET Transaction
      /\ OnChain(n) \ Paid \in SUBSET Transaction
  BY <1>1, PrefixExists, PrefixTypes
<1>3. Unused(token, n) = PaidFor(token) - PaidIn(token, OnChain(n))
  BY <1>1, UnusedIs
<1>4. Owed(token, n) = Balance(token, OnChain(n), OnChain(n) \ Paid)
                         + PaidIn(token, OnChain(n)) + DueIn(token, n)
  BY <1>2, OwedIs
<1>5. tokens[token][Shield] = Balance(token, OnChain(n), OnChain(n) \ Paid)
                                + DueIn(token, n) + PaidFor(token)
  BY <1>1 DEF Ledger, Held
<1>6. /\ Balance(token, OnChain(n), OnChain(n) \ Paid) \in Int
      /\ PaidIn(token, OnChain(n)) \in Nat /\ DueIn(token, n) \in Nat /\ PaidFor(token) \in Nat
  BY <1>2, BalanceTypes, DuesTypes, PaymentTypes DEF DueIn
<1>7. QED BY <1>1, <1>3, <1>4, <1>5, <1>6

(* A step after which Shield holds and owes as much as before.             *)
LEMMA SameLedger ==
  ASSUME QueueTypeOK, QueueTypeOK', Ledger, CorrectBlocks' = CorrectBlocks,
         \A j \in 1..CorrectBlocks : blockHashes'[j] = blockHashes[j],
         Paid' = Paid, paidIn' = paidIn,
         \A token \in Token : tokens'[token][Shield] = tokens[token][Shield]
  PROVE  Ledger'
<1>1. PICK n : n = CorrectBlocks
  OBVIOUS
<1>2. /\ n \in Nat /\ n \in 0..n /\ CorrectBlocks' = n
      /\ \A j \in 1..n : blockHashes'[j] = blockHashes[j]
  <2>1. n \in Nat
    BY <1>1, PrefixExists DEF QueueTypeOK
  <2>2. QED BY <1>1, <2>1
<1>3. PICK O : O = OnChain(n) /\ OnChain(n)' = O
  BY <1>2, SamePrefix
<1>4. FeesDue(n)' = FeesDue(n)
  BY <1>2 DEF FeesDue
<1>5. Held(O, n)
  BY <1>1, <1>3 DEF Ledger
<1>6. Held(O, n)'
  BY <1>4, <1>5 DEF Held, DueIn, PaidFor, PaymentsIn, Balance, CommitmentsOf,
                    NullifiersOf, PaidOut, PaidIn, Worth, WithdrawalsOf, DepositsOf
<1>7. QED BY <1>2, <1>3, <1>6 DEF Ledger, Held

(* Tokens that move to Shield, from Shield, past Shield.                   *)
LEMMA ShieldGets ==
  ASSUME tokens \in [Token -> [Holder -> Nat]], NEW token \in Token,
         NEW from \in Holder, from # Shield, NEW value \in Nat,
         tokens' = [tokens EXCEPT ![token] = Moved(@, from, Shield, value)]
  PROVE  /\ tokens'[token][Shield] = tokens[token][Shield] + value
         /\ \A s \in Token \ {token} : tokens'[s] = tokens[s]
<1> DEFINE paid == [tokens[token] EXCEPT ![from] = @ - value]
           got  == [paid EXCEPT ![Shield] = @ + value]
<1>1. tokens[token] \in [Holder -> Nat] /\ Shield \in Holder
  BY DEF Holder
<1>2. paid \in [Holder -> Int] /\ paid[Shield] = tokens[token][Shield]
  BY <1>1
<1>3. got[Shield] = tokens[token][Shield] + value
  <2> HIDE DEF paid
  <2>1. QED BY <1>1, <1>2
<1>4. tokens' = [tokens EXCEPT ![token] = got]
  BY DEF Moved
<1> HIDE DEF got
<1>5. QED BY <1>3, <1>4

LEMMA ShieldPays ==
  ASSUME tokens \in [Token -> [Holder -> Nat]], NEW token \in Token,
         NEW to \in Holder, to # Shield, NEW value \in Nat,
         tokens' = [tokens EXCEPT ![token] = Moved(@, Shield, to, value)]
  PROVE  /\ tokens'[token][Shield] = tokens[token][Shield] - value
         /\ \A s \in Token \ {token} : tokens'[s] = tokens[s]
<1> DEFINE paid == [tokens[token] EXCEPT ![Shield] = @ - value]
           got  == [paid EXCEPT ![to] = @ + value]
<1>1. tokens[token] \in [Holder -> Nat] /\ Shield \in Holder
  BY DEF Holder
<1>2. paid \in [Holder -> Int] /\ paid[Shield] = tokens[token][Shield] - value
  BY <1>1
<1>3. got[Shield] = tokens[token][Shield] - value
  <2> HIDE DEF paid
  <2>1. QED BY <1>1, <1>2
<1>4. tokens' = [tokens EXCEPT ![token] = got]
  BY DEF Moved
<1> HIDE DEF got
<1>5. QED BY <1>3, <1>4

LEMMA ShieldAside ==
  ASSUME tokens \in [Token -> [Holder -> Nat]], NEW token \in Token,
         NEW from \in Holder, from # Shield, NEW to \in Holder, to # Shield, NEW value \in Nat,
         tokens' = [tokens EXCEPT ![token] = Moved(@, from, to, value)]
  PROVE  \A s \in Token : tokens'[s][Shield] = tokens[s][Shield]
<1> DEFINE paid == [tokens[token] EXCEPT ![from] = @ - value]
           got  == [paid EXCEPT ![to] = @ + value]
<1>1. tokens[token] \in [Holder -> Nat] /\ Shield \in Holder
  BY DEF Holder
<1>2. paid \in [Holder -> Int] /\ paid[Shield] = tokens[token][Shield]
  BY <1>1
<1>3. got[Shield] = tokens[token][Shield]
  <2> HIDE DEF paid
  <2>1. QED BY <1>1, <1>2
<1>4. tokens' = [tokens EXCEPT ![token] = got]
  BY DEF Moved
<1> HIDE DEF got
<1>5. QED BY <1>3, <1>4

(* A deposit is paid in: Shield has its value more, for its commitment.    *)
LEMMA SubmitLedger ==
  ASSUME QueueTypeOK, MoneyTypeOK, Ledger,
         NEW u \in User, NEW t \in Deposits, SubmitTransaction(u, t)
  PROVE  Ledger'
<1>1. PICK n, O : n = CorrectBlocks /\ O = OnChain(n)
  OBVIOUS
<1>2. /\ UNCHANGED <<blockHashes, advancedWithdrawals>>
      /\ paidIn' = [paidIn EXCEPT ![t.escrow][t.token] = @ + t.value]
      /\ tokens' = [tokens EXCEPT ![t.token] = Moved(@, u, Shield, t.value)]
  BY DEF SubmitTransaction, marketVars
<1>3. CorrectBlocks' = n /\ OnChain(n)' = O /\ Paid' = Paid /\ FeesDue(n)' = FeesDue(n)
  BY <1>1, <1>2 DEF OnChain, CorrectBlocks, Correct, Created, Spent, TransactionsIn, Paid, FeesDue
<1>4. /\ n \in 0..Len(blockHashes) /\ O \in SUBSET Transaction /\ O \ Paid \in SUBSET Transaction
      /\ t.value \in Nat /\ t.token \in Token /\ t.escrow \in Note \cup {ZERO}
  BY <1>1, PrefixExists, PrefixTypes, TransactionAssumption DEF Deposits
<1>5. \A s \in Token : tokens'[s][Shield] =
        tokens[s][Shield] + (IF t.token = s THEN t.value ELSE 0)
  <2>1. u \in Holder /\ Shield \in Holder /\ u # Shield
    BY InputAssumption DEF Holder
  <2>2. \A s \in Token : tokens[s][Shield] \in Nat
    BY <2>1 DEF MoneyTypeOK
  <2>3. tokens \in [Token -> [Holder -> Nat]]
    BY DEF MoneyTypeOK
  <2>4. /\ tokens'[t.token][Shield] = tokens[t.token][Shield] + t.value
        /\ \A s \in Token \ {t.token} : tokens'[s] = tokens[s]
    BY <1>2, <1>4, <2>1, <2>3, ShieldGets
  <2>5. QED BY <1>4, <2>2, <2>4
<1>6. ASSUME NEW s \in Token
      PROVE  PaidFor(s)' = PaidFor(s) + (IF t.token = s THEN t.value ELSE 0)
  <2>1. PICK X, c, v, w : X = Note \cup {ZERO} /\ c = t.escrow /\ v = PaymentsIn(s) /\ w = PaymentsIn(s)'
    OBVIOUS
  <2>2. /\ IsFiniteSet(X) /\ c \in X /\ PaidFor(s) \in Nat
        /\ \A x \in X : v[x] = paidIn[x][s] /\ v[x] \in Nat
        /\ PaidFor(s) = SumFunctionOnSet(v, X) /\ PaidFor(s)' = SumFunctionOnSet(w, X)
    BY <1>4, <2>1, PaymentTypes DEF PaidFor
  <2>3. \A x \in X : w[x] = paidIn'[x][s]
    BY <2>1 DEF PaymentsIn
  <2>4. paidIn \in [X -> [Token -> Nat]]
    BY <2>1 DEF MoneyTypeOK
  <2>5. /\ \A x \in X \ {c} : paidIn'[x][s] = paidIn[x][s]
        /\ paidIn'[c][s] = paidIn[c][s] + (IF t.token = s THEN t.value ELSE 0)
    <3>1. paidIn[c] \in [Token -> Nat]
      BY <2>2, <2>4
    <3>2. paidIn' = [paidIn EXCEPT ![c] = [paidIn[c] EXCEPT ![t.token] = @ + t.value]]
      BY <1>2, <2>1
    <3>3. paidIn'[c] = [paidIn[c] EXCEPT ![t.token] = @ + t.value]
      BY <2>2, <2>4, <3>2
    <3>4. \A x \in X \ {c} : paidIn'[x] = paidIn[x]
      BY <2>2, <2>4, <3>2
    <3>5. QED BY <1>4, <3>1, <3>3, <3>4
  <2>6. /\ \A x \in X : v[x] \in Int /\ w[x] \in Int
        /\ \A x \in X \ {c} : w[x] = v[x]
        /\ w[c] = v[c] + (IF t.token = s THEN t.value ELSE 0)
    <3>1. /\ \A x \in X \ {c} : w[x] = v[x]
          /\ w[c] = v[c] + (IF t.token = s THEN t.value ELSE 0)
      BY <2>2, <2>3, <2>5
    <3>2. w[c] \in Int
      BY <1>4, <2>2, <3>1
    <3>3. QED BY <2>2, <3>1, <3>2
  <2>7. SumFunctionOnSet(w, X) = SumFunctionOnSet(v, X) - v[c] + w[c]
    BY <2>2, <2>6, SumChange
  <2>8. QED BY <1>4, <2>2, <2>6, <2>7
<1>7. ASSUME NEW s \in Token
      PROVE  tokens'[s][Shield] = Balance(s, O, O \ Paid) + DueIn(s, n) + PaidFor(s)'
  <2>1. tokens[s][Shield] = Balance(s, O, O \ Paid) + DueIn(s, n) + PaidFor(s)
    BY <1>1 DEF Ledger, Held
  <2>2. Balance(s, O, O \ Paid) \in Int /\ DueIn(s, n) \in Nat /\ PaidFor(s) \in Nat
    BY <1>4, BalanceTypes, DuesTypes, PaymentTypes DEF DueIn
  <2>3. QED BY <1>4, <1>5, <1>6, <2>1, <2>2
<1>8. Held(O, n)'
  BY <1>3, <1>7 DEF Held, DueIn, Balance, CommitmentsOf, NullifiersOf, PaidOut, PaidIn,
                    Worth, WithdrawalsOf, DepositsOf
<1>9. QED BY <1>3, <1>8 DEF Ledger, Held

(* A final block and those before it are correct.                          *)
LEMMA FinalIsCorrect ==
  ASSUME QueueTypeOK, TimesOrdered, FinalCorrect,
         NEW i \in DOMAIN blockHashes, IsFinal(blockHashes[i])
  PROVE  i \in 1..CorrectBlocks
<1>1. /\ Len(blockHashes) \in Nat /\ i \in 1..Len(blockHashes)
      /\ now \in Nat /\ CHALLENGE_PERIOD \in Nat
  BY PeriodAssumption DEF QueueTypeOK
<1>2. PICK n \in 0..Len(blockHashes) :
        n = CorrectBlocks /\ (n = Len(blockHashes) \/ ~Correct(n + 1))
  BY PrefixExists
<1>3. SUFFICES ASSUME i > n PROVE FALSE
  <2>1. i <= n => i \in 1..n
    BY <1>1
  <2>2. i <= n \/ i > n
    BY <1>1
  <2>3. QED BY <1>2, <2>1, <2>2
<1>4. /\ n + 1 \in DOMAIN blockHashes /\ n + 1 <= i /\ ~Correct(n + 1)
  <2>1. n + 1 \in 1..Len(blockHashes) /\ n + 1 <= i /\ n # Len(blockHashes)
    BY <1>1, <1>3
  <2>2. DOMAIN blockHashes = 1..Len(blockHashes)
    BY DEF QueueTypeOK
  <2>3. QED BY <1>2, <2>1, <2>2
<1>5. blockHashes[n + 1].time + CHALLENGE_PERIOD >= now
  BY <1>4 DEF FinalCorrect
<1>6. blockHashes[n + 1].time <= blockHashes[i].time
  BY <1>4 DEF TimesOrdered
<1>7. blockHashes[n + 1].time \in Nat /\ blockHashes[i].time \in Nat
  BY <1>4, TimeTypes
<1>8. QED BY <1>1, <1>5, <1>6, <1>7 DEF IsFinal

LEMMA PaidOnChain ==
  ASSUME QueueTypeOK, TimesOrdered, FinalCorrect, PaidStayFinal
  PROVE  Paid \subseteq OnChain(CorrectBlocks)
BY FinalIsCorrect DEF PaidStayFinal, Paid, OnChain

(* A withdrawal is paid: Shield has as much less as it owes less.          *)
LEMMA FinaliseLedger ==
  ASSUME QueueTypeOK, TimesOrdered, SaleTypeOK, MoneyTypeOK, FinalCorrect, Ledger,
         NEW i \in DOMAIN blockHashes, NEW t \in TransactionsIn(i),
         FinaliseWithdrawal(i, t)
  PROVE  Ledger'
<1>1. PICK n, O, P : n = CorrectBlocks /\ O = OnChain(n) /\ P = Paid
  OBVIOUS
<1>2. /\ UNCHANGED <<blockHashes, paidIn>>
      /\ IsFinal(blockHashes[i]) /\ ~advancedWithdrawals[t].isWithdrawn
      /\ t \in Withdrawing /\ t \in Transaction /\ IsWithdrawing(t)
      /\ advancedWithdrawals' = [advancedWithdrawals EXCEPT ![t].isWithdrawn = TRUE]
      /\ tokens' = [tokens EXCEPT ![t.token] = Moved(@, Shield, CurrentOwner(t), t.value)]
  BY BlockTransactions DEF FinaliseWithdrawal, IsWithdrawn, Withdrawing, escrowVars
<1>3. /\ CorrectBlocks' = n /\ OnChain(n)' = O /\ FeesDue(n)' = FeesDue(n)
      /\ \A s \in Token : PaidFor(s)' = PaidFor(s)
      /\ Paid' = P \cup {t} /\ t \notin P
  <2>1. CorrectBlocks' = n /\ OnChain(n)' = O /\ FeesDue(n)' = FeesDue(n)
    BY <1>1, <1>2 DEF OnChain, CorrectBlocks, Correct, Created, Spent, TransactionsIn, FeesDue
  <2>2. \A s \in Withdrawing : advancedWithdrawals'[s].isWithdrawn
          <=> advancedWithdrawals[s].isWithdrawn \/ s = t
    BY <1>2 DEF SaleTypeOK
  <2>3. Paid' = P \cup {t}
    BY <1>1, <1>2, <2>2 DEF Paid
  <2>4. \A s \in Token : PaidFor(s)' = PaidFor(s)
    BY <1>2 DEF PaidFor, PaymentsIn
  <2>5. QED BY <1>1, <1>2, <2>1, <2>3, <2>4 DEF Paid
<1>4. /\ n \in 0..Len(blockHashes) /\ O \in SUBSET Transaction /\ t \in O
      /\ t.token \in Token /\ t.value \in Nat
  <2>1. t \in O
    BY <1>1, <1>2, FinalIsCorrect DEF OnChain
  <2>2. n \in 0..Len(blockHashes) /\ O \in SUBSET Transaction
    BY <1>1, PrefixExists, PrefixTypes
  <2>3. QED BY <1>2, <2>1, <2>2, TransactionAssumption
<1>5. /\ tokens'[t.token][Shield] = tokens[t.token][Shield] - t.value
      /\ \A s \in Token \ {t.token} : tokens'[s] = tokens[s]
  <2>1. CurrentOwner(t) \in Holder /\ CurrentOwner(t) # Shield
    BY <1>2, WithdrawalTypes, InputAssumption DEF Holder
  <2>2. tokens \in [Token -> [Holder -> Nat]]
    BY DEF MoneyTypeOK
  <2>3. QED BY <1>2, <1>4, <2>1, <2>2, ShieldPays
<1>6. ASSUME NEW s \in Token
      PROVE  tokens'[s][Shield] = Balance(s, O, O \ (P \cup {t})) + DueIn(s, n) + PaidFor(s)
  <2> DEFINE out == IF IsWithdrawing(t) /\ t.token = s THEN t.value ELSE 0
             V   == O \ P
  <2>1. /\ V \in SUBSET Transaction /\ t \in V /\ V \ {t} = O \ (P \cup {t})
        /\ V \ {t} \in SUBSET Transaction
    BY <1>3, <1>4
  <2>2. PaidOut(s, V) = PaidOut(s, V \ {t}) + out
    BY <2>1, PaidWithOneMore
  <2>3. /\ Worth(s, CommitmentsOf(O) \ NullifiersOf(O)) \in Nat /\ PaidIn(s, O) \in Nat
        /\ PaidOut(s, V) \in Nat /\ PaidOut(s, V \ {t}) \in Nat
        /\ DueIn(s, n) \in Nat /\ PaidFor(s) \in Nat
    <3> HIDE DEF V
    <3>1. QED BY <1>4, <2>1, BalanceTypes, DuesTypes, PaymentTypes DEF DueIn
  <2>4. out \in Nat  BY <1>4
  <2>5. /\ Balance(s, O, V) = Balance(s, O, V \ {t}) + out
        /\ Balance(s, O, V) \in Int /\ Balance(s, O, V \ {t}) \in Int
    <3> HIDE DEF V, out
    <3>2. QED BY <2>2, <2>3, <2>4 DEF Balance
  <2>6. tokens[s][Shield] = Balance(s, O, V) + DueIn(s, n) + PaidFor(s)
    BY <1>1 DEF Ledger, Held
  <2>7. tokens'[s][Shield] = tokens[s][Shield] - out /\ tokens[s][Shield] \in Nat
    BY <1>2, <1>4, <1>5 DEF MoneyTypeOK, Holder
  <2>8. tokens'[s][Shield] = Balance(s, O, V \ {t}) + DueIn(s, n) + PaidFor(s)
    <3> HIDE DEF V, out
    <3>1. QED BY <2>3, <2>4, <2>5, <2>6, <2>7
  <2>9. QED BY <2>1, <2>8
<1>7. Held(O, n)'
  BY <1>3, <1>6 DEF Held, DueIn, Balance, CommitmentsOf, NullifiersOf, PaidOut, PaidIn,
                    Worth, WithdrawalsOf, DepositsOf
<1>8. QED BY <1>3, <1>7 DEF Ledger, Held

(* The fees of a block are paid: Shield has as much less, and nothing is   *)
(* due for the block any more.                                             *)
LEMMA PaymentLedger ==
  ASSUME QueueTypeOK, QueueTypeOK', TimesOrdered, MoneyTypeOK, FinalCorrect, Ledger,
         NEW i \in DOMAIN blockHashes, RequestBlockPayment(i)
  PROVE  Ledger'
<1> DEFINE fees == blockHashes[i].feesL2
<1>1. PICK n, O : n = CorrectBlocks /\ O = OnChain(n)
  OBVIOUS
<1>2. /\ UNCHANGED <<paidIn, advancedWithdrawals>>
      /\ blockHashes' = [blockHashes EXCEPT ![i].feesL2 = 0] /\ IsFinal(blockHashes[i])
      /\ tokens' = [tokens EXCEPT ![FeeToken] = Moved(@, Shield, State, fees)]
  BY DEF RequestBlockPayment, marketVars, escrowVars
<1>3. /\ n \in 0..Len(blockHashes) /\ O \in SUBSET Transaction /\ O \ Paid \in SUBSET Transaction
      /\ i \in 1..n /\ fees \in Nat /\ FeeToken \in Token
      /\ Len(blockHashes) \in Nat /\ DOMAIN blockHashes = 1..Len(blockHashes) /\ 1..n \subseteq DOMAIN blockHashes
  <2>1. n \in 0..Len(blockHashes) /\ O \in SUBSET Transaction
    BY <1>1, PrefixExists, PrefixTypes
  <2>2. i \in 1..n
    BY <1>1, <1>2, FinalIsCorrect
  <2>3. fees \in Nat
    BY <2>1, <2>2, DuesTypes
  <2>4. Len(blockHashes) \in Nat /\ DOMAIN blockHashes = 1..Len(blockHashes)
    BY DEF QueueTypeOK
  <2>5. QED BY <2>1, <2>2, <2>3, <2>4, InputAssumption
<1>4. /\ DOMAIN blockHashes' = DOMAIN blockHashes /\ Len(blockHashes') = Len(blockHashes)
      /\ \A j \in DOMAIN blockHashes :
           blockHashes'[j].transactions = blockHashes[j].transactions
      /\ \A j \in DOMAIN blockHashes :
           blockHashes'[j].feesL2 = IF j = i THEN 0 ELSE blockHashes[j].feesL2
  <2>1. PICK b : b = [blockHashes[i] EXCEPT !.feesL2 = 0]
    OBVIOUS
  <2>2. blockHashes' = [blockHashes EXCEPT ![i] = b]
    BY <1>2, <2>1
  <2>3. blockHashes[i] \in BlockData
    BY DEF QueueTypeOK
  <2>4. b.transactions = blockHashes[i].transactions /\ b.feesL2 = 0
    BY <2>1, <2>3 DEF BlockData
  <2>5. DOMAIN blockHashes' = DOMAIN blockHashes /\ Len(blockHashes') = Len(blockHashes)
    BY <2>2 DEF QueueTypeOK
  <2>6. \A j \in DOMAIN blockHashes : blockHashes'[j] = IF j = i THEN b ELSE blockHashes[j]
    BY <2>2
  <2>7. QED BY <2>4, <2>5, <2>6
<1>5. /\ CorrectBlocks' = n /\ OnChain(n)' = O /\ Paid' = Paid
      /\ \A s \in Token : PaidFor(s)' = PaidFor(s)
  <2>1. /\ \A j \in 0..Len(blockHashes) : OnChain(j)' = OnChain(j)
        /\ \A j \in 1..Len(blockHashes) : Correct(j)' <=> Correct(j)
    BY <1>3, <1>4, SamePrefix
  <2>2. CorrectBlocks' = n
    <3>1. \A j \in 1..n : Correct(j)'
      BY <1>1, <1>3, <2>1, PrefixExists
    <3>2. n = Len(blockHashes) \/ ~Correct(n + 1)'
      <4>1. n # Len(blockHashes) => n + 1 \in 1..Len(blockHashes)
        <5>1. n \in 0..Len(blockHashes) /\ Len(blockHashes) \in Nat
          BY <1>3
        <5>2. QED BY <5>1
      <4>2. n = Len(blockHashes) \/ ~Correct(n + 1)
        BY <1>1, PrefixExists
      <4>3. QED BY <2>1, <4>1, <4>2
    <3>3. QED BY <1>3, <1>4, <3>1, <3>2, PrefixIsPrime
  <2>3. OnChain(n)' = O
    BY <1>1, <1>3, <2>1
  <2>4. QED BY <1>2, <2>2, <2>3 DEF Paid, PaidFor, PaymentsIn
<1>6. FeesDue(n)' = FeesDue(n) - fees /\ FeesDue(n) \in Nat /\ FeesDue(n)' \in Nat
  <2>1. PICK v, w : v = Dues(n) /\ w = Dues(n)'
    OBVIOUS
  <2>2. /\ IsFiniteSet(1..n) /\ \A j \in 1..n : v[j] = blockHashes[j].feesL2 /\ v[j] \in Int
        /\ FeesDue(n) = SumFunctionOnSet(v, 1..n) /\ FeesDue(n) \in Nat
    BY <1>3, <2>1, DuesTypes
  <2>3. /\ \A j \in 1..n : w[j] = blockHashes'[j].feesL2 /\ w[j] \in Int
        /\ FeesDue(n)' = SumFunctionOnSet(w, 1..n) /\ FeesDue(n)' \in Nat
    BY <1>3, <1>4, <2>1, DuesAreKnownPrime DEF DuesKnown
  <2>4. /\ \A j \in (1..n) \ {i} : w[j] = v[j]
        /\ w[i] = 0 /\ v[i] = fees
    BY <1>3, <1>4, <2>2, <2>3
  <2>5. SumFunctionOnSet(w, 1..n) = SumFunctionOnSet(v, 1..n) - v[i] + w[i]
    <3>1. PICK S : S = 1..n
      OBVIOUS
    <3>2. /\ IsFiniteSet(S) /\ i \in S
          /\ \A j \in S : v[j] \in Int /\ w[j] \in Int
          /\ \A j \in S \ {i} : w[j] = v[j]
      BY <1>3, <2>2, <2>3, <2>4, <3>1
    <3>3. SumFunctionOnSet(w, S) = SumFunctionOnSet(v, S) - v[i] + w[i]
      BY <3>2, SumChange
    <3>4. QED BY <3>1, <3>3
  <2>6. QED BY <1>3, <2>2, <2>3, <2>4, <2>5
<1>7. /\ tokens'[FeeToken][Shield] = tokens[FeeToken][Shield] - fees
      /\ \A s \in Token \ {FeeToken} : tokens'[s] = tokens[s]
  <2>1. State \in Holder /\ State # Shield
    BY DEF Holder, State, Shield
  <2>2. tokens \in [Token -> [Holder -> Nat]]
    BY DEF MoneyTypeOK
  <2>3. QED BY <1>2, <1>3, <2>1, <2>2, ShieldPays
<1>8. ASSUME NEW s \in Token
      PROVE  tokens'[s][Shield] = Balance(s, O, O \ Paid)
                 + (IF s = FeeToken THEN FeesDue(n)' ELSE 0) + PaidFor(s)
  <2>1. tokens[s][Shield] = Balance(s, O, O \ Paid) + DueIn(s, n) + PaidFor(s)
    BY <1>1 DEF Ledger, Held
  <2>2. Balance(s, O, O \ Paid) \in Int /\ PaidFor(s) \in Nat
    BY <1>3, BalanceTypes, PaymentTypes
  <2>3. CASE s = FeeToken
    <3> HIDE DEF fees
    <3>1. QED BY <1>3, <1>6, <1>7, <2>1, <2>2, <2>3 DEF DueIn
  <2>4. CASE s # FeeToken
    BY <1>7, <2>1, <2>4 DEF DueIn
  <2>5. QED BY <2>3, <2>4
<1>9. Held(O, n)'
  BY <1>5, <1>8 DEF Held, DueIn, Balance, CommitmentsOf, NullifiersOf, PaidOut, PaidIn,
                    Worth, WithdrawalsOf, DepositsOf
<1>10. QED BY <1>5, <1>9 DEF Ledger, Held

(* A bad block is cut off, with what came after it.                        *)
LEMMA ChallengeLedger ==
  ASSUME QueueTypeOK, QueueTypeOK', Ledger,
         NEW i \in DOMAIN blockHashes, ChallengeBlock(i)
  PROVE  Ledger'
<1>1. /\ blockHashes' = SubSeq(blockHashes, 1, i - 1) /\ ~Correct(i)
      /\ UNCHANGED <<paidIn, tokens, advancedWithdrawals>>
  BY DEF ChallengeBlock, marketVars, escrowVars
<1>2. i \in 1..Len(blockHashes) /\ Len(blockHashes) \in Nat
  BY DEF QueueTypeOK
<1>3. PICK n \in 0..Len(blockHashes) :
        /\ n = CorrectBlocks /\ \A j \in 1..n : Correct(j)
        /\ n = Len(blockHashes) \/ ~Correct(n + 1)
  BY PrefixExists
<1>4. n \in 0..i - 1 /\ n \in Nat
  BY <1>1, <1>2, <1>3
<1>5. Len(blockHashes') = i - 1 /\ \A j \in 1..i - 1 : blockHashes'[j] = blockHashes[j]
  BY <1>1, <1>2 DEF QueueTypeOK
<1>6. \A j \in 1..i - 1 : Correct(j)' <=> Correct(j)
  BY <1>2, <1>5, SamePrefix
<1>7. CorrectBlocks' = n
  <2>1. n \in 0..Len(blockHashes')
    BY <1>4, <1>5
  <2>2. \A j \in 1..n : Correct(j)'
    BY <1>3, <1>4, <1>6
  <2>3. n = Len(blockHashes') \/ ~Correct(n + 1)'
    <3>1. n = i - 1 \/ (n + 1 \in 1..i - 1 /\ n # Len(blockHashes))
      BY <1>2, <1>4
    <3>2. QED BY <1>3, <1>5, <1>6, <3>1
  <2>4. QED BY <2>1, <2>2, <2>3, PrefixIsPrime
<1>8. \A j \in 1..CorrectBlocks : blockHashes'[j] = blockHashes[j]
  BY <1>3, <1>4, <1>5
<1>9. QED BY <1>1, <1>3, <1>7, <1>8, SameLedger DEF Paid

(* A block is added: if it is the first bad one or comes after, nothing    *)
(* changes; if not, its accounts are as in BlockAccounts.                  *)
LEMMA ProposeLedger ==
  ASSUME TokenByToken, QueueTypeOK, QueueTypeOK', TimesOrdered, PaidStayFinal, MoneyTypeOK,
         FinalCorrect, Ledger,
         NEW transactions \in Body, ProposeBlock(transactions)
  PROVE  Ledger'
<1>1. /\ blockHashes' = Append(blockHashes, [transactions |-> transactions, time |-> now,
                                             feesL2 |-> FeesOf(transactions)])
      /\ UNCHANGED <<paidIn, tokens, advancedWithdrawals>>
  BY DEF ProposeBlock, marketVars, escrowVars
<1>2. PICK L \in Nat : L = Len(blockHashes)
  BY DEF QueueTypeOK
<1>3. /\ Len(blockHashes') = L + 1
      /\ \A j \in 1..L : blockHashes'[j] = blockHashes[j]
      /\ blockHashes'[L + 1].transactions = transactions
      /\ blockHashes'[L + 1].feesL2 = FeesOf(transactions)
  BY <1>1, <1>2 DEF QueueTypeOK
<1>4. PICK n \in 0..L :
        /\ n = CorrectBlocks /\ \A j \in 1..n : Correct(j)
        /\ n = L \/ ~Correct(n + 1)
  BY <1>2, PrefixExists
<1>5. /\ \A i \in 0..L : /\ OnChain(i)' = OnChain(i) /\ Created(i)' = Created(i)
                         /\ Spent(i)' = Spent(i)
      /\ \A i \in 1..L : Correct(i)' <=> Correct(i)
  BY <1>2, <1>3, SamePrefix
<1>6. \A j \in 1..n : Correct(j)'
  BY <1>2, <1>4, <1>5
<1>7. ASSUME ~Correct(n + 1)'
      PROVE  Ledger'
  <2>1. n \in 0..Len(blockHashes')
    BY <1>2, <1>3, <1>4
  <2>2. CorrectBlocks' = n
    BY <1>6, <1>7, <2>1, PrefixIsPrime
  <2>3. \A j \in 1..CorrectBlocks : blockHashes'[j] = blockHashes[j]
    BY <1>2, <1>3, <1>4
  <2>4. QED BY <1>1, <1>4, <2>2, <2>3, SameLedger DEF Paid
<1>8. ASSUME Correct(n + 1)'
      PROVE  Ledger'
  <2>1. n = L
    <3>1. n # L => n + 1 \in 1..L
      BY <1>2
    <3>2. QED BY <1>4, <1>5, <1>8, <3>1
  <2>2. CorrectBlocks' = L + 1
    <3>1. L + 1 \in 0..Len(blockHashes') /\ L + 1 = Len(blockHashes')
      BY <1>2, <1>3
    <3>2. \A j \in 1..L + 1 : j \in 1..L \/ j = L + 1
      BY <1>2
    <3>3. \A j \in 1..L + 1 : Correct(j)'
      BY <1>6, <1>8, <2>1, <3>2
    <3>4. QED BY <3>1, <3>3, PrefixIsPrime
  <2> DEFINE O == OnChain(L)
             T == Range(transactions)
  <2>3. L \in 0..Len(blockHashes) /\ \A j \in 1..L : Correct(j)
    BY <1>2, <1>4, <2>1
  <2>4. /\ O \in SUBSET Transaction
        /\ Created(L) = CommitmentsOf(O) /\ Spent(L) = NullifiersOf(O)
    BY <2>3, PrefixTypes
  <2>5. T \in SUBSET Transaction /\ transactions \in Seq(Transaction)
    <3>1. transactions \in Seq(Transaction)
      BY InputAssumption
    <3>2. QED BY <3>1 DEF Range
  <2>6. OnChain(L + 1)' = O \cup T
    <3>1. TransactionsIn(L + 1)' = T
      BY <1>3 DEF TransactionsIn
    <3>2. \A j \in 1..L : TransactionsIn(j)' = TransactionsIn(j)
      BY <1>3 DEF TransactionsIn
    <3>3. 1..L + 1 = (1..L) \cup {L + 1}
      BY <1>2
    <3>4. QED BY <3>1, <3>2, <3>3 DEF OnChain
  <2>7. /\ \A k \in DOMAIN transactions :
              /\ Proven(transactions[k])
              /\ transactions[k].nullifiers \subseteq Created(L) \ Spent(L)
              /\ transactions[k].commitments \cap Created(L) = {}
        /\ \A k, l \in DOMAIN transactions : k # l =>
              /\ transactions[k].nullifiers \cap transactions[l].nullifiers = {}
              /\ transactions[k].commitments \cap transactions[l].commitments = {}
    <3>1. (L + 1) - 1 = L /\ L \in 0..L
      BY <1>2
    <3>2. Created(L)' = Created(L) /\ Spent(L)' = Spent(L)
      BY <1>5, <3>1
    <3>3. Correct(L + 1)'
      BY <1>8, <2>1
    <3>4. QED BY <1>3, <3>1, <3>2, <3>3 DEF Correct
  <2>8. /\ Apart(T) /\ \A t \in T : Proven(t)
        /\ NullifiersOf(T) \subseteq CommitmentsOf(O) \ NullifiersOf(O)
        /\ CommitmentsOf(T) \cap CommitmentsOf(O) = {}
    BY <2>4, <2>7 DEF Apart, Range, NullifiersOf, CommitmentsOf
  <2>9. NullifiersOf(O) \subseteq CommitmentsOf(O)
    BY <2>3, <2>4, SpentWasCreated
  <2>10. Paid \subseteq O
    BY <1>4, <2>1, PaidOnChain
  <2>11. Held(O, L)
    BY <1>4, <2>1 DEF Ledger
  <2>12. FeesDue(L + 1)' = FeesDue(L) + SumFunctionOnSet(FeeOf, T) /\ FeesDue(L) \in Nat
    <3>1. PICK v, w, S : v = Dues(L) /\ w = Dues(L + 1)' /\ S = 1..L
      OBVIOUS
    <3>2. /\ IsFiniteSet(S) /\ \A j \in S : v[j] = blockHashes[j].feesL2 /\ v[j] \in Int
          /\ FeesDue(L) = SumFunctionOnSet(v, S) /\ FeesDue(L) \in Nat
      BY <2>3, <3>1, DuesTypes
    <3>3. /\ \A j \in 1..L + 1 : w[j] = blockHashes'[j].feesL2 /\ w[j] \in Int
          /\ FeesDue(L + 1)' = SumFunctionOnSet(w, 1..L + 1)
      <4>1. L + 1 \in 0..Len(blockHashes')
        BY <1>2, <1>3
      <4>2. QED BY <3>1, <4>1, DuesAreKnownPrime DEF DuesKnown
    <3>4. /\ 1..L + 1 = S \cup {L + 1} /\ L + 1 \notin S
          /\ \A j \in S : w[j] = v[j]
          /\ w[L + 1] = FeesOf(transactions)
      BY <1>2, <1>3, <3>1, <3>2, <3>3
    <3>5. \A j \in S \cup {L + 1} : w[j] \in Int
      BY <3>3, <3>4
    <3>6. SumFunctionOnSet(w, S \cup {L + 1}) = w[L + 1] + SumFunctionOnSet(w, S)
      BY <3>2, <3>4, <3>5, SumAdd
    <3>7. SumFunctionOnSet(w, S) = SumFunctionOnSet(v, S)
      BY <3>2, <3>4, SumSame
    <3>8. FeesOf(transactions) = SumFunctionOnSet(FeeOf, T)
      BY <2>5, <2>7, FeesOfSet
    <3>9. FeesOf(transactions) \in Nat
      BY FeesTypes
    <3>10. FeesDue(L + 1)' = SumFunctionOnSet(w, S \cup {L + 1})
      BY <3>3, <3>4
    <3>11. FeesDue(L) = SumFunctionOnSet(v, S) /\ FeesDue(L) \in Nat
      BY <3>2
    <3>12. FeesDue(L + 1)' = FeesOf(transactions) + FeesDue(L)
      BY <3>4, <3>6, <3>7, <3>10, <3>11
    <3>13. QED BY <3>8, <3>9, <3>11, <3>12
  <2>13. ASSUME NEW token \in Token
         PROVE  tokens[token][Shield]
                  = Balance(token, O \cup T, (O \cup T) \ Paid)
                    + (IF token = FeeToken THEN FeesDue(L + 1)' ELSE 0) + PaidFor(token)
    <3> DEFINE before == Balance(token, O, O \ Paid)
               after  == Balance(token, O \cup T, (O \cup T) \ Paid)
    <3>1. after + FeesFor(token, T) = before
      <4>1. PICK X, Y, paid : X = O /\ Y = T /\ paid = Paid
        OBVIOUS
      <4>2. BlockFits(X, Y, paid)
        <5> HIDE DEF O, T
        <5>1. QED BY <4>1, <2>4, <2>5, <2>8, <2>9, <2>10 DEF BlockFits
      <4>3. \A t \in Y : Balanced(t, token)
        BY <2>5, <2>8, <4>1 DEF TokenByToken
      <4>4. Balance(token, X \cup Y, (X \cup Y) \ paid) + FeesFor(token, Y)
              = Balance(token, X, X \ paid)
        BY <4>2, <4>3, BlockAccounts
      <4>5. QED BY <4>1, <4>4
    <3>2. tokens[token][Shield] = before + DueIn(token, L) + PaidFor(token)
      BY <2>11 DEF Held
    <3>3. before \in Int /\ after \in Int
      <4> HIDE DEF O, T
      <4>1. /\ O \cup T \in SUBSET Transaction /\ O \ Paid \in SUBSET Transaction
            /\ (O \cup T) \ Paid \in SUBSET Transaction
        BY <2>4, <2>5
      <4>2. QED BY <2>4, <4>1, BalanceTypes
    <3>4. PaidFor(token) \in Nat /\ SumFunctionOnSet(FeeOf, T) \in Nat
      BY <2>5, PaymentTypes, FeesForTypes
    <3> HIDE DEF before, after, O, T
    <3>5. CASE token = FeeToken
      <4>1. FeesFor(token, T) = SumFunctionOnSet(FeeOf, T) /\ DueIn(token, L) = FeesDue(L)
        BY <3>5 DEF FeesFor, DueIn
      <4>2. tokens[token][Shield] = after + FeesDue(L + 1)' + PaidFor(token)
        BY <2>12, <3>1, <3>2, <3>3, <3>4, <4>1
      <4>3. QED BY <3>5, <4>2 DEF after
    <3>6. CASE token # FeeToken
      <4>1. FeesFor(token, T) = 0 /\ DueIn(token, L) = 0
        BY <3>6 DEF FeesFor, DueIn
      <4>2. tokens[token][Shield] = after + 0 + PaidFor(token)
        BY <3>1, <3>2, <3>3, <3>4, <4>1
      <4>3. QED BY <3>6, <4>2 DEF after
    <3>7. QED BY <3>5, <3>6
  <2>14. PICK U : U = O \cup T
    OBVIOUS
  <2>15. Held(U, L + 1)'
    <3>1. Paid' = Paid /\ \A token \in Token : PaidFor(token)' = PaidFor(token)
      BY <1>1 DEF Paid, PaidFor, PaymentsIn
    <3>2. QED BY <1>1, <2>13, <2>14, <3>1 DEF Held, DueIn, Balance, CommitmentsOf, NullifiersOf,
                                              PaidOut, PaidIn, Worth, WithdrawalsOf, DepositsOf
  <2>16. OnChain(L + 1)' = U
    BY <2>6, <2>14
  <2>17. QED BY <2>2, <2>15, <2>16 DEF Ledger, Held
<1>9. QED BY <1>7, <1>8

-----------------------------------------------------------------------------
(* What holds of the chain stays when only the money changes.              *)
LEMMA ChainAlone ==
  ASSUME ChainInv, QueueTypeOK, QueueTypeOK',
         UNCHANGED <<blockHashes, isCommitmentEscrowed, paidIn>>, Paid' = Paid, now' = now,
         \A token \in Token : tokens'[token][Shield] = tokens[token][Shield]
  PROVE  ChainInv'
<1>1. CorrectBlocks' = CorrectBlocks
  BY DEF CorrectBlocks, Correct, Created, Spent, OnChain, TransactionsIn
<1>2. Ledger => Ledger'
  BY <1>1, SameLedger
<1>3. FinalCorrect'
  BY DEF ChainInv, FinalCorrect, Correct, Created, Spent, OnChain, TransactionsIn
<1>4. EscrowedFirst'
  BY DEF ChainInv, EscrowedFirst, TransactionsIn
<1>5. QED BY <1>2, <1>3, <1>4 DEF ChainInv, TokenByToken

LEMMA TickChain ==
  ASSUME ChainInv, QueueTypeOK, QueueTypeOK', Tick
  PROVE  ChainInv'
<1>1. /\ UNCHANGED <<blockHashes, isCommitmentEscrowed, paidIn, tokens, advancedWithdrawals>>
      /\ now' = now + 1
      /\ \A i \in DOMAIN blockHashes :
           Correct(i) \/ blockHashes[i].time + CHALLENGE_PERIOD >= now + 1
  BY DEF Tick, marketVars, escrowVars
<1>2. CorrectBlocks' = CorrectBlocks
  BY <1>1 DEF CorrectBlocks, Correct, Created, Spent, OnChain, TransactionsIn
<1>3. Ledger => Ledger'
  BY <1>1, <1>2, SameLedger DEF Paid
<1>4. FinalCorrect'
  <2>1. \A i : Correct(i)' <=> Correct(i)
    BY <1>1 DEF Correct, Created, Spent, OnChain, TransactionsIn
  <2>2. QED BY <1>1, <2>1 DEF FinalCorrect
<1>5. EscrowedFirst'
  BY <1>1 DEF ChainInv, EscrowedFirst, TransactionsIn
<1>6. QED BY <1>3, <1>4, <1>5 DEF ChainInv, TokenByToken

LEMMA SubmitChain ==
  ASSUME ChainInv, QueueTypeOK, MoneyTypeOK,
         NEW u \in User, NEW t \in Deposits, SubmitTransaction(u, t)
  PROVE  ChainInv'
<1>1. /\ UNCHANGED <<now, blockHashes>>
      /\ isCommitmentEscrowed' = isCommitmentEscrowed \cup {t.escrow}
      /\ paidIn' = [paidIn EXCEPT ![t.escrow][t.token] = @ + t.value]
  BY DEF SubmitTransaction
<1>2. Ledger => Ledger'
  BY SubmitLedger
<1>3. FinalCorrect'
  BY <1>1 DEF ChainInv, FinalCorrect, Correct, Created, Spent, OnChain, TransactionsIn
<1>4. EscrowedFirst'
  <2>1. \A c \in Note \cup {ZERO} : c \notin isCommitmentEscrowed' =>
          c \notin isCommitmentEscrowed /\ paidIn'[c] = paidIn[c]
    BY <1>1 DEF MoneyTypeOK
  <2>2. QED BY <1>1, <2>1 DEF ChainInv, EscrowedFirst, TransactionsIn
<1>5. QED BY <1>2, <1>3, <1>4 DEF ChainInv, TokenByToken

LEMMA PaymentChain ==
  ASSUME ChainInv, IInv, QueueTypeOK', MoneyTypeOK,
         NEW i \in DOMAIN blockHashes, RequestBlockPayment(i)
  PROVE  ChainInv'
<1>1. /\ blockHashes' = [blockHashes EXCEPT ![i].feesL2 = 0]
      /\ UNCHANGED <<now, isCommitmentEscrowed, paidIn>>
  BY DEF RequestBlockPayment, escrowVars
<1>2. /\ DOMAIN blockHashes' = DOMAIN blockHashes
      /\ \A j \in DOMAIN blockHashes :
           /\ blockHashes'[j].transactions = blockHashes[j].transactions
           /\ blockHashes'[j].time = blockHashes[j].time
  <2>1. PICK b : b = [blockHashes[i] EXCEPT !.feesL2 = 0]
    OBVIOUS
  <2>2. blockHashes' = [blockHashes EXCEPT ![i] = b]
    BY <1>1, <2>1
  <2>3. blockHashes[i] \in BlockData
    BY DEF IInv, QueueTypeOK
  <2>4. b.transactions = blockHashes[i].transactions /\ b.time = blockHashes[i].time
    BY <2>1, <2>3 DEF BlockData
  <2>5. QED BY <2>2, <2>4 DEF IInv, QueueTypeOK
<1>3. \A j \in DOMAIN blockHashes : Correct(j)' <=> Correct(j)
  <2>1. DOMAIN blockHashes = 1..Len(blockHashes) /\ Len(blockHashes) \in Nat
    BY DEF IInv, QueueTypeOK
  <2>2. QED BY <1>2, <2>1, SamePrefix
<1>4. FinalCorrect'
  BY <1>1, <1>2, <1>3 DEF ChainInv, FinalCorrect
<1>5. EscrowedFirst'
  BY <1>1, <1>2 DEF ChainInv, EscrowedFirst, TransactionsIn
<1>6. Ledger => Ledger'
  BY PaymentLedger DEF ChainInv, IInv
<1>7. QED BY <1>4, <1>5, <1>6 DEF ChainInv, TokenByToken

LEMMA ProposeChain ==
  ASSUME ChainInv, IInv, QueueTypeOK', MoneyTypeOK,
         NEW transactions \in Body, ProposeBlock(transactions)
  PROVE  ChainInv'
<1>1. /\ blockHashes' = Append(blockHashes, [transactions |-> transactions, time |-> now,
                                             feesL2 |-> FeesOf(transactions)])
      /\ UNCHANGED <<now, isCommitmentEscrowed, paidIn>>
      /\ \A k \in DOMAIN transactions :
           IsEscrowRequired(transactions[k]) => EscrowMarked(transactions[k])
  BY DEF ProposeBlock, escrowVars
<1>2. PICK L \in Nat : L = Len(blockHashes)
  BY DEF IInv, QueueTypeOK
<1>3. /\ DOMAIN blockHashes = 1..L /\ DOMAIN blockHashes' = 1..L + 1
      /\ \A j \in 1..L : blockHashes'[j] = blockHashes[j]
      /\ blockHashes'[L + 1].transactions = transactions
      /\ blockHashes'[L + 1].time = now
  BY <1>1, <1>2 DEF IInv, QueueTypeOK
<1>4. \A i \in 1..L : Correct(i)' <=> Correct(i)
  BY <1>2, <1>3, SamePrefix
<1>5. \A i \in 1..L + 1 : i \in 1..L \/ i = L + 1
  BY <1>2
<1>6. now + CHALLENGE_PERIOD >= now
  BY PeriodAssumption DEF IInv, QueueTypeOK
<1>7. FinalCorrect'
  <2>1. ASSUME NEW i \in 1..L
        PROVE  Correct(i)' \/ blockHashes'[i].time + CHALLENGE_PERIOD >= now
    BY <1>3, <1>4 DEF ChainInv, FinalCorrect
  <2>2. blockHashes'[L + 1].time + CHALLENGE_PERIOD >= now
    BY <1>3, <1>6
  <2>3. QED BY <1>1, <1>3, <1>5, <2>1, <2>2 DEF FinalCorrect
<1>8. EscrowedFirst'
  <2>1. ASSUME NEW i \in 1..L, NEW t \in Deposits, t \in TransactionsIn(i)'
        PROVE  t.escrow \in isCommitmentEscrowed \cup {ZERO}
    BY <1>3, <2>1 DEF ChainInv, EscrowedFirst, TransactionsIn
  <2>2. ASSUME NEW t \in Deposits, t \in TransactionsIn(L + 1)'
        PROVE  t.escrow \in isCommitmentEscrowed \cup {ZERO}
    BY <1>1, <1>3, <2>2 DEF Deposits, TransactionsIn, Range, EscrowMarked
  <2>3. QED BY <1>1, <1>3, <1>5, <2>1, <2>2 DEF ChainInv, EscrowedFirst
<1>9. TokenByToken /\ Ledger => Ledger'
  BY ProposeLedger DEF ChainInv, IInv
<1>10. QED BY <1>7, <1>8, <1>9 DEF ChainInv, TokenByToken

LEMMA ChallengeChain ==
  ASSUME ChainInv, QueueTypeOK, QueueTypeOK',
         NEW i \in DOMAIN blockHashes, ChallengeBlock(i)
  PROVE  ChainInv'
<1>1. /\ blockHashes' = SubSeq(blockHashes, 1, i - 1)
      /\ UNCHANGED <<now, isCommitmentEscrowed, paidIn>>
  BY DEF ChallengeBlock, escrowVars
<1>2. /\ i \in 1..Len(blockHashes) /\ Len(blockHashes) \in Nat
      /\ DOMAIN blockHashes = 1..Len(blockHashes)
  BY DEF QueueTypeOK
<1>3. /\ DOMAIN blockHashes' = 1..i - 1
      /\ \A j \in 1..i - 1 : blockHashes'[j] = blockHashes[j] /\ j \in DOMAIN blockHashes
  BY <1>1, <1>2 DEF QueueTypeOK
<1>4. \A j \in 1..i - 1 : Correct(j)' <=> Correct(j)
  BY <1>2, <1>3, SamePrefix
<1>5. FinalCorrect'
  BY <1>1, <1>3, <1>4 DEF ChainInv, FinalCorrect
<1>6. EscrowedFirst'
  BY <1>1, <1>3 DEF ChainInv, EscrowedFirst, TransactionsIn
<1>7. Ledger => Ledger'
  BY ChallengeLedger
<1>8. QED BY <1>5, <1>6, <1>7 DEF ChainInv, TokenByToken

LEMMA AdvanceChain ==
  ASSUME ChainInv, QueueTypeOK, SaleTypeOK, MoneyTypeOK, NEW u \in User,
         NEW i \in DOMAIN blockHashes, NEW t \in TransactionsIn(i), AdvanceWithdrawal(u, i, t)
  PROVE  ChainInv'
<1>1. /\ t \in Withdrawing
      /\ UNCHANGED <<now, blockHashes, isCommitmentEscrowed, paidIn>> /\ QueueTypeOK'
      /\ advancedWithdrawals' =
           [advancedWithdrawals EXCEPT ![t].currentOwner = u, ![t].advanceFee = 0]
      /\ tokens' = [tokens EXCEPT ![t.token] = Moved(@, u, CurrentOwner(t), t.value)]
  BY BlockTransactions DEF AdvanceWithdrawal, Sold, Withdrawing, QueueTypeOK, escrowVars
<1>2. Paid' = Paid
  <2>1. \A s \in Withdrawing :
          advancedWithdrawals'[s].isWithdrawn <=> advancedWithdrawals[s].isWithdrawn
    BY <1>1 DEF SaleTypeOK
  <2>2. QED BY <2>1 DEF Paid
<1>3. \A token \in Token : tokens'[token][Shield] = tokens[token][Shield]
  <2>1. /\ u \in Holder /\ u # Shield
        /\ CurrentOwner(t) \in Holder /\ CurrentOwner(t) # Shield
        /\ t.token \in Token /\ t.value \in Nat
    BY <1>1, WithdrawalTypes, InputAssumption, TransactionAssumption DEF Holder, Withdrawing
  <2>2. QED BY <1>1, <2>1, ShieldAside DEF MoneyTypeOK
<1>4. QED BY <1>1, <1>2, <1>3, ChainAlone

LEMMA SetFeeChain ==
  ASSUME ChainInv, QueueTypeOK, SaleTypeOK, NEW u \in User, NEW i \in DOMAIN blockHashes,
         NEW t \in TransactionsIn(i), NEW value \in Fee,
         SetAdvanceWithdrawalFee(u, i, t, value)
  PROVE  ChainInv'
<1>1. /\ UNCHANGED <<now, blockHashes, isCommitmentEscrowed, paidIn, tokens>> /\ QueueTypeOK'
      /\ advancedWithdrawals' = [advancedWithdrawals EXCEPT ![t].advanceFee = @ + value]
  BY DEF SetAdvanceWithdrawalFee, QueueTypeOK, escrowVars
<1>2. Paid' = Paid
  <2>1. \A s \in Withdrawing :
          advancedWithdrawals'[s].isWithdrawn <=> advancedWithdrawals[s].isWithdrawn
    BY <1>1 DEF SaleTypeOK
  <2>2. QED BY <2>1 DEF Paid
<1>3. QED BY <1>1, <1>2, ChainAlone

LEMMA FinaliseChain ==
  ASSUME ChainInv, IInv, SaleTypeOK, MoneyTypeOK,
         NEW i \in DOMAIN blockHashes, NEW t \in TransactionsIn(i), FinaliseWithdrawal(i, t)
  PROVE  ChainInv'
<1>1. UNCHANGED <<now, blockHashes, isCommitmentEscrowed, paidIn>>
  BY DEF FinaliseWithdrawal, escrowVars
<1>2. Ledger => Ledger'
  BY FinaliseLedger DEF ChainInv, IInv
<1>3. FinalCorrect'
  BY <1>1 DEF ChainInv, FinalCorrect, Correct, Created, Spent, OnChain, TransactionsIn
<1>4. EscrowedFirst'
  BY <1>1 DEF ChainInv, EscrowedFirst, TransactionsIn
<1>5. QED BY <1>2, <1>3, <1>4 DEF ChainInv, TokenByToken

-----------------------------------------------------------------------------
ShieldInv == IInv /\ SaleInv /\ MoneyInv /\ ChainInv

LEMMA InitShield ==
  ASSUME Init
  PROVE  ShieldInv
<1>1. IInv /\ SaleInv /\ MoneyInv
  BY InitInv, InitMoney
<1>2. blockHashes = <<>> /\ QueueTypeOK /\ Len(blockHashes) = 0
  BY <1>1 DEF Init, IInv
<1>3. CorrectBlocks = 0
  BY <1>2, PrefixExists
<1>4. OnChain(0) = {}
  BY DEF OnChain
<1>5. Held({}, 0)
  <2>1. ASSUME NEW token \in Token
        PROVE  tokens[token][Shield] = Balance(token, {}, {} \ Paid) + DueIn(token, 0) + PaidFor(token)
    <3>1. /\ CommitmentsOf({}) = {} /\ NullifiersOf({}) = {}
          /\ {} \ {} = {} /\ {} \ Paid = {} /\ WithdrawalsOf(token, {}) = {}
          /\ DepositsOf(token, {}) = {}
      BY DEF CommitmentsOf, NullifiersOf, WithdrawalsOf, DepositsOf
    <3>2. Worth(token, {}) = 0 /\ PaidOut(token, {}) = 0 /\ PaidIn(token, {}) = 0
      BY <3>1, WorthEmpty, SumEmpty DEF PaidOut, PaidIn
    <3>3. Balance(token, {}, {} \ Paid) = 0
      BY <3>1, <3>2 DEF Balance
    <3>4. DueIn(token, 0) = 0
      <4>1. 1..0 = {} /\ 0 \in 0..Len(blockHashes)
        BY <1>2
      <4>2. FeesDue(0) = SumFunctionOnSet(Dues(0), {})
        BY <1>2, <4>1, DuesTypes
      <4>3. QED BY <4>2, SumEmpty DEF DueIn
    <3>5. PaidFor(token) = 0
      <4>1. IsFiniteSet(Note \cup {ZERO})
        BY NoteAssumption, FS_AddElement
      <4>2. \A c \in Note \cup {ZERO} : PaymentsIn(token)[c] = 0
        BY DEF Init, PaymentsIn
      <4>3. QED BY <4>1, <4>2, SumZero DEF PaidFor
    <3>6. tokens[token][Shield] = 0
      BY InputAssumption DEF Init, Holder
    <3>7. QED BY <3>3, <3>4, <3>5, <3>6
  <2>2. QED BY <2>1 DEF Held
<1>6. Ledger
  BY <1>3, <1>4, <1>5 DEF Ledger
<1>7. FinalCorrect /\ EscrowedFirst
  BY <1>2 DEF Init, FinalCorrect, EscrowedFirst
<1>8. QED BY <1>1, <1>6, <1>7 DEF ShieldInv, ChainInv

(* Every step keeps the balances and the ledger.                           *)
LEMMA NextShield ==
  ASSUME ShieldInv, [Next]_vars
  PROVE  ShieldInv'
<1>1. /\ IInv /\ SaleInv /\ MoneyInv /\ ChainInv /\ IInv' /\ SaleInv'
      /\ QueueTypeOK /\ QueueTypeOK' /\ SaleTypeOK /\ SaleTypeOK' /\ MoneyTypeOK
  BY NextInv DEF ShieldInv, IInv, SaleInv, MoneyInv
<1>2. CASE Tick
  <2>1. MoneyInv'
    BY <1>1, <1>2, MoneyAlone DEF Tick
  <2>2. QED BY <1>1, <1>2, <2>1, TickChain DEF ShieldInv
<1>3. CASE Owner
  <2>1. UNCHANGED <<now, blockHashes, isCommitmentEscrowed, paidIn, tokens, advancedWithdrawals>>
    BY <1>3 DEF Owner, SetPaused, RestrictTokens, RemoveRestriction,
                SetRestriction, escrowVars, marketVars
  <2>2. ChainInv'
    BY <1>1, <2>1, ChainAlone DEF Paid
  <2>3. QED BY <1>1, <1>3, <2>2, OwnerMoney DEF ShieldInv
<1>4. ASSUME NEW u \in User, NEW t \in Deposits, SubmitTransaction(u, t)
      PROVE  ShieldInv'
  BY <1>1, <1>4, SubmitMoney, SubmitChain DEF ShieldInv
<1>5. ASSUME NEW transactions \in Body, ProposeBlock(transactions)
      PROVE  ShieldInv'
  <2>1. MoneyInv'
    BY <1>1, <1>5, MoneyAlone DEF ProposeBlock
  <2>2. QED BY <1>1, <1>5, <2>1, ProposeChain DEF ShieldInv
<1>6. ASSUME NEW i \in DOMAIN blockHashes, ChallengeBlock(i)
      PROVE  ShieldInv'
  <2>1. MoneyInv'
    BY <1>1, <1>6, MoneyAlone DEF ChallengeBlock
  <2>2. QED BY <1>1, <1>6, <2>1, ChallengeChain DEF ShieldInv
<1>7. ASSUME NEW i \in DOMAIN blockHashes, RequestBlockPayment(i)
      PROVE  ShieldInv'
  BY <1>1, <1>7, PaymentMoney, PaymentChain DEF ShieldInv
<1>8. ASSUME NEW u \in User, NEW i \in DOMAIN blockHashes,
             NEW t \in TransactionsIn(i), NEW value \in Fee,
             SetAdvanceWithdrawalFee(u, i, t, value)
      PROVE  ShieldInv'
  BY <1>1, <1>8, SetFeeMoney, SetFeeChain DEF ShieldInv
<1>9. ASSUME NEW u \in User, NEW i \in DOMAIN blockHashes,
             NEW t \in TransactionsIn(i), AdvanceWithdrawal(u, i, t)
      PROVE  ShieldInv'
  BY <1>1, <1>9, AdvanceMoney, AdvanceChain DEF ShieldInv
<1>10. ASSUME NEW i \in DOMAIN blockHashes, NEW t \in TransactionsIn(i),
              FinaliseWithdrawal(i, t)
       PROVE  ShieldInv'
  BY <1>1, <1>10, FinaliseMoney, FinaliseChain DEF ShieldInv
<1>11. CASE UNCHANGED vars
  <2>1. MoneyInv'
    BY <1>1, <1>11, MoneyAlone DEF vars
  <2>2. ChainInv'
    BY <1>1, <1>11, ChainAlone DEF vars, escrowVars, marketVars, Paid
  <2>3. QED BY <1>1, <2>1, <2>2 DEF ShieldInv
<1>12. QED
  BY <1>2, <1>3, <1>4, <1>5, <1>6, <1>7, <1>8, <1>9, <1>10, <1>11 DEF Next, Selling

(***************************************************************************)
(* The invariant from which the theorems below follow: the queue, the sale *)
(* of withdrawals, the fees and the ledger stay as described above.        *)
(***************************************************************************)
THEOREM ShieldInvariance == Spec => []ShieldInv
<1>1. Init => ShieldInv  BY InitShield
<1>2. ShieldInv /\ [Next]_vars => ShieldInv'  BY NextShield
<1>3. QED  BY <1>1, <1>2, PTL DEF Spec

(***************************************************************************)
(* No balance, fee or claim of Shield goes below zero, whatever deposits,  *)
(* blocks, rollbacks, sales and payments follow each other.                *)
(***************************************************************************)
THEOREM TypesKept == Spec => []TypeOK
<1>1. ShieldInv => TypeOK
  BY DEF ShieldInv, IInv, SaleInv, MoneyInv, MoneyTypeOK, TypeOK
<1>2. QED  BY <1>1, ShieldInvariance, PTL

(***************************************************************************)
(* The ether in Shield is the fees on offer.                               *)
(***************************************************************************)
THEOREM FeesAreBacked == Spec => []FeesBacked
<1>1. ShieldInv => FeesBacked  BY DEF ShieldInv, MoneyInv
<1>2. QED  BY <1>1, ShieldInvariance, PTL

LEMMA ShieldCovers ==
  ASSUME TokenByToken, ShieldInv
  PROVE  ShieldCoversChain
<1>1. QueueTypeOK /\ MoneyTypeOK /\ EscrowedFirst /\ Ledger
  BY DEF ShieldInv, IInv, MoneyInv, ChainInv
<1>2. QED BY <1>1, LedgerCovers

(***************************************************************************)
(* Shield holds exactly what layer 2 owes and what was paid in beyond the  *)
(* deposits in blocks, whatever is paid in for which commitment, if no     *)
(* proven transaction turns one token into another.                        *)
(***************************************************************************)
THEOREM ShieldHoldsWhatItOwes ==
  ASSUME TokenByToken
  PROVE  Spec => []ShieldCoversChain
<1>1. ShieldInv => ShieldCoversChain  BY ShieldCovers
<1>2. QED  BY <1>1, ShieldInvariance, PTL

(***************************************************************************)
(* So Shield holds at least what layer 2 owes, as long as no commitment is *)
(* deposited for more than was paid in to mark it, which submitTransaction *)
(* leaves to whoever pays and proposeBlock does not ask.                   *)
(***************************************************************************)
PaidInFull ==
  \A token \in Token, c \in isCommitmentEscrowed : Left(token, c, CorrectBlocks) >= 0

Solvent == \A token \in Token : tokens[token][Shield] >= Owed(token, CorrectBlocks)

THEOREM ShieldIsSolvent ==
  ASSUME TokenByToken
  PROVE  Spec => [](PaidInFull => Solvent)
<1>1. ShieldInv => (PaidInFull => Solvent)
  <2>1. SUFFICES ASSUME ShieldInv, PaidInFull, NEW token \in Token
                 PROVE  tokens[token][Shield] >= Owed(token, CorrectBlocks)
    BY DEF Solvent
  <2> DEFINE n    == CorrectBlocks
             left == [c \in isCommitmentEscrowed |-> Left(token, c, n)]
  <2>2. QueueTypeOK /\ MoneyTypeOK /\ n \in 0..Len(blockHashes) /\ OnChain(n) \in SUBSET Transaction
    BY <2>1, PrefixExists, PrefixTypes DEF ShieldInv, IInv, MoneyInv
  <2>3. tokens[token][Shield] = Owed(token, n) + Unused(token, n)
    BY <2>1, ShieldCovers DEF ShieldCoversChain
  <2>4. IsFiniteSet(isCommitmentEscrowed)
    BY <2>2, PaymentTypes, FS_Subset DEF MoneyTypeOK
  <2>5. \A c \in isCommitmentEscrowed : left[c] \in Nat
    <3>1. ASSUME NEW c \in isCommitmentEscrowed
          PROVE  Left(token, c, n) \in Nat
      <4>1. DepositsFor(token, c, n) \in SUBSET Transaction
        BY <2>2 DEF DepositsFor
      <4>2. SumFunctionOnSet(Amount, DepositsFor(token, c, n)) \in Nat
        BY <4>1, AmountTypes
      <4>3. paidIn[c][token] \in Nat
        BY <2>2 DEF MoneyTypeOK
      <4>4. Left(token, c, n) >= 0
        BY <2>1 DEF PaidInFull
      <4>5. Left(token, c, n) \in Int
        BY <4>2, <4>3 DEF Left
      <4>6. QED BY <4>4, <4>5
    <3>2. QED BY <3>1
  <2>6. Unused(token, n) \in Nat
    <3>1. Unused(token, n) = SumFunctionOnSet(left, isCommitmentEscrowed)
      BY DEF Unused, SumFunction
    <3> HIDE DEF left
    <3>2. QED BY <2>4, <2>5, <3>1, SumNat
  <2>7. Owed(token, n) \in Int
    <3>1. Owed(token, n) = Balance(token, OnChain(n), OnChain(n) \ Paid)
                             + PaidIn(token, OnChain(n)) + DueIn(token, n)
      BY <2>2, OwedIs
    <3>2. /\ Balance(token, OnChain(n), OnChain(n) \ Paid) \in Int
          /\ PaidIn(token, OnChain(n)) \in Nat /\ DueIn(token, n) \in Nat
      <4>1. OnChain(n) \ Paid \in SUBSET Transaction
        BY <2>2
      <4>2. QED BY <2>2, <4>1, BalanceTypes, DuesTypes DEF DueIn
    <3>3. QED BY <3>1, <3>2
  <2> HIDE DEF n
  <2>8. tokens[token][Shield] >= Owed(token, n)
    BY <2>3, <2>6, <2>7
  <2>9. QED BY <2>8 DEF n
<1>2. QED  BY <1>1, ShieldInvariance, PTL
=============================================================================
