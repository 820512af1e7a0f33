----------------------------- MODULE Withdrawals ----------------------------
(***************************************************************************)
(* The tokens and ether Shield.sol holds: what is paid in for deposits,    *)
(* withdrawals and the fees of blocks, paid out once their block is final, *)
(* and the sale of a withdrawal to whoever pays it in advance for a fee.   *)
(* The queue of blocks grows and is cut as BlockQueue allows, which Rollup *)
(* implements.                                                             *)
(***************************************************************************)
EXTENDS Integers, SequencesExt, FiniteSetsExt

CONSTANTS
  User,             \* addresses of people
  NoAddress,        \* address(0)
  Token,            \* ERC20 contracts, and single ids of ERC721 and ERC1155
  Fungible,         \* the ERC20 contracts
  FeeToken,         \* feeL2TokenAddress, in which layer 2 fees are paid
  Note,             \* commitments
  ZERO,             \* the commitment of an empty slot
  Transaction,
  Body,             \* lists of transactions a block may carry
  CHALLENGE_PERIOD, \* Config.sol: 1 weeks, in ticks of the L1 clock
  Fee,              \* ether offered for an advance
  Limit,            \* limits the owner may set on an ERC20; -1 is none
  Calls,            \* the owner's calls that are made in this instance
  MaxTime, MaxBlocks, MaxFees   \* bounds of the model

Shield == "Shield"
State  == "State"
Holder == User \cup {Shield, State}

ASSUME PeriodAssumption == CHALLENGE_PERIOD \in Nat \ {0}
ASSUME NoteAssumption == /\ IsFiniteSet(Note) /\ ZERO \notin Note
                         /\ \A n \in Note : n.token \in Token /\ n.value \in Nat
ASSUME FinitenessAssumption == IsFiniteSet(Transaction)   \* 32 byte hashes
ASSUME InputAssumption == /\ Fungible \subseteq Token /\ FeeToken \in Fungible
                          /\ Fee \subseteq Nat
                          /\ Limit \subseteq Nat \cup {-1}
                          /\ Calls \subseteq {"pause", "restrict"}
                          /\ Body \subseteq Seq(Transaction)
                          /\ User \cap {NoAddress, Shield, State} = {}
ASSUME BoundAssumption == {MaxTime, MaxBlocks, MaxFees} \subseteq Nat

Value  == [n \in Note |-> n.value]
Amount == [t \in Transaction |-> t.value]

Worth(token, notes) == SumFunctionOnSet(Value, {n \in notes : n.token = token})

IsEscrowRequired(t) == t.circuit \in {"deposit", "depositfee"}
IsWithdrawing(t)    == t.circuit = "withdraw"
Deposits    == {t \in Transaction : IsEscrowRequired(t)}
Withdrawing == {t \in Transaction : IsWithdrawing(t)}

(* Anybody may submit or propose anything of this shape; escrow is the     *)
(* first commitment of a deposit.                                          *)
ASSUME TransactionAssumption ==
  \A t \in Transaction :
    /\ t.circuit \in {"deposit", "depositfee", "transfer", "withdraw"}
    /\ t.token \in Token /\ {t.value, t.fee} \subseteq Nat /\ t.recipient \in User
    /\ t.nullifiers \subseteq Note /\ t.commitments \subseteq Note
    /\ IsEscrowRequired(t) => t.escrow \in t.commitments \cup {ZERO}

In(t)  == IF IsEscrowRequired(t) THEN t.value ELSE 0
Out(t) == IF IsWithdrawing(t) THEN t.value ELSE 0
Total(notes) == SumFunctionOnSet(Value, notes)

(* What a proof shows: what goes in comes out, and a deposit, which spends *)
(* nothing, makes the commitment that was paid for.                        *)
Proven(t) ==
  /\ In(t) + Total(t.nullifiers) = Out(t) + t.fee + Total(t.commitments)
  /\ IsEscrowRequired(t) => t.escrow # ZERO
  /\ t.circuit = "deposit" => t.nullifiers = {} /\ t.commitments = {t.escrow}

FeesOf(transactions) ==
  SumFunction([k \in DOMAIN transactions |-> transactions[k].fee])

VARIABLES
  now,                    \* block.timestamp
  blockHashes,            \* the queue of L2 blocks: [transactions, time, feesL2]
  isCommitmentEscrowed,
  paidIn,                 \* history: commitment -> token -> paid in to escrow it
  advancedWithdrawals,    \* transaction -> AdvanceWithdrawal
  tokens,                 \* token -> holder -> what it holds of it
  ether,                  \* ether held by the Shield contract
  pendingWithdrawalsFees, \* user -> ether it may withdraw from State
  paused,                 \* of the Shield contract
  restrictTokens,         \* RESTRICT_TOKENS
  erc20limit,             \* token -> [deposit, withdraw]
  received                \* history: transaction -> user -> net tokens got by it

marketVars == <<advancedWithdrawals, ether, pendingWithdrawalsFees, received>>
ownerVars  == <<paused, restrictTokens, erc20limit>>
escrowVars == <<isCommitmentEscrowed, paidIn>>
vars == <<now, blockHashes, escrowVars, tokens, marketVars, ownerVars>>

FreshWithdrawal == [currentOwner |-> NoAddress, advanceFee |-> 0, isWithdrawn |-> FALSE]

NoLimits == [deposit |-> 0, withdraw |-> 0]   \* what `delete' leaves

(* Everybody starts with enough of each token to deposit or advance any.   *)
Supply(token) == Worth(token, Note)

Init ==
  /\ now = CHALLENGE_PERIOD + 1
  /\ blockHashes = <<>>
  /\ isCommitmentEscrowed = {}
  /\ paidIn = [c \in Note \cup {ZERO} |-> [token \in Token |-> 0]]
  /\ advancedWithdrawals = [t \in Withdrawing |-> FreshWithdrawal]
  /\ tokens = [token \in Token |->
                 [a \in Holder |-> IF a \in User THEN Supply(token) ELSE 0]]
  /\ ether = 0
  /\ pendingWithdrawalsFees = [a \in User |-> 0]
  /\ paused = FALSE
  /\ restrictTokens = TRUE
  /\ erc20limit = [token \in Token |-> NoLimits]
  /\ received = [t \in Withdrawing |-> [a \in User |-> 0]]

-----------------------------------------------------------------------------
(* The queue.                                                              *)

FinalTooEarly(block) == block.time + CHALLENGE_PERIOD <= now
IsFinal(block) == block.time + CHALLENGE_PERIOD < now
IsChallengeable(block) == block.time >= now - CHALLENGE_PERIOD

TransactionsIn(i) == Range(blockHashes[i].transactions)
OnChain(n)    == UNION {TransactionsIn(i) : i \in 1..n}
Created(n)    == UNION {t.commitments : t \in OnChain(n)}
Spent(n)      == UNION {t.nullifiers  : t \in OnChain(n)}

(***************************************************************************)
(* What no challenge can refute: every transaction is proven, every note   *)
(* spent is in the tree of an earlier block, and no commitment or          *)
(* nullifier occurs twice.                                                 *)
(***************************************************************************)
Correct(i) ==
  LET ts == blockHashes[i].transactions
  IN /\ \A k \in DOMAIN ts :
          /\ Proven(ts[k])
          /\ ts[k].nullifiers \subseteq Created(i - 1) \ Spent(i - 1)
          /\ ts[k].commitments \cap Created(i - 1) = {}
     /\ \A k, l \in DOMAIN ts : k # l =>
          /\ ts[k].nullifiers \cap ts[l].nullifiers = {}
          /\ ts[k].commitments \cap ts[l].commitments = {}

(* Time passes, but somebody challenges every bad block while it can be.   *)
Tick ==
  /\ now < MaxTime
  /\ \A i \in DOMAIN blockHashes :
       Correct(i) \/ blockHashes[i].time + CHALLENGE_PERIOD >= now + 1
  /\ now' = now + 1
  /\ UNCHANGED <<blockHashes, escrowVars, tokens, marketVars, ownerVars>>

(* The first commitment of a deposit must be marked, whatever was paid.    *)
EscrowUnasked(t) == TRUE
EscrowMarked(t)  == t.escrow \in isCommitmentEscrowed \cup {ZERO}

ProposeBlock(transactions) ==
  /\ Len(blockHashes) < MaxBlocks
  /\ \A k \in DOMAIN transactions :
       IsEscrowRequired(transactions[k]) => EscrowMarked(transactions[k])
  /\ blockHashes' = Append(blockHashes, [transactions |-> transactions, time |-> now,
                                         feesL2 |-> FeesOf(transactions)])
  /\ UNCHANGED <<now, escrowVars, tokens, marketVars, ownerVars>>

(* challengeAccepted of a bad block.                                       *)
ChallengeBlock(i) ==
  /\ i \in DOMAIN blockHashes
  /\ ~Correct(i)
  /\ IsChallengeable(blockHashes[i])
  /\ blockHashes' = SubSeq(blockHashes, 1, i - 1)
  /\ UNCHANGED <<now, escrowVars, tokens, marketVars, ownerVars>>

-----------------------------------------------------------------------------
(* Moving tokens.                                                          *)

Moved(balances, from, to, value) ==
  [[balances EXCEPT ![from] = @ - value] EXCEPT ![to] = @ + value]

Allowed(token, limit, value) ==
  token \in Fungible /\ restrictTokens => value <= limit \/ limit = -1

(* submitTransaction of a deposit whose first commitment is not marked     *)
(* yet, with payIn: neither the proof nor the commitment's value is looked *)
(* at.  Later submissions of the same commitment pay nothing.              *)
SubmitTransaction(u, t) ==
  /\ ~paused
  /\ t.escrow \notin isCommitmentEscrowed
  /\ Allowed(t.token, erc20limit[t.token].deposit, t.value)
  /\ tokens[t.token][u] >= t.value
  /\ isCommitmentEscrowed' = isCommitmentEscrowed \cup {t.escrow}
  /\ paidIn' = [paidIn EXCEPT ![t.escrow][t.token] = @ + t.value]
  /\ tokens' = [tokens EXCEPT ![t.token] = Moved(@, u, Shield, t.value)]
  /\ UNCHANGED <<now, blockHashes, marketVars, ownerVars>>

(* The layer 2 fees of a final block go to State, which keeps them for its *)
(* proposer.  Who may ask, and its stake, are in module Shield.            *)
RequestBlockPayment(i) ==
  LET feesL2 == blockHashes[i].feesL2
  IN /\ IsFinal(blockHashes[i])
     /\ feesL2 > 0
     /\ tokens[FeeToken][Shield] >= feesL2
     /\ blockHashes' = [blockHashes EXCEPT ![i].feesL2 = 0]
     /\ tokens' = [tokens EXCEPT ![FeeToken] = Moved(@, Shield, State, feesL2)]
     /\ UNCHANGED <<now, escrowVars, marketVars, ownerVars>>

CurrentOwner(t) ==
  IF advancedWithdrawals[t].currentOwner = NoAddress
  THEN t.recipient ELSE advancedWithdrawals[t].currentOwner

FeesOffered == ether + SumFunction(pendingWithdrawalsFees)

(* Whoever has the right to a withdrawal offers a fee, or raises it.       *)
SetAdvanceWithdrawalFee(u, i, t, value) ==
  /\ t \in TransactionsIn(i)
  /\ IsWithdrawing(t)
  /\ value > 0
  /\ ~IsFinal(blockHashes[i])
  /\ t.token \in Fungible
  /\ ~advancedWithdrawals[t].isWithdrawn
  /\ u = CurrentOwner(t)
  /\ FeesOffered + value <= MaxFees
  /\ advancedWithdrawals' = [advancedWithdrawals EXCEPT ![t].advanceFee = @ + value]
  /\ ether' = ether + value
  /\ UNCHANGED <<now, blockHashes, escrowVars, tokens,
                 pendingWithdrawalsFees, received, ownerVars>>

SoldKeepingFee(t, u) == [advancedWithdrawals EXCEPT ![t].currentOwner = u]
SoldByName(t, u)     == [advancedWithdrawals EXCEPT ![t].advanceFee = 0]
Sold(t, u) ==
  [advancedWithdrawals EXCEPT ![t].currentOwner = u, ![t].advanceFee = 0]

(* u pays the withdrawal to its owner, for the fee, and owns it from then. *)
AdvanceWithdrawal(u, i, t) ==
  LET owner == CurrentOwner(t)
      fee   == advancedWithdrawals[t].advanceFee
  IN /\ t \in TransactionsIn(i)
     /\ IsWithdrawing(t)
     /\ fee > 0
     /\ ~IsFinal(blockHashes[i])
     /\ ~advancedWithdrawals[t].isWithdrawn
     /\ tokens[t.token][u] >= t.value
     /\ advancedWithdrawals' = Sold(t, u)
     /\ pendingWithdrawalsFees' = [pendingWithdrawalsFees EXCEPT ![u] = @ + fee]
     /\ ether' = ether - fee
     /\ tokens' = [tokens EXCEPT ![t.token] = Moved(@, u, owner, t.value)]
     /\ received' = [received EXCEPT ![t] = Moved(@, u, owner, t.value)]
     /\ UNCHANGED <<now, blockHashes, escrowVars, ownerVars>>

IsWithdrawn(t) == advancedWithdrawals[t].isWithdrawn

(* Pays a final withdrawal to its owner; a fee nobody earned goes back.    *)
FinaliseWithdrawal(i, t) ==
  LET owner == CurrentOwner(t)
      fee   == advancedWithdrawals[t].advanceFee
  IN /\ t \in TransactionsIn(i)
     /\ IsFinal(blockHashes[i])
     /\ IsWithdrawing(t)
     /\ ~IsWithdrawn(t)
     /\ ~paused                                                   \* payOut
     /\ Allowed(t.token, erc20limit[t.token].withdraw, t.value)
     /\ tokens[t.token][Shield] >= t.value
     /\ advancedWithdrawals' = [advancedWithdrawals EXCEPT ![t].isWithdrawn = TRUE]
     /\ pendingWithdrawalsFees' = [pendingWithdrawalsFees EXCEPT ![owner] = @ + fee]
     /\ ether' = ether - fee
     /\ tokens' = [tokens EXCEPT ![t.token] = Moved(@, Shield, owner, t.value)]
     /\ received' = [received EXCEPT ![t][owner] = @ + t.value]
     /\ UNCHANGED <<now, blockHashes, escrowVars, ownerVars>>

-----------------------------------------------------------------------------
(* The owner's calls.                                                      *)
SetPaused ==
  /\ "pause" \in Calls
  /\ paused' = ~paused
  /\ UNCHANGED <<now, blockHashes, escrowVars, tokens, marketVars,
                 restrictTokens, erc20limit>>

RestrictTokens ==
  /\ "restrict" \in Calls
  /\ restrictTokens' = ~restrictTokens
  /\ UNCHANGED <<now, blockHashes, escrowVars, tokens, marketVars,
                 paused, erc20limit>>

SetRestriction(token, limits) ==
  /\ erc20limit' = [erc20limit EXCEPT ![token] = limits]
  /\ UNCHANGED <<now, blockHashes, escrowVars, tokens, marketVars,
                 paused, restrictTokens>>

RemoveRestriction(token) ==
  "restrict" \in Calls /\ SetRestriction(token, NoLimits)

Owner ==
  \/ SetPaused
  \/ RestrictTokens
  \/ \E token \in Fungible :
       \/ RemoveRestriction(token)
       \/ \E limits \in [deposit : Limit, withdraw : Limit] :
            SetRestriction(token, limits)

Selling ==
  \E u \in User, i \in DOMAIN blockHashes : \E t \in TransactionsIn(i) :
    \/ \E value \in Fee : SetAdvanceWithdrawalFee(u, i, t, value)
    \/ AdvanceWithdrawal(u, i, t)

Next ==
  \/ Tick
  \/ Owner
  \/ \E u \in User, t \in Deposits : SubmitTransaction(u, t)
  \/ \E transactions \in Body : ProposeBlock(transactions)
  \/ \E i \in DOMAIN blockHashes : ChallengeBlock(i) \/ RequestBlockPayment(i)
  \/ Selling
  \/ \E i \in DOMAIN blockHashes : \E t \in TransactionsIn(i) : FinaliseWithdrawal(i, t)

Spec == Init /\ [][Next]_vars

-----------------------------------------------------------------------------
BlockData == [transactions : Body, time : Nat, feesL2 : Nat]

QueueTypeOK == /\ now \in Nat
               /\ blockHashes \in Seq(BlockData)

SaleTypeOK == /\ advancedWithdrawals \in
                   [Withdrawing -> [currentOwner : User \cup {NoAddress},
                                    advanceFee : Nat, isWithdrawn : BOOLEAN]]
              /\ received \in [Withdrawing -> [User -> Int]]

(***************************************************************************)
(* No balance, fee or claim goes below zero: every subtraction in Shield   *)
(* takes away what was put there before.                                   *)
(***************************************************************************)
TypeOK == /\ QueueTypeOK /\ SaleTypeOK
          /\ isCommitmentEscrowed \subseteq Note \cup {ZERO}
          /\ paidIn \in [Note \cup {ZERO} -> [Token -> Nat]]
          /\ tokens \in [Token -> [Holder -> Nat]]
          /\ ether \in Nat
          /\ pendingWithdrawalsFees \in [User -> Nat]
          /\ paused \in BOOLEAN /\ restrictTokens \in BOOLEAN
          /\ erc20limit \in [Token -> [deposit : Limit \cup {0}, withdraw : Limit \cup {0}]]

(***************************************************************************)
(* What makes PaidStayFinal inductive: blocks are in the order of time.    *)
(***************************************************************************)
TimesOrdered ==
  \A i \in DOMAIN blockHashes :
    /\ blockHashes[i].time <= now
    /\ \A j \in DOMAIN blockHashes : i <= j => blockHashes[i].time <= blockHashes[j].time

(***************************************************************************)
(* A withdrawal that was paid out is in a final block still in the queue,  *)
(* so that no rollback brings back the note it spent: paying too early, or *)
(* a rollback that reaches a final block, would break it                   *)
(* (finaliseWithdrawal, challengeAccepted).                                *)
(***************************************************************************)
PaidStayFinal ==
  \A t \in Withdrawing : advancedWithdrawals[t].isWithdrawn =>
    \E i \in DOMAIN blockHashes : t \in TransactionsIn(i) /\ IsFinal(blockHashes[i])

(* The blocks before the first bad one, and what is owed as of block n.    *)
CorrectBlocks ==
  Cardinality({i \in DOMAIN blockHashes : \A j \in 1..i : Correct(j)})

OwedPayments(n) ==
  {t \in OnChain(n) : IsWithdrawing(t) /\ ~advancedWithdrawals[t].isWithdrawn}

FeesDue(n) == SumFunction([i \in 1..n |-> blockHashes[i].feesL2])

Owed(token, n) ==
    Worth(token, Created(n) \ Spent(n))
  + SumFunctionOnSet(Amount, {t \in OwedPayments(n) : t.token = token})
  + (IF token = FeeToken THEN FeesDue(n) ELSE 0)

(* What is left of a payment for a commitment, once its deposit is in a    *)
(* block; less than nothing if the deposit is worth more.                  *)
DepositsFor(token, c, n) ==
  {t \in OnChain(n) : IsEscrowRequired(t) /\ t.token = token /\ t.escrow = c}

Left(token, c, n) ==
  paidIn[c][token] - SumFunctionOnSet(Amount, DepositsFor(token, c, n))

Unused(token, n) == SumFunction([c \in isCommitmentEscrowed |-> Left(token, c, n)])

(***************************************************************************)
(* Shield holds exactly what layer 2 owes as of the last block before a    *)
(* bad one, which is notes not spent, withdrawals not paid out and fees of *)
(* blocks not paid to their proposers, and what was paid in beyond the     *)
(* deposits in blocks.  So whatever is rolled back and proposed again, in  *)
(* any order, Shield can pay all that becomes final, but for the deposits  *)
(* that are worth more than what was paid in to mark their commitment.     *)
(***************************************************************************)
ShieldCoversChain ==
  \A token \in Token :
    tokens[token][Shield] = Owed(token, CorrectBlocks) + Unused(token, CorrectBlocks)

(***************************************************************************)
(* The ether in Shield is the fees of advances still on offer: each fee    *)
(* goes to the one who advanced, or back to the owner with the withdrawal, *)
(* and to nobody twice (advanceWithdrawal, finaliseWithdrawal).            *)
(***************************************************************************)
FeesBacked ==
  ether = SumFunctionOnSet([t \in Withdrawing |-> advancedWithdrawals[t].advanceFee],
                           {t \in Withdrawing : ~advancedWithdrawals[t].isWithdrawn})

(***************************************************************************)
(* However often a withdrawal is sold on, its recipient gets its value     *)
(* once.  Until it is paid out, the last buyer alone is out of pocket; in  *)
(* the end no buyer is (the chain of currentOwner).                        *)
(***************************************************************************)
PaidThroughOnce ==
  \A t \in Withdrawing, u \in User :
    LET paid == advancedWithdrawals[t].isWithdrawn
        in   == IF u = t.recipient /\ (paid \/ CurrentOwner(t) # u) THEN t.value ELSE 0
        out  == IF u = CurrentOwner(t) /\ u # t.recipient /\ ~paid THEN t.value ELSE 0
    IN received[t][u] = in - out

=============================================================================
