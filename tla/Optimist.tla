----------------------------- MODULE Optimist -----------------------------
(* One optimist, hosting a proposer and a challenger, against the chain.   *)
(* The chain (external: the contracts are modelled in Rollup) appends      *)
(* blocks, rolls back and rotates the proposer, and logs an event for each *)
(* step. Events reach the optimist's queue 0 (blocks, rollbacks, rotations,*)
(* commits) and queue 1 (transactions), which run side by side, one job at *)
(* a time each. Queue 2 only holds challenges: while it is not empty no    *)
(* block is made. When queue 0 runs empty the block assembler runs in it.  *)
(* Here every event arrives and the optimist stays up: missed events, the  *)
(* resynchronisation that makes up for them and crashes are in             *)
(* OptimistRestart.                                                        *)
EXTENDS OptimistChecks

CONSTANTS
    Me, Other,       \* the proposer hosted here; all the others
    MaxBlocks,       \* bound: blocks ever built
    MaxFaults,       \* bound: blocks of others that are wrong
    MaxRotations,    \* bound: changes of the current proposer
    MaxUnsent,       \* bound: blocks built while the proposer's socket is down
    MaxEarly,        \* bound: lists read while writes of a handler are under way
    MaxResyncAttempts,   \* resynchronisations before a full one
    KeepLog          \* FALSE where no event is ever replayed

ASSUME BoundsAssumption ==
    /\ {MaxBlocks, MaxFaults, MaxRotations, MaxUnsent, MaxEarly,
        MaxResyncAttempts} \subseteq Nat
    /\ KeepLog \in BOOLEAN

ASSUME ProposersAssumption == Me # Other

VARIABLES
    \* the chain and what is under way to it
    chain,      \* the blocks on chain
    log,        \* the events, in order; their place is their L1 block
    current,    \* the current proposer
    roots,      \* transaction -> the root it was made against; made ones only
    proposals,  \* our signed block proposals, in the order of their nonces
    pool,       \* our challenger's transactions: commits and reveals
    count,      \* what is bounded: blocks built, faults, rotations, unsent, early
    \* the optimist's database
    db,
    \* the optimist's memory
    mem,        \* isMe, local (Block's statics), last (lastInOrderL1Block),
                \* attempts (consecutiveResyncAttempts), challenging
    fast, slow, stop,   \* the three queues
    checked,    \* the transaction of queue 1 between its check and its save
    batches,    \* the blocks the assembler has still to make of the list it read
    saving,     \* promises of a handler that are still saving transactions
    unlanded,   \* what a rollback changed, for who reads before its writes land
    resetting   \* requests to reset the local block, after a proposal failed

chainVars == <<chain, log, current, roots, proposals, pool, count>>
vars == <<chain, log, current, roots, proposals, pool, count, db, mem,
          fast, slow, stop, checked, batches, saving, unlanded, resetting>>

TipHash == IF chain = <<>> THEN NoHash ELSE chain[Len(chain)].hash
ChainTree == [i \in DOMAIN chain |-> chain[i].hash]
TxsOf(blocks) == UNION {ToSet(b.txs) : b \in blocks}

(* What a contract would say of the i-th block: it follows its parent, and *)
(* none of its transactions repeats a mark or refers to a root not there.  *)
ValidBlock(i) ==
    LET b == chain[i] IN
    /\ ~ b.fault
    /\ b.tree = SubSeq(ChainTree, 1, i)
    /\ ~ DuplicatesWithinBlock(b)
    /\ \A t \in ToSet(b.txs) :
        /\ \A j \in 1..i - 1 : \A u \in ToSet(chain[j].txs) : ~ Clash(t, u)
        /\ roots[t] # NoRoot =>
               roots[t].n < i /\ roots[t].hash = chain[roots[t].n + 1].hash

Init ==
    /\ chain = <<>> /\ log = <<>> /\ current = Me
    /\ roots = <<>> /\ proposals = <<>> /\ pool = {}
    /\ count = [blocks |-> 0, faults |-> 0, rotations |-> 0, unsent |-> 0, early |-> 0]
    /\ db = EmptyDB
    /\ mem = [isMe |-> TRUE, local |-> ResetLocal, last |-> 1, attempts |-> 0,
              challenging |-> TRUE]
    /\ fast = <<>> /\ slow = <<>> /\ stop = <<>>
    /\ checked = NoTx /\ batches = <<>> /\ resetting = 0
    /\ saving = {} /\ unlanded = AllLanded

Count(what) == count' = [count EXCEPT ![what] = @ + 1]

---------------------------------------------------------------------------
(* The handlers of queue 0, on the part of the state they change.          *)

Node == [db |-> db, mem |-> mem, stop |-> stop, pool |-> pool, saving |-> saving,
         unlanded |-> unlanded]

CommitToChallenge(s, c) ==
    IF ~ s.mem.challenging THEN s
    ELSE [s EXCEPT !.db = SaveCommit(@, c), !.pool = @ \cup {[type |-> "commit", c |-> c]}]

(* An invalid block is challenged and, whether or not challenges are on,   *)
(* its challenge is put in the stop queue.                                 *)
ChallengeInvalid(s, block) ==
    CommitToChallenge([s EXCEPT !.stop = Append(@, block.hash)], block.hash)

BlockMarks(marks, block) == UNION {marks[t] : t \in ToSet(block.txs)}

(* While the stop queue holds a challenge no other block is checked: the    *)
(* rollback will remove it anyway.                                         *)
Checked(s) == s.stop = <<>>

(* Too many resynchronisations in a row make the next one a full one. *)
AttemptsChecked(s) ==
    IF s.mem.attempts > MaxResyncAttempts
    THEN [s EXCEPT !.mem.last = 1, !.mem.attempts = 0] ELSE s

(* A block whose number is too high waits for a resynchronisation. *)
OutOfOrder(d, event) ==
    event.type = "BlockProposed" /\ event.block.n > NumberOfL2Blocks(d)

(* blockProposedEventHandler after that: the block is stored before it is  *)
(* checked, the saves of its transactions are started and not awaited, and *)
(* it is checked only while the stop queue is empty.                       *)
BlockProposed(s, block) ==
    LET stored ==
            SaveTree(
                DeleteDuplicatesFromMemPool(
                    SaveBlock(s.db, block),
                    BlockMarks(Commitments, block), BlockMarks(Nullifiers, block),
                    ToSet(block.txs)),
                block.n, Append(TreeByNumber(s.db, block.n - 1), block.hash))
        s1 == [s EXCEPT !.db = stored, !.mem.last = block.l1,
                        !.saving = @ \cup {<<t, block.n>> : t \in ToSet(block.txs)}]
    IN IF Checked(s) /\ \E d \in {stored} : ~ CheckBlock(d, block, roots, Len(chain) - 1)
       THEN ChallengeInvalid(s1, block) ELSE s1

(* Of the transactions of a block, best paying first, those that are still *)
(* valid and do not clash with one kept before.                            *)
StillValid(d, block, n) ==
    LET own == SelectSeq(block.txs, LAMBDA t : t \in TransactionsOfBlock(d, block))
        Keep(kept, t) ==
            IF /\ CheckTransaction(d, t, roots[t], FALSE, block.n, n - 1, Len(chain) - 1)
               /\ ~ \E u \in kept : Clash(t, u)
            THEN kept \cup {t} ELSE kept
    IN FoldLeft(Keep, {}, SortSeq(own, LAMBDA t, u : Fee[t] >= Fee[u]))

(* A rollback takes one challenge out of the stop queue. *)
NothingDequeued(s) == s.stop   \* mutant
Dequeued(s) == IF s.stop = <<>> THEN s.stop ELSE Tail(s.stop)

(* rollbackEventHandler: the transactions of the blocks rolled back return *)
(* to the mempool if they are still valid and are deleted if not. What is  *)
(* valid is kept per block number, and one block is deleted per number.    *)
(* The promises that return transactions and delete blocks are nested in   *)
(* arrays, so that Promise.all does not await them.                        *)
Rollback(s, n) ==
    LET removed == BlocksFrom(s.db, n)
        Stored(i) == s.db.blocks[i]
        invalid == UNION {TransactionsOfBlock(s.db, Stored(i)) \ StillValid(s.db, Stored(i), n) :
                             i \in removed}
        numbers == {Stored(i).n : i \in removed}
        last == {i \in removed : ~ \E j \in removed : j > i /\ Stored(j).n = Stored(i).n}
        valid == UNION {StillValid(s.db, Stored(i), n) : i \in last}
        before == DeleteTransactions(DeleteTreesFrom(s.db, n), invalid)
        after == DeleteBlocks(AddTransactionsToMemPool(before, valid, numbers), numbers)
    IN [s EXCEPT !.db = after, !.unlanded = Unlanded(before, after),
                 !.mem.local = ResetLocal,
                 !.stop = Dequeued(s)]

NewCurrentProposer(s, p) ==
    LET s1 == IF s.mem.isMe
              THEN [s EXCEPT !.mem.local = ResetLocal, !.db = ResetUnsuccessful(@)] ELSE s
    IN [s1 EXCEPT !.mem.isMe = (p = Me)]

(* A commit is revealed the first time its event is seen; a challenge that *)
(* is not ours is not in the database.                                     *)
CommittedToChallenge(s, c) ==
    IF c \notin DOMAIN s.db.commits THEN s
    ELSE [s EXCEPT !.db = MarkRetrieved(@, c),
                   !.pool = IF s.db.commits[c] THEN @
                            ELSE @ \cup {[type |-> "reveal", c |-> c]}]

Handled(s, event) ==
    CASE event.type = "BlockProposed" -> BlockProposed(AttemptsChecked(s), event.block)
      [] event.type = "Rollback" -> Rollback(s, event.n)
      [] event.type = "NewCurrentProposer" -> NewCurrentProposer(s, event.p)
      [] event.type = "CommittedToChallenge" -> CommittedToChallenge(s, event.c)

Becomes(s) ==
    /\ db' = s.db /\ mem' = s.mem /\ stop' = s.stop
    /\ pool' = s.pool /\ saving' = s.saving /\ unlanded' = s.unlanded

AllWritten == saving = {} /\ unlanded = AllLanded

(* The job at the head of queue 0. Confirmation takes at least a polling   *)
(* interval, so the writes of the last handler have landed.                *)
HandleEvent ==
    /\ fast # <<>> /\ batches = <<>> /\ AllWritten
    /\ ~ OutOfOrder(db, Head(fast))
    /\ fast' = Tail(fast)
    /\ \E s \in {Handled(Node, Head(fast))} : Becomes(s)
    /\ UNCHANGED <<chain, log, current, roots, proposals, count, slow, checked,
                   batches, resetting>>

SaveLands ==
    /\ \E p \in saving :
        /\ db' = SaveBlockTransaction(db, p[1], p[2])
        /\ saving' = saving \ {p}
    /\ UNCHANGED <<chainVars, mem, fast, slow, stop, checked, batches, unlanded, resetting>>

(* A rollback's deletion of a block lands, or the return of what the       *)
(* blocks of one number held.                                              *)
RollbackLands ==
    /\ LET txs == unlanded.txs IN
       \/ \E b \in unlanded.blocks :
             unlanded' = [blocks |-> unlanded.blocks \ {b}, txs |-> txs]
       \/ \E u \in DOMAIN txs :
             unlanded' = [blocks |-> unlanded.blocks,
                          txs |-> Without(txs, {t \in DOMAIN txs : txs[t].n = txs[u].n})]
    /\ UNCHANGED <<chainVars, db, mem, fast, slow, stop, checked, batches, saving, resetting>>

---------------------------------------------------------------------------
(* Queue 1: transactions, from the chain or sent to the proposer directly. *)

CheckSubmitted ==
    /\ slow # <<>> /\ checked = NoTx
    /\ slow' = Tail(slow)
    /\ checked' = IF CheckTransaction(AsRead(db, unlanded), Head(slow), roots[Head(slow)], TRUE, None, None,
                                      Len(chain) - 1)
                  THEN <<Head(slow)>> ELSE NoTx
    /\ UNCHANGED <<chainVars, db, mem, fast, stop, batches, saving, unlanded, resetting>>

(* What is not back in the mempool yet is not deleted from it. *)
SaveSubmitted ==
    /\ checked # NoTx
    /\ LET t == Head(checked) IN
        db' = SaveTransaction(
                  DeleteDuplicatesFromMemPool(db, Commitments[t], Nullifiers[t],
                                              DOMAIN unlanded.txs), t)
    /\ checked' = NoTx
    /\ UNCHANGED <<chainVars, mem, fast, slow, stop, batches, saving, unlanded, resetting>>

---------------------------------------------------------------------------
(* The block assembler                                                     *)

(* Queue 0 has run empty: read the mempool and cut it into blocks. Nothing *)
(* is waited for, so that writes of the last handler may be under way.     *)
ConditionalMakeBlock ==
    /\ fast = <<>> /\ batches = <<>>
    /\ mem.isMe /\ stop = <<>>
    /\ \E d \in {AsRead(db, unlanded)} :
        /\ Mempool(d) # {}
        /\ \E s \in SortedByFee(d) : batches' \in Batches(s)
    /\ count.blocks + Len(batches') <= MaxBlocks
    /\ IF AllWritten THEN UNCHANGED count
       ELSE count.early < MaxEarly /\ Count("early")
    /\ UNCHANGED <<chain, log, current, roots, proposals, pool, db, mem, fast, slow, stop,
                   checked, saving, unlanded, resetting>>

(* Build the next block, have it signed and sent, and only then take its   *)
(* transactions out of the mempool.                                        *)
MakeBlock ==
    /\ batches # <<>> /\ count.blocks < MaxBlocks
    /\ batches' = Tail(batches)
    /\ \E block \in {BuildBlock(AsRead(db, unlanded), mem.local, Head(batches),
                               count.blocks + 1, Me)} :
        /\ proposals' = Append(proposals, block)
        /\ mem' = [mem EXCEPT !.local = LocalAfter(block)]
        /\ db' = RemoveTransactionsFromMemPool(db, ToSet(block.txs))
    /\ Count("blocks")
    /\ UNCHANGED <<chain, log, current, roots, pool, fast, slow, stop, checked,
                   saving, unlanded, resetting>>

(* The socket to the proposer stays closed: the assembler gives up, having *)
(* already remembered the block as its last one.                           *)
BlockNotSent ==
    /\ batches # <<>> /\ count.blocks < MaxBlocks /\ count.unsent < MaxUnsent
    /\ mem' = [mem EXCEPT !.local =
           LocalAfter(BuildBlock(AsRead(db, unlanded), mem.local, Head(batches),
                                 count.blocks + 1, Me))]
    /\ batches' = <<>>
    /\ count' = [count EXCEPT !.unsent = @ + 1, !.blocks = @ + 1]
    /\ UNCHANGED <<chain, log, current, roots, proposals, pool, db, fast, slow, stop,
                   checked, saving, unlanded, resetting>>

(* GET /block/reset-localblock, which the proposer calls after a revert. *)
ResetLocalBlock ==
    /\ resetting > 0
    /\ resetting' = resetting - 1
    /\ mem' = [mem EXCEPT !.local = ResetLocal]
    /\ db' = ResetUnsuccessful(db)
    /\ UNCHANGED <<chainVars, fast, slow, stop, checked, batches, saving, unlanded>>

---------------------------------------------------------------------------
(* The chain                                                               *)

(* An event is logged and its job queued. *)
Emit(event) ==
    /\ log' = IF KeepLog THEN Append(log, event) ELSE log
    /\ fast' = Append(fast, event)

EmitBlock(block) ==
    LET b == [block EXCEPT !.l1 = Len(log) + 1] IN
    chain' = Append(chain, b) /\ Emit([type |-> "BlockProposed", block |-> b])

(* Our proposals are mined in order; one that does not fit the chain, or   *)
(* comes when it is not our turn, reverts and the proposer asks for a      *)
(* reset.                                                                  *)
MineProposal ==
    /\ proposals # <<>>
    /\ proposals' = Tail(proposals)
    /\ LET block == Head(proposals) IN
        IF current = Me /\ block.n = Len(chain) /\ block.prev = TipHash
        THEN EmitBlock(block) /\ UNCHANGED resetting
        ELSE resetting' = resetting + 1 /\ UNCHANGED <<chain, log, fast>>
    /\ UNCHANGED <<current, roots, pool, count, db, mem, slow, stop, checked, batches,
                   saving, unlanded>>

(* Transactions another proposer may put in a valid block. *)
Fits(txs) ==
    /\ \A i, j \in DOMAIN txs : i # j => ~ Clash(txs[i], txs[j])
    /\ \A t \in ToSet(txs) :
        /\ \A u \in TxsOf(ToSet(chain)) : ~ Clash(t, u)
        /\ roots[t] = NoRoot \/ (/\ roots[t].n < Len(chain)
                                 /\ chain[roots[t].n + 1].hash = roots[t].hash)

(* Another proposer appends a block, which may be wrong. *)
OtherProposes ==
    /\ current = Other /\ count.blocks + Len(batches) < MaxBlocks
    /\ \E t \in DOMAIN roots, fault \in BOOLEAN :
        /\ fault => count.faults < MaxFaults
        /\ fault \/ Fits(<<t>>)
        /\ EmitBlock([NoBlock EXCEPT !.hash = count.blocks + 1, !.n = Len(chain),
                      !.prev = TipHash, !.txs = <<t>>, !.fault = fault, !.by = Other,
                      !.tree = Append(ChainTree, count.blocks + 1)])
        /\ count' = [count EXCEPT !.blocks = @ + 1,
                                  !.faults = @ + (IF fault THEN 1 ELSE 0)]
    /\ UNCHANGED <<current, roots, proposals, pool, db, mem, slow, stop, checked,
                   batches, saving, unlanded, resetting>>

ChangeCurrentProposer ==
    /\ count.rotations < MaxRotations
    /\ \E p \in {Me, Other} \ {current} :
        /\ current' = p
        /\ Emit([type |-> "NewCurrentProposer", p |-> p])
    /\ Count("rotations")
    /\ UNCHANGED <<chain, roots, proposals, pool, db, mem, slow, stop, checked,
                   batches, saving, unlanded, resetting>>

(* A transaction that spends is made against the root of a block on chain  *)
(* and submitted on chain or sent to the proposer's optimist off chain.    *)
SubmitTransaction ==
    /\ \E t \in Tx \ DOMAIN roots, onChain \in BOOLEAN :
        /\ \E r \in IF Nullifiers[t] = {} THEN {NoRoot}
                   ELSE {[n |-> b.n, hash |-> b.hash] : b \in ToSet(chain)} :
               roots' = With(roots, t, r)
        /\ slow' = Append(slow, t)
        /\ log' = IF onChain /\ KeepLog
                  THEN Append(log, [type |-> "TransactionSubmitted", t |-> t]) ELSE log
    /\ UNCHANGED <<chain, current, proposals, pool, count, db, mem, fast, stop,
                   checked, batches, saving, unlanded, resetting>>

MineCommit ==
    /\ \E tx \in pool :
        /\ tx.type = "commit"
        /\ pool' = pool \ {tx}
        /\ Emit([type |-> "CommittedToChallenge", c |-> tx.c])
    /\ UNCHANGED <<chain, current, roots, proposals, count, db, mem, slow, stop,
                   checked, batches, saving, unlanded, resetting>>

RollBackTo(i) ==
    /\ chain' = SubSeq(chain, 1, i - 1)
    /\ Emit([type |-> "Rollback", n |-> i - 1])

(* A revealed challenge of a wrong block on chain rolls it back with all   *)
(* that is on top of it; otherwise the challenge reverts.                  *)
MineReveal ==
    /\ \E tx \in pool :
        /\ tx.type = "reveal"
        /\ pool' = pool \ {tx}
        /\ \/ \E i \in DOMAIN chain :
                 chain[i].hash = tx.c /\ ~ ValidBlock(i) /\ RollBackTo(i)
           \/ /\ ~ \E i \in DOMAIN chain : chain[i].hash = tx.c /\ ~ ValidBlock(i)
              /\ UNCHANGED <<chain, log, fast>>
    /\ UNCHANGED <<current, roots, proposals, count, db, mem, slow, stop, checked,
                   batches, saving, unlanded, resetting>>

(* Somebody else's challenge. *)
OtherChallenges ==
    /\ \E i \in DOMAIN chain : ~ ValidBlock(i) /\ RollBackTo(i)
    /\ UNCHANGED <<current, roots, proposals, pool, count, db, mem, slow, stop, checked,
                   batches, saving, unlanded, resetting>>

Next ==
    \/ HandleEvent \/ SaveLands \/ RollbackLands \/ CheckSubmitted \/ SaveSubmitted
    \/ ConditionalMakeBlock \/ MakeBlock \/ BlockNotSent \/ ResetLocalBlock
    \/ MineProposal \/ OtherProposes \/ ChangeCurrentProposer
    \/ SubmitTransaction \/ MineCommit \/ MineReveal \/ OtherChallenges

Spec == Init /\ [][Next]_vars

(* Each queue runs its next job, which is the assembler when queue 0 is    *)
(* empty; what is written lands; the sockets and the chain deliver.        *)
Fairness ==
    /\ WF_vars(HandleEvent \/ ConditionalMakeBlock \/ MakeBlock)
    /\ WF_vars(CheckSubmitted \/ SaveSubmitted)
    /\ WF_vars(SaveLands \/ RollbackLands)
    /\ WF_vars(ResetLocalBlock)
    /\ WF_vars(MineProposal \/ MineCommit \/ MineReveal)

FairSpec == Spec /\ Fairness

---------------------------------------------------------------------------
(* Properties                                                              *)

TypeOK ==
    /\ DOMAIN roots \subseteq Tx /\ DOMAIN db.txs \subseteq DOMAIN roots
    /\ \A t \in DOMAIN db.txs : db.txs[t].mempool => db.txs[t].n = -1
    /\ current \in {Me, Other} /\ mem.isMe \in BOOLEAN
    /\ Len(checked) <= 1 /\ count.blocks \in 0..MaxBlocks
    /\ \A i \in DOMAIN chain : chain[i].n = i - 1

(* No event waits. *)
CaughtUp == fast = <<>> /\ AllWritten

(* "the database at any time should reflect the state the blockchain       *)
(* holds": whenever the queue is empty the stored blocks and trees are     *)
(* those of the chain, a transaction is stored under the first block that  *)
(* holds it, and no transaction of the chain waits in the mempool - after  *)
(* any rollbacks, and whatever order the saves landed in.                  *)
DatabaseReflectsChain ==
    CaughtUp =>
        /\ ToSet(db.blocks) = ToSet(chain) /\ Len(db.blocks) = Len(chain)
        /\ db.trees = [n \in 0..Len(chain) - 1 |-> SubSeq(ChainTree, 1, n + 1)]
        /\ \A t \in TxsOf(ToSet(chain)) :
               /\ t \in DOMAIN db.txs
               /\ db.txs[t].n = Min({i - 1 : i \in {j \in DOMAIN chain : t \in ToSet(chain[j].txs)}})
        /\ \A t \in DOMAIN db.txs \ TxsOf(ToSet(chain)) : db.txs[t].n = -1

(* Block production is halted exactly while a wrong block is on chain: one *)
(* challenge is held for it, the right blocks below, on top of or after it *)
(* bring none, and its rollback releases it, whoever challenged. For one   *)
(* wrong block: a rollback of a second one alone, above it, would release  *)
(* it too. Hence it is stated as long as our own blocks are right: no list *)
(* was read too early, and no root that a transaction refers to was rolled *)
(* back.                                                                   *)
RootsKept ==
    \A t \in DOMAIN roots : roots[t] # NoRoot =>
        \E b \in ToSet(chain) : b.n = roots[t].n /\ b.hash = roots[t].hash

HaltedWhileWrong ==
    CaughtUp /\ count.early = 0 /\ RootsKept =>
        Len(stop) = IF \E i \in DOMAIN chain : ~ ValidBlock(i) THEN 1 ELSE 0

(* The roots the transactions of the i-th block refer to are below it. *)
RootsThere(i) ==
    \A t \in ToSet(chain[i].txs) : roots[t] # NoRoot =>
        roots[t].n < i /\ roots[t].hash = chain[roots[t].n + 1].hash

(* What we build on, repeat or leave out is right, whatever was rolled     *)
(* back, reset, rotated, reverted or never sent before: where transactions *)
(* do not clash, a block of ours can be challenged for one reason only,    *)
(* that a transaction was in the mempool when the root it refers to was    *)
(* rolled back; the rollback does not look there. Unless a list was read   *)
(* before the transactions of the last block were saved.                   *)
OwnBlocksFollow ==
    count.early = 0 =>
        \A i \in DOMAIN chain : chain[i].by = Me /\ RootsThere(i) => ValidBlock(i)

(* A wrong block does not stay: our own challenger has it rolled back. *)
WrongBlocksRolledBack ==
    (\E i \in DOMAIN chain : ~ ValidBlock(i)) ~> (\A i \in DOMAIN chain : ValidBlock(i))

(* While we keep the turn, all the transactions we hold get into blocks of *)
(* the chain, also after proposals of ours reverted or were never sent.    *)
TransactionsIncluded ==
    <>[](current = Me) =>
        []<>(DOMAIN db.txs \subseteq TxsOf(ToSet(chain)) \/ count.blocks >= MaxBlocks)
=============================================================================
