---------------------------- MODULE OptimistDB ----------------------------
(* The collections the optimist keeps in Mongo, as one record, and one     *)
(* operator per function of services/database.mjs that the handlers use.   *)
(*   blocks  - submitted blocks in the order of insertion                  *)
(*   trees   - block number -> commitment tree after that block; a tree is *)
(*             the sequence of the blocks whose commitments it holds       *)
(*   txs     - transaction -> whether it waits in the mempool, and the     *)
(*             number of the block it is in (-1: none)                     *)
(*   commits - challenge -> whether it was looked up before                *)
EXTENDS Integers, Sequences, FiniteSets, FiniteSetsExt, SequencesExt, TLC

CONSTANTS
    Tx,            \* layer 2 transactions
    Fee,           \* the fee each one pays
    Commitments,   \* the commitments each one makes
    Nullifiers     \* the nullifiers each one publishes

ASSUME TransactionAssumption ==
    /\ Fee \in [Tx -> Nat]
    /\ \A t \in Tx : IsFiniteSet(Commitments[t]) /\ IsFiniteSet(Nullifiers[t])

NoHash == 0
NoBlock == [hash |-> NoHash, n |-> -1, prev |-> NoHash, txs |-> <<>>,
            tree |-> <<>>, fault |-> FALSE, by |-> "none", l1 |-> 0]

EmptyDB == [blocks |-> <<>>, trees |-> <<>>, txs |-> <<>>, commits |-> <<>>]

Without(f, keys) == [k \in DOMAIN f \ keys |-> f[k]]
With(f, k, v) == [x \in DOMAIN f \cup {k} |-> IF x = k THEN v ELSE f[x]]

---------------------------------------------------------------------------
(* Blocks                                                                  *)

(* The first stored block with number n, NoBlock when there is none. *)
BlockByNumber(db, n) ==
    LET i == SelectInSeq(db.blocks, LAMBDA b : b.n = n)
    IN IF i = 0 THEN NoBlock ELSE db.blocks[i]

(* An upsert on the block hash. *)
SaveBlock(db, block) ==
    LET i == SelectInSeq(db.blocks, LAMBDA b : b.hash = block.hash)
    IN [db EXCEPT !.blocks = IF i = 0 THEN Append(@, block)
                             ELSE [@ EXCEPT ![i] = block]]

LatestBlockInfo(db) ==
    BlockByNumber(db, Max({b.n : b \in ToSet(db.blocks)} \cup {-1}))

(* deleteOne for each number: the first block that has it, and no other. *)
DeleteFirst(blocks, numbers) ==
    LET First(i) == ~ \E j \in 1..i - 1 : blocks[j].n = blocks[i].n
        Keep(kept, i) == IF blocks[i].n \in numbers /\ First(i) THEN kept
                         ELSE Append(kept, blocks[i])
    IN FoldLeft(Keep, <<>>, [i \in 1..Len(blocks) |-> i])

DeleteBlocks(db, numbers) == [db EXCEPT !.blocks = DeleteFirst(@, numbers)]

(* Where the blocks from a number on are stored. *)
BlocksFrom(db, n) == {i \in DOMAIN db.blocks : db.blocks[i].n >= n}

---------------------------------------------------------------------------
(* Transactions                                                            *)

Mempool(db) == {t \in DOMAIN db.txs : db.txs[t].mempool}

(* insertOne under the transaction's hash; the callers drop the error of a *)
(* duplicate key.                                                          *)
SaveTransaction(db, t) ==
    IF t \in DOMAIN db.txs THEN db
    ELSE [db EXCEPT !.txs = With(@, t, [mempool |-> TRUE, n |-> -1])]

(* Mutant: a transaction that is stored already is left as it is. *)
InsertedOnly(db, t, n) ==
    IF t \in DOMAIN db.txs THEN db
    ELSE [db EXCEPT !.txs = With(@, t, [mempool |-> FALSE, n |-> n])]
(* The record of a transaction of block n is inserted, or updated if the   *)
(* stored one is in no block.                                              *)
SaveBlockTransaction(db, t, n) ==
    IF t \in DOMAIN db.txs /\ db.txs[t].n # -1 THEN db
    ELSE [db EXCEPT !.txs = With(@, t, [mempool |-> FALSE, n |-> n])]

UpdateTransactions(db, which, stored) ==
    [db EXCEPT !.txs = [t \in DOMAIN @ |-> IF t \in which THEN stored ELSE @[t]]]

(* Mutant: a returned transaction keeps the number of its block. *)
ReturnedUnderNumber(db, txs, numbers) ==
    [db EXCEPT !.txs = [t \in DOMAIN @ |->
        IF t \in txs /\ @[t].n \in numbers THEN [@[t] EXCEPT !.mempool = TRUE] ELSE @[t]]]
AddTransactionsToMemPool(db, txs, numbers) ==
    UpdateTransactions(db, {t \in txs \cap DOMAIN db.txs : db.txs[t].n \in numbers},
                       [mempool |-> TRUE, n |-> -1])

RemoveTransactionsFromMemPool(db, txs) ==
    UpdateTransactions(db, {t \in txs \cap DOMAIN db.txs : db.txs[t].n = -1},
                       [mempool |-> FALSE, n |-> -1])

(* Mutant: they are not put back. *)
NothingReset(db) == db
(* Transactions taken for a block that is not on chain go back. *)
ResetUnsuccessful(db) ==
    UpdateTransactions(db, {t \in DOMAIN db.txs : db.txs[t].n = -1},
                       [mempool |-> TRUE, n |-> -1])

DeleteTransactions(db, txs) == [db EXCEPT !.txs = Without(@, txs)]

DeleteDuplicatesFromMemPool(db, commitments, nullifiers, keep) ==
    DeleteTransactions(db, {t \in Mempool(db) \ keep :
        \/ Commitments[t] \cap commitments # {}
        \/ Nullifiers[t] \cap nullifiers # {}})

MempoolByCommitment(db, c, fee) ==
    {t \in Mempool(db) : c \in Commitments[t] /\ Fee[t] > fee}
MempoolByNullifier(db, u, fee) ==
    {t \in Mempool(db) : u \in Nullifiers[t] /\ Fee[t] > fee}

L2ByCommitment(db, c, own) ==
    {t \in DOMAIN db.txs : c \in Commitments[t] /\ db.txs[t].n \notin {-1, own}}
L2ByNullifier(db, u, own) ==
    {t \in DOMAIN db.txs : u \in Nullifiers[t] /\ db.txs[t].n \notin {-1, own}}

(* The transactions stored as those of this block. *)
TransactionsOfBlock(db, block) ==
    {t \in ToSet(block.txs) \cap DOMAIN db.txs : db.txs[t].n = block.n}

---------------------------------------------------------------------------
(* Writes that were started and not awaited. The collections count them as *)
(* made; until one lands, a reader finds what it removes or changes as it  *)
(* was before: `blocks' still there, `txs' as they were stored.            *)

AllLanded == [blocks |-> {}, txs |-> <<>>]

Unlanded(before, after) ==
    [blocks |-> ToSet(before.blocks) \ ToSet(after.blocks),
     txs |-> [t \in {u \in DOMAIN before.txs : after.txs[u] # before.txs[u]} |->
                 before.txs[t]]]

AsRead(db, writes) ==
    [db EXCEPT !.blocks = SetToSeq(writes.blocks) \o @,
               !.txs = [t \in DOMAIN @ |->
                           IF t \in DOMAIN writes.txs THEN writes.txs[t] ELSE @[t]]]

---------------------------------------------------------------------------
(* Trees and commits                                                       *)

SaveTree(db, n, tree) == [db EXCEPT !.trees = With(@, n, tree)]

(* A tree that is not there is read as the empty one. *)
TreeByNumber(db, n) == IF n \in DOMAIN db.trees THEN db.trees[n] ELSE <<>>

(* Mutant: the tree of the block itself is kept. *)
TreesAfter(db, n) == [db EXCEPT !.trees = Without(@, {m \in DOMAIN @ : m > n})]
DeleteTreesFrom(db, n) ==
    [db EXCEPT !.trees = Without(@, {m \in DOMAIN @ : m >= n})]

NumberOfL2Blocks(db) == Cardinality(DOMAIN db.trees)

(* Mutant: a commit is taken for one that was revealed. *)
SavedRetrieved(db, c) == [db EXCEPT !.commits = With(@, c, TRUE)]
SaveCommit(db, c) == [db EXCEPT !.commits = With(@, c, FALSE)]

(* Looking a commit up marks it: it is revealed the first time only. *)
MarkRetrieved(db, c) == [db EXCEPT !.commits = With(@, c, TRUE)]
=============================================================================
