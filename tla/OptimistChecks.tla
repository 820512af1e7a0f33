-------------------------- MODULE OptimistChecks --------------------------
(* What the optimist checks of a transaction and of a block, against its   *)
(* own collections, and how it builds a block of its own.                  *)
EXTENDS OptimistDB

NoTx == <<>>
NoRoot == [n |-> 0, hash |-> NoHash]   \* a transaction without nullifiers
None == -2                             \* "undefined" as a block number

(* A commitment already in a better paying transaction of the mempool, or  *)
(* in a transaction of another block that is still stored.                 *)
DuplicateCommitment(db, t, inMempool, own) ==
    \E c \in Commitments[t] :
        \/ inMempool /\ MempoolByCommitment(db, c, Fee[t]) # {}
        \/ \E u \in L2ByCommitment(db, c, own) :
               BlockByNumber(db, db.txs[u].n) # NoBlock

DuplicateNullifier(db, t, inMempool, own) ==
    \E x \in Nullifiers[t] :
        \/ inMempool /\ MempoolByNullifier(db, x, Fee[t]) # {}
        \/ \E u \in L2ByNullifier(db, x, own) :
               BlockByNumber(db, db.txs[u].n) # NoBlock

(* The block whose root a transaction refers to, if it spends anything, is *)
(* not a later one than the last valid block; 0 as the last valid block is *)
(* taken for no number given, so that the chain's latest is used.          *)
HistoricRootKnown(root, lastValid, latest) ==
    \/ root = NoRoot
    \/ root.n <= IF lastValid \in {None, 0} THEN latest ELSE lastValid

(* The proof verifies against the root stored for that block. *)
ProofVerifies(db, root) ==
    root = NoRoot \/ BlockByNumber(db, root.n).hash = root.hash

CheckTransaction(db, t, root, inMempool, own, lastValid, latest) ==
    /\ ~ DuplicateCommitment(db, t, inMempool, own)
    /\ ~ DuplicateNullifier(db, t, inMempool, own)
    /\ HistoricRootKnown(root, lastValid, latest)
    /\ ProofVerifies(db, root)

Clash(t, u) == \/ Commitments[t] \cap Commitments[u] # {}
               \/ Nullifiers[t] \cap Nullifiers[u] # {}

DuplicatesWithinBlock(block) ==
    \E i, j \in DOMAIN block.txs : i # j /\ Clash(block.txs[i], block.txs[j])

(* Leaf count, root and frontier follow from the previous block's tree. *)
TreeFollows(db, block) ==
    block.tree = Append(TreeByNumber(db, block.n - 1), block.hash)

CheckBlock(db, block, root, latest) ==
    /\ TreeFollows(db, block)
    /\ ~ DuplicatesWithinBlock(block)
    /\ ~ block.fault
    /\ \A t \in ToSet(block.txs) :
           CheckTransaction(db, t, root[t], FALSE, block.n, None, latest)

---------------------------------------------------------------------------
(* Block.build: the next block follows the latest stored one, or the last  *)
(* one built when that is ahead.                                           *)

ResetLocal == [n |-> 0, prev |-> NoHash, tree |-> <<>>]

BuildBlock(db, local, txs, hash, proposer) ==
    LET last == LatestBlockInfo(db)
        stored == last.n + 1 >= local.n
        n == IF stored THEN last.n + 1 ELSE local.n
        timber == IF stored THEN TreeByNumber(db, n - 1) ELSE local.tree
    IN [NoBlock EXCEPT !.hash = hash, !.n = n, !.txs = txs, !.by = proposer,
                       !.prev = IF stored THEN last.hash ELSE local.prev,
                       !.tree = Append(timber, hash)]

(* What Block remembers of the block it has just built. *)
LocalAfter(block) == [n |-> block.n + 1, prev |-> block.hash, tree |-> block.tree]

(* The mempool in order of fee; equal fees in any order. *)
SortedByFee(db) ==
    {s \in SetToSeqs(Mempool(db)) :
        \A i \in 1..Len(s) - 1 : Fee[s[i]] >= Fee[s[i + 1]]}

(* How a mempool list can be cut into the transactions of blocks: by size, *)
(* where what is left after the last full block waits, or all of it in one *)
(* block when the period is over or a block was asked for.                 *)
Cuts(n) ==
    {cut \in UNION {[1..k -> 1..n] : k \in 1..n} :
        \A i, j \in DOMAIN cut : i < j => cut[i] < cut[j]}

Batches(s) ==
    {<<s>>} \cup
    {[i \in 1..Len(cut) |-> SubSeq(s, IF i = 1 THEN 1 ELSE cut[i - 1] + 1, cut[i])] :
        cut \in Cuts(Len(s) - 1)}
=============================================================================
