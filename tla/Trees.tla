------------------------------- MODULE Trees --------------------------------
(* The trees of a chain of L2 blocks, as all who keep them compute them:   *)
(* proposers, optimists and clients, who store root, frontier and leaf     *)
(* count of each block; whoever keeps a whole tree, and a sibling path for *)
(* each commitment in it; and the contracts, when a block is challenged.   *)
EXTENDS MerkleTree

CONSTANTS
    Shapes,         \* <<commitments, transactions>> of a block
    MaxBlocks,      \* bound: blocks
    MaxRollbacks    \* bound: rollbacks

ASSUME TreesAssumption ==
    /\ HEIGHT \in Nat \ {0} /\ {MaxBlocks, MaxRollbacks} \subseteq Nat
    /\ Shapes \subseteq Nat \X (Nat \ {0})

VARIABLES
    leaves,     \* the commitments on chain, in order
    blocks,     \* per block: the tree stored, and its transactions with their paths
    tree,       \* the whole tree
    paths,      \* the sibling path of each commitment
    rollbacks

vars == <<leaves, blocks, tree, paths, rollbacks>>

Init == leaves = <<>> /\ blocks = <<>> /\ tree = NewTimber /\ paths = <<>> /\ rollbacks = 0

(* getLatestTree: what is stored, with an empty tree. *)
LatestTree == IF blocks = <<>> THEN NewTimber
              ELSE [blocks[Len(blocks)].timber EXCEPT !.tree = Leaf(ZERO)]

(* Transaction hashes, different in every block. *)
Hashes(n) == [k \in 1..n |-> <<<<rollbacks, Len(blocks), k>>>>]

(* calcTransactionHashesRoot: with each hash is kept its path, root first. *)
FlatHeight(n) == TransactionsHeight(n) + 1   \* mutant
TreeHeight(n) == TransactionsHeight(n)
TransactionTree(hashes) ==
    LET height == TreeHeight(Len(hashes))
        root == StatelessUpdate(NewTimber, hashes, height).root
        Siblings(i) ==
            LET up == StatelessSiblingPath(NewTimber, hashes, i - 1, height).path
            IN <<root>> \o Reverse([k \in DOMAIN up |-> up[k].value])
    IN [root |-> root, hashes |-> hashes, paths |-> [i \in DOMAIN hashes |-> Siblings(i)]]

(* A block with n new commitments. The last place in the tree stays free:  *)
(* nobody makes 2 ^ 32 commitments.                                        *)
AddBlock(n, transactions) ==
    LET new == [k \in 1..n |-> <<<<rollbacks, Len(leaves) + k>>>>]
        Old(i) == StatelessIncrementSiblingPath(LatestTree, new, i - 1, leaves[i], paths[i], HEIGHT)
        New(k) == StatelessSiblingPath(LatestTree, new, k - 1, HEIGHT)
    IN /\ Len(blocks) < MaxBlocks
       /\ Len(leaves) + n < 2 ^ HEIGHT
       /\ blocks' = Append(blocks, [timber |-> StatelessUpdate(LatestTree, new, HEIGHT),
                                    transactions |-> TransactionTree(Hashes(transactions))])
       /\ tree' = IF n = 1 THEN InsertLeaf(tree, new[1], HEIGHT)
                  ELSE InsertLeaves(tree, new, HEIGHT)
       /\ paths' = [i \in DOMAIN leaves |-> Old(i)] \o [k \in 1..n |-> New(k)]
       /\ leaves' = leaves \o new
       /\ UNCHANGED rollbacks

(* The blocks after the first n are removed. *)
RollBack(n) ==
    LET leafCount == IF n = 0 THEN 0 ELSE blocks[n].timber.leafCount
        pruned == Rollback(tree, leafCount, HEIGHT)
    IN /\ rollbacks < MaxRollbacks
       /\ rollbacks' = rollbacks + 1
       /\ blocks' = SubSeq(blocks, 1, n)
       /\ leaves' = SubSeq(leaves, 1, leafCount)
       /\ tree' = pruned
       /\ paths' = [i \in 1..leafCount |-> GetSiblingPath(pruned, leaves[i], i - 1, HEIGHT)]

Next ==
    \/ \E shape \in Shapes : AddBlock(shape[1], shape[2])
    \/ \E n \in 0..Len(blocks) - 1 : RollBack(n)

Spec == Init /\ [][Next]_vars

---------------------------------------------------------------------------
(* Properties                                                              *)

TypeOK ==
    /\ Len(blocks) <= MaxBlocks /\ Len(paths) = Len(leaves)
    /\ tree.leafCount = Len(leaves) /\ LatestTree.leafCount = Len(leaves)

(* The root of the tree of that height over these leaves, by definition. *)
RECURSIVE RootOf(_, _)
RootOf(s, height) ==
    IF s = <<>> THEN ZERO
    ELSE IF height = 0 THEN s[1]
    ELSE LET half == 2 ^ (height - 1) IN
         ConcatenateThenHash(RootOf(SubSeq(s, 1, IF half < Len(s) THEN half ELSE Len(s)), height - 1),
                             RootOf(SubSeq(s, half + 1, Len(s)), height - 1))

(* Adding each block's commitments to nothing but a frontier, keeping the  *)
(* whole tree, and the contract's calculation from the frontier, give the  *)
(* root that the commitments on chain define, however they were split into *)
(* blocks and rolled back: were they to differ, an honest proposer's block *)
(* could be challenged.                                                    *)
RootsAgree ==
    LET root == RootOf(leaves, HEIGHT) IN
    /\ LatestTree.root = root /\ tree.root = root
    /\ leaves # <<>> =>
           CalculateRoot(UpdateFrontier(leaves, NoFrontier, 0), Len(leaves)) = root

(* Timber's frontier, padded with zeros as calculateFrontierHash does, is  *)
(* what the contract has after inserting the same leaves one by one.       *)
Padded(frontier) == frontier \o SubSeq(NoFrontier, Len(frontier) + 1, HEIGHT + 1)
FrontiersAgree ==
    LET frontier == UpdateFrontier(leaves, NoFrontier, 0) IN
    Padded(LatestTree.frontier) = frontier /\ Padded(tree.frontier) = frontier

(* The path of every commitment, made without the tree when it came in and *)
(* brought up to date from block to block, leads to the latest root.       *)
PathsLeadToRoot ==
    \A i \in DOMAIN leaves :
        paths[i].isMember /\ VerifySiblingPath(leaves[i], tree.root, paths[i])

(* The contract accepts the path kept for any transaction of a block, with *)
(* the root that it computed itself when the block was proposed.           *)
TransactionsProvable ==
    \A b \in DOMAIN blocks :
        LET t == blocks[b].transactions IN
        /\ t.root = CalculateMerkleRoot(t.hashes)
        /\ \A i \in DOMAIN t.hashes : CheckPath(t.paths[i], i - 1, t.hashes[i])

(* libChallengeNewFrontierCorrect: whether the frontier of block b can be  *)
(* shown wrong. The leaf count passed on is the one of the block itself.   *)
NewFrontierRefuted(b) ==
    LET before == IF b = 1 THEN NewTimber ELSE blocks[b - 1].timber
        after == blocks[b].timber
        new == SubSeq(leaves, before.leafCount + 1, after.leafCount)
    IN UpdateFrontier(new, Padded(before.frontier), after.leafCount) # Padded(after.frontier)

(* ChallengesUtil.sol:32: otherwise "The frontier is actually fine".       *)
HonestFrontierStands == \A b \in DOMAIN blocks : ~NewFrontierRefuted(b)
=============================================================================
