----------------------------- MODULE MerkleTree -----------------------------
(* What the contracts compute of the same trees: MerkleTree_Stateless for  *)
(* commitments, whose frontier always has HEIGHT + 1 points, and Utils for *)
(* the hashes of a block's transactions.                                   *)
EXTENDS Timber

CONSTANT HEIGHT   \* TIMBER_HEIGHT, 32 in the code

NoFrontier == [k \in 1..HEIGHT + 1 |-> ZERO]

(* The height of the frontier point that the leaf with this index completes. *)
GetFrontierSlot(index) ==
    CHOOSE slot \in 0..HEIGHT : (index + 1) % 2 ^ (slot + 1) = 2 ^ slot

(* The node one level further up; index is the leaf's. *)
Parent(frontier, node, index, level) ==
    IF (index \div 2 ^ level) % 2 = 1 THEN ConcatenateThenHash(frontier[level + 1], node)
    ELSE ConcatenateThenHash(node, ZERO)

UpdateFrontier(leafValues, frontier, leafCountBefore) ==
    LET Put(f, i) ==
            LET index == leafCountBefore + i - 1
                slot == GetFrontierSlot(index)
                Up(node, level) == Parent(f, node, index, level - 1)
            IN [f EXCEPT ![slot + 1] =
                    FoldLeft(Up, leafValues[i], [level \in 1..slot |-> level])]
    IN FoldLeft(Put, frontier, [i \in DOMAIN leafValues |-> i])

CalculateRoot(frontier, leafCount) ==
    LET slot == GetFrontierSlot(leafCount - 1)
        Up(node, level) == Parent(frontier, node, leafCount - 1, level)
    IN FoldLeft(Up, frontier[slot + 1], [k \in 1..HEIGHT - slot |-> slot + k - 1])

(* The height of the tree of a block's transactions. *)
TransactionsHeight(n) == CHOOSE h \in 1..n : 2 ^ h >= n /\ (h = 1 \/ 2 ^ (h - 1) < n)

CalculateMerkleRoot(leaves) ==
    LET height == TransactionsHeight(Len(leaves))
        row == leaves \o [k \in 1..2 ^ height - Len(leaves) |-> ZERO]
        Pair(l, r) == IF l = ZERO /\ r = ZERO THEN ZERO ELSE ConcatenateThenHash(l, r)
        Above(nodes, i) == [k \in 1..Len(nodes) \div 2 |-> Pair(nodes[2 * k - 1], nodes[2 * k])]
    IN FoldLeft(Above, row, [i \in 1..height |-> i])[1]

(* siblingPath: the root and the siblings below it, from the top down. *)
CheckPath(siblingPath, leafIndex, node) ==
    LET n == Len(siblingPath)
        Up(x, k) ==
            IF (leafIndex \div 2 ^ (k - 1)) % 2 = 0
            THEN ConcatenateThenHash(x, siblingPath[n + 1 - k])
            ELSE ConcatenateThenHash(siblingPath[n + 1 - k], x)
    IN siblingPath[1] = FoldLeft(Up, node, [k \in 1..n - 1 |-> k])
=============================================================================
