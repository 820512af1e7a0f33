------------------------------- MODULE Timber -------------------------------
(* The class Timber of common-files: Merkle trees that are filled from the *)
(* left. An instance is [root, frontier, leafCount, tree]; the `stateless' *)
(* functions do without the tree. Hashes are symbolic: that of l and r is  *)
(* <<l, r>>, a commitment is a sequence of one element, and ZERO, the hash *)
(* of an empty subtree of any height, is <<>>.                             *)
EXTENDS Integers, FiniteSets, SequencesExt

ZERO == <<>>
ConcatenateThenHash(l, r) == <<l, r>>

Leaf(v) == [tag |-> "leaf", value |-> v]
Branch(l, r) == [tag |-> "branch", left |-> l, right |-> r]

NewTimber == [root |-> ZERO, frontier |-> <<>>, leafCount |-> 0, tree |-> Leaf(ZERO)]

FloorLog2(n) == CHOOSE h \in 0..n : 2 ^ h <= n /\ n < 2 ^ (h + 1)
CeilLog2(n)  == CHOOSE h \in 0..n : n <= 2 ^ h /\ (h = 0 \/ 2 ^ (h - 1) < n)

(* A path down the tree: 0 for left, 1 for right. *)
Path(index, height) == [k \in 1..height |-> (index \div 2 ^ (height - k)) % 2]

(* Perfect subtrees of height i, full of leaves: the 'frontier slots'. *)
Slots(count, i) == count \div 2 ^ i

---------------------------------------------------------------------------
(* Trees                                                                   *)

(* _insertLeaf, and _safeInsertLeaf, which replaces nothing there is. *)
RECURSIVE PutAt(_, _, _, _)
PutAt(v, tree, path, safe) ==
    LET sub == IF tree.tag = "branch" THEN tree ELSE Branch(Leaf(ZERO), Leaf(ZERO)) IN
    IF path = <<>> THEN IF safe /\ tree # Leaf(ZERO) THEN tree ELSE Leaf(v)
    ELSE IF Head(path) = 0 THEN Branch(PutAt(v, sub.left, Tail(path), safe), sub.right)
    ELSE Branch(sub.left, PutAt(v, sub.right, Tail(path), safe))

RECURSIVE HashTree(_)
HashTree(tree) ==
    IF tree.tag = "leaf" THEN tree.value
    ELSE ConcatenateThenHash(HashTree(tree.left), HashTree(tree.right))

RECURSIVE ToArray(_)
ToArray(tree) ==
    IF tree.tag = "leaf" THEN <<tree.value>> ELSE ToArray(tree.left) \o ToArray(tree.right)

RECURSIVE MoveDown(_, _)
MoveDown(tree, dirs) ==
    IF dirs = <<>> \/ tree.tag = "leaf" THEN tree
    ELSE MoveDown(IF Head(dirs) = 0 THEN tree.left ELSE tree.right, Tail(dirs))

NotPruned(tree, path) == tree   \* mutant
RECURSIVE PruneRightSubTree(_, _)
PruneRightSubTree(tree, path) ==
    IF tree.tag = "leaf" THEN tree
    ELSE IF Head(path) = 0 THEN Branch(PruneRightSubTree(tree.left, Tail(path)), Leaf(ZERO))
    ELSE Branch(tree.left, PruneRightSubTree(tree.right, Tail(path)))

(* The roots of the left subtrees met going down the right edge: 0, 10, 110 ... *)
LeftPoints(tree, n) ==
    [k \in 1..n |-> HashTree(MoveDown(tree, [j \in 1..k |-> IF j = k THEN 0 ELSE 1]))]

(* The longer supersedes the shorter one beyond its end. *)
CombineFrontiers(a, b) ==
    LET long == IF Len(a) > Len(b) THEN a ELSE b
        short == IF Len(a) > Len(b) THEN b ELSE a
    IN short \o SubSeq(long, Len(short) + 1, Len(long))

RECURSIVE CalcFrontier(_, _, _)
CalcFrontier(tree, leafCount, height) ==
    IF leafCount = 0 THEN <<>> ELSE
    LET points == FloorLog2(leafCount) + 1
        width == IF leafCount > 1 THEN 2 ^ height ELSE 2
        top == MoveDown(tree, SubSeq(Path(leafCount - 1, height), 1, height - points))
        full == 2 ^ (points - 1)
    IN IF leafCount = width THEN <<HashTree(tree)>> \o LeftPoints(tree, points - 1)
       ELSE IF leafCount = 1 THEN <<MoveDown(top, Path(0, height)).value>>
       ELSE CombineFrontiers(
                Reverse(<<HashTree(top.left)>> \o LeftPoints(top.left, points - 1)),
                CalcFrontier(top.right, leafCount - full, points - 1))

---------------------------------------------------------------------------
(* Instances with their tree                                               *)

OfTree(tree, leafCount, height) ==
    [root |-> HashTree(tree), frontier |-> CalcFrontier(tree, leafCount, height),
     leafCount |-> leafCount, tree |-> tree]

(* Callers make sure that the tree has room. *)
InsertLeaves(timber, leaves, height) ==
    IF leaves = <<>> THEN timber
    ELSE LET AddLeaf(tree, i) ==
                 PutAt(leaves[i], tree, Path(timber.leafCount + i - 1, height), FALSE)
         IN OfTree(FoldLeft(AddLeaf, timber.tree, [i \in DOMAIN leaves |-> i]),
                   timber.leafCount + Len(leaves), height)
InsertLeafUncounted(timber, leaf, height) ==   \* mutant
    OfTree(PutAt(leaf, timber.tree, Path(timber.leafCount, height), FALSE),
           timber.leafCount, height)
InsertLeaf(timber, leaf, height) ==
    OfTree(PutAt(leaf, timber.tree, Path(timber.leafCount, height), FALSE),
           timber.leafCount + 1, height)

Rollback(timber, leafCount, height) ==
    IF leafCount = timber.leafCount THEN timber
    ELSE LET tree == IF leafCount = 0 THEN Leaf(ZERO)
                     ELSE PruneRightSubTree(timber.tree, Path(leafCount - 1, height))
         IN OfTree(tree, leafCount, height)

NotMember == [isMember |-> FALSE, path |-> <<>>]

RECURSIVE CheckMembership(_, _, _, _)
CheckMembership(v, tree, path, acc) ==
    IF tree.tag = "leaf"
    THEN IF tree.value = v THEN [isMember |-> TRUE, path |-> acc] ELSE NotMember
    ELSE IF Head(path) = 0
    THEN CheckMembership(v, tree.left, Tail(path),
                         <<[dir |-> "right", value |-> HashTree(tree.right)]>> \o acc)
    ELSE CheckMembership(v, tree.right, Tail(path),
                         <<[dir |-> "left", value |-> HashTree(tree.left)]>> \o acc)

GetSiblingPath(timber, v, index, height) ==
    IF timber.leafCount = 0 THEN NotMember
    ELSE CheckMembership(v, timber.tree, Path(index, height), <<>>)

(* Up from the leaf. *)
VerifySiblingPath(v, root, proof) ==
    LET Up(node, step) == IF step.dir = "right" THEN ConcatenateThenHash(node, step.value)
                          ELSE ConcatenateThenHash(step.value, node)
    IN proof.path # <<>> /\ FoldLeft(Up, v, proof.path) = root

---------------------------------------------------------------------------
(* Instances of which only root, frontier and leafCount are kept           *)

(* New leaves in batches that each fill up a subtree of the tree there is. *)
RECURSIVE BatchLeaves(_, _)
BatchLeaves(leafCount, leaves) ==
    LET odd == IF leaves = <<>> THEN {}
               ELSE {i \in 0..CeilLog2(Len(leaves)) - 1 : Slots(leafCount, i) % 2 = 1}
        n == 2 ^ (CHOOSE i \in odd : \A j \in odd : i <= j)
    IN IF leaves = <<>> THEN <<>>
       ELSE IF odd = {} THEN <<leaves>>
       ELSE <<SubSeq(leaves, 1, n)>> \o
            BatchLeaves(leafCount + n, SubSeq(leaves, n + 1, Len(leaves)))

(* Its frontier, made as long as that of both trees together if it has to be. *)
PaddedFrontier(timber, new, length) ==
    LET grown == {i \in 0..length - 1 : Slots(timber.leafCount + new.leafCount, i)
                                            # Slots(timber.leafCount, i)}
        Pad(f, i) == Append(f, ConcatenateThenHash(timber.frontier[i], f[i]))
    IN IF Len(new.frontier) >= Cardinality(grown) THEN new.frontier
       ELSE FoldLeft(Pad, new.frontier,
                     [k \in 1..length - Len(new.frontier) |-> Len(new.frontier) + k - 1])

(* The old point where there is one and it stays the last left subtree. *)
NewestPoint(timber, new, i) ==   \* mutant
    Slots(timber.leafCount + new.leafCount, i) = Slots(timber.leafCount, i)
KeepsPoint(timber, new, i) ==
    /\ Slots(timber.leafCount, i) # 0
    /\ \/ Slots(timber.leafCount + new.leafCount, i) = Slots(timber.leafCount, i)
       \/ Slots(timber.leafCount, i) % 2 = 1

(* The new leaves' own subtree, taken up to the root. *)
RootWith(timber, new, height) ==
    LET top == CeilLog2(new.leafCount)
        sub == MoveDown(new.tree, SubSeq(Path(new.leafCount - 1, height), 1, height - top))
        Up(root, i) ==
            IF \/ i >= Len(timber.frontier)
               \/ Slots(timber.leafCount, i) % 2 = 0
               \/ root = timber.frontier[i + 1]
            THEN ConcatenateThenHash(root, ZERO)
            ELSE ConcatenateThenHash(timber.frontier[i + 1], root)
    IN FoldLeft(Up, HashTree(sub), [k \in 1..height - top |-> top + k - 1])

UpdateWithBatch(timber, leaves, height) ==
    LET new == InsertLeaves(NewTimber, leaves, height)
        leafCount == timber.leafCount + new.leafCount
        length == FloorLog2(leafCount) + 1
        padded == PaddedFrontier(timber, new, length)
    IN IF timber.leafCount = 0 THEN new
       ELSE [root |-> RootWith(timber, new, height),
             frontier |-> [k \in 1..length |-> IF KeepsPoint(timber, new, k - 1)
                                               THEN timber.frontier[k] ELSE padded[k]],
             leafCount |-> leafCount, tree |-> Leaf(ZERO)]

StatelessUpdate(timber, leaves, height) ==
    FoldLeft(LAMBDA t, batch : UpdateWithBatch(t, batch, height),
             timber, BatchLeaves(timber.leafCount, leaves))

(* Where the frontier point of height i is in the tree. *)
FrontierIndex(leafCount, i) ==
    IF Slots(leafCount, i) % 2 = 0 THEN Slots(leafCount, i) - 2 ELSE Slots(leafCount, i) - 1

FrontierToTree(timber, height) ==
    FoldLeft(LAMBDA tree, k : PutAt(timber.frontier[k], tree,
                 Path(FrontierIndex(timber.leafCount, k - 1), height - k + 1), FALSE),
             Leaf(ZERO), [k \in DOMAIN timber.frontier |-> k])

WithBatches(timber, tree, leaves, height) ==
    FoldLeft(LAMBDA t, batch : InsertLeaves(t, batch, height),
             [timber EXCEPT !.tree = tree], BatchLeaves(timber.leafCount, leaves))

(* The path of leaves[index], counted from 0. *)
StatelessSiblingPath(timber, leaves, index, height) ==
    IF index \notin 0..Len(leaves) - 1 THEN NotMember
    ELSE GetSiblingPath(WithBatches(timber, FrontierToTree(timber, height), leaves, height),
                        leaves[index + 1], index + timber.leafCount, height)

(* Nothing on the path replaces what the frontier has put there. *)
InsertOverFrontier(tree, siblingPath, index, v, height) ==   \* mutant
    LET down == Path(index, height)
        Aside(acc, k) ==
            PutAt(siblingPath.path[k].value, acc,
                  Append(SubSeq(down, 1, height - k),
                         IF siblingPath.path[k].dir = "left" THEN 0 ELSE 1), FALSE)
    IN FoldLeft(Aside, PutAt(v, tree, down, TRUE), [k \in DOMAIN siblingPath.path |-> k])

InsertSiblingPath(tree, siblingPath, index, v, height) ==
    LET down == Path(index, height)
        Aside(acc, k) ==
            PutAt(siblingPath.path[k].value, acc,
                  Append(SubSeq(down, 1, height - k),
                         IF siblingPath.path[k].dir = "left" THEN 0 ELSE 1), TRUE)
    IN FoldLeft(Aside, PutAt(v, tree, down, TRUE), [k \in DOMAIN siblingPath.path |-> k])

(* The path of an older leaf, brought up to date. *)
StatelessIncrementSiblingPath(timber, leaves, index, v, siblingPath, height) ==
    IF leaves = <<>> \/ index \notin 0..timber.leafCount - 1 THEN siblingPath
    ELSE LET tree == InsertSiblingPath(FrontierToTree(timber, height), siblingPath, index, v,
                                       height)
         IN GetSiblingPath(WithBatches(timber, tree, leaves, height), v, index, height)
=============================================================================
