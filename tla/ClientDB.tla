----------------------------- MODULE ClientDB ------------------------------
(* The collections the client keeps in Mongo, as one record, and one       *)
(* operator per function of its services that changes or selects from them.*)
(*   commitments - own commitment -> its marks; a nullifier is identified  *)
(*                 with the commitment it nullifies                        *)
(*   txs         - transaction -> number of its block, decrypted or not    *)
(*   blocks      - number -> transaction of a block saved                  *)
(*   trees       - in the order of insertion, by L1 transaction; a tree is *)
(*                 the sequence of the transactions whose commitments it   *)
(*                 holds, and stands for its root                          *)
EXTENDS Integers, Sequences, FiniteSets, FiniteSetsExt, SequencesExt, TLC

NoTree == <<0>>   \* no sibling path stored; transactions count from 1

EmptyDB == [commitments |-> <<>>, txs |-> <<>>, blocks |-> <<>>, trees |-> <<>>]

Without(f, keys) == [k \in DOMAIN f \ keys |-> f[k]]
With(f, k, v) == [x \in DOMAIN f \cup {k} |-> IF x = k THEN v ELSE f[x]]

Held(db, cs) == cs \cap DOMAIN db.commitments

(* The marks of those commitments of cs that are stored are changed. *)
Mark(db, cs, To(_)) ==
    [db EXCEPT !.commitments =
        [c \in DOMAIN @ |-> IF c \in cs THEN To(@[c]) ELSE @[c]]]

---------------------------------------------------------------------------
(* Commitments                                                             *)

(* Upserts: a commitment stored again loses the marks it had, but keeps    *)
(* its sibling path, which is not among the fields written.                *)
StoreCommitments(db, cs, deposited) ==
    [db EXCEPT !.commitments = [c \in DOMAIN @ \cup cs |->
        IF c \notin cs THEN @[c]
        ELSE [onChain |-> -1, pending |-> FALSE, nullified |-> FALSE, nullifiedOnChain |-> -1,
              l1 |-> -1, deposited |-> c \in deposited, inTx |-> TRUE,
              root |-> IF c \in DOMAIN @ THEN @[c].root ELSE NoTree, by |-> 0]]]

MarkOnChain(db, cs, n, l1) ==
    Mark(db, cs, LAMBDA m : IF m.onChain = -1 THEN [m EXCEPT !.onChain = n, !.l1 = l1] ELSE m)

SetSiblingInfo(db, cs, root) ==
    Mark(db, cs, LAMBDA m : IF m.onChain # -1 THEN [m EXCEPT !.root = root] ELSE m)

MarkPending(db, cs) == Mark(db, cs, LAMBDA m : [m EXCEPT !.pending = TRUE])

MarkNullified(db, cs, t) ==
    Mark(db, cs, LAMBDA m : [m EXCEPT !.pending = FALSE, !.nullified = TRUE, !.by = t])

MarkNullifiedOnChain(db, cs, n, l1) ==
    Mark(db, cs, LAMBDA m : IF m.nullifiedOnChain = -1
                            THEN [m EXCEPT !.nullifiedOnChain = n, !.l1 = l1] ELSE m)

ClearNullifiedOnChain(db, n) ==
    Mark(db, DOMAIN db.commitments, LAMBDA m :
        IF m.nullifiedOnChain >= n THEN [m EXCEPT !.nullifiedOnChain = -1, !.l1 = -1] ELSE m)

ClearNullifiersNot(db, cs) == db   \* mutant
ClearNullifiers(db, cs) == Mark(db, cs, LAMBDA m : [m EXCEPT !.nullified = FALSE])

ClearOnChainAbove(db, n) ==   \* mutant
    Mark(db, DOMAIN db.commitments, LAMBDA m :
        IF m.onChain > n THEN [m EXCEPT !.onChain = -1, !.l1 = -1] ELSE m)
ClearOnChain(db, n) ==
    Mark(db, DOMAIN db.commitments, LAMBDA m :
        IF m.onChain >= n THEN [m EXCEPT !.onChain = -1, !.l1 = -1] ELSE m)

ClearPending(db, cs) == Mark(db, cs, LAMBDA m : [m EXCEPT !.pending = FALSE])

(* Deposited ones stay, to be put into a transaction again. *)
DeleteCommitments(db, cs) ==
    LET gone == {c \in Held(db, cs) : ~ db.commitments[c].deposited}
    IN Mark([db EXCEPT !.commitments = Without(@, gone)], cs,
            LAMBDA m : [m EXCEPT !.inTx = FALSE])

GetAvailableAlsoPending(db) ==   \* mutant
    {c \in DOMAIN db.commitments : ~ db.commitments[c].nullified}
GetAvailableCommitments(db) ==
    {c \in DOMAIN db.commitments :
        ~ db.commitments[c].nullified /\ ~ db.commitments[c].pending}

(* A commitment the user names need not be unspent for this. *)
GetCommitmentsAvailableByHash(db) ==
    {c \in DOMAIN db.commitments :
        ~ db.commitments[c].pending /\ db.commitments[c].nullifiedOnChain = -1}

---------------------------------------------------------------------------
(* Trees, blocks, transactions                                             *)

GetNumberOfL2Blocks(db) == Len(db.trees)

GetTreeByBlockNumberL2(db, n) ==
    LET i == SelectInSeq(db.trees, LAMBDA t : t.n = n)
    IN IF i = 0 THEN <<>> ELSE db.trees[i].tree

TreeKnown(db, l1) == \E i \in DOMAIN db.trees : db.trees[i].l1 = l1

SaveTree(db, l1, n, tree) ==
    [db EXCEPT !.trees = Append(@, [l1 |-> l1, n |-> n, tree |-> tree])]

(* The trees of numbers below n stay, in their order. *)
KeepBelow(trees, n) ==
    FoldLeft(LAMBDA kept, t : IF t.n < n THEN Append(kept, t) ELSE kept, <<>>, trees)
DeleteTreeByBlockNumberL2(db, n) == [db EXCEPT !.trees = KeepBelow(@, n)]

SaveBlock(db, n, t) == [db EXCEPT !.blocks = With(@, n, t)]

FindBlocksFromBlockNumberL2(db, n) == {m \in DOMAIN db.blocks : m >= n}

DeleteBlocksByBlockNumberL2(db, n) ==
    [db EXCEPT !.blocks = Without(@, FindBlocksFromBlockNumberL2(db, n))]

(* Stored once; of one already there only a missing number is filled in. *)
SaveTransaction(db, t, n, decrypted) ==
    [db EXCEPT !.txs =
        IF t \notin DOMAIN @ THEN With(@, t, [n |-> n, decrypted |-> decrypted])
        ELSE IF @[t].n = -1 THEN [@ EXCEPT ![t].n = n] ELSE @]

DeleteTransactions(db, ts) == [db EXCEPT !.txs = Without(@, ts)]

GetTransactionsByL2Block(db, n) ==
    {t \in {db.blocks[n]} \cap DOMAIN db.txs : db.txs[t].n = n}
=============================================================================
