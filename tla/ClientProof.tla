---------------------------- MODULE ClientProof ----------------------------
(***************************************************************************)
(* Theorems about Client, for any requests, any kinds of transaction among *)
(* the client's services and any bounds.                                   *)
(***************************************************************************)
EXTENDS Client, FoldLemmas

IsMarks(m) ==
  m \in [onChain : Int, pending : BOOLEAN, nullified : BOOLEAN, nullifiedOnChain : Int,
         l1 : Int, deposited : BOOLEAN, inTx : BOOLEAN, root : {m.root}, by : Nat]

IsDB(d) ==
  /\ d \in [commitments : {d.commitments}, txs : {d.txs}, blocks : {d.blocks}, trees : {d.trees}]
  /\ \A c \in DOMAIN d.commitments : IsMarks(d.commitments[c])

(* From d to e nothing is stored but commitments of cs and transactions of *)
(* ts, and nothing is held back that was not.                              *)
Tame(d, e, cs, ts) ==
  /\ IsDB(e)
  /\ DOMAIN e.commitments \subseteq DOMAIN d.commitments \cup cs
  /\ DOMAIN e.txs \subseteq DOMAIN d.txs \cup ts
  /\ \A c \in DOMAIN e.commitments :
       e.commitments[c].pending => c \in DOMAIN d.commitments /\ d.commitments[c].pending

LEMMA TameTwice ==
  ASSUME NEW d, NEW e, NEW f, NEW cs, NEW ts, NEW cs2, NEW ts2,
         Tame(d, e, cs, ts), Tame(e, f, cs2, ts2)
  PROVE  Tame(d, f, cs \cup cs2, ts \cup ts2)
BY DEF Tame

(***************************************************************************)
(* The operators of the database.                                          *)
(***************************************************************************)
LEMMA CommitmentsOnly ==
  ASSUME NEW d, IsDB(d), NEW f, NEW cs,
         \A c \in DOMAIN f : IsMarks(f[c]),
         DOMAIN f \subseteq DOMAIN d.commitments \cup cs,
         \A c \in DOMAIN f :
           f[c].pending => c \in DOMAIN d.commitments /\ d.commitments[c].pending
  PROVE  Tame(d, [d EXCEPT !.commitments = f], cs, {})
<1> DEFINE e == [d EXCEPT !.commitments = f]
<1>1. e.commitments = f /\ e.txs = d.txs /\ e.blocks = d.blocks /\ e.trees = d.trees
  BY DEF IsDB
<1>2. e \in [commitments : {f}, txs : {d.txs}, blocks : {d.blocks}, trees : {d.trees}]
  BY DEF IsDB
<1>3. QED  BY <1>1, <1>2 DEF IsDB, Tame

LEMMA StoreTame ==
  ASSUME NEW d, IsDB(d), NEW cs, NEW deposited
  PROVE  Tame(d, StoreCommitments(d, cs, deposited), cs, {})
<1> DEFINE Root(c) == IF c \in DOMAIN d.commitments THEN d.commitments[c].root ELSE NoTree
           Fresh(c) == [onChain |-> -1, pending |-> FALSE, nullified |-> FALSE,
                        nullifiedOnChain |-> -1, l1 |-> -1, deposited |-> c \in deposited,
                        inTx |-> TRUE, root |-> Root(c), by |-> 0]
           f == [c \in DOMAIN d.commitments \cup cs |->
                   IF c \notin cs THEN d.commitments[c] ELSE Fresh(c)]
<1>1. \A c : IsMarks(Fresh(c)) /\ ~ Fresh(c).pending
  <2> TAKE c
  <2> HIDE DEF Root
  <2>1. (c \in deposited) \in BOOLEAN
    OBVIOUS
  <2>2. QED  BY <2>1 DEF IsMarks
<1> HIDE DEF Fresh
<1>2. \A c \in DOMAIN f : /\ IsMarks(f[c])
                          /\ f[c].pending => c \in DOMAIN d.commitments
                                             /\ d.commitments[c].pending
  BY <1>1 DEF IsDB
<1>3. Tame(d, [d EXCEPT !.commitments = f], cs, {})
  BY <1>2, CommitmentsOnly
<1>4. QED  BY <1>3 DEF StoreCommitments, Fresh

LEMMA MarkOnChainTame ==
  ASSUME NEW d, IsDB(d), NEW cs, NEW n \in Int, NEW l1 \in Int
  PROVE  Tame(d, MarkOnChain(d, cs, n, l1), {}, {})
<1> DEFINE To(m) == IF m.onChain = -1 THEN [m EXCEPT !.onChain = n, !.l1 = l1] ELSE m
           f == [c \in DOMAIN d.commitments |->
                   IF c \in cs THEN To(d.commitments[c]) ELSE d.commitments[c]]
<1>1. ASSUME NEW m, IsMarks(m) PROVE IsMarks(To(m)) /\ To(m).pending = m.pending
  BY <1>1 DEF IsMarks
<1>2. \A c \in DOMAIN f : IsMarks(f[c]) /\ f[c].pending = d.commitments[c].pending
  BY <1>1 DEF IsDB
<1>3. Tame(d, [d EXCEPT !.commitments = f], {}, {})
  BY <1>2, CommitmentsOnly
<1>4. QED  BY <1>3 DEF MarkOnChain, Mark

LEMMA SetSiblingInfoTame ==
  ASSUME NEW d, IsDB(d), NEW cs, NEW root
  PROVE  Tame(d, SetSiblingInfo(d, cs, root), {}, {})
<1> DEFINE To(m) == IF m.onChain # -1 THEN [m EXCEPT !.root = root] ELSE m
           f == [c \in DOMAIN d.commitments |->
                   IF c \in cs THEN To(d.commitments[c]) ELSE d.commitments[c]]
<1>1. ASSUME NEW m, IsMarks(m) PROVE IsMarks(To(m)) /\ To(m).pending = m.pending
  BY <1>1 DEF IsMarks
<1>2. \A c \in DOMAIN f : IsMarks(f[c]) /\ f[c].pending = d.commitments[c].pending
  BY <1>1 DEF IsDB
<1>3. Tame(d, [d EXCEPT !.commitments = f], {}, {})
  BY <1>2, CommitmentsOnly
<1>4. QED  BY <1>3 DEF SetSiblingInfo, Mark

LEMMA MarkNullifiedOnChainTame ==
  ASSUME NEW d, IsDB(d), NEW cs, NEW n \in Int, NEW l1 \in Int
  PROVE  Tame(d, MarkNullifiedOnChain(d, cs, n, l1), {}, {})
<1> DEFINE To(m) == IF m.nullifiedOnChain = -1
                    THEN [m EXCEPT !.nullifiedOnChain = n, !.l1 = l1] ELSE m
           f == [c \in DOMAIN d.commitments |->
                   IF c \in cs THEN To(d.commitments[c]) ELSE d.commitments[c]]
<1>1. ASSUME NEW m, IsMarks(m) PROVE IsMarks(To(m)) /\ To(m).pending = m.pending
  BY <1>1 DEF IsMarks
<1>2. \A c \in DOMAIN f : IsMarks(f[c]) /\ f[c].pending = d.commitments[c].pending
  BY <1>1 DEF IsDB
<1>3. Tame(d, [d EXCEPT !.commitments = f], {}, {})
  BY <1>2, CommitmentsOnly
<1>4. QED  BY <1>3 DEF MarkNullifiedOnChain, Mark

LEMMA Retimed ==
  ASSUME NEW m, IsMarks(m), NEW n \in Int, NEW l1 \in Int
  PROVE  /\ IsMarks([m EXCEPT !.onChain = n, !.l1 = l1])
         /\ [m EXCEPT !.onChain = n, !.l1 = l1].pending = m.pending
         /\ IsMarks([m EXCEPT !.nullifiedOnChain = n, !.l1 = l1])
         /\ [m EXCEPT !.nullifiedOnChain = n, !.l1 = l1].pending = m.pending
BY DEF IsMarks

LEMMA ClearNullifiedOnChainTame ==
  ASSUME NEW d, IsDB(d), NEW n \in Int
  PROVE  Tame(d, ClearNullifiedOnChain(d, n), {}, {})
<1> DEFINE To(m) == IF m.nullifiedOnChain >= n
                    THEN [m EXCEPT !.nullifiedOnChain = -1, !.l1 = -1] ELSE m
           f == [c \in DOMAIN d.commitments |->
                   IF c \in DOMAIN d.commitments THEN To(d.commitments[c])
                   ELSE d.commitments[c]]
<1>1. ASSUME NEW m, IsMarks(m) PROVE IsMarks(To(m)) /\ To(m).pending = m.pending
  <2>1. /\ IsMarks([m EXCEPT !.nullifiedOnChain = -1, !.l1 = -1])
        /\ [m EXCEPT !.nullifiedOnChain = -1, !.l1 = -1].pending = m.pending
    BY <1>1, -1 \in Int, Retimed
  <2>2. CASE m.nullifiedOnChain >= n
    BY <2>1, <2>2
  <2>3. CASE ~ (m.nullifiedOnChain >= n)
    BY <1>1, <2>3
  <2>4. QED  BY <2>2, <2>3
<1>2. \A c \in DOMAIN f : IsMarks(f[c]) /\ f[c].pending = d.commitments[c].pending
  BY <1>1 DEF IsDB
<1>3. Tame(d, [d EXCEPT !.commitments = f], {}, {})
  BY <1>2, CommitmentsOnly
<1>4. QED  BY <1>3 DEF ClearNullifiedOnChain, Mark

LEMMA ClearOnChainTame ==
  ASSUME NEW d, IsDB(d), NEW n \in Int
  PROVE  Tame(d, ClearOnChain(d, n), {}, {})
<1> DEFINE To(m) == IF m.onChain >= n THEN [m EXCEPT !.onChain = -1, !.l1 = -1] ELSE m
           f == [c \in DOMAIN d.commitments |->
                   IF c \in DOMAIN d.commitments THEN To(d.commitments[c])
                   ELSE d.commitments[c]]
<1>1. ASSUME NEW m, IsMarks(m) PROVE IsMarks(To(m)) /\ To(m).pending = m.pending
  <2>1. /\ IsMarks([m EXCEPT !.onChain = -1, !.l1 = -1])
        /\ [m EXCEPT !.onChain = -1, !.l1 = -1].pending = m.pending
    BY <1>1, -1 \in Int, Retimed
  <2>2. CASE m.onChain >= n
    BY <2>1, <2>2
  <2>3. CASE ~ (m.onChain >= n)
    BY <1>1, <2>3
  <2>4. QED  BY <2>2, <2>3
<1>2. \A c \in DOMAIN f : IsMarks(f[c]) /\ f[c].pending = d.commitments[c].pending
  BY <1>1 DEF IsDB
<1>3. Tame(d, [d EXCEPT !.commitments = f], {}, {})
  BY <1>2, CommitmentsOnly
<1>4. QED  BY <1>3 DEF ClearOnChain, Mark

LEMMA ClearNullifiersTame ==
  ASSUME NEW d, IsDB(d), NEW cs
  PROVE  Tame(d, ClearNullifiers(d, cs), {}, {})
<1> DEFINE To(m) == [m EXCEPT !.nullified = FALSE]
           f == [c \in DOMAIN d.commitments |->
                   IF c \in cs THEN To(d.commitments[c]) ELSE d.commitments[c]]
<1>1. ASSUME NEW m, IsMarks(m) PROVE IsMarks(To(m)) /\ To(m).pending = m.pending
  BY <1>1 DEF IsMarks
<1>2. \A c \in DOMAIN f : IsMarks(f[c]) /\ f[c].pending = d.commitments[c].pending
  BY <1>1 DEF IsDB
<1>3. Tame(d, [d EXCEPT !.commitments = f], {}, {})
  BY <1>2, CommitmentsOnly
<1>4. QED  BY <1>3 DEF ClearNullifiers, Mark

(* What a request selected is held back; what is released or spent is not. *)
LEMMA MarkPendingHolds ==
  ASSUME NEW d, IsDB(d), NEW cs
  PROVE  LET e == MarkPending(d, cs) IN
         /\ IsDB(e) /\ DOMAIN e.commitments = DOMAIN d.commitments /\ e.txs = d.txs
         /\ \A c \in DOMAIN e.commitments :
              e.commitments[c].pending => c \in cs \/ d.commitments[c].pending
<1> DEFINE f == [c \in DOMAIN d.commitments |->
                   IF c \in cs THEN [d.commitments[c] EXCEPT !.pending = TRUE]
                   ELSE d.commitments[c]]
           e == [d EXCEPT !.commitments = f]
<1>1. ASSUME NEW m, IsMarks(m) PROVE IsMarks([m EXCEPT !.pending = TRUE])
  BY <1>1 DEF IsMarks
<1>2. \A c \in DOMAIN f : IsMarks(f[c]) /\ (c \notin cs => f[c] = d.commitments[c])
  BY <1>1 DEF IsDB
<1> HIDE DEF f
<1>3. e.commitments = f /\ e.txs = d.txs /\ e.blocks = d.blocks /\ e.trees = d.trees
  BY DEF IsDB
<1>4. e \in [commitments : {f}, txs : {d.txs}, blocks : {d.blocks}, trees : {d.trees}]
  BY DEF IsDB
<1>5. IsDB(e)  BY <1>2, <1>3, <1>4 DEF IsDB
<1>6. DOMAIN f = DOMAIN d.commitments  BY DEF f
<1>7. e = MarkPending(d, cs)  BY DEF MarkPending, Mark, f
<1>8. QED  BY <1>2, <1>3, <1>5, <1>6, <1>7

(* The marks are gone from cs and nothing else is held back.               *)
Releases(d, e, cs) ==
  /\ Tame(d, e, {}, {})
  /\ \A c \in cs \cap DOMAIN e.commitments : ~ e.commitments[c].pending

LEMMA ClearPendingReleases ==
  ASSUME NEW d, IsDB(d), NEW cs
  PROVE  Releases(d, ClearPending(d, cs), cs)
<1> DEFINE f == [c \in DOMAIN d.commitments |->
                   IF c \in cs THEN [d.commitments[c] EXCEPT !.pending = FALSE]
                   ELSE d.commitments[c]]
<1>1. ASSUME NEW m, IsMarks(m)
      PROVE  /\ IsMarks([m EXCEPT !.pending = FALSE])
             /\ [m EXCEPT !.pending = FALSE].pending = FALSE
  BY <1>1 DEF IsMarks
<1>2. \A c \in DOMAIN f : /\ IsMarks(f[c])
                          /\ f[c].pending => c \notin cs /\ d.commitments[c].pending
  BY <1>1 DEF IsDB
<1> HIDE DEF f
<1>3. DOMAIN f = DOMAIN d.commitments  BY DEF f
<1>4. Tame(d, [d EXCEPT !.commitments = f], {}, {})
  BY <1>2, <1>3, CommitmentsOnly
<1>5. [d EXCEPT !.commitments = f].commitments = f  BY DEF IsDB
<1>6. ClearPending(d, cs) = [d EXCEPT !.commitments = f]
  BY DEF ClearPending, Mark, f
<1>7. QED  BY <1>2, <1>4, <1>5, <1>6 DEF Releases

LEMMA MarkNullifiedReleases ==
  ASSUME NEW d, IsDB(d), NEW cs, NEW t \in Nat
  PROVE  Releases(d, MarkNullified(d, cs, t), cs)
<1> DEFINE To(m) == [m EXCEPT !.pending = FALSE, !.nullified = TRUE, !.by = t]
           f == [c \in DOMAIN d.commitments |->
                   IF c \in cs THEN To(d.commitments[c]) ELSE d.commitments[c]]
<1>1. ASSUME NEW m, IsMarks(m) PROVE IsMarks(To(m)) /\ To(m).pending = FALSE
  BY <1>1 DEF IsMarks
<1>2. \A c \in DOMAIN f : /\ IsMarks(f[c])
                          /\ f[c].pending => c \notin cs /\ d.commitments[c].pending
  BY <1>1 DEF IsDB
<1> HIDE DEF f
<1>3. DOMAIN f = DOMAIN d.commitments  BY DEF f
<1>4. Tame(d, [d EXCEPT !.commitments = f], {}, {})
  BY <1>2, <1>3, CommitmentsOnly
<1>5. [d EXCEPT !.commitments = f].commitments = f  BY DEF IsDB
<1>6. MarkNullified(d, cs, t) = [d EXCEPT !.commitments = f]
  BY DEF MarkNullified, Mark, f
<1>7. QED  BY <1>2, <1>4, <1>5, <1>6 DEF Releases

LEMMA DeleteCommitmentsTame ==
  ASSUME NEW d, IsDB(d), NEW cs
  PROVE  Tame(d, DeleteCommitments(d, cs), {}, {})
<1> DEFINE gone == {c \in Held(d, cs) : ~ d.commitments[c].deposited}
           f == Without(d.commitments, gone)
           e == [d EXCEPT !.commitments = f]
           g == [c \in DOMAIN e.commitments |->
                   IF c \in cs THEN [e.commitments[c] EXCEPT !.inTx = FALSE]
                   ELSE e.commitments[c]]
<1>1. /\ DOMAIN f \subseteq DOMAIN d.commitments
      /\ \A c \in DOMAIN f : f[c] = d.commitments[c]
  BY DEF Without
<1> HIDE DEF f
<1>2. Tame(d, e, {}, {})
  BY <1>1, CommitmentsOnly DEF IsDB
<1> HIDE DEF e
<1>3. ASSUME NEW m, IsMarks(m)
      PROVE  IsMarks([m EXCEPT !.inTx = FALSE]) /\ [m EXCEPT !.inTx = FALSE].pending = m.pending
  BY <1>3 DEF IsMarks
<1>4. \A c \in DOMAIN g : IsMarks(g[c]) /\ g[c].pending = e.commitments[c].pending
  BY <1>2, <1>3 DEF IsDB, Tame
<1>5. DOMAIN g = DOMAIN e.commitments /\ IsDB(e)
  BY <1>2 DEF Tame
<1> HIDE DEF g
<1>6. Tame(e, [e EXCEPT !.commitments = g], {}, {})
  BY <1>4, <1>5, CommitmentsOnly
<1>7. DeleteCommitments(d, cs) = [e EXCEPT !.commitments = g]
  BY DEF DeleteCommitments, Mark, e, f, g
<1>8. QED  BY <1>2, <1>6, <1>7, TameTwice

(***************************************************************************)
(* Transactions, blocks and trees.                                         *)
(***************************************************************************)
LEMMA OthersTame ==
  ASSUME NEW d, IsDB(d), NEW f
  PROVE  /\ Tame(d, [d EXCEPT !.trees = f], {}, {})
         /\ Tame(d, [d EXCEPT !.blocks = f], {}, {})
         /\ \A ts : DOMAIN f \subseteq DOMAIN d.txs \cup ts
                     => Tame(d, [d EXCEPT !.txs = f], {}, ts)
<1> DEFINE e1 == [d EXCEPT !.trees = f]
           e2 == [d EXCEPT !.blocks = f]
           e3 == [d EXCEPT !.txs = f]
<1>1. /\ e1.commitments = d.commitments /\ e1.txs = d.txs
      /\ e1.blocks = d.blocks /\ e1.trees = f
  BY DEF IsDB
<1>2. /\ e2.commitments = d.commitments /\ e2.txs = d.txs
      /\ e2.blocks = f /\ e2.trees = d.trees
  BY DEF IsDB
<1>3. /\ e3.commitments = d.commitments /\ e3.txs = f
      /\ e3.blocks = d.blocks /\ e3.trees = d.trees
  BY DEF IsDB
<1>4. /\ e1 \in [commitments : {d.commitments}, txs : {d.txs}, blocks : {d.blocks}, trees : {f}]
      /\ e2 \in [commitments : {d.commitments}, txs : {d.txs}, blocks : {f}, trees : {d.trees}]
      /\ e3 \in [commitments : {d.commitments}, txs : {f}, blocks : {d.blocks}, trees : {d.trees}]
  BY DEF IsDB
<1> HIDE DEF e1, e2, e3
<1>5. Tame(d, e1, {}, {})  BY <1>1, <1>4 DEF IsDB, Tame
<1>6. Tame(d, e2, {}, {})  BY <1>2, <1>4 DEF IsDB, Tame
<1>7. \A ts : DOMAIN f \subseteq DOMAIN d.txs \cup ts => Tame(d, e3, {}, ts)
  BY <1>3, <1>4 DEF IsDB, Tame
<1>8. QED  BY <1>5, <1>6, <1>7 DEF e1, e2, e3

LEMMA DatabaseTame ==
  ASSUME NEW d, IsDB(d), NEW n, NEW t, NEW l1, NEW tree, NEW decrypted, NEW ts
  PROVE  /\ Tame(d, SaveTree(d, l1, n, tree), {}, {})
         /\ Tame(d, DeleteTreeByBlockNumberL2(d, n), {}, {})
         /\ Tame(d, SaveBlock(d, n, t), {}, {})
         /\ Tame(d, DeleteBlocksByBlockNumberL2(d, n), {}, {})
         /\ Tame(d, SaveTransaction(d, t, n, decrypted), {}, {t})
         /\ Tame(d, DeleteTransactions(d, ts), {}, {})
<1>1. Tame(d, SaveTree(d, l1, n, tree), {}, {})
  BY OthersTame DEF SaveTree
<1>2. Tame(d, DeleteTreeByBlockNumberL2(d, n), {}, {})
  BY OthersTame DEF DeleteTreeByBlockNumberL2
<1>3. Tame(d, SaveBlock(d, n, t), {}, {})
  BY OthersTame DEF SaveBlock
<1>4. Tame(d, DeleteBlocksByBlockNumberL2(d, n), {}, {})
  BY OthersTame DEF DeleteBlocksByBlockNumberL2
<1>5. Tame(d, SaveTransaction(d, t, n, decrypted), {}, {t})
  <2> DEFINE f == IF t \notin DOMAIN d.txs
                  THEN With(d.txs, t, [n |-> n, decrypted |-> decrypted])
                  ELSE IF d.txs[t].n = -1 THEN [d.txs EXCEPT ![t].n = n] ELSE d.txs
  <2>1. DOMAIN f \subseteq DOMAIN d.txs \cup {t}
    BY DEF With
  <2> HIDE DEF f
  <2>2. Tame(d, [d EXCEPT !.txs = f], {}, {t})
    BY <2>1, OthersTame
  <2>3. QED  BY <2>2 DEF SaveTransaction, f
<1>6. Tame(d, DeleteTransactions(d, ts), {}, {})
  <2>1. DOMAIN Without(d.txs, ts) \subseteq DOMAIN d.txs \cup {}
    BY DEF Without
  <2>2. Tame(d, [d EXCEPT !.txs = Without(d.txs, ts)], {}, {})
    BY <2>1, OthersTame
  <2>3. QED  BY <2>2 DEF DeleteTransactions
<1>7. QED  BY <1>1, <1>2, <1>3, <1>4, <1>5, <1>6

(***************************************************************************)
(* The handlers.                                                           *)
(***************************************************************************)
MadeTypes ==
  /\ made \in Seq(ToSet(made))
  /\ \A t \in DOMAIN made : made[t].outs \in Seq(BOOLEAN)

LEMMA SaveIfOursTame ==
  ASSUME MadeTypes, NEW d, IsDB(d), NEW t \in DOMAIN made, NEW n
  PROVE  Tame(d, SaveIfOurs(d, t, n), OursOf(t), {t})
<1>1. CASE Decrypts(d, t)
  <2> DEFINE e == StoreCommitments(d, {<<t, 1>>}, {})
             f == SaveTransaction(e, t, n, TRUE)
  <2>1. <<t, 1>> \in OursOf(t)
    <3>1. made[t].outs \in Seq(BOOLEAN) /\ made[t].outs # <<>> /\ made[t].outs[1]
      BY <1>1 DEF MadeTypes, Decrypts
    <3>2. 1 \in DOMAIN made[t].outs
      BY <3>1
    <3>3. QED  BY <3>1, <3>2 DEF OursOf
  <2>2. Tame(d, e, {<<t, 1>>}, {})  BY StoreTame
  <2>3. Tame(e, f, {}, {t})  BY <2>2, DatabaseTame DEF Tame
  <2>4. Tame(f, SaveBlock(f, n, t), {}, {})  BY <2>3, DatabaseTame DEF Tame
  <2> HIDE DEF e, f
  <2>5. Tame(d, SaveBlock(f, n, t), {<<t, 1>>}, {t})
    BY <2>2, <2>3, <2>4 DEF Tame
  <2>6. SaveIfOurs(d, t, n) = SaveBlock(f, n, t)
    BY <1>1 DEF SaveIfOurs, e, f
  <2>7. QED  BY <2>1, <2>5, <2>6 DEF Tame
<1>2. CASE ~ Decrypts(d, t) /\ Concerns(d, t)
  <2> DEFINE f == SaveTransaction(d, t, n, FALSE)
  <2>1. Tame(d, f, {}, {t})  BY DatabaseTame
  <2>2. Tame(f, SaveBlock(f, n, t), {}, {})  BY <2>1, DatabaseTame DEF Tame
  <2> HIDE DEF f
  <2>3. Tame(d, SaveBlock(f, n, t), {}, {t})
    BY <2>1, <2>2 DEF Tame
  <2>4. SaveIfOurs(d, t, n) = SaveBlock(f, n, t)
    BY <1>2 DEF SaveIfOurs, f
  <2>5. QED  BY <2>3, <2>4 DEF Tame
<1>3. CASE ~ Decrypts(d, t) /\ ~ Concerns(d, t)
  BY <1>3 DEF SaveIfOurs, Tame
<1>4. QED  BY <1>1, <1>2, <1>3

LEMMA MarkBlockTame ==
  ASSUME MadeTypes, NEW d, IsDB(d), NEW block, block.tx \in DOMAIN made,
         block.n \in Nat, block.l1 \in Nat
  PROVE  Tame(d, MarkBlock(d, block), OursOf(block.tx), {block.tx})
<1> DEFINE e == SaveIfOurs(d, block.tx, block.n)
           f == MarkOnChain(e, Commitments(block.tx), block.n, block.l1)
           g == MarkNullifiedOnChain(f, made[block.tx].inputs, block.n, block.l1)
<1>1. Tame(d, e, OursOf(block.tx), {block.tx})  BY SaveIfOursTame
<1>2. Tame(e, f, {}, {})  BY <1>1, MarkOnChainTame DEF Tame
<1>3. Tame(f, g, {}, {})  BY <1>2, MarkNullifiedOnChainTame DEF Tame
<1> HIDE DEF e, f, g
<1>4. Tame(d, g, OursOf(block.tx), {block.tx})
  BY <1>1, <1>2, <1>3 DEF Tame
<1>5. QED  BY <1>4 DEF MarkBlock, e, f, g

LEMMA FinishBlockTame ==
  ASSUME NEW d, IsDB(d), NEW block, NEW syncing
  PROVE  Tame(d, FinishBlock(d, block, syncing), {}, {})
<1> DEFINE tree == Append(GetTreeByBlockNumberL2(d, block.n - 1), block.tx)
           saved == IF TreeKnown(d, block.l1) THEN d ELSE SaveTree(d, block.l1, block.n, tree)
           e == SetSiblingInfo(saved, Commitments(block.tx), tree)
<1>1. Tame(d, d, {}, {})  BY DEF Tame
<1>2. Tame(d, saved, {}, {})
  BY <1>1, DatabaseTame
<1>3. Tame(saved, e, {}, {})
  BY <1>2, SetSiblingInfoTame DEF Tame
<1>4. FinishBlock(d, block, syncing) \in {d, e}
  BY DEF FinishBlock
<1> HIDE DEF saved, e
<1>5. Tame(d, e, {}, {})
  BY <1>2, <1>3 DEF Tame
<1>6. QED  BY <1>1, <1>4, <1>5

LEMMA RollbackTame ==
  ASSUME NEW d, IsDB(d), NEW n \in Nat
  PROVE  Tame(d, Rollback(d, n), {}, {})
<1> DEFINE removed == UNION {GetTransactionsByL2Block(d, m) :
                               m \in FindBlocksFromBlockNumberL2(d, n)}
           decrypted == {t \in removed : d.txs[t].decrypted}
           invalid == {t \in removed \ decrypted :
                         ~ CheckValidHistoricRootsBlockNumber(t, n - 1)}
           forgotten == {<<t, 1>> : t \in decrypted} \cup UNION {Commitments(t) : t \in invalid}
           nullifiers == UNION {made[t].inputs : t \in invalid}
           ts == decrypted \cup invalid
           d1 == DeleteTreeByBlockNumberL2(d, n)
           d2 == DeleteBlocksByBlockNumberL2(d1, n)
           d3 == ClearNullifiedOnChain(d2, n)
           d4 == ClearOnChain(d3, n)
           d5 == ClearNullifiers(d4, nullifiers)
           d6 == DeleteCommitments(d5, forgotten)
           d7 == DeleteTransactions(d6, ts)
<1>1. d7 = Rollback(d, n)  BY DEF Rollback
<1> HIDE DEF removed, decrypted, invalid, forgotten, nullifiers, ts
<1>2. Tame(d, d1, {}, {})  BY DatabaseTame
<1>3. Tame(d1, d2, {}, {})  BY <1>2, DatabaseTame DEF Tame
<1> HIDE DEF d1
<1>4. Tame(d2, d3, {}, {})  BY <1>3, ClearNullifiedOnChainTame DEF Tame
<1> HIDE DEF d2
<1>5. Tame(d3, d4, {}, {})  BY <1>4, ClearOnChainTame DEF Tame
<1> HIDE DEF d3
<1>6. Tame(d4, d5, {}, {})  BY <1>5, ClearNullifiersTame DEF Tame
<1> HIDE DEF d4
<1>7. Tame(d5, d6, {}, {})  BY <1>6, DeleteCommitmentsTame DEF Tame
<1> HIDE DEF d5
<1>8. Tame(d6, d7, {}, {})  BY <1>7, DatabaseTame DEF Tame
<1> HIDE DEF d6, d7
<1>9. Tame(d, d4, {}, {})
  BY <1>2, <1>3, <1>4, <1>5 DEF Tame
<1>10. Tame(d4, d7, {}, {})
  BY <1>6, <1>7, <1>8 DEF Tame
<1>11. Tame(d, d7, {}, {})
  BY <1>9, <1>10 DEF Tame
<1>12. QED  BY <1>1, <1>11

(***************************************************************************)
(* The inductive invariant: types, what the queue refers to, and the held  *)
(* back commitments.                                                       *)
(***************************************************************************)
Ours == UNION {OursOf(t) : t \in DOMAIN made}

Events == [type : {"BlockProposed"}, block : [n : Nat, tx : Nat, l1 : Nat]]
          \cup [type : {"Rollback"}, n : Nat]
Jobs == [event : Events, by : {"socket", "resync", "start"},
         step : {"new", "resynced", "marked"}]

(* The block of an event is of a transaction made, and logged.             *)
Known(event) ==
  IsBlock(event) => event.block.tx \in DOMAIN made /\ event.block.l1 <= Len(log)

ChainTypes ==
  /\ MadeTypes
  /\ chain \in Seq([n : Nat, tx : Nat, l1 : Nat])
  /\ pool \subseteq DOMAIN made
  /\ log \in Seq(Events)
  /\ \A i \in DOMAIN log : Known(log[i])

QueueTypes ==
  /\ queue \in Seq(Jobs)
  /\ \A i \in DOMAIN queue : Known(queue[i].event)
  /\ mem \in [last : Nat, attempts : Nat]
  /\ mem.last <= Len(log)

DBTypes ==
  /\ IsDB(db)
  /\ DOMAIN db.commitments \subseteq Ours
  /\ DOMAIN db.txs \subseteq DOMAIN made

IsRequest(q) ==
  /\ q \in [stage : {"idle", "again", "read", "marked", "selected", "built"},
            provided : SUBSET Ours, call : SUBSET Ours, inputs : SUBSET Ours,
            roots : {q.roots}]
  /\ q.call \subseteq q.inputs
  /\ q.stage \in {"idle", "again", "read"} => q.call = {}

RequestTypes ==
  /\ request = [r \in Requests |-> request[r]]
  /\ \A r \in Requests : IsRequest(request[r])

CountTypes ==
  /\ count \in [proposed : Nat, rollbacks : Nat, lost : Nat, failures : Nat,
               provided : Nat, restarts : Nat, left : {count.left}]
  /\ count.failures <= MaxFailures

Types == ChainTypes /\ QueueTypes /\ DBTypes /\ RequestTypes /\ CountTypes

IInv == Types /\ PendingHeld

LEMMA TypesImpliesTypeOK ==
  ASSUME Types
  PROVE  TypeOK
<1>1. \A c \in DOMAIN db.commitments : c[1] \in DOMAIN made /\ c \in OursOf(c[1])
  <2> SUFFICES ASSUME NEW c \in DOMAIN db.commitments
               PROVE  c[1] \in DOMAIN made /\ c \in OursOf(c[1])
    OBVIOUS
  <2>1. PICK t \in DOMAIN made : c \in OursOf(t)
    BY DEF Types, DBTypes, Ours
  <2>2. c[1] = t
    BY <2>1 DEF OursOf
  <2>3. QED  BY <2>1, <2>2
<1>2. \A r \in Requests : request[r].inputs \subseteq UNION {OursOf(t) : t \in DOMAIN made}
  BY DEF Types, RequestTypes, IsRequest, Ours
<1>3. Len(log) \in Nat
  BY DEF Types, ChainTypes
<1>4. count.failures \in 0..MaxFailures /\ mem.last \in 0..Len(log)
  BY <1>3, BoundsAssumption DEF Types, CountTypes, QueueTypes
<1>5. DOMAIN db.txs \subseteq DOMAIN made /\ pool \subseteq DOMAIN made
  BY DEF Types, DBTypes, ChainTypes
<1>6. QED  BY <1>1, <1>2, <1>4, <1>5 DEF TypeOK

LEMMA InitIInv == Init => IInv
<1> SUFFICES ASSUME Init PROVE IInv
  OBVIOUS
<1>1. DOMAIN made = {} /\ DOMAIN log = {} /\ DOMAIN queue = {}
  BY DEF Init
<1>2. ChainTypes
  BY <1>1 DEF Init, ChainTypes, MadeTypes
<1>3. QueueTypes
  BY <1>1 DEF Init, QueueTypes
<1>4. DOMAIN db.commitments = {} /\ DOMAIN db.txs = {}
  BY DEF Init, EmptyDB
<1>5. DBTypes
  BY <1>4 DEF Init, DBTypes, IsDB, EmptyDB
<1>6. RequestTypes
  BY DEF Init, RequestTypes, IsRequest, Idle
<1>7. CountTypes
  BY BoundsAssumption DEF Init, CountTypes
<1>8. PendingHeld
  BY <1>4 DEF PendingHeld
<1>9. QED  BY <1>2, <1>3, <1>5, <1>6, <1>7, <1>8 DEF IInv, Types

(* Steps of queue 0.                                                       *)
LEMMA HandledIInv ==
  ASSUME IInv, UNCHANGED <<chainVars, request, count>>, QueueTypes',
         NEW t \in DOMAIN made, Tame(db, db', OursOf(t), {t})
  PROVE  IInv'
<1>1. Ours' = Ours /\ MadeTypes' /\ ChainTypes'
  BY DEF IInv, Types, Ours, OursOf, MadeTypes, ChainTypes, Known, chainVars
<1>2. OursOf(t) \subseteq Ours
  BY DEF Ours
<1>3. DBTypes'
  BY <1>1, <1>2 DEF IInv, Types, DBTypes, Tame, chainVars
<1>4. RequestTypes' /\ CountTypes'
  BY <1>1 DEF IInv, Types, RequestTypes, IsRequest, CountTypes
<1>5. PendingHeld'
  BY DEF IInv, PendingHeld, Tame
<1>6. QED  BY <1>1, <1>3, <1>4, <1>5 DEF IInv, Types

GoodQueue(q) == q \in Seq(Jobs) /\ \A i \in DOMAIN q : Known(q[i].event)

LEMMA CurrentTypes ==
  ASSUME QueueTypes, queue # <<>>
  PROVE  /\ Current \in Jobs /\ Known(Current.event)
         /\ GoodQueue(Tail(queue))
         /\ \A step \in {"resynced", "marked"} :
              GoodQueue(<<[Current EXCEPT !.step = step]>> \o Tail(queue))
<1>1. queue \in Seq(Jobs) /\ Len(queue) \in Nat /\ Len(queue) >= 1
  BY DEF QueueTypes
<1>2. Current = queue[1] /\ 1 \in DOMAIN queue
  BY <1>1 DEF Current
<1>3. Current \in Jobs /\ Known(Current.event)
  BY <1>1, <1>2 DEF QueueTypes
<1>4. Tail(queue) \in Seq(Jobs) /\ Len(Tail(queue)) = Len(queue) - 1
      /\ \A i \in 1..Len(Tail(queue)) : Tail(queue)[i] = queue[i + 1]
  BY <1>1
<1>5. GoodQueue(Tail(queue))
  <2> SUFFICES ASSUME NEW i \in DOMAIN Tail(queue) PROVE Known(Tail(queue)[i].event)
    BY <1>4 DEF GoodQueue
  <2>1. i \in 1..Len(Tail(queue)) /\ i + 1 \in DOMAIN queue
    BY <1>1, <1>4
  <2>2. QED  BY <1>4, <2>1 DEF QueueTypes
<1>6. ASSUME NEW step \in {"resynced", "marked"}
      PROVE  GoodQueue(<<[Current EXCEPT !.step = step]>> \o Tail(queue))
  <2> DEFINE j == [Current EXCEPT !.step = step]
             q == <<j>> \o Tail(queue)
  <2>1. j \in Jobs /\ j.event = Current.event
    BY <1>3 DEF Jobs
  <2> HIDE DEF j
  <2>2. /\ q \in Seq(Jobs) /\ Len(q) = Len(Tail(queue)) + 1 /\ q[1] = j
        /\ \A i \in 1..Len(Tail(queue)) : q[i + 1] = Tail(queue)[i]
    BY <1>4, <2>1
  <2>3. ASSUME NEW i \in DOMAIN q PROVE Known(q[i].event)
    <3>1. CASE i = 1
      BY <1>3, <2>1, <2>2, <3>1
    <3>2. CASE i # 1
      <4>1. i - 1 \in 1..Len(Tail(queue)) /\ i = (i - 1) + 1
        BY <2>2, <3>2, <1>4
      <4>2. q[i] = Tail(queue)[i - 1]
        BY <2>2, <4>1
      <4>3. QED  BY <1>4, <1>5, <4>1, <4>2 DEF GoodQueue
    <3>3. QED  BY <3>1, <3>2
  <2>4. QED  BY <2>2, <2>3 DEF GoodQueue, j
<1>7. QED  BY <1>3, <1>5, <1>6

LEMMA SyncStateTypes ==
  ASSUME ChainTypes, NEW from \in Nat, NEW by \in {"resync", "start"}
  PROVE  GoodQueue(SyncState(from, by))
<1> DEFINE first == IF from = 0 THEN 1 ELSE from
           past == SubSeq(log, first, Len(log))
           q == [i \in DOMAIN past |-> Job(past[i], by)]
<1>1. log \in Seq(Events) /\ Len(log) \in Nat /\ first \in Nat /\ first >= 1
  BY DEF ChainTypes
<1> HIDE DEF first
<1>2. /\ past \in Seq(Events)
      /\ \A i \in DOMAIN past : \E k \in DOMAIN log : past[i] = log[k]
  <2>1. CASE first > Len(log)
    <3>1. past = << >>
      BY <1>1, <2>1
    <3>2. QED  BY <3>1
  <2>2. CASE first <= Len(log)
    <3>1. /\ Len(past) = Len(log) - first + 1 /\ DOMAIN past = 1..Len(past)
          /\ past \in Seq(Events)
          /\ \A i \in 1..Len(past) : past[i] = log[first + i - 1]
      BY <1>1, <2>2
    <3>2. \A i \in 1..Len(past) : first + i - 1 \in DOMAIN log
      BY <1>1, <2>2, <3>1
    <3>3. QED  BY <3>1, <3>2
  <2>3. QED  BY <1>1, <2>1, <2>2
<1>3. \A i \in DOMAIN past : past[i] \in Events /\ Known(past[i])
  BY <1>2 DEF ChainTypes
<1>4. DOMAIN past = 1..Len(past) /\ Len(past) \in Nat
  BY <1>2
<1>5. SyncState(from, by) = q
  BY DEF SyncState, first
<1> HIDE DEF past
<1>6. \A i \in DOMAIN past : q[i] \in Jobs /\ q[i].event = past[i]
  BY <1>3 DEF Job, Jobs
<1>7. q \in Seq(Jobs) /\ DOMAIN q = DOMAIN past
  BY <1>4, <1>6
<1>8. QED  BY <1>3, <1>5, <1>6, <1>7 DEF GoodQueue

LEMMA GoodConcat ==
  ASSUME NEW p, NEW q, GoodQueue(p), GoodQueue(q)
  PROVE  GoodQueue(p \o q)
<1>1. p \in Seq(Jobs) /\ q \in Seq(Jobs) /\ Len(p) \in Nat /\ Len(q) \in Nat
  BY DEF GoodQueue
<1>2. /\ p \o q \in Seq(Jobs) /\ Len(p \o q) = Len(p) + Len(q)
      /\ \A i \in 1..Len(p) + Len(q) :
           (p \o q)[i] = IF i <= Len(p) THEN p[i] ELSE q[i - Len(p)]
  BY <1>1
<1>3. ASSUME NEW i \in DOMAIN (p \o q) PROVE Known((p \o q)[i].event)
  <2>1. i \in 1..Len(p) + Len(q)
    BY <1>2
  <2>2. CASE i <= Len(p)
    BY <1>1, <1>2, <2>1, <2>2 DEF GoodQueue
  <2>3. CASE i > Len(p)
    <3>1. i - Len(p) \in 1..Len(q)
      BY <1>1, <2>1, <2>3
    <3>2. QED  BY <1>1, <1>2, <2>1, <2>3, <3>1 DEF GoodQueue
  <2>4. QED  BY <1>1, <2>1, <2>2, <2>3
<1>4. QED  BY <1>2, <1>3 DEF GoodQueue

(* What leaves the queue's types true: a good queue and the old log.       *)
LEMMA QueueStep ==
  ASSUME IInv, UNCHANGED <<made, log>>, GoodQueue(queue'),
         mem' \in [last : Nat, attempts : Nat], mem'.last <= Len(log)
  PROVE  QueueTypes'
BY DEF QueueTypes, GoodQueue, Known

LEMMA CheckedTypes ==
  ASSUME QueueTypes, log \in Seq(Events)
  PROVE  /\ Checked \in [last : Nat, attempts : Nat] /\ Checked.last <= Len(log)
         /\ [Checked EXCEPT !.attempts = @ + 1] \in [last : Nat, attempts : Nat]
         /\ [Checked EXCEPT !.attempts = @ + 1].last <= Len(log)
         /\ \A l1 \in Nat :
              \A m \in {mem, Checked} :
                /\ [m EXCEPT !.last = l1] \in [last : Nat, attempts : Nat]
                /\ [m EXCEPT !.last = l1].last = l1
<1>1. Checked \in [last : Nat, attempts : Nat] /\ Checked.last <= Len(log)
  BY DEF QueueTypes, Checked
<1> HIDE DEF Checked
<1>2. QED  BY <1>1 DEF QueueTypes

LEMMA ResynchroniseIInv ==
  ASSUME IInv, Resynchronise
  PROVE  IInv'
<1>1. /\ queue # <<>> /\ mem' = [Checked EXCEPT !.attempts = @ + 1]
      /\ queue' = SyncState(Checked.last, "resync")
                   \o <<[Current EXCEPT !.step = "resynced"]>> \o Tail(queue)
      /\ UNCHANGED <<chainVars, db, request, count>>
  BY DEF Resynchronise
<1> DEFINE p == SyncState(Checked.last, "resync")
           j == <<[Current EXCEPT !.step = "resynced"]>>
           t == Tail(queue)
<1>2. QueueTypes /\ ChainTypes /\ log \in Seq(Events)
  BY DEF IInv, Types, ChainTypes
<1>3. Checked \in [last : Nat, attempts : Nat] /\ mem' \in [last : Nat, attempts : Nat]
      /\ mem'.last <= Len(log)
  BY <1>1, <1>2, CheckedTypes
<1>4. GoodQueue(p)
  BY <1>2, <1>3, SyncStateTypes
<1>5. GoodQueue(j \o t) /\ GoodQueue(t) /\ Current \in Jobs
  BY <1>1, <1>2, CurrentTypes
<1>6. GoodQueue(p \o (j \o t))
  BY <1>4, <1>5, GoodConcat
<1>7. (p \o j) \o t = p \o (j \o t)
  <2>1. p \in Seq(Jobs) /\ t \in Seq(Jobs)
    BY <1>4, <1>5 DEF GoodQueue
  <2>2. [Current EXCEPT !.step = "resynced"] \in Jobs
    BY <1>5 DEF Jobs
  <2>3. j \in Seq(Jobs)
    BY <2>2
  <2> HIDE DEF p, t, j
  <2>4. QED  BY <2>1, <2>3
<1>8. GoodQueue(queue')
  BY <1>1, <1>6, <1>7
<1>9. UNCHANGED <<made, log>>
  BY <1>1 DEF chainVars
<1>10. QueueTypes'
  BY <1>3, <1>8, <1>9, QueueStep
<1>11. Ours' = Ours /\ MadeTypes' /\ ChainTypes'
  BY <1>1, <1>2 DEF Ours, OursOf, MadeTypes, ChainTypes, Known, chainVars
<1>12. DBTypes' /\ RequestTypes' /\ CountTypes'
  BY <1>1, <1>11 DEF IInv, Types, DBTypes, RequestTypes, IsRequest, CountTypes, chainVars
<1>13. PendingHeld'
  BY <1>1 DEF IInv, PendingHeld
<1>14. QED  BY <1>10, <1>11, <1>12, <1>13 DEF IInv, Types

LEMMA BlockTypes ==
  ASSUME QueueTypes, queue # <<>>, IsBlock(Current.event), log \in Seq(Events)
  PROVE  /\ Current.event.block.n \in Nat /\ Current.event.block.l1 \in Nat
         /\ Current.event.block.tx \in DOMAIN made
         /\ Current.event.block.l1 <= Len(log)
<1>1. Current \in Jobs /\ Known(Current.event)
  BY CurrentTypes
<1>2. Current.event \in Events /\ Current.event.type = "BlockProposed"
  BY <1>1 DEF Jobs, IsBlock
<1>3. Current.event \in [type : {"BlockProposed"}, block : [n : Nat, tx : Nat, l1 : Nat]]
  BY <1>2 DEF Events
<1>4. QED  BY <1>1, <1>3 DEF Known

LEMMA HandleBlockIInv ==
  ASSUME IInv, HandleBlock
  PROVE  IInv'
<1> DEFINE block == Current.event.block
<1>1. /\ queue # <<>> /\ IsBlock(Current.event) /\ db' = MarkBlock(db, block)
      /\ mem' = [(IF Current.step = "new" THEN Checked ELSE mem) EXCEPT !.last = block.l1]
      /\ queue' = <<[Current EXCEPT !.step = "marked"]>> \o Tail(queue)
      /\ UNCHANGED <<chainVars, request, count>>
  BY DEF HandleBlock
<1>2. QueueTypes /\ MadeTypes /\ log \in Seq(Events) /\ IsDB(db)
  BY DEF IInv, Types, ChainTypes, DBTypes
<1>3. /\ block.n \in Nat /\ block.l1 \in Nat /\ block.tx \in DOMAIN made
      /\ block.l1 <= Len(log)
  BY <1>1, <1>2, BlockTypes
<1>4. GoodQueue(queue')
  BY <1>1, <1>2, CurrentTypes
<1>5. mem' \in [last : Nat, attempts : Nat] /\ mem'.last <= Len(log)
  BY <1>1, <1>2, <1>3, CheckedTypes
<1>6. QueueTypes'
  BY <1>1, <1>4, <1>5, QueueStep DEF chainVars
<1>7. Tame(db, db', OursOf(block.tx), {block.tx})
  BY <1>1, <1>2, <1>3, MarkBlockTame
<1>8. QED  BY <1>1, <1>3, <1>6, <1>7, HandledIInv

(* Steps that store nothing of their own.                                  *)
LEMMA NothingStoredIInv ==
  ASSUME IInv, UNCHANGED <<chainVars, request, count>>, QueueTypes', Tame(db, db', {}, {})
  PROVE  IInv'
<1>1. Ours' = Ours /\ MadeTypes' /\ ChainTypes'
  BY DEF IInv, Types, Ours, OursOf, MadeTypes, ChainTypes, Known, chainVars
<1>2. DBTypes'
  BY <1>1 DEF IInv, Types, DBTypes, Tame, chainVars
<1>3. RequestTypes' /\ CountTypes'
  BY <1>1 DEF IInv, Types, RequestTypes, IsRequest, CountTypes
<1>4. PendingHeld'
  BY DEF IInv, PendingHeld, Tame
<1>5. QED  BY <1>1, <1>2, <1>3, <1>4 DEF IInv, Types

LEMMA FinishEventIInv ==
  ASSUME IInv, FinishEvent
  PROVE  IInv'
<1>1. /\ queue # <<>> /\ queue' = Tail(queue)
      /\ db' = FinishBlock(db, Current.event.block, Current.by # "socket")
      /\ UNCHANGED <<chainVars, mem, request, count>>
  BY DEF FinishEvent
<1>2. QueueTypes /\ IsDB(db)
  BY DEF IInv, Types, DBTypes
<1>3. QueueTypes'
  BY <1>1, <1>2, CurrentTypes, QueueStep DEF QueueTypes, chainVars
<1>4. Tame(db, db', {}, {})
  BY <1>1, <1>2, FinishBlockTame
<1>5. QED  BY <1>1, <1>3, <1>4, NothingStoredIInv

LEMMA HandleRollbackIInv ==
  ASSUME IInv, HandleRollback
  PROVE  IInv'
<1>1. /\ queue # <<>> /\ ~ IsBlock(Current.event) /\ queue' = Tail(queue)
      /\ db' = Rollback(db, Current.event.n)
      /\ UNCHANGED <<chainVars, mem, request, count>>
  BY DEF HandleRollback
<1>2. QueueTypes /\ IsDB(db)
  BY DEF IInv, Types, DBTypes
<1>3. QueueTypes'
  BY <1>1, <1>2, CurrentTypes, QueueStep DEF QueueTypes, chainVars
<1>4. Current.event.n \in Nat
  <2>1. Current.event \in Events /\ Current.event.type # "BlockProposed"
    BY <1>1, <1>2, CurrentTypes DEF Jobs, IsBlock
  <2>2. Current.event \in [type : {"Rollback"}, n : Nat]
    BY <2>1 DEF Events
  <2>3. QED  BY <2>2
<1>5. Tame(db, db', {}, {})
  BY <1>1, <1>2, <1>4, RollbackTame
<1>6. QED  BY <1>1, <1>3, <1>5, NothingStoredIInv

LEMMA RestartIInv ==
  ASSUME IInv, Restart
  PROVE  IInv'
<1>1. PICK from \in 1..Len(log) + 1 : queue' = SyncState(from, "start")
  BY DEF Restart
<1>2. /\ mem' = [last |-> 0, attempts |-> 0] /\ request' = [r \in Requests |-> Idle]
      /\ count' = [count EXCEPT !.restarts = @ + 1]
      /\ UNCHANGED <<chainVars, db>>
  BY DEF Restart, Count
<1>3. ChainTypes /\ CountTypes /\ log \in Seq(Events)
  BY DEF IInv, Types, ChainTypes
<1>4. GoodQueue(queue')
  BY <1>1, <1>3, SyncStateTypes
<1>5. mem' \in [last : Nat, attempts : Nat] /\ mem'.last <= Len(log)
  BY <1>2, <1>3
<1>6. QueueTypes'
  BY <1>2, <1>4, <1>5, QueueStep DEF chainVars
<1>7. Ours' = Ours /\ MadeTypes' /\ ChainTypes'
  BY <1>2 DEF IInv, Types, Ours, OursOf, MadeTypes, ChainTypes, Known, chainVars
<1>8. DBTypes'
  BY <1>2, <1>7 DEF IInv, Types, DBTypes, chainVars
<1>9. RequestTypes'
  BY <1>2 DEF RequestTypes, IsRequest, Idle
<1>10. CountTypes' /\ count'.restarts # 0
  BY <1>2, <1>3 DEF CountTypes
<1>11. PendingHeld'
  BY <1>10 DEF PendingHeld
<1>12. QED  BY <1>6, <1>7, <1>8, <1>9, <1>10, <1>11 DEF IInv, Types

(***************************************************************************)
(* Requests.                                                               *)
(***************************************************************************)

(* One request moves on and the chain and the queue do not.                *)
LEMMA StepTypes ==
  ASSUME IInv, UNCHANGED <<chainVars, mem, queue>>,
         NEW r \in Requests, NEW to, Step(r, to), IsRequest(to),
         IsDB(db'), DOMAIN db'.commitments \subseteq DOMAIN db.commitments,
         DOMAIN db'.txs \subseteq DOMAIN db.txs, CountTypes'
  PROVE  /\ Types'
         /\ request'[r] = to
         /\ \A s \in Requests \ {r} : request'[s] = request[s]
<1>1. Ours' = Ours /\ MadeTypes' /\ ChainTypes'
  BY DEF IInv, Types, Ours, OursOf, MadeTypes, ChainTypes, Known, chainVars
<1>2. QueueTypes'
  BY DEF IInv, Types, QueueTypes, Known, chainVars
<1>3. DBTypes'
  BY <1>1 DEF IInv, Types, DBTypes, chainVars
<1>4. /\ request' = [s \in Requests |-> IF s = r THEN to ELSE request[s]]
      /\ \A s \in Requests : IsRequest(request[s])
  BY DEF IInv, Types, RequestTypes, Step
<1>5. RequestTypes'
  BY <1>1, <1>4 DEF RequestTypes, IsRequest
<1>6. QED  BY <1>1, <1>2, <1>3, <1>4, <1>5 DEF Types

LEMMA IdleTypes == IsRequest(Idle) /\ Idle.inputs = {} /\ Idle.call = {}
BY DEF IsRequest, Idle

LEMMA RequestOf ==
  ASSUME IInv, NEW r \in Requests
  PROVE  IsRequest(request[r])
BY DEF IInv, Types, RequestTypes

LEMMA ReadProvidedIInv ==
  ASSUME IInv, NEW r \in Requests, ReadProvided(r)
  PROVE  IInv'
<1>1. PICK p \in SUBSET GetCommitmentsAvailableByHash(db) :
        Step(r, [request[r] EXCEPT !.stage = "read", !.provided = p])
  BY DEF ReadProvided
<1>2. /\ count' = [count EXCEPT !.provided = @ + 1]
      /\ UNCHANGED <<chainVars, db, mem, queue>>
  BY DEF ReadProvided, Count
<1> DEFINE to == [request[r] EXCEPT !.stage = "read", !.provided = p]
<1>3. p \subseteq Ours
  BY DEF IInv, Types, DBTypes, GetCommitmentsAvailableByHash
<1>b. request[r].stage \in {"idle", "again"}
  BY DEF ReadProvided, Idle
<1>4. IsRequest(to) /\ to.inputs = request[r].inputs
  BY <1>3, <1>b, RequestOf DEF IsRequest
<1>5. CountTypes' /\ count'.restarts = count.restarts /\ count'.left = count.left
  BY <1>2 DEF IInv, Types, CountTypes
<1>a. Step(r, to)
  BY <1>1
<1>6. IsDB(db')
  BY <1>2 DEF IInv, Types, DBTypes
<1> HIDE DEF to
<1>7. /\ Types' /\ request'[r] = to
      /\ \A s \in Requests \ {r} : request'[s] = request[s]
  BY <1>a, <1>2, <1>4, <1>5, <1>6, StepTypes
<1>8. \A s \in Requests : request'[s].inputs = request[s].inputs
  BY <1>4, <1>7
<1>9. PendingHeld'
  BY <1>2, <1>5, <1>8 DEF IInv, PendingHeld
<1>10. QED  BY <1>7, <1>9 DEF IInv

(* A step that holds back what it adds to the request's inputs.            *)
LEMMA HoldsIInv ==
  ASSUME IInv, UNCHANGED <<chainVars, mem, queue, count>>,
         NEW r \in Requests, NEW to, Step(r, to), IsRequest(to),
         NEW cs, db' = MarkPending(db, cs),
         cs \cup request[r].inputs \subseteq to.inputs
  PROVE  IInv'
<1>1. IsDB(db)
  BY DEF IInv, Types, DBTypes
<1>2. /\ IsDB(db') /\ DOMAIN db'.commitments = DOMAIN db.commitments /\ db'.txs = db.txs
      /\ \A c \in DOMAIN db'.commitments :
           db'.commitments[c].pending => c \in cs \/ db.commitments[c].pending
  BY <1>1, MarkPendingHolds
<1>3. CountTypes'
  BY DEF IInv, Types, CountTypes
<1>4. /\ Types' /\ request'[r] = to
      /\ \A s \in Requests \ {r} : request'[s] = request[s]
  BY <1>2, <1>3, StepTypes
<1>5. PendingHeld'
  <2> SUFFICES ASSUME count.restarts = 0,
                      NEW c \in DOMAIN db'.commitments, db'.commitments[c].pending
               PROVE  c \in count.left \/ \E s \in Requests : c \in request'[s].inputs
    BY DEF PendingHeld
  <2>1. CASE c \in cs
    BY <1>4, <2>1
  <2>2. CASE db.commitments[c].pending
    <3>1. c \in count.left \/ \E s \in Requests : c \in request[s].inputs
      BY <1>2, <2>2 DEF IInv, PendingHeld
    <3>2. QED  BY <1>4, <3>1
  <2>3. QED  BY <1>2, <2>1, <2>2
<1>6. QED  BY <1>4, <1>5 DEF IInv

LEMMA MarkProvidedIInv ==
  ASSUME IInv, NEW r \in Requests, MarkProvided(r)
  PROVE  IInv'
<1> DEFINE q == request[r]
           to == [q EXCEPT !.stage = "marked", !.call = q.provided,
                           !.inputs = q.inputs \cup q.provided]
<1>1. /\ q.stage = "read" /\ db' = MarkPending(db, q.provided) /\ Step(r, to)
      /\ UNCHANGED <<chainVars, mem, queue, count>>
  BY DEF MarkProvided
<1>2. IsRequest(q)
  BY RequestOf
<1>3. IsRequest(to) /\ to.inputs = q.inputs \cup q.provided
  BY <1>1, <1>2 DEF IsRequest
<1> HIDE DEF to
<1>4. QED  BY <1>1, <1>3, HoldsIInv

LEMMA SelectCommitmentsIInv ==
  ASSUME IInv, NEW r \in Requests, SelectCommitments(r)
  PROVE  IInv'
<1> DEFINE q == request[r]
           Able == {x \in GetAvailableCommitments(db) : db.commitments[x].onChain > -1}
           to(c) == [q EXCEPT !.stage = "selected", !.call = c \cup q.call,
                              !.inputs = c \cup q.inputs]
<1>1. PICK c \in SUBSET Able : db' = MarkPending(db, c) /\ Step(r, to(c))
  BY DEF SelectCommitments
<1>2. UNCHANGED <<chainVars, mem, queue, count>>
  BY DEF SelectCommitments
<1>3. c \subseteq Ours
  BY DEF IInv, Types, DBTypes, GetAvailableCommitments
<1>4. IsRequest(q)
  BY RequestOf
<1>5. IsRequest(to(c)) /\ to(c).inputs = c \cup q.inputs
  BY <1>3, <1>4 DEF IsRequest
<1> HIDE DEF to
<1>6. QED  BY <1>1, <1>2, <1>5, HoldsIInv

LEMMA ReadSiblingsIInv ==
  ASSUME IInv, NEW r \in Requests, ReadSiblings(r)
  PROVE  IInv'
<1> DEFINE q == request[r]
           roots == [c \in q.inputs |->
                       IF c \in q.call
                       THEN [n |-> db.commitments[c].onChain, root |-> db.commitments[c].root]
                       ELSE q.roots[c]]
           to == [q EXCEPT !.stage = "built", !.roots = roots]
<1>1. Step(r, to) /\ UNCHANGED <<chainVars, db, mem, queue, count>>
  BY DEF ReadSiblings
<1>2. IsRequest(q)
  BY RequestOf
<1> HIDE DEF roots
<1>3. IsRequest(to) /\ to.inputs = q.inputs
  BY <1>2 DEF IsRequest
<1>4. IsDB(db') /\ CountTypes'
  BY <1>1 DEF IInv, Types, DBTypes, CountTypes
<1> HIDE DEF to
<1>5. /\ Types' /\ request'[r] = to
      /\ \A s \in Requests \ {r} : request'[s] = request[s]
  BY <1>1, <1>3, <1>4, StepTypes
<1>6. \A s \in Requests : request'[s].inputs = request[s].inputs
  BY <1>3, <1>5
<1>7. PendingHeld'
  BY <1>1, <1>6 DEF IInv, PendingHeld
<1>8. QED  BY <1>5, <1>7 DEF IInv

LEMMA NextInfoIInv ==
  ASSUME IInv, NEW r \in Requests, NextInfo(r)
  PROVE  IInv'
<1> DEFINE q == request[r]
           to == [q EXCEPT !.stage = "again", !.provided = {}, !.call = {}]
<1>1. Step(r, to) /\ UNCHANGED <<chainVars, db, mem, queue, count>>
  BY DEF NextInfo
<1>2. IsRequest(to) /\ to.inputs = q.inputs
  BY RequestOf DEF IsRequest
<1>3. IsDB(db') /\ CountTypes'
  BY <1>1 DEF IInv, Types, DBTypes, CountTypes
<1> HIDE DEF to
<1>4. /\ Types' /\ request'[r] = to
      /\ \A s \in Requests \ {r} : request'[s] = request[s]
  BY <1>1, <1>2, <1>3, StepTypes
<1>5. \A s \in Requests : request'[s].inputs = request[s].inputs
  BY <1>2, <1>4
<1>6. PendingHeld'
  BY <1>1, <1>5 DEF IInv, PendingHeld
<1>7. QED  BY <1>4, <1>6 DEF IInv

(* A failure is counted, and what it leaves.                               *)
LEMMA FailureCounted ==
  ASSUME IInv, NEW left, count.failures < MaxFailures,
         count' = [count EXCEPT !.failures = @ + 1, !.left = left]
  PROVE  /\ CountTypes' /\ count'.left = left
         /\ \A x \in {"rollbacks", "lost", "provided", "restarts"} : count'[x] = count[x]
<1> DEFINE Counts(l) == [proposed : Nat, rollbacks : Nat, lost : Nat, failures : Nat,
                         provided : Nat, restarts : Nat, left : {l}]
<1>1. count \in Counts(count.left) /\ MaxFailures \in Nat
  BY BoundsAssumption DEF IInv, Types, CountTypes
<1>2. PICK n \in Nat : n = count.failures + 1
  BY <1>1
<1>3. count' = [count EXCEPT !.failures = n, !.left = left]
  BY <1>2
<1>4. /\ count' \in Counts(left) /\ count'.failures = n /\ count'.left = left
      /\ count'.rollbacks = count.rollbacks /\ count'.lost = count.lost
      /\ count'.provided = count.provided /\ count'.restarts = count.restarts
  BY <1>1, <1>3
<1>5. CountTypes'
  BY <1>1, <1>2, <1>4 DEF CountTypes
<1>6. QED  BY <1>4, <1>5

(* A request that fails releases some of its inputs and leaves the others. *)
LEMMA FailsIInv ==
  ASSUME IInv, UNCHANGED <<chainVars, mem, queue>>, NEW r \in Requests, Step(r, Idle),
         NEW cs \in SUBSET request[r].inputs,
         db' = ClearPending(db, cs) \/ (cs = {} /\ db' = db),
         count.failures < MaxFailures,
         count' = [count EXCEPT !.failures = @ + 1,
                                !.left = @ \cup (request[r].inputs \ cs)]
  PROVE  IInv'
<1>1. IsDB(db)
  BY DEF IInv, Types, DBTypes
<1>2. Releases(db, db', cs)
  <2>1. CASE db' = ClearPending(db, cs)
    <3>1. PICK e : e = ClearPending(db, cs)
      OBVIOUS
    <3>2. Releases(db, e, cs)
      BY <1>1, <3>1, ClearPendingReleases
    <3>3. QED  BY <2>1, <3>1, <3>2
  <2>2. CASE cs = {} /\ db' = db
    BY <1>1, <2>2 DEF Releases, Tame
  <2>3. QED  BY <2>1, <2>2
<1>3. PICK left : left = count.left \cup (request[r].inputs \ cs)
  OBVIOUS
<1>4. count' = [count EXCEPT !.failures = @ + 1, !.left = left]
  BY <1>3
<1>5. CountTypes' /\ count'.restarts = count.restarts /\ count'.left = left
  BY <1>4, FailureCounted
<1>6. /\ Types' /\ \A s \in Requests \ {r} : request'[s] = request[s]
  BY <1>2, <1>5, StepTypes, IdleTypes DEF Releases, Tame
<1>7. PendingHeld'
  BY <1>2, <1>3, <1>5, <1>6 DEF IInv, PendingHeld, Releases, Tame
<1>8. QED  BY <1>6, <1>7 DEF IInv

LEMMA InfoFailsIInv ==
  ASSUME IInv, NEW r \in Requests, InfoFails(r)
  PROVE  IInv'
<1>1. PICK cs : cs = request[r].call
  OBVIOUS
<1>2. cs \in SUBSET request[r].inputs
  BY <1>1, RequestOf DEF IsRequest
<1>3. QED  BY <1>1, <1>2, FailsIInv DEF InfoFails, ReleasedOnError

LEMMA ProofFailsIInv ==
  ASSUME IInv, NEW r \in Requests, ProofFails(r)
  PROVE  IInv'
<1>1. PICK cs : cs = request[r].inputs
  OBVIOUS
<1>2. Count("failures") /\ db' = ClearPending(db, cs) /\ count.failures < MaxFailures
      /\ UNCHANGED <<chainVars, mem, queue>> /\ Step(r, Idle)
  BY <1>1 DEF ProofFails
<1>3. count.left \cup (request[r].inputs \ cs) = count.left
  BY <1>1
<1>4. count' = [count EXCEPT !.failures = @ + 1, !.left = @ \cup (request[r].inputs \ cs)]
  BY <1>2, <1>3 DEF IInv, Types, CountTypes, Count
<1>5. QED  BY <1>1, <1>2, <1>4, FailsIInv

LEMMA FailsUncaughtIInv ==
  ASSUME IInv, NEW r \in Requests, FailsUncaught(r)
  PROVE  IInv'
<1>1. PICK cs : cs = {}
  OBVIOUS
<1>2. request[r].inputs \ cs = request[r].inputs /\ cs \in SUBSET request[r].inputs
  BY <1>1
<1>3. QED  BY <1>1, <1>2, FailsIInv DEF FailsUncaught

(***************************************************************************)
(* Transactions made.                                                      *)
(***************************************************************************)
OursIn(tx, t) == {<<t, k>> : k \in {j \in DOMAIN tx.outs : tx.outs[j]}}

LEMMA MakeTypes ==
  ASSUME IInv, NEW tx, NEW taken, Make(tx, taken), tx.outs \in Seq(BOOLEAN),
         UNCHANGED <<mem, queue>>
  PROVE  /\ ChainTypes' /\ QueueTypes'
         /\ Len(made) + 1 \in DOMAIN made' /\ DOMAIN made \subseteq DOMAIN made'
         /\ Ours \cup OursIn(tx, Len(made) + 1) \subseteq Ours'
<1> DEFINE S == ToSet(made) \cup {tx}
           n == Len(made) + 1
<1>1. /\ made' = Append(made, tx) /\ pool' \subseteq pool \cup {n}
      /\ UNCHANGED <<chain, log>>
  BY DEF Make
<1>2. made \in Seq(ToSet(made)) /\ \A t \in DOMAIN made : made[t].outs \in Seq(BOOLEAN)
  BY DEF IInv, Types, ChainTypes, MadeTypes
<1>3. made \in Seq(S) /\ tx \in S
  <2>1. \A t \in 1..Len(made) : made[t] \in S
    BY <1>2
  <2>2. QED  BY <1>2, <2>1
<1>4. /\ made' \in Seq(S) /\ Len(made') = n /\ Len(made) \in Nat
      /\ \A t \in 1..Len(made) : made'[t] = made[t]
      /\ made'[n] = tx
  BY <1>1, <1>3
<1>5. DOMAIN made = 1..Len(made) /\ DOMAIN made' = 1..n /\ n \in DOMAIN made'
  BY <1>2, <1>4
<1>6. DOMAIN made \subseteq DOMAIN made'
  BY <1>4, <1>5
<1>7. MadeTypes'
  <2>1. \A t \in 1..n : made'[t] \in ToSet(made')
    BY <1>5 DEF ToSet
  <2>2. made' \in Seq(ToSet(made'))
    BY <1>4, <1>5, <2>1
  <2>3. \A t \in DOMAIN made' : made'[t].outs \in Seq(BOOLEAN)
    BY <1>2, <1>4, <1>5
  <2>4. QED  BY <2>2, <2>3 DEF MadeTypes
<1>8. \A t \in DOMAIN made : OursOf(t)' = OursOf(t)
  BY <1>4, <1>5 DEF OursOf
<1>9. \A t : t = n => OursOf(t)' = OursIn(tx, t)
  BY <1>4 DEF OursOf, OursIn
<1>10. Ours \subseteq Ours'
  BY <1>6, <1>8 DEF Ours
<1>11. OursIn(tx, n) \subseteq Ours'
  <2>1. \A t \in DOMAIN made' : OursOf(t)' \subseteq Ours'
    BY DEF Ours
  <2>2. QED  BY <1>5, <1>9, <2>1
<1>12. ChainTypes'
  BY <1>1, <1>5, <1>6, <1>7 DEF IInv, Types, ChainTypes, Known
<1>13. QueueTypes'
  BY <1>1, <1>6 DEF IInv, Types, QueueTypes, Known
<1>14. QED  BY <1>5, <1>6, <1>10, <1>11, <1>12, <1>13

LEMMA ServiceOutputs ==
  ASSUME NEW kind \in Kinds, NEW outs \in Outputs(kind)
  PROVE  outs \in Seq(BOOLEAN)
<1>1. kind \in Services
  BY KindsAssumption
<1>2. outs \in {<<>>, <<TRUE>>, <<FALSE>>, <<FALSE, TRUE>>, <<TRUE, TRUE>>}
  BY <1>1 DEF Services, Outputs, TransferOutputs, WithdrawOutputs, BurnOutputs,
         TokeniseOutputs, TransformOutputs, DepositFeeOutputs
<1>3. <<>> \in Seq(BOOLEAN) /\ <<TRUE>> \in Seq(BOOLEAN) /\ <<FALSE>> \in Seq(BOOLEAN)
  OBVIOUS
<1>4. <<FALSE, TRUE>> \in Seq(BOOLEAN) /\ <<TRUE, TRUE>> \in Seq(BOOLEAN)
  OBVIOUS
<1>5. QED  BY <1>2, <1>3, <1>4

LEMMA ProveIInv ==
  ASSUME IInv, NEW r \in Requests, Prove(r)
  PROVE  IInv'
<1> DEFINE q == request[r]
           n == Len(made) + 1
           Tx(kind, outs) == [kind |-> kind, inputs |-> q.inputs, roots |-> q.roots, outs |-> outs]
<1>a. PICK kind \in Kinds : \E outs \in Outputs(kind) :
        /\ Make(Tx(kind, outs), \A c \in Tx(kind, outs).inputs : RootHolds(Tx(kind, outs).roots[c]))
        /\ db' = SaveExtendedTransaction(db, Tx(kind, outs), n)
  BY DEF Prove
<1>1. PICK outs \in Outputs(kind) :
        /\ Make(Tx(kind, outs), \A c \in Tx(kind, outs).inputs : RootHolds(Tx(kind, outs).roots[c]))
        /\ db' = SaveExtendedTransaction(db, Tx(kind, outs), n)
  BY <1>a
<1>2. Step(r, Idle) /\ UNCHANGED <<mem, queue, count>>
  BY DEF Prove
<1> DEFINE tx == Tx(kind, outs)
           taken == \A c \in tx.inputs : RootHolds(tx.roots[c])
<1>3. tx.outs \in Seq(BOOLEAN) /\ tx.inputs = q.inputs /\ Make(tx, taken)
  BY <1>1, ServiceOutputs
<1> HIDE DEF tx, taken
<1>4. /\ ChainTypes' /\ QueueTypes'
      /\ n \in DOMAIN made' /\ DOMAIN made \subseteq DOMAIN made'
      /\ Ours \cup OursIn(tx, n) \subseteq Ours'
  BY <1>2, <1>3, MakeTypes
<1>5. IsDB(db) /\ n \in Nat
  BY DEF IInv, Types, DBTypes, ChainTypes, MadeTypes
<1> DEFINE d == MarkNullified(db, tx.inputs, n)
           deposited == IF tx.kind = "depositFee" THEN {<<n, 1>>} ELSE {}
<1>6. Releases(db, d, q.inputs)
  BY <1>3, <1>5, MarkNullifiedReleases
<1>7. db' = StoreCommitments(d, OursIn(tx, n), deposited)
  BY <1>1 DEF SaveExtendedTransaction, OursIn, tx
<1> HIDE DEF d, deposited
<1>8. Tame(d, db', OursIn(tx, n), {})
  BY <1>6, <1>7, StoreTame DEF Releases, Tame
<1>9. DBTypes'
  BY <1>4, <1>6, <1>8 DEF IInv, Types, DBTypes, Releases, Tame
<1>10. request' = [s \in Requests |-> IF s = r THEN Idle ELSE request[s]]
  BY <1>2 DEF IInv, Types, RequestTypes, Step
<1>11. \A s \in Requests : IsRequest(request[s])' 
  <2> SUFFICES ASSUME NEW s \in Requests PROVE IsRequest(request[s])'
    OBVIOUS
  <2>1. CASE s = r
    <3>1. request'[s] = Idle
      BY <1>10, <2>1
    <3>2. QED  BY <3>1 DEF IsRequest, Idle
  <2>2. CASE s # r
    <3>1. request'[s] = request[s] /\ IsRequest(request[s])
      BY <1>10, <2>2, RequestOf
    <3>2. QED  BY <1>4, <3>1 DEF IsRequest
  <2>3. QED  BY <2>1, <2>2
<1>12. RequestTypes'
  BY <1>10, <1>11 DEF RequestTypes
<1>13. CountTypes'
  BY <1>2 DEF IInv, Types, CountTypes
<1>14. PendingHeld'
  BY <1>2, <1>6, <1>8, <1>10 DEF IInv, PendingHeld, Releases, Tame
<1>15. QED  BY <1>4, <1>9, <1>12, <1>13, <1>14 DEF IInv, Types

(* A transaction is made and no request has a part in it.                  *)
LEMMA MadeIInv ==
  ASSUME IInv, NEW tx, NEW taken, Make(tx, taken), tx.outs \in Seq(BOOLEAN),
         UNCHANGED <<mem, queue, request, count>>,
         Tame(db, db', OursIn(tx, Len(made) + 1), {})
  PROVE  IInv'
<1>1. /\ ChainTypes' /\ QueueTypes'
      /\ DOMAIN made \subseteq DOMAIN made'
      /\ Ours \cup OursIn(tx, Len(made) + 1) \subseteq Ours'
  BY MakeTypes
<1>2. DBTypes'
  BY <1>1 DEF IInv, Types, DBTypes, Tame
<1>3. RequestTypes'
  <2>1. \A s \in Requests : IsRequest(request[s])'
    BY <1>1, RequestOf DEF IsRequest
  <2>2. QED  BY <2>1 DEF IInv, Types, RequestTypes
<1>4. CountTypes'
  BY DEF IInv, Types, CountTypes
<1>5. PendingHeld'
  BY DEF IInv, PendingHeld, Tame
<1>6. QED  BY <1>1, <1>2, <1>3, <1>4, <1>5 DEF IInv, Types

LEMMA DepositIInv ==
  ASSUME IInv, Deposit
  PROVE  IInv'
<1> DEFINE tx == [kind |-> "deposit", inputs |-> {}, roots |-> <<>>, outs |-> <<TRUE>>]
           c == <<Len(made) + 1, 1>>
<1>1. /\ Make(tx, TRUE) /\ db' = StoreCommitments(db, {c}, {c})
      /\ UNCHANGED <<mem, queue, request, count>>
  BY DEF Deposit
<1>2. tx.outs \in Seq(BOOLEAN) /\ c \in OursIn(tx, Len(made) + 1)
  <2>1. tx.outs = <<TRUE>>
    OBVIOUS
  <2> HIDE DEF tx
  <2>2. <<TRUE>> \in Seq(BOOLEAN) /\ Len(<<TRUE>>) = 1
    OBVIOUS
  <2>3. tx.outs \in Seq(BOOLEAN) /\ 1 \in DOMAIN tx.outs
    BY <2>1, <2>2
  <2>4. tx.outs[1] = TRUE
    BY <2>1
  <2>5. QED  BY <2>3, <2>4 DEF OursIn
<1>3. Tame(db, db', {c}, {})
  BY <1>1, StoreTame DEF IInv, Types, DBTypes
<1> HIDE DEF tx, c
<1>4. Tame(db, db', OursIn(tx, Len(made) + 1), {})
  BY <1>2, <1>3 DEF Tame
<1>5. QED  BY <1>1, <1>2, <1>4, MadeIInv

LEMMA OthersTransactIInv ==
  ASSUME IInv, OthersTransact
  PROVE  IInv'
<1> DEFINE Tx(kind) == [kind |-> kind, inputs |-> {}, roots |-> <<>>,
                        outs |-> <<kind = "received">>]
<1>1. PICK kind \in Foreign : Make(Tx(kind), TRUE)
  BY DEF OthersTransact
<1>2. UNCHANGED <<db, mem, queue, request, count>>
  BY DEF OthersTransact
<1>3. Tx(kind).outs \in Seq(BOOLEAN)
  <2>1. (kind = "received") \in BOOLEAN
    OBVIOUS
  <2>2. QED  BY <2>1
<1>4. Tame(db, db', OursIn(Tx(kind), Len(made) + 1), {})
  BY <1>2 DEF IInv, Types, DBTypes, Tame
<1> HIDE DEF Tx
<1>5. QED  BY <1>1, <1>2, <1>3, <1>4, MadeIInv

(***************************************************************************)
(* The chain.                                                              *)
(***************************************************************************)
LEMMA LoggedTypes ==
  ASSUME IInv, NEW event \in Events, Known(event)',
         log' = Append(log, event), UNCHANGED <<made, db, mem, request>>,
         queue' \in {queue, Append(queue, Job(event, "socket"))},
         chain' \in Seq([n : Nat, tx : Nat, l1 : Nat]), pool' \subseteq DOMAIN made,
         CountTypes', count'.restarts = count.restarts, count'.left = count.left
  PROVE  IInv'
<1> DEFINE K(e) == IsBlock(e) => e.block.tx \in DOMAIN made' /\ e.block.l1 <= Len(log')
<1>1. log \in Seq(Events) /\ Len(log) \in Nat /\ mem.last \in Nat /\ mem.last <= Len(log)
  BY DEF IInv, Types, ChainTypes, QueueTypes
<1>2. /\ log' \in Seq(Events) /\ Len(log') = Len(log) + 1
      /\ \A i \in 1..Len(log) : log'[i] = log[i]
      /\ log'[Len(log) + 1] = event
  BY <1>1
<1>3. ASSUME NEW e \in Events, Known(e) PROVE K(e)
  <2> SUFFICES ASSUME IsBlock(e)
               PROVE  e.block.tx \in DOMAIN made /\ e.block.l1 <= Len(log')
    OBVIOUS
  <2>1. e.block.tx \in DOMAIN made /\ e.block.l1 <= Len(log)
    BY <1>3 DEF Known
  <2>2. e.block.l1 \in Nat
    BY DEF Events, IsBlock
  <2>3. QED  BY <1>1, <1>2, <2>1, <2>2
<1>5a. K(event)
  BY DEF Known, IsBlock
<1> HIDE DEF K
<1>4. \A i \in DOMAIN log' : K(log'[i])
  <2> SUFFICES ASSUME NEW i \in DOMAIN log' PROVE K(log'[i])
    OBVIOUS
  <2>1. i \in 1..Len(log) + 1
    BY <1>1, <1>2
  <2>2. CASE i = Len(log) + 1
    BY <1>2, <1>5a, <2>2
  <2>3. CASE i # Len(log) + 1
    <3>1. i \in 1..Len(log) /\ log'[i] = log[i]
      BY <1>1, <1>2, <2>1, <2>3
    <3>2. log[i] \in Events /\ Known(log[i])
      BY <1>1, <3>1 DEF IInv, Types, ChainTypes
    <3>3. QED  BY <1>3, <3>1, <3>2
  <2>4. QED  BY <2>2, <2>3
<1>5. ChainTypes'
  BY <1>2, <1>4 DEF IInv, Types, ChainTypes, MadeTypes, Known, K
<1>6. queue \in Seq(Jobs) /\ Len(queue) \in Nat
  BY DEF IInv, Types, QueueTypes
<1>7. \A i \in 1..Len(queue) : queue[i].event \in Events /\ K(queue[i].event)
  <2> SUFFICES ASSUME NEW i \in 1..Len(queue)
               PROVE  queue[i].event \in Events /\ K(queue[i].event)
    OBVIOUS
  <2>1. queue[i] \in Jobs /\ Known(queue[i].event)
    BY <1>6 DEF IInv, Types, QueueTypes
  <2>2. queue[i].event \in Events
    BY <2>1 DEF Jobs
  <2>3. QED  BY <1>3, <2>1, <2>2
<1>8. queue' \in Seq(Jobs) /\ \A i \in DOMAIN queue' : K(queue'[i].event)
  <2>1. CASE queue' = queue
    <3>1. \A i \in DOMAIN queue' : i \in 1..Len(queue) /\ queue'[i] = queue[i]
      BY <1>6, <2>1
    <3>2. QED  BY <1>6, <1>7, <2>1, <3>1
  <2>2. CASE queue' = Append(queue, Job(event, "socket"))
    <3> DEFINE j == Job(event, "socket")
    <3>1. j \in Jobs /\ j.event = event
      BY DEF Job, Jobs
    <3> HIDE DEF j
    <3>2. /\ queue' \in Seq(Jobs) /\ DOMAIN queue' = 1..Len(queue) + 1
          /\ \A i \in 1..Len(queue) : queue'[i] = queue[i]
          /\ queue'[Len(queue) + 1] = j
      BY <1>6, <2>2, <3>1 DEF j
    <3>3. ASSUME NEW i \in DOMAIN queue' PROVE K(queue'[i].event)
      <4>1. CASE i = Len(queue) + 1
        <5>1. queue'[i].event = event
          BY <3>1, <3>2, <4>1
        <5>2. QED  BY <1>5a, <5>1
      <4>2. CASE i # Len(queue) + 1
        <5>1. i \in 1..Len(queue)
          BY <1>6, <3>2, <4>2
        <5>2. queue'[i] = queue[i] /\ K(queue[i].event)
          BY <1>7, <3>2, <5>1
        <5>3. QED  BY <5>2
      <4>3. QED  BY <4>1, <4>2
    <3>4. QED  BY <3>2, <3>3
  <2>3. QED  BY <2>1, <2>2
<1>9. QueueTypes'
  BY <1>1, <1>2, <1>8 DEF IInv, Types, QueueTypes, Known, K
<1>10. DBTypes' /\ RequestTypes'
  BY DEF IInv, Types, DBTypes, RequestTypes, IsRequest, Ours, OursOf
<1>11. PendingHeld'
  BY DEF IInv, PendingHeld
<1>12. QED  BY <1>5, <1>9, <1>10, <1>11 DEF IInv, Types

LEMMA ProposeIInv ==
  ASSUME IInv, Propose
  PROVE  IInv'
<1> DEFINE Block(t) == [n |-> Len(chain), tx |-> t, l1 |-> Len(log) + 1]
           Event(t) == [type |-> "BlockProposed", block |-> Block(t)]
<1>a. PICK t \in {u \in pool : Includable(u)} : \E lost \in BOOLEAN :
        /\ chain' = Append(chain, Block(t)) /\ log' = Append(log, Event(t))
        /\ queue' = IF lost THEN queue ELSE Append(queue, Job(Event(t), "socket"))
        /\ count' = [count EXCEPT !.proposed = @ + 1, !.lost = @ + (IF lost THEN 1 ELSE 0)]
  BY DEF Propose
<1>1. PICK lost \in BOOLEAN :
        /\ chain' = Append(chain, Block(t)) /\ log' = Append(log, Event(t))
        /\ queue' = IF lost THEN queue ELSE Append(queue, Job(Event(t), "socket"))
        /\ count' = [count EXCEPT !.proposed = @ + 1, !.lost = @ + (IF lost THEN 1 ELSE 0)]
  BY <1>a
<1>2. UNCHANGED <<made, pool, db, mem, request>>
  BY DEF Propose
<1>3. /\ made \in Seq(ToSet(made)) /\ chain \in Seq([n : Nat, tx : Nat, l1 : Nat])
      /\ log \in Seq(Events) /\ pool \subseteq DOMAIN made
  BY DEF IInv, Types, ChainTypes, MadeTypes
<1>4. t \in DOMAIN made /\ t \in Nat /\ Len(log) + 1 \in Nat /\ Len(chain) \in Nat
  BY <1>3
<1>5. Block(t) \in [n : Nat, tx : Nat, l1 : Nat]
  BY <1>4
<1>6. /\ Event(t) \in Events /\ Event(t).block.tx = t
      /\ Event(t).block.l1 = Len(log) + 1
  BY <1>5 DEF Events
<1>7. chain' \in Seq([n : Nat, tx : Nat, l1 : Nat])
  BY <1>1, <1>3, <1>5
<1> DEFINE event == Event(t)
<1> HIDE DEF Block, Event
<1>8. Len(log') = Len(log) + 1
  BY <1>1, <1>3, <1>6
<1>9. ASSUME NEW e, e = Event(t) PROVE Known(e)'
  <2>1. e.block.tx \in DOMAIN made' /\ e.block.l1 <= Len(log')
    BY <1>2, <1>4, <1>6, <1>8, <1>9
  <2>2. QED  BY <2>1 DEF Known
<1>10. /\ CountTypes' /\ count'.restarts = count.restarts
       /\ count'.left = count.left
  <2> DEFINE Counts == [proposed : Nat, rollbacks : Nat, lost : Nat, failures : Nat,
                        provided : Nat, restarts : Nat, left : {count.left}]
  <2>1. count \in Counts /\ count.failures <= MaxFailures
    BY DEF IInv, Types, CountTypes
  <2>2. ASSUME NEW a \in Nat, NEW b \in Nat
        PROVE  LET e == [count EXCEPT !.proposed = a, !.lost = b] IN
               /\ e \in Counts /\ e.failures = count.failures
               /\ e.restarts = count.restarts /\ e.left = count.left
    BY <2>1
  <2> DEFINE a == count.proposed + 1
             b == count.lost + (IF lost THEN 1 ELSE 0)
  <2>3. a \in Nat /\ b \in Nat
    BY <2>1
  <2>4. count' = [count EXCEPT !.proposed = a, !.lost = b]
    BY <1>1
  <2> HIDE DEF a, b, Counts
  <2>5. /\ count' \in Counts /\ count'.failures = count.failures
        /\ count'.restarts = count.restarts /\ count'.left = count.left
    BY <2>2, <2>3, <2>4
  <2>6. QED  BY <2>1, <2>5 DEF CountTypes, Counts
<1>11. queue' \in {queue, Append(queue, Job(Event(t), "socket"))}
  BY <1>1
<1>12. QED
  BY <1>1, <1>2, <1>3, <1>6, <1>7, <1>9, <1>10, <1>11, LoggedTypes

LEMMA RollBackIInv ==
  ASSUME IInv, RollBack
  PROVE  IInv'
<1> DEFINE Event(n) == [type |-> "Rollback", n |-> n]
<1>1. PICK n \in 0..Len(chain) - 1 :
        /\ chain' = SubSeq(chain, 1, n) /\ log' = Append(log, Event(n))
        /\ queue' = Append(queue, Job(Event(n), "socket"))
        /\ pool' \subseteq pool
  BY DEF RollBack
<1>2. count' = [count EXCEPT !.rollbacks = @ + 1] /\ UNCHANGED <<made, db, mem, request>>
  BY DEF RollBack, Count
<1>3. chain \in Seq([n : Nat, tx : Nat, l1 : Nat]) /\ pool \subseteq DOMAIN made
  BY DEF IInv, Types, ChainTypes
<1>4. n \in Nat /\ n <= Len(chain) /\ Len(chain) \in Nat
  BY <1>1, <1>3
<1>5. Event(n) \in Events /\ Event(n).type # "BlockProposed"
  BY <1>4 DEF Events
<1>6. chain' \in Seq([n : Nat, tx : Nat, l1 : Nat])
  <2>1. CASE n = 0
    <3>1. SubSeq(chain, 1, 0) = << >>
      BY <1>3
    <3>2. QED  BY <1>1, <2>1, <3>1
  <2>2. CASE n # 0
    <3>1. 1 \in 1..Len(chain) /\ n \in 1..Len(chain)
      BY <1>3, <1>4, <2>2
    <3>2. SubSeq(chain, 1, n) = [i \in 1..n |-> chain[i]]
      BY <1>3, <1>4, <3>1
    <3> DEFINE Blocks == [n : Nat, tx : Nat, l1 : Nat]
    <3>3. chain \in Seq(Blocks)
      BY <1>3
    <3> HIDE DEF Blocks
    <3>4. \A i \in 1..n : chain[i] \in Blocks
      BY <1>4, <3>1, <3>3
    <3>5. chain' \in Seq(Blocks)
      BY <1>1, <1>4, <3>2, <3>4
    <3>6. QED  BY <3>5 DEF Blocks
  <2>3. QED  BY <2>1, <2>2
<1> HIDE DEF Event
<1>7. ASSUME NEW e, e = Event(n) PROVE Known(e)'
  BY <1>5, <1>7 DEF Known, IsBlock
<1>8. /\ CountTypes' /\ count'.restarts = count.restarts
      /\ count'.left = count.left
  BY <1>2 DEF IInv, Types, CountTypes
<1>9. queue' \in {queue, Append(queue, Job(Event(n), "socket"))}
  BY <1>1
<1>10. QED
  BY <1>1, <1>2, <1>3, <1>5, <1>6, <1>7, <1>8, <1>9, LoggedTypes

LEMMA NextIInv == IInv /\ [Next]_vars => IInv'
<1> SUFFICES ASSUME IInv, [Next]_vars PROVE IInv'
  OBVIOUS
<1>1. CASE Resynchronise  BY <1>1, ResynchroniseIInv
<1>2. CASE HandleBlock  BY <1>2, HandleBlockIInv
<1>3. CASE FinishEvent  BY <1>3, FinishEventIInv
<1>4. CASE HandleRollback  BY <1>4, HandleRollbackIInv
<1>5. CASE Restart  BY <1>5, RestartIInv
<1>6. ASSUME NEW r \in Requests, ReadProvided(r) PROVE IInv'
  BY <1>6, ReadProvidedIInv
<1>7. ASSUME NEW r \in Requests, MarkProvided(r) PROVE IInv'
  BY <1>7, MarkProvidedIInv
<1>8. ASSUME NEW r \in Requests, SelectCommitments(r) PROVE IInv'
  BY <1>8, SelectCommitmentsIInv
<1>9. ASSUME NEW r \in Requests, ReadSiblings(r) PROVE IInv'
  BY <1>9, ReadSiblingsIInv
<1>10. ASSUME NEW r \in Requests, NextInfo(r) \/ InfoFails(r) \/ ProofFails(r) PROVE IInv'
  BY <1>10, NextInfoIInv, InfoFailsIInv, ProofFailsIInv
<1>11. ASSUME NEW r \in Requests, Prove(r) PROVE IInv'
  BY <1>11, ProveIInv
<1>12. ASSUME NEW r \in Requests, FailsUncaught(r) PROVE IInv'
  BY <1>12, FailsUncaughtIInv
<1>13. CASE Deposit  BY <1>13, DepositIInv
<1>14. CASE OthersTransact  BY <1>14, OthersTransactIInv
<1>15. CASE Propose  BY <1>15, ProposeIInv
<1>16. CASE RollBack  BY <1>16, RollBackIInv
<1>17. CASE UNCHANGED vars
  BY <1>17 DEF vars, IInv, Types, ChainTypes, MadeTypes, QueueTypes, DBTypes, RequestTypes,
       IsRequest, CountTypes, PendingHeld, Known, Ours, OursOf
<1>18. QED
  BY <1>1, <1>2, <1>3, <1>4, <1>5, <1>6, <1>7, <1>8, <1>9, <1>10, <1>11, <1>12, <1>13,
     <1>14, <1>15, <1>16, <1>17 DEF Next

(* The client's collections hold only commitments of its own and           *)
(* transactions that were made, whatever is replayed, in whatever order    *)
(* (decryptCommitment, saveTransaction, the pool).                         *)
THEOREM ClientTypes == Spec => []TypeOK
<1>1. IInv => TypeOK
  BY TypesImpliesTypeOK DEF IInv
<1>2. QED  BY InitIInv, NextIInv, <1>1, PTL DEF Spec

(* A mark that holds a commitment back belongs to a request under way or   *)
(* was left by one that failed where the code does not release it - what   *)
(* earlier calls for a transform marked, and what fails uncaught - unless  *)
(* the client restarted: all other errors release the selection, whatever  *)
(* the event handlers do meanwhile (markPending, clearPending).            *)
THEOREM HeldBackByRequests == Spec => []PendingHeld
<1>1. IInv => PendingHeld
  BY DEF IInv
<1>2. QED  BY InitIInv, NextIInv, <1>1, PTL DEF Spec

(***************************************************************************)
(* What is spent.                                                          *)
(***************************************************************************)

(* The log: the number of blocks on chain after event i, and its blocks.   *)
Height(i) == IF i = 0 THEN 0 ELSE IF IsBlock(log[i]) THEN log[i].block.n + 1 ELSE log[i].n
BlockAt(a, t) == IsBlock(log[a]) /\ log[a].block.tx = t
Breaks(b, t) == ~ IsBlock(log[b]) /\ ~ CheckValidHistoricRootsBlockNumber(t, log[b].n - 1)
AllBlocks(k) == \A i \in 1..k : IsBlock(log[i])

MadeInv ==
  \A t \in DOMAIN made :
    /\ \A c \in made[t].inputs : c[1] \in DOMAIN made
    /\ made[t].kind = "transfer" => 1 \in DOMAIN made[t].outs /\ ~ made[t].outs[1]
    /\ made[t].kind \in Foreign => made[t].inputs = {} /\ DOMAIN made[t].outs = {1}

Numbered ==
  /\ \A i \in 1..Len(log) :
       /\ IsBlock(log[i]) => log[i].block.n = Height(i - 1) /\ log[i].block.l1 = i
       /\ ~ IsBlock(log[i]) => log[i].n < Height(i - 1)
  /\ Len(chain) = Height(Len(log))
  /\ \A a \in 1..Len(log) : \A e \in a..Len(log) :
       IsBlock(log[a]) /\ Stands(a, e) => log[a].block.n < Height(e)

(* A transaction that lost a root is in no pool and in no block again.     *)
Dropped ==
  \A a, b \in 1..Len(log) : \A t \in DOMAIN made :
    a < b /\ BlockAt(a, t) /\ Breaks(b, t) =>
      t \notin pool /\ \A e \in b..Len(log) : ~ BlockAt(e, t)

NoneYet ==
  count.rollbacks = 0 => \A i \in 1..Len(log) : IsBlock(log[i]) /\ log[i].block.tx \in pool

LogInv == Numbered /\ Dropped /\ NoneYet

Handled == Len(log) - Len(queue)
Seen == IF queue # <<>> /\ Current.step = "marked" THEN Handled + 1 ELSE Handled

InQueue ==
  /\ Len(queue) <= Len(log)
  /\ \A i \in 1..Len(queue) :
       /\ queue[i].event = log[Handled + i]
       /\ queue[i].step = "new" \/ (i = 1 /\ queue[i].step = "marked" /\ IsBlock(queue[i].event))

(* s events were handled before the client last started, or now.           *)
TreesInv(s) ==
  /\ s \in Handled..Len(log) /\ (s = Handled \/ AllBlocks(s))
  /\ db.trees = [i \in 1..Height(s) |-> db.trees[i]]
  /\ \A i \in 1..Height(s) : db.trees[i].n = i - 1 /\ db.trees[i].l1 \in 1..s
  /\ AllBlocks(s) => Height(s) = s /\ \A i \in 1..s : db.trees[i].l1 = i
  /\ \A c \in DOMAIN db.commitments : db.commitments[c].l1 <= s + 1

Reached(s) == IF s > Seen THEN s ELSE Seen

TxsInv ==
  \A t \in DOMAIN db.txs :
    /\ \E a \in 1..Len(log) :
         BlockAt(a, t) /\ (a <= Seen \/ AllBlocks(a)) /\ db.txs[t].n = log[a].block.n
    /\ db.txs[t].decrypted => made[t].kind \in Foreign

(* What the client knows of the transaction that spent a commitment.       *)
StandsInDB(s, t) ==
  \A a \in 1..Reached(s) : BlockAt(a, t) /\ Stands(a, Reached(s)) =>
    /\ t \in DOMAIN db.txs /\ log[a].block.n \in DOMAIN db.blocks
    /\ db.blocks[log[a].block.n] = t

NotRemoved(s, t) ==
  \A b \in 1..Reached(s) : \A a \in 1..b - 1 :
    BlockAt(a, t) /\ Breaks(b, t) /\ Stands(a, b - 1) => log[a].block.n < log[b].n

SpentInv(s) ==
  \A c \in DOMAIN db.commitments : db.commitments[c].nullified =>
    LET t == db.commitments[c].by IN
    /\ t \in DOMAIN made /\ c \in made[t].inputs
    /\ SameNumber(t) => StandsInDB(s, t) /\ NotRemoved(s, t)

Own(cs) == {c \in cs : made[c[1]].kind \notin Foreign}
Spends(t) == Own(made[t].inputs)
Takes(r) == Own(request[r].inputs)
Waiting(t) == \E i \in 1..Len(queue) : IsBlock(queue[i].event) /\ queue[i].event.block.tx = t
Live == {t \in DOMAIN made : t \in pool \/ t \in DOMAIN db.txs \/ Waiting(t)}

SpentOnce ==
  /\ \A t \in Live : \A c \in Spends(t) \cap DOMAIN db.commitments : db.commitments[c].nullified
  /\ \A t, u \in Live : t # u => Spends(t) \cap Spends(u) = {}
  /\ \A t \in Live : \A r \in Requests : Spends(t) \cap Takes(r) = {}
  /\ \A r, q \in Requests : r # q => Takes(r) \cap Takes(q) = {}
  /\ \A r \in Requests : \A c \in Takes(r) \cap DOMAIN db.commitments : db.commitments[c].pending
  /\ \A r \in Requests : request[r].provided = {} /\ request[r].stage \in {"idle", "selected", "built"}

(* What event a, a block, says, if event e is the last: it stands, with    *)
(* its number and its transaction.                                         *)
Stood(a, e) == IsBlock(log[a]) /\ Stands(a, e)
Num(a) == log[a].block.n
TxOf(a) == log[a].block.tx

(* The blocks of the chain are blocks of the log that stand.               *)
ChainLogged ==
  \A i \in DOMAIN chain : LET a == chain[i].l1 IN
    a \in 1..Len(log) /\ Stood(a, Len(log)) /\ log[a].block = chain[i] /\ chain[i].n = i - 1

(* At no time two blocks that stand have the same transaction, or spend    *)
(* the same commitment.                                                    *)
OnceEach ==
  \A e \in 1..Len(log) : \A a, b \in 1..e :
    Stood(a, e) /\ Stood(b, e) /\ a # b =>
      TxOf(a) # TxOf(b) /\ made[TxOf(a)].inputs \cap made[TxOf(b)].inputs = {}

(* A block refers to roots of blocks below it.                             *)
RootsBelow ==
  \A a \in 1..Len(log) : IsBlock(log[a]) =>
    \A c \in made[TxOf(a)].inputs : made[TxOf(a)].roots[c].n < Num(a)

(* What a block spends was made by a block below it that stands.           *)
SpendsLater ==
  \A a \in 1..Len(log) : IsBlock(log[a]) =>
    \A c \in made[TxOf(a)].inputs :
      \E b \in 1..a - 1 : BlockAt(b, c[1]) /\ Stands(b, a) /\ Num(b) < Num(a)

(* The root of a path, which is the tree of the block that made the        *)
(* commitment, ends with its transaction; so do those that requests and    *)
(* transactions carry.                                                     *)
EndsWith(x, t) == x[Len(x)] = t
Rooted(q) == IF q.stage = "built" THEN q.inputs ELSE q.inputs \ q.call
RootsRight ==
  /\ \A c \in DOMAIN db.commitments :
       db.commitments[c].root = NoTree \/ EndsWith(db.commitments[c].root, c[1])
  /\ \A r \in Requests : \A c \in Rooted(request[r]) :
       EndsWith(request[r].roots[c].root, c[1]) /\ request[r].roots[c].n \in Int
  /\ \A t \in DOMAIN made : \A c \in made[t].inputs :
       EndsWith(made[t].roots[c].root, c[1]) /\ made[t].roots[c].n \in Nat

(* The trees are those of the first s events and the marks those of the    *)
(* first e: one more while a block is marked and its tree not yet stored.  *)
Ahead(s, e) ==
  /\ e \in Seen..Len(log)
  /\ e = s \/ (e = s + 1 /\ IsBlock(log[e]) /\ (Seen = e \/ AllBlocks(e)))

(* The trees hold the transactions of the blocks that stand ...            *)
TreesRight(s) ==
  \A i \in 1..Height(s) :
    /\ db.trees[i].tree = [k \in 1..i |-> db.trees[i].tree[k]]
    /\ \A a \in 1..s : Stood(a, s) /\ Num(a) < i => db.trees[i].tree[Num(a) + 1] = TxOf(a)

(* ... the blocks stored stand ...                                         *)
BlocksRight(e) ==
  \A n \in DOMAIN db.blocks : \E a \in 1..e :
    BlockAt(a, db.blocks[n]) /\ Stands(a, e) /\ Num(a) = n

(* ... the marks of a commitment are the numbers of the blocks that made   *)
(* and that spent it, if they stand, and its root is their tree ...        *)
MarkRight(c, s, e) ==
  LET m == db.commitments[c] IN
  /\ \A a \in 1..e : BlockAt(a, c[1]) /\ Stands(a, e) => m.onChain = Num(a)
  /\ m.onChain # -1 => \E a \in 1..e : BlockAt(a, c[1]) /\ Stands(a, e)
  /\ \A a \in 1..e : Stood(a, e) /\ c \in made[TxOf(a)].inputs => m.nullifiedOnChain = Num(a)
  /\ m.nullifiedOnChain # -1 => \E a \in 1..e : Stood(a, e) /\ c \in made[TxOf(a)].inputs
  /\ \A a \in 1..s : BlockAt(a, c[1]) /\ Stands(a, e) => m.root = db.trees[Num(a) + 1].tree

(* ... and a transaction whose commitments are not all held is one of      *)
(* others that does not stand, or has lost a root to a rollback.           *)
HeldRight(e) ==
  \A t \in DOMAIN made : OursOf(t) \subseteq DOMAIN db.commitments \/
    IF made[t].kind \in Foreign
    THEN \A a \in 1..e : BlockAt(a, t) => ~ Stands(a, e)
    ELSE \E b \in 1..e : \E a \in 1..b - 1 : BlockAt(a, t) /\ Breaks(b, t)

(* What the client keeps of the log.                                       *)
MarksInv(s, e) ==
  /\ Ahead(s, e) /\ TreesRight(s) /\ BlocksRight(e) /\ HeldRight(e)
  /\ \A c \in DOMAIN db.commitments : MarkRight(c, s, e)

(* Without a rollback as many blocks stand as are logged.                  *)
Steady == \A i \in 0..Len(log) : AllBlocks(i) => Height(i) = i

(* What the log says of the blocks, whatever of it has been handled.       *)
PlacesInv == ChainLogged /\ OnceEach /\ RootsBelow /\ Steady

(* The trees, what spends, and the marks are each those of a prefix of the *)
(* log: the queue is the rest of it, but for what a restart repeats.       *)
FollowsLog ==
  /\ InQueue /\ TxsInv
  /\ \E s \in 0..Len(log) :
       TreesInv(s) /\ SpentInv(s) /\ \E e \in 0..Len(log) : MarksInv(s, e)

(***************************************************************************)
(* What the operators of the database leave as it was.                     *)
(***************************************************************************)

(* Only when commitments got on chain, and with which root, may change.    *)
Placed(d, e, l1) ==
  /\ e.txs = d.txs /\ e.blocks = d.blocks /\ e.trees = d.trees
  /\ DOMAIN e.commitments = DOMAIN d.commitments
  /\ \A c \in DOMAIN d.commitments :
       /\ e.commitments[c].pending = d.commitments[c].pending
       /\ e.commitments[c].nullified = d.commitments[c].nullified
       /\ e.commitments[c].by = d.commitments[c].by
       /\ e.commitments[c].l1 \in {d.commitments[c].l1, l1}

LEMMA Fields ==
  ASSUME NEW d, IsDB(d), NEW f
  PROVE  LET e == [d EXCEPT !.commitments = f] IN
         e.commitments = f /\ e.txs = d.txs /\ e.blocks = d.blocks /\ e.trees = d.trees
BY DEF IsDB

LEMMA PlacedBy ==
  ASSUME NEW d, IsDB(d), NEW l1, NEW f, DOMAIN f = DOMAIN d.commitments,
         \A c \in DOMAIN f :
           /\ f[c].pending = d.commitments[c].pending
           /\ f[c].nullified = d.commitments[c].nullified
           /\ f[c].by = d.commitments[c].by
           /\ f[c].l1 \in {d.commitments[c].l1, l1}
  PROVE  Placed(d, [d EXCEPT !.commitments = f], l1)
<1> DEFINE e == [d EXCEPT !.commitments = f]
<1>1. e.commitments = f /\ e.txs = d.txs /\ e.blocks = d.blocks /\ e.trees = d.trees
  BY Fields
<1> HIDE DEF e
<1>2. QED  BY <1>1 DEF Placed, e

LEMMA Replaced ==
  ASSUME NEW m, IsMarks(m), NEW n \in Int, NEW l1
  PROVE  /\ LET q == [m EXCEPT !.onChain = n, !.l1 = l1] IN
            q.pending = m.pending /\ q.nullified = m.nullified /\ q.by = m.by /\ q.l1 = l1
         /\ LET q == [m EXCEPT !.nullifiedOnChain = n, !.l1 = l1] IN
            q.pending = m.pending /\ q.nullified = m.nullified /\ q.by = m.by /\ q.l1 = l1
BY DEF IsMarks

LEMMA MarksPlace ==
  ASSUME NEW d, IsDB(d), NEW cs, NEW n \in Int, NEW l1 \in Int
  PROVE  Placed(d, MarkOnChain(d, cs, n, l1), l1) /\ Placed(d, MarkNullifiedOnChain(d, cs, n, l1), l1)
<1> DEFINE P(m) == IF m.onChain = -1 THEN [m EXCEPT !.onChain = n, !.l1 = l1] ELSE m
           Q(m) == IF m.nullifiedOnChain = -1
                   THEN [m EXCEPT !.nullifiedOnChain = n, !.l1 = l1] ELSE m
           f == [c \in DOMAIN d.commitments |->
                   IF c \in cs THEN P(d.commitments[c]) ELSE d.commitments[c]]
           g == [c \in DOMAIN d.commitments |->
                   IF c \in cs THEN Q(d.commitments[c]) ELSE d.commitments[c]]
<1>1. ASSUME NEW m, IsMarks(m)
      PROVE  /\ P(m).pending = m.pending /\ P(m).nullified = m.nullified /\ P(m).by = m.by
             /\ P(m).l1 \in {m.l1, l1}
             /\ Q(m).pending = m.pending /\ Q(m).nullified = m.nullified /\ Q(m).by = m.by
             /\ Q(m).l1 \in {m.l1, l1}
  BY <1>1, Replaced
<1>2. \A c \in DOMAIN d.commitments : IsMarks(d.commitments[c])
  BY DEF IsDB
<1>3. Placed(d, [d EXCEPT !.commitments = f], l1)
  <2> HIDE DEF P
  <2>1. QED  BY <1>1, <1>2, PlacedBy
<1>4. Placed(d, [d EXCEPT !.commitments = g], l1)
  <2> HIDE DEF Q
  <2>1. QED  BY <1>1, <1>2, PlacedBy
<1>5. QED  BY <1>3, <1>4 DEF MarkOnChain, MarkNullifiedOnChain, Mark

LEMMA ClearsPlace ==
  ASSUME NEW d, IsDB(d), NEW n \in Int
  PROVE  Placed(d, ClearOnChain(d, n), -1) /\ Placed(d, ClearNullifiedOnChain(d, n), -1)
<1> DEFINE P(m) == IF m.onChain >= n THEN [m EXCEPT !.onChain = -1, !.l1 = -1] ELSE m
           Q(m) == IF m.nullifiedOnChain >= n
                   THEN [m EXCEPT !.nullifiedOnChain = -1, !.l1 = -1] ELSE m
           f == [c \in DOMAIN d.commitments |->
                   IF c \in DOMAIN d.commitments THEN P(d.commitments[c]) ELSE d.commitments[c]]
           g == [c \in DOMAIN d.commitments |->
                   IF c \in DOMAIN d.commitments THEN Q(d.commitments[c]) ELSE d.commitments[c]]
<1>1. ASSUME NEW m, IsMarks(m)
      PROVE  /\ P(m).pending = m.pending /\ P(m).nullified = m.nullified /\ P(m).by = m.by
             /\ P(m).l1 \in {m.l1, -1}
             /\ Q(m).pending = m.pending /\ Q(m).nullified = m.nullified /\ Q(m).by = m.by
             /\ Q(m).l1 \in {m.l1, -1}
  <2> DEFINE p == [m EXCEPT !.onChain = -1, !.l1 = -1]
             q == [m EXCEPT !.nullifiedOnChain = -1, !.l1 = -1]
  <2>1. /\ p.pending = m.pending /\ p.nullified = m.nullified /\ p.by = m.by /\ p.l1 = -1
        /\ q.pending = m.pending /\ q.nullified = m.nullified /\ q.by = m.by /\ q.l1 = -1
    BY <1>1, -1 \in Int, Replaced
  <2>2. P(m) \in {p, m} /\ Q(m) \in {q, m}
    OBVIOUS
  <2> HIDE DEF p, q, P, Q
  <2>3. QED  BY <2>1, <2>2
<1>2. \A c \in DOMAIN d.commitments : IsMarks(d.commitments[c])
  BY DEF IsDB
<1>3. Placed(d, [d EXCEPT !.commitments = f], -1)
  <2> HIDE DEF P
  <2>1. QED  BY <1>1, <1>2, PlacedBy
<1>4. Placed(d, [d EXCEPT !.commitments = g], -1)
  <2> HIDE DEF Q
  <2>1. QED  BY <1>1, <1>2, PlacedBy
<1>5. QED  BY <1>3, <1>4 DEF ClearOnChain, ClearNullifiedOnChain, Mark

LEMMA PathsPlace ==
  ASSUME NEW d, IsDB(d), NEW cs, NEW root
  PROVE  Placed(d, SetSiblingInfo(d, cs, root), -1)
<1> DEFINE P(m) == IF m.onChain # -1 THEN [m EXCEPT !.root = root] ELSE m
           f == [c \in DOMAIN d.commitments |->
                   IF c \in cs THEN P(d.commitments[c]) ELSE d.commitments[c]]
<1>1. ASSUME NEW m, IsMarks(m)
      PROVE  /\ P(m).pending = m.pending /\ P(m).nullified = m.nullified /\ P(m).by = m.by
             /\ P(m).l1 \in {m.l1, -1}
  BY <1>1 DEF IsMarks
<1>2. \A c \in DOMAIN d.commitments : IsMarks(d.commitments[c])
  BY DEF IsDB
<1>3. Placed(d, [d EXCEPT !.commitments = f], -1)
  <2> HIDE DEF P
  <2>1. QED  BY <1>1, <1>2, PlacedBy
<1>4. QED  BY <1>3 DEF SetSiblingInfo, Mark

(***************************************************************************)
(* The handlers.                                                           *)
(***************************************************************************)
LEMMA StoredOnce ==
  ASSUME NEW d, IsDB(d), NEW cs, NEW deposited
  PROVE  LET e == StoreCommitments(d, cs, deposited) IN
         /\ e.txs = d.txs /\ e.blocks = d.blocks /\ e.trees = d.trees
         /\ DOMAIN e.commitments = DOMAIN d.commitments \cup cs
         /\ \A c \in DOMAIN d.commitments \ cs : e.commitments[c] = d.commitments[c]
         /\ \A c \in cs : /\ ~ e.commitments[c].nullified /\ ~ e.commitments[c].pending
                          /\ e.commitments[c].l1 = -1
<1> DEFINE f == [c \in DOMAIN d.commitments \cup cs |->
                   IF c \notin cs THEN d.commitments[c]
                   ELSE [onChain |-> -1, pending |-> FALSE, nullified |-> FALSE,
                         nullifiedOnChain |-> -1, l1 |-> -1, deposited |-> c \in deposited,
                         inTx |-> TRUE,
                         root |-> IF c \in DOMAIN d.commitments THEN d.commitments[c].root
                                  ELSE NoTree, by |-> 0]]
           e == [d EXCEPT !.commitments = f]
<1>1. e.commitments = f /\ e.txs = d.txs /\ e.blocks = d.blocks /\ e.trees = d.trees
  BY Fields
<1>2. /\ DOMAIN f = DOMAIN d.commitments \cup cs
      /\ \A c \in DOMAIN d.commitments \ cs : f[c] = d.commitments[c]
      /\ \A c \in cs : ~ f[c].nullified /\ ~ f[c].pending /\ f[c].l1 = -1
  OBVIOUS
<1>3. StoreCommitments(d, cs, deposited) = e
  BY DEF StoreCommitments
<1> HIDE DEF e, f
<1>4. QED  BY <1>1, <1>2, <1>3

Saved(d, e, t, n, decrypted) ==
  /\ e.commitments = d.commitments /\ e.trees = d.trees
  /\ DOMAIN e.blocks = DOMAIN d.blocks \cup {n} /\ e.blocks[n] = t
  /\ \A m \in DOMAIN d.blocks \ {n} : e.blocks[m] = d.blocks[m]
  /\ DOMAIN e.txs = DOMAIN d.txs \cup {t}
  /\ \A x \in DOMAIN d.txs : e.txs[x] = d.txs[x]
  /\ t \notin DOMAIN d.txs => e.txs[t] = [n |-> n, decrypted |-> decrypted]

LEMMA SavedTransaction ==
  ASSUME NEW d, IsDB(d), NEW t, NEW n, NEW decrypted,
         \A x \in DOMAIN d.txs : d.txs[x].n # -1
  PROVE  Saved(d, SaveBlock(SaveTransaction(d, t, n, decrypted), n, t), t, n, decrypted)
<1> DEFINE f == IF t \notin DOMAIN d.txs
                THEN With(d.txs, t, [n |-> n, decrypted |-> decrypted])
                ELSE IF d.txs[t].n = -1 THEN [d.txs EXCEPT ![t].n = n] ELSE d.txs
           e == [d EXCEPT !.txs = f]
           g == With(d.blocks, n, t)
<1>1. e = SaveTransaction(d, t, n, decrypted)
  BY DEF SaveTransaction
<1>2. e.commitments = d.commitments /\ e.txs = f /\ e.blocks = d.blocks /\ e.trees = d.trees
  BY DEF IsDB
<1>3. /\ DOMAIN f = DOMAIN d.txs \cup {t}
      /\ \A x \in DOMAIN d.txs : f[x] = d.txs[x]
      /\ t \notin DOMAIN d.txs => f[t] = [n |-> n, decrypted |-> decrypted]
  BY DEF With
<1>4. e \in [commitments : {d.commitments}, txs : {f}, blocks : {d.blocks}, trees : {d.trees}]
  BY DEF IsDB
<1> HIDE DEF e, f
<1>5. LET h == [e EXCEPT !.blocks = g] IN
      h.commitments = d.commitments /\ h.txs = f /\ h.blocks = g /\ h.trees = d.trees
  BY <1>2, <1>4
<1>6. /\ DOMAIN g = DOMAIN d.blocks \cup {n} /\ g[n] = t
      /\ \A m \in DOMAIN d.blocks \ {n} : g[m] = d.blocks[m]
  BY DEF With
<1>7. SaveBlock(e, n, t) = [e EXCEPT !.blocks = g]
  BY <1>2 DEF SaveBlock
<1> HIDE DEF g
<1>8. QED  BY <1>1, <1>3, <1>5, <1>6, <1>7 DEF Saved

(* What a block's first part does: at most one commitment is new, which    *)
(* was sent to us, and the transaction is kept if it is ours.              *)
BlockKept(d, e, n, t) ==
  /\ DOMAIN e.blocks = DOMAIN d.blocks \cup {n} /\ e.blocks[n] = t
  /\ \A m \in DOMAIN d.blocks \ {n} : e.blocks[m] = d.blocks[m]
  /\ DOMAIN e.txs = DOMAIN d.txs \cup {t}
  /\ \A x \in DOMAIN d.txs : e.txs[x] = d.txs[x]
  /\ t \notin DOMAIN d.txs =>
       e.txs[t].n = n /\ (e.txs[t].decrypted => made[t].kind \in Foreign)

BlockMarked(d, e, n, t, l1) ==
  /\ e.trees = d.trees
  /\ \/ BlockKept(d, e, n, t)
     \/ e.txs = d.txs /\ e.blocks = d.blocks /\ Held(d, made[t].inputs) = {}
  /\ DOMAIN d.commitments \subseteq DOMAIN e.commitments
  /\ \A c \in DOMAIN e.commitments \ DOMAIN d.commitments :
       /\ c[1] = t /\ made[t].kind \in Foreign
       /\ ~ e.commitments[c].nullified /\ e.commitments[c].l1 \in {-1, l1}
  /\ \A c \in DOMAIN d.commitments :
       /\ e.commitments[c].pending = d.commitments[c].pending
       /\ e.commitments[c].nullified = d.commitments[c].nullified
       /\ e.commitments[c].by = d.commitments[c].by
       /\ e.commitments[c].l1 \in {d.commitments[c].l1, l1}

LEMMA DecryptsForeign ==
  ASSUME MadeInv, NEW d, NEW t \in DOMAIN made, Decrypts(d, t)
  PROVE  made[t].kind \in Foreign /\ <<t, 1>> \notin DOMAIN d.commitments
BY DEF MadeInv, Decrypts, HasSecrets

LEMMA SaveIfOursEffect ==
  ASSUME MadeInv, MadeTypes, NEW d, IsDB(d), NEW t \in DOMAIN made, NEW n, NEW l1 \in Int,
         \A x \in DOMAIN d.txs : d.txs[x].n # -1
  PROVE  BlockMarked(d, SaveIfOurs(d, t, n), n, t, l1)
<1>1. CASE Decrypts(d, t)
  <2> DEFINE a == StoreCommitments(d, {<<t, 1>>}, {})
             e == SaveBlock(SaveTransaction(a, t, n, TRUE), n, t)
  <2>1. made[t].kind \in Foreign /\ <<t, 1>> \notin DOMAIN d.commitments
    BY <1>1, DecryptsForeign
  <2>2. /\ a.txs = d.txs /\ a.blocks = d.blocks /\ a.trees = d.trees
        /\ DOMAIN a.commitments = DOMAIN d.commitments \cup {<<t, 1>>}
        /\ \A c \in DOMAIN d.commitments : a.commitments[c] = d.commitments[c]
        /\ ~ a.commitments[<<t, 1>>].nullified /\ a.commitments[<<t, 1>>].l1 = -1
    BY <2>1, StoredOnce
  <2>3. IsDB(a)
    BY StoreTame DEF Tame
  <2> HIDE DEF a
  <2>4. Saved(a, e, t, n, TRUE)
    <3>1. \A x \in DOMAIN a.txs : a.txs[x].n # -1
      BY <2>2
    <3>2. QED  BY <2>3, <3>1, SavedTransaction, Zenon
  <2>5. SaveIfOurs(d, t, n) = e
    BY <1>1 DEF SaveIfOurs, a
  <2> HIDE DEF e
  <2>6. BlockKept(d, e, n, t)
    BY <2>1, <2>2, <2>4 DEF BlockKept, Saved
  <2>7. BlockMarked(d, e, n, t, l1)
    BY <2>1, <2>2, <2>4, <2>6 DEF BlockMarked, Saved
  <2>8. QED  BY <2>5, <2>7
<1>2. CASE ~ Decrypts(d, t) /\ Concerns(d, t)
  <2> DEFINE e == SaveBlock(SaveTransaction(d, t, n, FALSE), n, t)
  <2>1. Saved(d, e, t, n, FALSE)
    BY SavedTransaction, Zenon
  <2>2. SaveIfOurs(d, t, n) = e
    BY <1>2 DEF SaveIfOurs
  <2> HIDE DEF e
  <2>3. BlockKept(d, e, n, t)
    BY <2>1 DEF BlockKept, Saved
  <2>4. BlockMarked(d, e, n, t, l1)
    BY <2>1, <2>3 DEF BlockMarked, Saved
  <2>5. QED  BY <2>2, <2>4
<1>3. CASE ~ Decrypts(d, t) /\ ~ Concerns(d, t)
  <2>1. SaveIfOurs(d, t, n) = d /\ Held(d, made[t].inputs) = {}
    BY <1>3 DEF SaveIfOurs, Concerns
  <2>2. QED  BY <2>1 DEF BlockMarked
<1>4. QED  BY <1>1, <1>2, <1>3

LEMMA MarkBlockEffect ==
  ASSUME MadeInv, MadeTypes, IsDB(db), NEW b,
         b.tx \in DOMAIN made, b.n \in Nat, b.l1 \in Nat,
         \A x \in DOMAIN db.txs : db.txs[x].n # -1
  PROVE  BlockMarked(db, MarkBlock(db, b), b.n, b.tx, b.l1)
<1> DEFINE e == SaveIfOurs(db, b.tx, b.n)
           f == MarkOnChain(e, Commitments(b.tx), b.n, b.l1)
           g == MarkNullifiedOnChain(f, made[b.tx].inputs, b.n, b.l1)
<1>1. BlockMarked(db, e, b.n, b.tx, b.l1)
  BY SaveIfOursEffect
<1>2. IsDB(e)
  BY SaveIfOursTame DEF Tame
<1>3. Placed(e, f, b.l1)
  BY <1>2, MarksPlace
<1>4. IsDB(f)
  BY <1>2, MarkOnChainTame DEF Tame
<1>5. Placed(f, g, b.l1)
  BY <1>4, MarksPlace
<1>6. g = MarkBlock(db, b)
  BY DEF MarkBlock
<1> HIDE DEF e, f, g
<1>7. Placed(e, g, b.l1)
  BY <1>3, <1>5 DEF Placed
<1>8. g.trees = db.trees /\ g.txs = e.txs /\ g.blocks = e.blocks
      /\ DOMAIN g.commitments = DOMAIN e.commitments
  BY <1>1, <1>7 DEF BlockMarked, Placed
<1>9. \/ BlockKept(db, g, b.n, b.tx)
      \/ g.txs = db.txs /\ g.blocks = db.blocks /\ Held(db, made[b.tx].inputs) = {}
  BY <1>1, <1>8 DEF BlockMarked, BlockKept
<1>10. \A c \in DOMAIN g.commitments \ DOMAIN db.commitments :
         /\ c[1] = b.tx /\ made[b.tx].kind \in Foreign
         /\ ~ g.commitments[c].nullified /\ g.commitments[c].l1 \in {-1, b.l1}
  BY <1>1, <1>7 DEF BlockMarked, Placed
<1>11. \A c \in DOMAIN db.commitments :
       /\ g.commitments[c].pending = db.commitments[c].pending
       /\ g.commitments[c].nullified = db.commitments[c].nullified
       /\ g.commitments[c].by = db.commitments[c].by
       /\ g.commitments[c].l1 \in {db.commitments[c].l1, b.l1}
  BY <1>1, <1>7 DEF BlockMarked, Placed
<1>12. BlockMarked(db, g, b.n, b.tx, b.l1)
  BY <1>1, <1>8, <1>9, <1>10, <1>11 DEF BlockMarked
<1>13. QED  BY <1>6, <1>12

(***************************************************************************)
(* The trees, when each has the number of its place.                       *)
(***************************************************************************)
First(trees, k) == [i \in 1..k |-> trees[i]]

LEMMA FirstOnes ==
  ASSUME NEW N \in Nat, NEW trees, trees = First(trees, N)
  PROVE  /\ trees \in Seq({trees[i] : i \in 1..N}) /\ Len(trees) = N /\ DOMAIN trees = 1..N
         /\ \A k \in 0..N : /\ First(trees, k) \in Seq({trees[i] : i \in 1..N})
                            /\ Len(First(trees, k)) = k
                            /\ First(First(trees, k), k) = First(trees, k)
         /\ \A k \in 1..N : Append(First(trees, k - 1), trees[k]) = First(trees, k)
<1> DEFINE T == {trees[i] : i \in 1..N}
<1>1. ASSUME NEW k \in 0..N
      PROVE  First(trees, k) \in Seq(T) /\ Len(First(trees, k)) = k
             /\ First(First(trees, k), k) = First(trees, k)
  <2>1. \A i \in 1..k : trees[i] \in T
    OBVIOUS
  <2> HIDE DEF T
  <2>2. [i \in 1..k |-> trees[i]] \in Seq(T)
    BY <2>1
  <2>3. Len([i \in 1..k |-> trees[i]]) = k
    OBVIOUS
  <2>4. QED  BY <2>2, <2>3 DEF First
<1>2. N \in 0..N
  OBVIOUS
<1>3. DOMAIN trees = 1..N
  BY DEF First
<1>4. ASSUME NEW k \in 1..N
      PROVE  Append(First(trees, k - 1), trees[k]) = First(trees, k)
  <2>1. k - 1 \in 0..N /\ trees[k] \in T
    OBVIOUS
  <2> DEFINE f == First(trees, k - 1)
  <2>2. f \in Seq(T) /\ Len(f) = k - 1 /\ \A i \in 1..k - 1 : f[i] = trees[i]
    BY <1>1, <2>1 DEF First
  <2> HIDE DEF f, T
  <2>3. Append(f, trees[k]) = [i \in 1..k |-> IF i = k THEN trees[k] ELSE f[i]]
    BY <2>1, <2>2
  <2>4. QED  BY <2>2, <2>3 DEF First, f
<1>5. trees \in Seq(T) /\ Len(trees) = N
  <2> HIDE DEF T
  <2>1. QED  BY <1>1, <1>2
<1>6. QED  BY <1>1, <1>3, <1>4, <1>5

LEMMA KeptBelow ==
  ASSUME NEW N \in Nat, NEW trees, trees = First(trees, N),
         \A i \in 1..N : trees[i].n = i - 1, NEW n \in 0..N
  PROVE  KeepBelow(trees, n) = First(trees, n)
<1> DEFINE S == Seq({trees[i] : i \in 1..N})
           Kept(t, y) == IF t.n < n THEN Append(y, t) ELSE y
           G == [k \in 1..N |-> [y \in S |-> Kept(trees[k], y)]]
           T == [k \in 0..N |-> {First(trees, IF k < n THEN k ELSE n)}]
           Eq(h) == h = [s \in SUBSET (DOMAIN trees) |->
                           IF s = {} THEN <<>> ELSE Kept(trees[Max(s)], h[s \ {Max(s)}])]
<1>1. KeepBelow(trees, n) = (CHOOSE h : Eq(h))[DOMAIN trees]
  BY DEF KeepBelow, FoldLeft, MapThenFoldSet
<1>2. DOMAIN trees = 1..N /\ \A k \in 0..N : First(trees, k) \in S
  BY FirstOnes
<1>3. \A k \in 1..N : \A y \in S : Kept(trees[k], y) \in S
  <2> SUFFICES ASSUME NEW k \in 1..N, NEW y \in S PROVE Kept(trees[k], y) \in S
    OBVIOUS
  <2> DEFINE X == {trees[i] : i \in 1..N}
  <2>1. trees[k] \in X /\ y \in Seq(X)
    OBVIOUS
  <2> HIDE DEF X
  <2>2. Append(y, trees[k]) \in Seq(X)
    BY <2>1
  <2>3. QED  BY <2>1, <2>2 DEF X
<1>4. \A k \in 1..N : \A y \in S : G[k][y] = Kept(trees[k], y)
  OBVIOUS
<1>5. <<>> = First(trees, 0) /\ <<>> \in S
  <2>1. First(trees, 0) = <<>>
    BY DEF First
  <2>2. QED  BY <1>2, <2>1
<1>6. T \in [0..N -> SUBSET S] /\ <<>> \in T[0]
  <2>1. \A k \in 0..N : (IF k < n THEN k ELSE n) \in 0..N
    OBVIOUS
  <2>2. T[0] = {First(trees, 0)}
    OBVIOUS
  <2> HIDE DEF S
  <2>3. QED  BY <1>2, <1>5, <2>1, <2>2
<1>7. ASSUME NEW k \in 1..N, NEW y \in T[k - 1]
      PROVE  y \in S /\ Kept(trees[k], y) \in T[k]
  <2>1. k - 1 \in 0..N /\ k \in 0..N
    OBVIOUS
  <2>2. y = First(trees, IF k - 1 < n THEN k - 1 ELSE n)
    BY <2>1
  <2>3. T[k] = {First(trees, IF k < n THEN k ELSE n)}
    BY <2>1
  <2>4. y \in S
    BY <1>6, <2>1
  <2>5. trees[k].n = k - 1
    OBVIOUS
  <2>6. CASE k - 1 < n
    <3>1. y = First(trees, k - 1) /\ T[k] = {First(trees, k)}
      BY <2>2, <2>3, <2>6
    <3> HIDE DEF T, S
    <3>2. Append(First(trees, k - 1), trees[k]) = First(trees, k)
      BY FirstOnes
    <3>3. QED  BY <2>4, <2>5, <2>6, <3>1, <3>2
  <2>7. CASE ~(k - 1 < n)
    <3>1. y = First(trees, n) /\ T[k] = {First(trees, n)}
      BY <2>2, <2>3, <2>7
    <3> HIDE DEF T, S
    <3>2. QED  BY <2>4, <2>5, <2>7, <3>1
  <2>8. QED  BY <2>6, <2>7
<1>8. G \in Moves(N, S)
  <2> HIDE DEF S, Kept
  <2>1. QED  BY <1>3 DEF Moves
<1> HIDE DEF S, G, T, Kept
<1>9. Rounds(N, S, <<>>, G, T)
  BY <1>4, <1>5, <1>6, <1>7, <1>8 DEF Rounds
<1>10. PICK f \in [SUBSET (1..N) -> S] : IsFold(f, N, <<>>, G)
  BY <1>5, <1>8, FoldExists
<1>11. \A s \in SUBSET (1..N) : s # {} => Max(s) \in 1..N /\ s \ {Max(s)} \in SUBSET (1..N)
  BY MaxIn
<1>12. ASSUME NEW s \in SUBSET (1..N)
       PROVE  f[s] = IF s = {} THEN <<>> ELSE Kept(trees[Max(s)], f[s \ {Max(s)}])
  <2>1. f[s] = IF s = {} THEN <<>> ELSE G[Max(s)][f[s \ {Max(s)}]]
    BY <1>10 DEF IsFold
  <2>2. s # {} => f[s \ {Max(s)}] \in S /\ Max(s) \in 1..N
    BY <1>11
  <2>3. QED  BY <1>4, <2>1, <2>2
<1>13. Eq(f)
  <2>1. f = [s \in SUBSET (1..N) |-> f[s]]
    OBVIOUS
  <2>2. QED  BY <1>2, <1>12, <2>1
<1> DEFINE h == CHOOSE g : Eq(g)
<1>14. Eq(h)
  BY <1>13
<1> HIDE DEF h
<1>15. Folds(h, N, S, <<>>, G)
  <2>1. \A s \in SUBSET (1..N) :
          h[s] = IF s = {} THEN <<>> ELSE Kept(trees[Max(s)], h[s \ {Max(s)}])
    BY <1>2, <1>14
  <2>2. {} \in SUBSET (1..N)
    OBVIOUS
  <2>3. QED  BY <1>4, <1>11, <2>1, <2>2 DEF Folds
<1>16. h[1..N] \in T[N]
  BY <1>9, <1>15, FoldReaches
<1>17. T[N] = {First(trees, n)}
  BY DEF T
<1>18. QED  BY <1>1, <1>2, <1>16, <1>17 DEF h

(***************************************************************************)
(* The second part of a block, and a rollback.                             *)
(***************************************************************************)
Retained(d, e) ==
  /\ e.txs = d.txs /\ e.blocks = d.blocks
  /\ DOMAIN e.commitments = DOMAIN d.commitments
  /\ \A c \in DOMAIN d.commitments :
       /\ e.commitments[c].pending = d.commitments[c].pending
       /\ e.commitments[c].nullified = d.commitments[c].nullified
       /\ e.commitments[c].by = d.commitments[c].by
       /\ e.commitments[c].l1 \in {d.commitments[c].l1, -1}

TreeAdded(d, e, b, H) ==
  /\ e.trees = First(e.trees, H + 1)
  /\ \A i \in 1..H : e.trees[i] = d.trees[i]
  /\ e.trees[H + 1].n = b.n /\ e.trees[H + 1].l1 = b.l1

LEMMA FinishBlockEffect ==
  ASSUME NEW d, IsDB(d), NEW b, NEW syncing, NEW H \in Nat, d.trees = First(d.trees, H)
  PROVE  /\ Retained(d, FinishBlock(d, b, syncing))
         /\ TreeKnown(d, b.l1) => FinishBlock(d, b, syncing).trees = d.trees
         /\ ~ TreeKnown(d, b.l1) => TreeAdded(d, FinishBlock(d, b, syncing), b, H)
<1> DEFINE tree == Append(GetTreeByBlockNumberL2(d, b.n - 1), b.tx)
           new == [l1 |-> b.l1, n |-> b.n, tree |-> tree]
           saved == IF TreeKnown(d, b.l1) THEN d ELSE SaveTree(d, b.l1, b.n, tree)
           e == SetSiblingInfo(saved, Commitments(b.tx), tree)
           f == FinishBlock(d, b, syncing)
<1>1. f = IF TreeKnown(d, b.l1) /\ ~ syncing THEN d ELSE e
  BY DEF FinishBlock
<1>2. Retained(d, d)
  BY DEF Retained
<1>3. new.l1 = b.l1 /\ new.n = b.n
  OBVIOUS
<1>4. SaveTree(d, b.l1, b.n, tree) = [d EXCEPT !.trees = Append(d.trees, new)]
  BY DEF SaveTree, IsDB
<1> HIDE DEF new, tree
<1>5. /\ saved.commitments = d.commitments /\ saved.txs = d.txs /\ saved.blocks = d.blocks
      /\ saved.trees = IF TreeKnown(d, b.l1) THEN d.trees ELSE Append(d.trees, new)
      /\ IsDB(saved)
  <2>1. CASE TreeKnown(d, b.l1)
    BY <2>1
  <2>2. CASE ~ TreeKnown(d, b.l1)
    <3> DEFINE t == Append(d.trees, new)
               x == [d EXCEPT !.trees = t]
    <3>1. saved = x
      BY <1>4, <2>2
    <3> HIDE DEF t
    <3>2. x.commitments = d.commitments /\ x.txs = d.txs /\ x.blocks = d.blocks /\ x.trees = t
      BY DEF IsDB
    <3>3. IsDB(x)
      <4>1. x \in [commitments : {d.commitments}, txs : {d.txs}, blocks : {d.blocks}, trees : {t}]
        BY DEF IsDB
      <4> HIDE DEF x
      <4>2. QED  BY <3>2, <4>1 DEF IsDB
    <3> HIDE DEF x
    <3>4. QED  BY <2>2, <3>1, <3>2, <3>3 DEF t
  <2>3. QED  BY <2>1, <2>2
<1> HIDE DEF saved
<1>6. Placed(saved, e, -1)
  BY <1>5, PathsPlace
<1> HIDE DEF e
<1>7. Retained(d, e) /\ e.trees = saved.trees
  BY <1>5, <1>6 DEF Placed, Retained
<1>8. ~ TreeKnown(d, b.l1) => TreeAdded(d, e, b, H)
  <2> SUFFICES ASSUME ~ TreeKnown(d, b.l1) PROVE TreeAdded(d, e, b, H)
    OBVIOUS
  <2> DEFINE T == {d.trees[i] : i \in 1..H} \cup {new}
  <2>1. d.trees \in Seq({d.trees[i] : i \in 1..H}) /\ Len(d.trees) = H
    BY FirstOnes
  <2>2. d.trees \in Seq(T) /\ new \in T
    <3>1. \A i \in 1..H : d.trees[i] \in T
      OBVIOUS
    <3>2. DOMAIN d.trees = 1..H /\ d.trees = [i \in 1..H |-> d.trees[i]]
      BY FirstOnes DEF First
    <3> HIDE DEF T
    <3>3. d.trees \in [1..H -> T]
      BY <3>1, <3>2
    <3>4. QED  BY <3>3 DEF T
  <2>3. e.trees = Append(d.trees, new)
    BY <1>5, <1>7
  <2> HIDE DEF T
  <2>4. /\ e.trees = [i \in 1..H + 1 |-> e.trees[i]]
        /\ \A i \in 1..H : e.trees[i] = d.trees[i]
        /\ e.trees[H + 1] = new
    BY <2>1, <2>2, <2>3
  <2>5. QED  BY <1>3, <2>4 DEF TreeAdded, First
<1>9. CASE TreeKnown(d, b.l1)
  BY <1>1, <1>2, <1>5, <1>7, <1>9
<1>10. CASE ~ TreeKnown(d, b.l1)
  BY <1>1, <1>7, <1>8, <1>10
<1>11. QED  BY <1>9, <1>10

Removed(d, n) == UNION {GetTransactionsByL2Block(d, m) : m \in FindBlocksFromBlockNumberL2(d, n)}
Decrypted(d, n) == {t \in Removed(d, n) : d.txs[t].decrypted}
Invalid(d, n) ==
  {t \in Removed(d, n) \ Decrypted(d, n) : ~ CheckValidHistoricRootsBlockNumber(t, n - 1)}

RolledBack(d, e, n) ==
  /\ e.trees = KeepBelow(d.trees, n)
  /\ \A m \in DOMAIN d.blocks : ~(m >= n) => m \in DOMAIN e.blocks /\ e.blocks[m] = d.blocks[m]
  /\ DOMAIN e.txs = DOMAIN d.txs \ (Decrypted(d, n) \cup Invalid(d, n))
  /\ \A t \in DOMAIN e.txs : e.txs[t] = d.txs[t]
  /\ DOMAIN e.commitments \subseteq DOMAIN d.commitments
  /\ \A c \in DOMAIN e.commitments :
       /\ e.commitments[c].pending = d.commitments[c].pending
       /\ e.commitments[c].by = d.commitments[c].by
       /\ e.commitments[c].l1 \in {d.commitments[c].l1, -1}
       /\ e.commitments[c].nullified =
            (d.commitments[c].nullified /\ ~ \E t \in Invalid(d, n) : c \in made[t].inputs)

LEMMA NullifiersCleared ==
  ASSUME NEW d, IsDB(d), NEW cs
  PROVE  LET e == ClearNullifiers(d, cs) IN
         /\ e.txs = d.txs /\ e.blocks = d.blocks /\ e.trees = d.trees
         /\ DOMAIN e.commitments = DOMAIN d.commitments
         /\ \A c \in DOMAIN d.commitments :
              /\ e.commitments[c].pending = d.commitments[c].pending
              /\ e.commitments[c].by = d.commitments[c].by
              /\ e.commitments[c].l1 = d.commitments[c].l1
              /\ e.commitments[c].nullified = (d.commitments[c].nullified /\ c \notin cs)
<1> DEFINE P(m) == [m EXCEPT !.nullified = FALSE]
           f == [c \in DOMAIN d.commitments |->
                   IF c \in cs THEN P(d.commitments[c]) ELSE d.commitments[c]]
           e == [d EXCEPT !.commitments = f]
<1>1. ASSUME NEW m, IsMarks(m)
      PROVE  P(m).pending = m.pending /\ P(m).nullified = FALSE /\ P(m).by = m.by
             /\ P(m).l1 = m.l1 /\ m.nullified \in BOOLEAN
  BY <1>1 DEF IsMarks
<1>2. e.commitments = f /\ e.txs = d.txs /\ e.blocks = d.blocks /\ e.trees = d.trees
  BY Fields
<1>3. ClearNullifiers(d, cs) = e
  BY DEF ClearNullifiers, Mark
<1>4. \A c \in DOMAIN d.commitments : IsMarks(d.commitments[c])
  BY DEF IsDB
<1> HIDE DEF P
<1>5. /\ DOMAIN f = DOMAIN d.commitments
      /\ \A c \in DOMAIN d.commitments :
           /\ f[c].pending = d.commitments[c].pending
           /\ f[c].by = d.commitments[c].by
           /\ f[c].l1 = d.commitments[c].l1
           /\ f[c].nullified = (d.commitments[c].nullified /\ c \notin cs)
  <2>1. DOMAIN f = DOMAIN d.commitments
    OBVIOUS
  <2>2. ASSUME NEW c \in DOMAIN d.commitments
        PROVE  /\ f[c].pending = d.commitments[c].pending
               /\ f[c].by = d.commitments[c].by
               /\ f[c].l1 = d.commitments[c].l1
               /\ f[c].nullified = (d.commitments[c].nullified /\ c \notin cs)
    <3>1. CASE c \in cs
      <4>1. f[c] = P(d.commitments[c])
        BY <3>1
      <4> HIDE DEF f
      <4>2. QED  BY <1>1, <1>4, <3>1, <4>1
    <3>2. CASE c \notin cs
      <4>1. f[c] = d.commitments[c]
        BY <3>2
      <4> HIDE DEF f
      <4>2. QED  BY <1>1, <1>4, <3>2, <4>1
    <3>3. QED  BY <3>1, <3>2
  <2>3. QED  BY <2>1, <2>2
<1> HIDE DEF e, f
<1>6. QED  BY <1>2, <1>3, <1>5

LEMMA CommitmentsDeleted ==
  ASSUME NEW d, IsDB(d), NEW cs
  PROVE  LET e == DeleteCommitments(d, cs) IN
         /\ e.txs = d.txs /\ e.blocks = d.blocks /\ e.trees = d.trees
         /\ DOMAIN e.commitments \subseteq DOMAIN d.commitments
         /\ \A c \in DOMAIN e.commitments :
              /\ e.commitments[c].pending = d.commitments[c].pending
              /\ e.commitments[c].by = d.commitments[c].by
              /\ e.commitments[c].l1 = d.commitments[c].l1
              /\ e.commitments[c].nullified = d.commitments[c].nullified
<1> DEFINE gone == {c \in Held(d, cs) : ~ d.commitments[c].deposited}
           P(m) == [m EXCEPT !.inTx = FALSE]
           w == Without(d.commitments, gone)
           a == [d EXCEPT !.commitments = w]
           f == [c \in DOMAIN w |-> IF c \in cs THEN P(w[c]) ELSE w[c]]
           e == [a EXCEPT !.commitments = f]
<1>1. ASSUME NEW m, IsMarks(m)
      PROVE  P(m).pending = m.pending /\ P(m).nullified = m.nullified /\ P(m).by = m.by
             /\ P(m).l1 = m.l1
  BY <1>1 DEF IsMarks
<1>2. /\ DOMAIN w \subseteq DOMAIN d.commitments
      /\ \A c \in DOMAIN w : w[c] = d.commitments[c] /\ IsMarks(w[c])
  BY DEF Without, IsDB
<1> HIDE DEF w
<1>3. a.commitments = w /\ a.txs = d.txs /\ a.blocks = d.blocks /\ a.trees = d.trees
  BY Fields
<1>4. IsDB(a)
  <2>1. a \in [commitments : {w}, txs : {d.txs}, blocks : {d.blocks}, trees : {d.trees}]
    BY DEF IsDB
  <2> HIDE DEF a
  <2>2. QED  BY <1>2, <1>3, <2>1 DEF IsDB
<1>5. DeleteCommitments(d, cs) = e
  BY <1>3 DEF DeleteCommitments, Mark, w
<1> HIDE DEF a
<1>6. e.commitments = f /\ e.txs = a.txs /\ e.blocks = a.blocks /\ e.trees = a.trees
  BY <1>4, Fields
<1> HIDE DEF e, P
<1>7. /\ DOMAIN f = DOMAIN w
      /\ \A c \in DOMAIN w : f[c] = IF c \in cs THEN P(w[c]) ELSE w[c]
  OBVIOUS
<1> HIDE DEF f
<1>8. QED  BY <1>1, <1>2, <1>3, <1>5, <1>6, <1>7

LEMMA RollbackEffect ==
  ASSUME NEW d, IsDB(d), NEW n \in Nat
  PROVE  RolledBack(d, Rollback(d, n), n)
<1> DEFINE forgotten == {<<t, 1>> : t \in Decrypted(d, n)} \cup UNION {Commitments(t) : t \in Invalid(d, n)}
           nullifiers == UNION {made[t].inputs : t \in Invalid(d, n)}
           ts == Decrypted(d, n) \cup Invalid(d, n)
           d1 == DeleteTreeByBlockNumberL2(d, n)
           d2 == DeleteBlocksByBlockNumberL2(d1, n)
           d3 == ClearNullifiedOnChain(d2, n)
           d4 == ClearOnChain(d3, n)
           d5 == ClearNullifiers(d4, nullifiers)
           d6 == DeleteCommitments(d5, forgotten)
           d7 == DeleteTransactions(d6, ts)
<1>1. d7 = Rollback(d, n)
  BY DEF Rollback, Removed, Decrypted, Invalid
<1> HIDE DEF forgotten, ts
<1>2. /\ IsDB(d1) /\ d1.commitments = d.commitments /\ d1.txs = d.txs /\ d1.blocks = d.blocks
      /\ d1.trees = KeepBelow(d.trees, n)
  <2>1. IsDB(d1)
    BY DatabaseTame DEF Tame
  <2> DEFINE t == KeepBelow(d.trees, n)
  <2>2. d1 = [d EXCEPT !.trees = t]
    BY DEF DeleteTreeByBlockNumberL2
  <2> HIDE DEF t, d1
  <2>3. d1.commitments = d.commitments /\ d1.txs = d.txs /\ d1.blocks = d.blocks /\ d1.trees = t
    BY <2>2 DEF IsDB
  <2>4. QED  BY <2>1, <2>3 DEF t
<1> HIDE DEF d1
<1>3. /\ IsDB(d2) /\ d2.commitments = d.commitments /\ d2.txs = d.txs /\ d2.trees = d1.trees
      /\ \A m \in DOMAIN d.blocks : ~(m >= n) => m \in DOMAIN d2.blocks /\ d2.blocks[m] = d.blocks[m]
  <2>1. IsDB(d2)
    BY <1>2, DatabaseTame DEF Tame
  <2> DEFINE w == Without(d1.blocks, FindBlocksFromBlockNumberL2(d1, n))
  <2>2. \A m \in DOMAIN d.blocks : ~(m >= n) => m \in DOMAIN w /\ w[m] = d.blocks[m]
    BY <1>2 DEF Without, FindBlocksFromBlockNumberL2
  <2>3. d2 = [d1 EXCEPT !.blocks = w]
    BY DEF DeleteBlocksByBlockNumberL2
  <2> HIDE DEF w, d2
  <2>4. d2.commitments = d1.commitments /\ d2.txs = d1.txs /\ d2.blocks = w /\ d2.trees = d1.trees
    BY <1>2, <2>3 DEF IsDB
  <2>5. QED  BY <1>2, <2>1, <2>2, <2>4
<1> HIDE DEF d2
<1>4. IsDB(d3) /\ Placed(d2, d3, -1)
  BY <1>3, ClearsPlace, ClearNullifiedOnChainTame DEF Tame
<1> HIDE DEF d3
<1>5. IsDB(d4) /\ Placed(d3, d4, -1)
  BY <1>4, ClearsPlace, ClearOnChainTame DEF Tame
<1> HIDE DEF d4
<1>6. /\ IsDB(d5)
      /\ d5.txs = d4.txs /\ d5.blocks = d4.blocks /\ d5.trees = d4.trees
      /\ DOMAIN d5.commitments = DOMAIN d4.commitments
      /\ \A c \in DOMAIN d4.commitments :
           /\ d5.commitments[c].pending = d4.commitments[c].pending
           /\ d5.commitments[c].by = d4.commitments[c].by
           /\ d5.commitments[c].l1 = d4.commitments[c].l1
           /\ d5.commitments[c].nullified = (d4.commitments[c].nullified /\ c \notin nullifiers)
  <2>1. IsDB(d5)
    BY <1>5, ClearNullifiersTame DEF Tame
  <2> HIDE DEF nullifiers
  <2>2. QED  BY <1>5, <2>1, NullifiersCleared
<1> HIDE DEF d5
<1>7. /\ IsDB(d6)
      /\ d6.txs = d5.txs /\ d6.blocks = d5.blocks /\ d6.trees = d5.trees
      /\ DOMAIN d6.commitments \subseteq DOMAIN d5.commitments
      /\ \A c \in DOMAIN d6.commitments :
           /\ d6.commitments[c].pending = d5.commitments[c].pending
           /\ d6.commitments[c].by = d5.commitments[c].by
           /\ d6.commitments[c].l1 = d5.commitments[c].l1
           /\ d6.commitments[c].nullified = d5.commitments[c].nullified
  <2>1. IsDB(d6)
    BY <1>6, DeleteCommitmentsTame DEF Tame
  <2>2. QED  BY <1>6, <2>1, CommitmentsDeleted
<1> HIDE DEF d6
<1>8. /\ d7.commitments = d6.commitments /\ d7.blocks = d6.blocks /\ d7.trees = d6.trees
      /\ DOMAIN d7.txs = DOMAIN d6.txs \ ts
      /\ \A t \in DOMAIN d7.txs : d7.txs[t] = d6.txs[t]
  <2> DEFINE w == Without(d6.txs, ts)
  <2>1. DOMAIN w = DOMAIN d6.txs \ ts /\ \A t \in DOMAIN w : w[t] = d6.txs[t]
    BY DEF Without
  <2>2. d7 = [d6 EXCEPT !.txs = w]
    BY DEF DeleteTransactions
  <2> HIDE DEF w, d7
  <2>3. d7.commitments = d6.commitments /\ d7.txs = w /\ d7.blocks = d6.blocks /\ d7.trees = d6.trees
    BY <1>7, <2>2 DEF IsDB
  <2>4. QED  BY <2>1, <2>3
<1> HIDE DEF d7
<1>9. \A c : c \in nullifiers <=> \E t \in Invalid(d, n) : c \in made[t].inputs
  OBVIOUS
<1> HIDE DEF nullifiers
<1>10. d7.trees = KeepBelow(d.trees, n) /\ d7.blocks = d2.blocks
       /\ DOMAIN d7.txs = DOMAIN d.txs \ ts
       /\ \A t \in DOMAIN d7.txs : d7.txs[t] = d.txs[t]
  BY <1>2, <1>3, <1>4, <1>5, <1>6, <1>7, <1>8 DEF Placed
<1>11. DOMAIN d7.commitments \subseteq DOMAIN d.commitments
  BY <1>3, <1>4, <1>5, <1>6, <1>7, <1>8 DEF Placed
<1>12. ASSUME NEW c \in DOMAIN d7.commitments
       PROVE  /\ d7.commitments[c].pending = d.commitments[c].pending
              /\ d7.commitments[c].by = d.commitments[c].by
              /\ d7.commitments[c].l1 \in {d.commitments[c].l1, -1}
              /\ d7.commitments[c].nullified = (d.commitments[c].nullified /\ c \notin nullifiers)
  <2>1. c \in DOMAIN d5.commitments /\ c \in DOMAIN d4.commitments /\ c \in DOMAIN d3.commitments
        /\ c \in DOMAIN d2.commitments /\ c \in DOMAIN d.commitments
    BY <1>3, <1>4, <1>5, <1>6, <1>7, <1>8 DEF Placed
  <2>2. /\ d4.commitments[c].pending = d.commitments[c].pending
        /\ d4.commitments[c].by = d.commitments[c].by
        /\ d4.commitments[c].l1 \in {d.commitments[c].l1, -1}
        /\ d4.commitments[c].nullified = d.commitments[c].nullified
    BY <1>3, <1>4, <1>5, <2>1 DEF Placed
  <2>3. QED  BY <1>6, <1>7, <1>8, <2>1, <2>2
<1>13. QED  BY <1>1, <1>3, <1>9, <1>10, <1>11, <1>12 DEF RolledBack, ts

(***************************************************************************)
(* The marks requests make.                                                *)
(***************************************************************************)
Same(d, e) ==
  /\ e.txs = d.txs /\ e.blocks = d.blocks /\ e.trees = d.trees
  /\ DOMAIN e.commitments = DOMAIN d.commitments
  /\ \A c \in DOMAIN d.commitments : e.commitments[c].l1 = d.commitments[c].l1

LEMMA RequestMarks ==
  ASSUME NEW d, IsDB(d), NEW cs, NEW t \in Nat
  PROVE  /\ LET e == MarkPending(d, cs) IN
            /\ Same(d, e)
            /\ \A c \in DOMAIN d.commitments :
                 /\ e.commitments[c].nullified = d.commitments[c].nullified
                 /\ e.commitments[c].by = d.commitments[c].by
                 /\ c \in cs => e.commitments[c].pending
                 /\ c \notin cs => e.commitments[c].pending = d.commitments[c].pending
         /\ LET e == ClearPending(d, cs) IN
            /\ Same(d, e)
            /\ \A c \in DOMAIN d.commitments :
                 /\ e.commitments[c].nullified = d.commitments[c].nullified
                 /\ e.commitments[c].by = d.commitments[c].by
                 /\ c \notin cs => e.commitments[c].pending = d.commitments[c].pending
         /\ LET e == MarkNullified(d, cs, t) IN
            /\ Same(d, e)
            /\ \A c \in DOMAIN d.commitments :
                 /\ c \in cs => e.commitments[c].nullified /\ e.commitments[c].by = t
                 /\ c \notin cs => e.commitments[c] = d.commitments[c]
<1> DEFINE P(m) == [m EXCEPT !.pending = TRUE]
           Q(m) == [m EXCEPT !.pending = FALSE]
           R(m) == [m EXCEPT !.pending = FALSE, !.nullified = TRUE, !.by = t]
           f == [c \in DOMAIN d.commitments |->
                   IF c \in cs THEN P(d.commitments[c]) ELSE d.commitments[c]]
           g == [c \in DOMAIN d.commitments |->
                   IF c \in cs THEN Q(d.commitments[c]) ELSE d.commitments[c]]
           h == [c \in DOMAIN d.commitments |->
                   IF c \in cs THEN R(d.commitments[c]) ELSE d.commitments[c]]
           df == [d EXCEPT !.commitments = f]
           dg == [d EXCEPT !.commitments = g]
           dh == [d EXCEPT !.commitments = h]
<1>1. ASSUME NEW m, IsMarks(m)
      PROVE  /\ m.pending \in BOOLEAN /\ m.nullified \in BOOLEAN
             /\ P(m).pending = TRUE /\ P(m).nullified = m.nullified /\ P(m).by = m.by
             /\ P(m).l1 = m.l1
             /\ Q(m).pending = FALSE /\ Q(m).nullified = m.nullified /\ Q(m).by = m.by
             /\ Q(m).l1 = m.l1
             /\ R(m).nullified = TRUE /\ R(m).by = t /\ R(m).l1 = m.l1
  BY <1>1 DEF IsMarks
<1>2. \A c \in DOMAIN d.commitments : IsMarks(d.commitments[c])
  BY DEF IsDB
<1>3. MarkPending(d, cs) = df /\ ClearPending(d, cs) = dg /\ MarkNullified(d, cs, t) = dh
  BY DEF MarkPending, ClearPending, MarkNullified, Mark
<1>4. /\ df.commitments = f /\ df.txs = d.txs /\ df.blocks = d.blocks /\ df.trees = d.trees
      /\ dg.commitments = g /\ dg.txs = d.txs /\ dg.blocks = d.blocks /\ dg.trees = d.trees
      /\ dh.commitments = h /\ dh.txs = d.txs /\ dh.blocks = d.blocks /\ dh.trees = d.trees
  BY Fields
<1> HIDE DEF P, Q, R, df, dg, dh
<1>5. /\ DOMAIN f = DOMAIN d.commitments /\ DOMAIN g = DOMAIN d.commitments
      /\ DOMAIN h = DOMAIN d.commitments
      /\ \A c \in DOMAIN d.commitments :
           /\ f[c] = IF c \in cs THEN P(d.commitments[c]) ELSE d.commitments[c]
           /\ g[c] = IF c \in cs THEN Q(d.commitments[c]) ELSE d.commitments[c]
           /\ h[c] = IF c \in cs THEN R(d.commitments[c]) ELSE d.commitments[c]
  OBVIOUS
<1> HIDE DEF f, g, h
<1>6. ASSUME NEW c \in DOMAIN d.commitments
      PROVE  /\ f[c].l1 = d.commitments[c].l1 /\ g[c].l1 = d.commitments[c].l1
             /\ h[c].l1 = d.commitments[c].l1
             /\ f[c].nullified = d.commitments[c].nullified
             /\ f[c].by = d.commitments[c].by
             /\ c \in cs => f[c].pending
             /\ c \notin cs => f[c].pending = d.commitments[c].pending
             /\ g[c].nullified = d.commitments[c].nullified
             /\ g[c].by = d.commitments[c].by
             /\ c \notin cs => g[c].pending = d.commitments[c].pending
             /\ c \in cs => h[c].nullified /\ h[c].by = t
             /\ c \notin cs => h[c] = d.commitments[c]
  <2> DEFINE m == d.commitments[c]
  <2>1. IsMarks(m)
    BY <1>2
  <2>2. CASE c \in cs
    <3>1. f[c] = P(m) /\ g[c] = Q(m) /\ h[c] = R(m)
      BY <1>5, <2>2
    <3>2. /\ P(m).pending /\ P(m).nullified = m.nullified /\ P(m).by = m.by
          /\ P(m).l1 = m.l1
          /\ Q(m).nullified = m.nullified /\ Q(m).by = m.by /\ Q(m).l1 = m.l1
          /\ R(m).nullified /\ R(m).by = t /\ R(m).l1 = m.l1
      <4> HIDE DEF m
      <4>1. QED  BY <1>1, <2>1
    <3>3. QED  BY <2>2, <3>1, <3>2
  <2>3. CASE c \notin cs
    <3>1. f[c] = m /\ g[c] = m /\ h[c] = m
      BY <1>5, <2>3
    <3> HIDE DEF m
    <3>2. QED  BY <1>1, <2>1, <2>3, <3>1 DEF m
  <2>4. QED  BY <2>2, <2>3
<1>7. Same(d, df) /\ Same(d, dg) /\ Same(d, dh)
  BY <1>4, <1>5, <1>6 DEF Same
<1>8. QED  BY <1>3, <1>4, <1>5, <1>6, <1>7

LEMMA PendingMarks ==
  ASSUME NEW d, IsDB(d), NEW cs
  PROVE  /\ LET e == MarkPending(d, cs) IN
            /\ Same(d, e)
            /\ \A c \in DOMAIN d.commitments :
                 /\ e.commitments[c].nullified = d.commitments[c].nullified
                 /\ e.commitments[c].by = d.commitments[c].by
                 /\ c \in cs => e.commitments[c].pending
                 /\ c \notin cs => e.commitments[c].pending = d.commitments[c].pending
         /\ LET e == ClearPending(d, cs) IN
            /\ Same(d, e)
            /\ \A c \in DOMAIN d.commitments :
                 /\ e.commitments[c].nullified = d.commitments[c].nullified
                 /\ e.commitments[c].by = d.commitments[c].by
                 /\ c \notin cs => e.commitments[c].pending = d.commitments[c].pending
<1> DEFINE p == MarkPending(d, cs)
           q == ClearPending(d, cs)
<1>1. PICK t \in Nat : t = 0
  OBVIOUS
<1>2. /\ Same(d, p) /\ Same(d, q)
      /\ \A c \in DOMAIN d.commitments :
           /\ p.commitments[c].nullified = d.commitments[c].nullified
           /\ p.commitments[c].by = d.commitments[c].by
           /\ c \in cs => p.commitments[c].pending
           /\ c \notin cs => p.commitments[c].pending = d.commitments[c].pending
           /\ q.commitments[c].nullified = d.commitments[c].nullified
           /\ q.commitments[c].by = d.commitments[c].by
           /\ c \notin cs => q.commitments[c].pending = d.commitments[c].pending
  <2> DEFINE e == MarkNullified(d, cs, t)
  <2>1. PICK f : f = e
    OBVIOUS
  <2>2. QED  BY <2>1, RequestMarks
<1> HIDE DEF p, q
<1>3. QED  BY <1>2 DEF p, q

(***************************************************************************)
(* The log grows.                                                          *)
(***************************************************************************)
LEMMA LogTypes ==
  ASSUME IInv
  PROVE  /\ log \in Seq(Events) /\ Len(log) \in Nat /\ DOMAIN log = 1..Len(log)
         /\ queue \in Seq(Jobs) /\ Len(queue) \in Nat /\ DOMAIN queue = 1..Len(queue)
         /\ made \in Seq(ToSet(made)) /\ Len(made) \in Nat /\ DOMAIN made = 1..Len(made)
         /\ \A i \in 1..Len(log) :
              /\ IsBlock(log[i]) => /\ log[i].block.n \in Nat /\ log[i].block.l1 \in Nat
                                    /\ log[i].block.tx \in DOMAIN made
              /\ ~ IsBlock(log[i]) => log[i].n \in Nat
         /\ \A i \in 0..Len(log) : Height(i) \in Nat
<1>1. /\ log \in Seq(Events) /\ queue \in Seq(Jobs) /\ made \in Seq(ToSet(made))
      /\ \A i \in DOMAIN log : Known(log[i])
  BY DEF IInv, Types, ChainTypes, QueueTypes, MadeTypes
<1>2. /\ Len(log) \in Nat /\ DOMAIN log = 1..Len(log)
      /\ Len(queue) \in Nat /\ DOMAIN queue = 1..Len(queue)
      /\ Len(made) \in Nat /\ DOMAIN made = 1..Len(made)
  BY <1>1
<1>3. ASSUME NEW i \in 1..Len(log)
      PROVE  /\ IsBlock(log[i]) => /\ log[i].block.n \in Nat /\ log[i].block.l1 \in Nat
                                   /\ log[i].block.tx \in DOMAIN made
             /\ ~ IsBlock(log[i]) => log[i].n \in Nat
  <2>1. log[i] \in Events /\ Known(log[i])
    BY <1>1, <1>2
  <2>2. CASE log[i] \in [type : {"BlockProposed"}, block : [n : Nat, tx : Nat, l1 : Nat]]
    BY <2>1, <2>2 DEF IsBlock, Known
  <2>3. CASE log[i] \in [type : {"Rollback"}, n : Nat]
    BY <2>3 DEF IsBlock
  <2>4. QED  BY <2>1, <2>2, <2>3 DEF Events
<1>4. \A i \in 0..Len(log) : Height(i) \in Nat
  <2> SUFFICES ASSUME NEW i \in 0..Len(log) PROVE Height(i) \in Nat
    OBVIOUS
  <2>1. CASE i = 0
    BY <2>1 DEF Height
  <2>2. CASE i # 0
    <3>1. i \in 1..Len(log)
      BY <1>2, <2>2
    <3>2. QED  BY <1>3, <2>2, <3>1 DEF Height
  <2>3. QED  BY <2>1, <2>2
<1>5. QED  BY <1>1, <1>2, <1>3, <1>4

(* What is said of the first events stays true.                            *)
Grown ==
  /\ Len(log') = Len(log) + 1
  /\ \A i \in 1..Len(log) : log'[i] = log[i]

LEMMA LogGrows ==
  ASSUME IInv, Grown
  PROVE  /\ \A i \in 0..Len(log) : Height(i)' = Height(i)
         /\ \A i \in 1..Len(log) : \A t : BlockAt(i, t)' = BlockAt(i, t)
         /\ \A i \in 0..Len(log) : AllBlocks(i)' = AllBlocks(i)
         /\ \A a \in 1..Len(log) : \A b \in 0..Len(log) : Stands(a, b)' = Stands(a, b)
<1>1. Len(log) \in Nat
  BY LogTypes
<1>2. \A i \in 0..Len(log) : Height(i)' = Height(i)
  <2> SUFFICES ASSUME NEW i \in 0..Len(log) PROVE Height(i)' = Height(i)
    OBVIOUS
  <2>1. i # 0 => i \in 1..Len(log)
    BY <1>1
  <2>2. i # 0 => log'[i] = log[i]
    BY <2>1 DEF Grown
  <2>3. QED  BY <2>2 DEF Height, IsBlock
<1>3. \A i \in 1..Len(log) : \A t : BlockAt(i, t)' = BlockAt(i, t)
  BY DEF BlockAt, Grown, IsBlock
<1>4. \A i \in 0..Len(log) : AllBlocks(i)' = AllBlocks(i)
  <2>1. \A i \in 0..Len(log) : \A k \in 1..i : log'[k] = log[k]
    BY <1>1 DEF Grown
  <2>2. QED  BY <2>1 DEF AllBlocks, IsBlock
<1>5. \A a \in 1..Len(log) : \A b \in 0..Len(log) : Stands(a, b)' = Stands(a, b)
  <2>1. \A a \in 1..Len(log) : log'[a] = log[a] /\ \A b \in 0..Len(log) : \A k \in a + 1..b : log'[k] = log[k]
    BY <1>1 DEF Grown
  <2>2. QED  BY <2>1 DEF Stands, IsBlock
<1>6. QED  BY <1>2, <1>3, <1>4, <1>5

(***************************************************************************)
(* The log and what was made, step by step.                                *)
(***************************************************************************)
ChainInv == MadeInv /\ LogInv

LEMMA ChainAlone ==
  ASSUME ChainInv, UNCHANGED chainVars, count'.rollbacks = count.rollbacks
  PROVE  ChainInv'
<1>1. UNCHANGED <<made, chain, log, pool>>
  BY DEF chainVars
<1>2. MadeInv'
  BY <1>1 DEF ChainInv, MadeInv
<1>3. Numbered'
  BY <1>1 DEF ChainInv, LogInv, Numbered, Height, IsBlock, Stands
<1>4. Dropped'
  BY <1>1 DEF ChainInv, LogInv, Dropped, BlockAt, Breaks, IsBlock, CheckValidHistoricRootsBlockNumber
<1>5. NoneYet'
  BY <1>1 DEF ChainInv, LogInv, NoneYet, IsBlock
<1>6. QED  BY <1>2, <1>3, <1>4, <1>5 DEF ChainInv, LogInv

MadeGrows(tx) ==
  /\ DOMAIN made' = DOMAIN made \cup {Len(made) + 1} /\ Len(made) + 1 \notin DOMAIN made
  /\ \A t \in DOMAIN made : made'[t] = made[t]
  /\ made'[Len(made) + 1] = tx

LEMMA MakeGrows ==
  ASSUME IInv, NEW tx, NEW taken, Make(tx, taken)
  PROVE  /\ MadeGrows(tx) /\ UNCHANGED <<chain, log>>
         /\ pool \subseteq pool' /\ pool' \subseteq pool \cup {Len(made) + 1}
<1> DEFINE S == ToSet(made) \cup {tx}
<1>1. made \in Seq(ToSet(made)) /\ Len(made) \in Nat /\ DOMAIN made = 1..Len(made)
  BY LogTypes
<1>2. made \in Seq(S) /\ tx \in S
  <2>1. \A t \in 1..Len(made) : made[t] \in S
    BY <1>1
  <2>2. QED  BY <1>1, <2>1
<1> HIDE DEF S
<1>3. made' = Append(made, tx)
  BY DEF Make
<1>4. MadeGrows(tx)
  BY <1>1, <1>2, <1>3 DEF MadeGrows
<1>5. QED  BY <1>4 DEF Make

GoodTransaction(tx) ==
  /\ \A c \in tx.inputs : c[1] \in DOMAIN made
  /\ tx.kind = "transfer" => 1 \in DOMAIN tx.outs /\ ~ tx.outs[1]
  /\ tx.kind \in Foreign => tx.inputs = {} /\ DOMAIN tx.outs = {1}

LEMMA MakeChain ==
  ASSUME IInv, ChainInv, NEW tx, NEW taken, Make(tx, taken), GoodTransaction(tx),
         count'.rollbacks = count.rollbacks
  PROVE  ChainInv'
<1>1. /\ MadeGrows(tx) /\ UNCHANGED <<chain, log>>
      /\ pool \subseteq pool' /\ pool' \subseteq pool \cup {Len(made) + 1}
  BY MakeGrows
<1>2. MadeInv'
  BY <1>1 DEF ChainInv, MadeInv, MadeGrows, GoodTransaction
<1>3. Numbered'
  BY <1>1 DEF ChainInv, LogInv, Numbered, Height, IsBlock, Stands
<1>4. \A i \in 1..Len(log) : \A t : BlockAt(i, t) => t \in DOMAIN made
  BY LogTypes DEF BlockAt
<1>5. Dropped'
  <2> SUFFICES ASSUME NEW a \in 1..Len(log), NEW b \in 1..Len(log), NEW t \in DOMAIN made',
                      a < b, BlockAt(a, t)', Breaks(b, t)'
               PROVE  t \notin pool' /\ \A e \in b..Len(log) : ~ BlockAt(e, t)'
    BY <1>1 DEF Dropped
  <2>1. \A e : BlockAt(e, t)' = BlockAt(e, t)
    BY <1>1 DEF BlockAt, IsBlock
  <2>2. t \in DOMAIN made
    BY <1>4, <2>1
  <2>3. Breaks(b, t)
    BY <1>1, <2>2 DEF Breaks, IsBlock, CheckValidHistoricRootsBlockNumber, MadeGrows
  <2>4. t \notin pool /\ \A e \in b..Len(log) : ~ BlockAt(e, t)
    BY <2>1, <2>2, <2>3 DEF ChainInv, LogInv, Dropped
  <2>5. t # Len(made) + 1
    BY <1>1, <2>2 DEF MadeGrows
  <2>6. QED  BY <1>1, <2>1, <2>4, <2>5
<1>6. NoneYet'
  BY <1>1 DEF ChainInv, LogInv, NoneYet, IsBlock
<1>7. QED  BY <1>2, <1>3, <1>5, <1>6 DEF ChainInv, LogInv

(* A block or a rollback is logged.                                        *)
Logs(event) == log' = Append(log, event) /\ UNCHANGED made

LEMMA Logged ==
  ASSUME IInv, NEW event \in Events, Logs(event)
  PROVE  /\ Grown /\ log'[Len(log) + 1] = event
         /\ \A i \in 1..Len(log) + 1 : i \in 1..Len(log) \/ i = Len(log) + 1
BY LogTypes DEF Logs, Grown

(* The numbers of the events after one more.                               *)
LEMMA NumberedOn ==
  ASSUME IInv, LogInv, NEW event \in Events, Logs(event),
         IsBlock(event) => event.block.n = Height(Len(log)) /\ event.block.l1 = Len(log) + 1,
         ~ IsBlock(event) => event.n < Height(Len(log)),
         Len(chain') = IF IsBlock(event) THEN event.block.n + 1 ELSE event.n
  PROVE  Numbered'
<1>0. PICK L : L = Len(log)
  OBVIOUS
<1>1. L \in Nat /\ \A i \in 0..L : Height(i) \in Nat
  BY <1>0, LogTypes
<1>2. /\ Len(log') = L + 1 /\ log'[L + 1] = event /\ \A i \in 1..L : log'[i] = log[i]
      /\ \A i \in 1..L + 1 : i \in 1..L \/ i = L + 1
  BY <1>0, Logged DEF Grown
<1>3. /\ \A i \in 0..L : Height(i)' = Height(i)
      /\ \A a \in 1..L : \A b \in 0..L : Stands(a, b)' = Stands(a, b)
  BY <1>0, Logged, LogGrows
<1>4. \A i : i = L + 1 => Height(i)' = IF IsBlock(event) THEN event.block.n + 1 ELSE event.n
  BY <1>1, <1>2 DEF Height, IsBlock
<1>5. ASSUME NEW i \in 1..L + 1
      PROVE  /\ IsBlock(log'[i]) => log'[i].block.n = Height(i - 1)' /\ log'[i].block.l1 = i
             /\ ~ IsBlock(log'[i]) => log'[i].n < Height(i - 1)'
  <2>1. i - 1 \in 0..L
    BY <1>1
  <2>2. Height(i - 1)' = Height(i - 1)
    BY <1>3, <2>1
  <2>3. CASE i \in 1..L
    BY <1>0, <1>2, <2>2, <2>3 DEF LogInv, Numbered
  <2>4. CASE i = L + 1
    <3>1. i - 1 = L
      BY <1>1, <2>4
    <3>2. Height(i - 1)' = Height(L)
      BY <2>2, <3>1
    <3>3. QED  BY <1>0, <1>2, <2>4, <3>2
  <2>5. QED  BY <1>2, <2>3, <2>4
<1>6. ASSUME NEW a \in 1..L + 1, NEW e \in a..L + 1, IsBlock(log'[a]), Stands(a, e)'
      PROVE  log'[a].block.n < Height(e)'
  <2>1. CASE e \in 1..L
    <3>1. a \in 1..L /\ e \in 0..L /\ e \in a..L
      BY <1>1, <2>1
    <3>2. Stands(a, e) /\ log'[a] = log[a] /\ Height(e)' = Height(e)
      BY <1>2, <1>3, <1>6, <3>1
    <3>3. QED  BY <1>0, <1>6, <3>1, <3>2 DEF LogInv, Numbered
  <2>2. CASE e = L + 1 /\ a = L + 1
    <3>1. Height(e)' = event.block.n + 1 /\ log'[a] = event
      BY <1>2, <1>4, <1>6, <2>2
    <3>2. event.block.n \in Nat
      BY <1>1, <1>2, <1>6, <2>2, LogTypes
    <3>3. QED  BY <3>1, <3>2
  <2>3. CASE e = L + 1 /\ a # L + 1
    <3>1. a \in 1..L /\ L \in 0..L /\ L \in a..L /\ L + 1 \in a + 1..e
      BY <1>1, <1>2, <2>3
    <3>2. log'[a] = log[a] /\ IsBlock(log[a])
      BY <1>2, <1>6, <3>1
    <3>3. Stands(a, L)'
      <4>1. a + 1..L \subseteq a + 1..e
        BY <1>1, <2>3, <3>1
      <4>2. QED  BY <1>6, <4>1 DEF Stands
    <3>4. Stands(a, L)
      BY <1>3, <3>1, <3>3
    <3>5. log[a].block.n < Height(L)
      BY <1>0, <3>1, <3>2, <3>4 DEF LogInv, Numbered
    <3>6. log[a].block.n \in Nat /\ Height(L) \in Nat
      BY <1>0, <1>1, <3>1, <3>2, LogTypes
    <3>7. CASE IsBlock(event)
      <4>1. Height(e)' = Height(L) + 1
        BY <1>0, <1>4, <2>3, <3>7
      <4>2. QED  BY <3>2, <3>5, <3>6, <4>1
    <3>8. CASE ~ IsBlock(event)
      <4>1. Height(e)' = event.n
        BY <1>4, <2>3, <3>8
      <4>2. log'[a].block.n < event.n
        BY <1>2, <1>6, <3>1, <3>8 DEF Stands
      <4>3. QED  BY <4>1, <4>2
    <3>9. QED  BY <3>7, <3>8
  <2>4. QED  BY <1>1, <2>1, <2>2, <2>3
<1>7. Len(chain') = Height(Len(log))'
  BY <1>2, <1>4
<1>8. QED  BY <1>2, <1>5, <1>6, <1>7 DEF Numbered

LEMMA ProposeChain ==
  ASSUME IInv, ChainInv, Propose
  PROVE  /\ ChainInv'
         /\ \E event \in Events : \E lost \in BOOLEAN :
              /\ Logs(event) /\ IsBlock(event) /\ event.block.tx \in pool
              /\ lost => count'.lost # 0
              /\ queue' = IF lost THEN queue ELSE Append(queue, Job(event, "socket"))
<1> DEFINE Block(t) == [n |-> Len(chain), tx |-> t, l1 |-> Len(log) + 1]
           Event(t) == [type |-> "BlockProposed", block |-> Block(t)]
<1>a. PICK t \in pool : \E lost \in BOOLEAN :
        /\ chain' = Append(chain, Block(t))
        /\ log' = Append(log, Event(t))
        /\ queue' = IF lost THEN queue ELSE Append(queue, Job(Event(t), "socket"))
        /\ count' = [count EXCEPT !.proposed = @ + 1, !.lost = @ + (IF lost THEN 1 ELSE 0)]
  BY DEF Propose
<1>1. PICK lost \in BOOLEAN :
        /\ chain' = Append(chain, Block(t))
        /\ log' = Append(log, Event(t))
        /\ queue' = IF lost THEN queue ELSE Append(queue, Job(Event(t), "socket"))
        /\ count' = [count EXCEPT !.proposed = @ + 1, !.lost = @ + (IF lost THEN 1 ELSE 0)]
  BY <1>a
<1>2. UNCHANGED <<made, pool, db, mem, request>>
  BY DEF Propose
<1>3. /\ chain \in Seq([n : Nat, tx : Nat, l1 : Nat]) /\ Len(chain) \in Nat
      /\ pool \subseteq DOMAIN made /\ DOMAIN made = 1..Len(made) /\ Len(log) \in Nat
  BY LogTypes DEF IInv, Types, ChainTypes
<1>4. t \in Nat /\ t \in pool
  BY <1>3
<1>5. PICK event : event = Event(t)
  OBVIOUS
<1>6. /\ event \in Events /\ IsBlock(event) /\ event.block.n = Len(chain)
      /\ event.block.tx = t /\ event.block.l1 = Len(log) + 1
  BY <1>3, <1>4, <1>5 DEF Events, IsBlock
<1>7. Len(chain') = Len(chain) + 1
  BY <1>1, <1>3
<1> HIDE DEF Event
<1>8. Logs(event)
  BY <1>1, <1>2, <1>5 DEF Logs
<1>9. Numbered'
  <2>1. Len(chain) = Height(Len(log))
    BY DEF ChainInv, LogInv, Numbered
  <2>2. Len(chain') = event.block.n + 1
    BY <1>6, <1>7
  <2>3. QED  BY <1>6, <1>8, <2>1, <2>2, NumberedOn DEF ChainInv
<1>10. PICK L : L = Len(log)
  OBVIOUS
<1>11. /\ L \in Nat /\ Len(log') = L + 1 /\ log'[L + 1] = event /\ \A i \in 1..L : log'[i] = log[i]
       /\ \A i \in 1..L + 1 : i \in 1..L \/ i = L + 1
  BY <1>3, <1>6, <1>8, <1>10, Logged DEF Grown
<1>12. Dropped'
  <2> SUFFICES ASSUME NEW a \in 1..L + 1, NEW b \in 1..L + 1, NEW x \in DOMAIN made,
                      a < b, BlockAt(a, x)', Breaks(b, x)'
               PROVE  x \notin pool /\ \A e \in b..L + 1 : ~ BlockAt(e, x)'
    BY <1>2, <1>11 DEF Dropped
  <2>1. b # L + 1
    BY <1>6, <1>11 DEF Breaks, IsBlock
  <2>2. b \in 1..L /\ a \in 1..L
    BY <1>11, <2>1
  <2>3. BlockAt(a, x)
    BY <1>11, <2>2 DEF BlockAt, IsBlock
  <2>4. Breaks(b, x)
    BY <1>2, <1>11, <2>2 DEF Breaks, IsBlock, CheckValidHistoricRootsBlockNumber
  <2>5. x \notin pool /\ \A e \in b..L : ~ BlockAt(e, x)
    BY <1>10, <2>2, <2>3, <2>4 DEF ChainInv, LogInv, Dropped
  <2>6. ASSUME NEW e \in b..L + 1, BlockAt(e, x)' PROVE FALSE
    <3>1. CASE e = L + 1
      <4>1. x = t
        BY <1>6, <1>11, <2>6, <3>1 DEF BlockAt
      <4>2. QED  BY <1>4, <2>5, <4>1
    <3>2. CASE e # L + 1
      <4>1. e \in b..L /\ e \in 1..L
        BY <1>11, <2>2, <3>2
      <4>2. BlockAt(e, x)
        BY <1>11, <2>6, <4>1 DEF BlockAt, IsBlock
      <4>3. QED  BY <2>5, <4>1, <4>2
    <3>3. QED  BY <3>1, <3>2
  <2>7. QED  BY <2>5, <2>6
<1>13. count'.rollbacks = count.rollbacks /\ (lost => count'.lost # 0)
  <2> DEFINE Counts == [proposed : Nat, rollbacks : Nat, lost : Nat, failures : Nat,
                        provided : Nat, restarts : Nat, left : {count.left}]
             a == count.proposed + 1
             b == count.lost + (IF lost THEN 1 ELSE 0)
  <2>1. count \in Counts
    BY DEF IInv, Types, CountTypes
  <2>2. count' = [count EXCEPT !.proposed = a, !.lost = b]
    BY <1>1
  <2>3. b \in Nat /\ (lost => b # 0)
    BY <2>1
  <2> HIDE DEF a, b
  <2>4. count'.rollbacks = count.rollbacks /\ count'.lost = b
    BY <2>1, <2>2
  <2>5. QED  BY <2>3, <2>4
<1>14. NoneYet'
  <2>1. NoneYet
    BY DEF ChainInv, LogInv
  <2>2. count'.rollbacks = 0 => \A i \in 1..L + 1 : IsBlock(log'[i]) /\ log'[i].block.tx \in pool
    <3>1. count.rollbacks = 0 => \A i \in 1..L : IsBlock(log[i]) /\ log[i].block.tx \in pool
      BY <1>10, <2>1 DEF NoneYet
    <3>2. IsBlock(log'[L + 1]) /\ log'[L + 1].block.tx \in pool
      BY <1>4, <1>6, <1>11
    <3>3. QED  BY <1>11, <1>13, <3>1, <3>2
  <2>3. QED  BY <1>2, <1>11, <2>2 DEF NoneYet, IsBlock
<1>15. MadeInv'
  BY <1>2 DEF ChainInv, MadeInv
<1>16. ChainInv'
  BY <1>9, <1>12, <1>14, <1>15 DEF ChainInv, LogInv
<1>17. event.block.tx \in pool
  BY <1>4, <1>6
<1>18. QED  BY <1>1, <1>5, <1>6, <1>8, <1>13, <1>16, <1>17

LEMMA RollBackChain ==
  ASSUME IInv, ChainInv, RollBack
  PROVE  /\ ChainInv' /\ count'.rollbacks # 0 /\ pool' \subseteq pool
         /\ \E event \in Events :
              /\ Logs(event) /\ ~ IsBlock(event)
              /\ queue' = Append(queue, Job(event, "socket"))
<1> DEFINE Event(n) == [type |-> "Rollback", n |-> n]
<1>1. PICK n \in 0..Len(chain) - 1 :
        /\ chain' = SubSeq(chain, 1, n) /\ log' = Append(log, Event(n))
        /\ queue' = Append(queue, Job(Event(n), "socket"))
        /\ pool' = {t \in pool : CheckValidHistoricRootsBlockNumber(t, n - 1)}
  BY DEF RollBack
<1>2. count' = [count EXCEPT !.rollbacks = @ + 1] /\ UNCHANGED <<made, db, mem, request>>
  BY DEF RollBack, Count
<1>3. /\ chain \in Seq([n : Nat, tx : Nat, l1 : Nat]) /\ Len(chain) \in Nat /\ Len(log) \in Nat
      /\ n \in Nat /\ n < Len(chain)
  <2>1. chain \in Seq([n : Nat, tx : Nat, l1 : Nat]) /\ Len(log) \in Nat
    BY LogTypes DEF IInv, Types, ChainTypes
  <2>2. Len(chain) \in Nat
    BY <2>1
  <2>3. QED  BY <1>1, <2>1, <2>2
<1>4. Len(chain') = n
  BY <1>1, <1>3
<1>5. PICK event : event = Event(n)
  OBVIOUS
<1>6. event \in Events /\ ~ IsBlock(event) /\ event.n = n
  BY <1>3, <1>5 DEF Events, IsBlock
<1> HIDE DEF Event
<1>7. Logs(event)
  BY <1>1, <1>2, <1>5 DEF Logs
<1>8. Numbered'
  <2>1. Len(chain) = Height(Len(log))
    BY DEF ChainInv, LogInv, Numbered
  <2>2. QED  BY <1>3, <1>4, <1>6, <1>7, <2>1, NumberedOn DEF ChainInv
<1>9. PICK L : L = Len(log)
  OBVIOUS
<1>10. /\ L \in Nat /\ Len(log') = L + 1 /\ log'[L + 1] = event /\ \A i \in 1..L : log'[i] = log[i]
       /\ \A i \in 1..L + 1 : i \in 1..L \/ i = L + 1
  BY <1>3, <1>6, <1>7, <1>9, Logged DEF Grown
<1>11. \A e \in 1..L + 1 : \A x : BlockAt(e, x)' => e \in 1..L /\ BlockAt(e, x)
  <2> SUFFICES ASSUME NEW e \in 1..L + 1, NEW x, BlockAt(e, x)'
               PROVE  e \in 1..L /\ BlockAt(e, x)
    OBVIOUS
  <2>1. e # L + 1
    BY <1>6, <1>10 DEF BlockAt, IsBlock
  <2>2. QED  BY <1>10, <2>1 DEF BlockAt, IsBlock
<1>12. Dropped'
  <2> SUFFICES ASSUME NEW a \in 1..L + 1, NEW b \in 1..L + 1, NEW x \in DOMAIN made,
                      a < b, BlockAt(a, x)', Breaks(b, x)'
               PROVE  x \notin pool' /\ \A e \in b..L + 1 : ~ BlockAt(e, x)'
    BY <1>2, <1>10 DEF Dropped
  <2>1. a \in 1..L /\ BlockAt(a, x)
    BY <1>11
  <2>2. CASE b = L + 1
    <3>1. x \notin pool'
      <4>1. ~ CheckValidHistoricRootsBlockNumber(x, n - 1)
        BY <1>2, <1>6, <1>10, <2>2 DEF Breaks, CheckValidHistoricRootsBlockNumber
      <4>2. QED  BY <1>1, <4>1
    <3>2. \A e \in b..L + 1 : e = L + 1 /\ e \in 1..L + 1
      BY <1>10, <2>2
    <3>3. \A e \in b..L + 1 : ~ BlockAt(e, x)'
      BY <1>10, <1>11, <3>2
    <3>4. QED  BY <3>1, <3>3
  <2>3. CASE b # L + 1
    <3>1. b \in 1..L
      BY <1>10, <2>3
    <3>2. Breaks(b, x)
      BY <1>2, <1>10, <3>1 DEF Breaks, IsBlock, CheckValidHistoricRootsBlockNumber
    <3>3. x \notin pool /\ \A e \in b..L : ~ BlockAt(e, x)
      BY <1>9, <2>1, <3>1, <3>2 DEF ChainInv, LogInv, Dropped
    <3>4. \A e \in b..L + 1 : e \in 1..L + 1 /\ (e \in 1..L => e \in b..L)
      BY <1>10, <3>1
    <3>5. QED  BY <1>1, <1>11, <3>3, <3>4
  <2>4. QED  BY <2>2, <2>3
<1>13. count'.rollbacks # 0
  BY <1>2 DEF IInv, Types, CountTypes
<1>14. NoneYet'
  BY <1>13 DEF NoneYet
<1>15. MadeInv'
  BY <1>2 DEF ChainInv, MadeInv
<1>16. ChainInv' /\ pool' \subseteq pool
  BY <1>1, <1>8, <1>12, <1>14, <1>15 DEF ChainInv, LogInv
<1>17. QED  BY <1>1, <1>5, <1>6, <1>7, <1>13, <1>16

(***************************************************************************)
(* The queue and the log.                                                  *)
(***************************************************************************)
LEMMA Positions ==
  ASSUME IInv, InQueue
  PROVE  /\ Handled \in Nat /\ Handled <= Len(log) /\ Len(log) = Handled + Len(queue)
         /\ Seen \in Handled..Len(log) /\ Seen \in Nat
         /\ \A s \in Handled..Len(log) : Reached(s) \in Seen..Len(log) /\ s <= Reached(s)
<1>1. Len(log) \in Nat /\ Len(queue) \in Nat /\ (queue # <<>> => Len(queue) # 0)
      /\ Len(queue) <= Len(log)
  BY LogTypes DEF InQueue
<1>2. Handled \in Nat /\ Handled <= Len(log) /\ Len(log) = Handled + Len(queue)
  BY <1>1 DEF Handled
<1>3. Seen \in Handled..Len(log) /\ Seen \in Nat
  BY <1>1, <1>2 DEF Seen
<1>4. \A s \in Handled..Len(log) : Reached(s) \in Seen..Len(log) /\ s <= Reached(s)
  BY <1>1, <1>2, <1>3 DEF Reached
<1>5. QED  BY <1>2, <1>3, <1>4

(* The event under way.                                                    *)
LEMMA UnderWay ==
  ASSUME IInv, InQueue, queue # <<>>
  PROVE  /\ Handled + 1 \in 1..Len(log) /\ Current = queue[1] /\ Len(queue) >= 1
         /\ Current.event = log[Handled + 1]
         /\ Current.step = "new" \/ (Current.step = "marked" /\ IsBlock(Current.event))
         /\ Seen = IF Current.step = "marked" THEN Handled + 1 ELSE Handled
<1>1. Len(log) \in Nat /\ Len(queue) \in Nat /\ Len(queue) >= 1 /\ queue \in Seq(Jobs)
  BY LogTypes
<1>2. Current = queue[1] /\ 1 \in 1..Len(queue)
  BY <1>1 DEF Current
<1>3. Handled + 1 \in 1..Len(log)
  BY <1>1, Positions
<1>4. Current.event = log[Handled + 1]
      /\ (Current.step = "new" \/ (Current.step = "marked" /\ IsBlock(Current.event)))
  BY <1>2 DEF InQueue
<1>5. QED  BY <1>1, <1>2, <1>3, <1>4 DEF Seen

LEMMA Next1 ==
  ASSUME IInv, InQueue, queue # <<>>, log' = log, queue' = Tail(queue)
  PROVE  InQueue' /\ Handled' = Handled + 1 /\ Seen' = Handled + 1
<1>1. PICK h : h = Handled
  OBVIOUS
<1>2. /\ Len(log) \in Nat /\ Len(queue) \in Nat /\ queue \in Seq(Jobs) /\ Len(queue) >= 1
      /\ h \in Nat /\ Len(log) = h + Len(queue)
  BY <1>1, LogTypes, Positions
<1>3. /\ Len(queue') = Len(queue) - 1
      /\ \A i \in 1..Len(queue) - 1 : queue'[i] = queue[i + 1] /\ i + 1 \in 1..Len(queue)
  BY <1>2
<1>4. Handled' = h + 1
  BY <1>2, <1>3 DEF Handled
<1>5. ASSUME NEW i \in 1..Len(queue) - 1
      PROVE  queue'[i].event = log[(h + 1) + i] /\ queue'[i].step = "new"
  <2>1. queue[i + 1].event = log[h + (i + 1)] /\ i + 1 # 1 /\ i + 1 \in 1..Len(queue)
    BY <1>1, <1>2, <1>3 DEF InQueue
  <2>2. queue[i + 1].step = "new"
    BY <2>1 DEF InQueue
  <2>3. h + (i + 1) = (h + 1) + i
    BY <1>2
  <2>4. QED  BY <1>3, <2>1, <2>2, <2>3
<1>6. InQueue'
  BY <1>2, <1>3, <1>4, <1>5 DEF InQueue
<1>7. queue' # <<>> => queue'[1].step = "new" /\ queue'[1] = Head(queue')
  <2>1. queue' \in Seq(Jobs)
    BY <1>2
  <2>2. queue' # <<>> => 1 \in 1..Len(queue')
    BY <2>1
  <2>3. queue' # <<>> => queue'[1] = Head(queue')
    BY <2>1
  <2>4. QED  BY <1>3, <1>5, <2>2, <2>3
<1>8. Seen' = h + 1
  BY <1>4, <1>7 DEF Seen, Current
<1>9. QED  BY <1>1, <1>4, <1>6, <1>8

LEMMA Marked1 ==
  ASSUME IInv, InQueue, queue # <<>>, log' = log, IsBlock(Current.event),
         queue' = <<[Current EXCEPT !.step = "marked"]>> \o Tail(queue)
  PROVE  InQueue' /\ Handled' = Handled /\ Seen' = Handled + 1
<1>1. PICK h : h = Handled
  OBVIOUS
<1>2. /\ Len(log) \in Nat /\ Len(queue) \in Nat /\ queue \in Seq(Jobs) /\ Len(queue) >= 1
      /\ h \in Nat /\ Len(log) = h + Len(queue)
  BY <1>1, LogTypes, Positions
<1>3. PICK j : j = [Current EXCEPT !.step = "marked"]
  OBVIOUS
<1>4. j \in Jobs /\ j.event = Current.event /\ j.step = "marked"
  <2>1. Current \in Jobs
    BY <1>2 DEF Current
  <2>2. QED  BY <1>3, <2>1 DEF Jobs
<1>5. /\ Tail(queue) \in Seq(Jobs) /\ Len(Tail(queue)) = Len(queue) - 1
      /\ \A i \in 1..Len(queue) - 1 : Tail(queue)[i] = queue[i + 1]
  BY <1>2
<1>6. /\ queue' \in Seq(Jobs) /\ Len(queue') = Len(queue) /\ queue'[1] = j
      /\ \A i \in 1..Len(queue) - 1 : queue'[i + 1] = Tail(queue)[i]
  BY <1>2, <1>3, <1>4, <1>5
<1>7. \A i \in 1..Len(queue) : i = 1 \/ (i - 1 \in 1..Len(queue) - 1 /\ i = (i - 1) + 1)
  BY <1>2
<1>8. \A i \in 1..Len(queue) : i # 1 => queue'[i] = queue[i]
  BY <1>5, <1>6, <1>7
<1>9. Handled' = h
  BY <1>1, <1>6 DEF Handled
<1>10. Current = queue[1] /\ 1 \in 1..Len(queue)
  BY <1>2 DEF Current
<1>11. ASSUME NEW i \in 1..Len(queue)
       PROVE  /\ queue'[i].event = log[h + i]
              /\ queue'[i].step = "new" \/ (i = 1 /\ queue'[i].step = "marked" /\ IsBlock(queue'[i].event))
  <2>1. CASE i = 1
    BY <1>1, <1>4, <1>6, <1>10, <2>1 DEF InQueue
  <2>2. CASE i # 1
    BY <1>1, <1>8, <2>2 DEF InQueue
  <2>3. QED  BY <2>1, <2>2
<1>12. InQueue'
  BY <1>2, <1>6, <1>9, <1>11 DEF InQueue, IsBlock
<1>13. queue' # <<>> /\ Head(queue').step = "marked"
  BY <1>2, <1>4, <1>6
<1>14. Seen' = h + 1
  BY <1>9, <1>13 DEF Seen, Current
<1>15. QED  BY <1>1, <1>9, <1>12, <1>14

(* One more event is logged and queued.                                    *)
LEMMA Queued ==
  ASSUME IInv, InQueue, NEW event \in Events, Logs(event), queue' = Append(queue, Job(event, "socket"))
  PROVE  InQueue' /\ Handled' = Handled /\ Seen' = Seen
<1>1. PICK h : h = Handled
  OBVIOUS
<1>2. /\ Len(log) \in Nat /\ Len(queue) \in Nat /\ queue \in Seq(Jobs)
      /\ h \in Nat /\ Len(log) = h + Len(queue)
  BY <1>1, LogTypes, Positions
<1>3. PICK j : j = Job(event, "socket")
  OBVIOUS
<1>4. j \in Jobs /\ j.event = event /\ j.step = "new"
  BY <1>3 DEF Job, Jobs
<1>5. /\ queue' \in Seq(Jobs) /\ Len(queue') = Len(queue) + 1
      /\ \A i \in 1..Len(queue) : queue'[i] = queue[i]
      /\ queue'[Len(queue) + 1] = j
  BY <1>2, <1>3, <1>4
<1>6. Len(log') = Len(log) + 1 /\ log'[Len(log) + 1] = event /\ \A i \in 1..Len(log) : log'[i] = log[i]
  BY Logged DEF Grown
<1>7. Handled' = h
  BY <1>2, <1>5, <1>6 DEF Handled
<1>8. ASSUME NEW i \in 1..Len(queue) + 1
      PROVE  /\ queue'[i].event = log'[h + i]
             /\ queue'[i].step = "new" \/ (i = 1 /\ queue'[i].step = "marked" /\ IsBlock(queue'[i].event))
  <2>1. CASE i = Len(queue) + 1
    <3>1. h + i = Len(log) + 1
      BY <1>2, <2>1
    <3>2. QED  BY <1>4, <1>5, <1>6, <2>1, <3>1
  <2>2. CASE i # Len(queue) + 1
    <3>1. i \in 1..Len(queue) /\ h + i \in 1..Len(log)
      BY <1>2, <2>2
    <3>2. /\ queue[i].event = log[h + i]
          /\ queue[i].step = "new" \/ (i = 1 /\ queue[i].step = "marked" /\ IsBlock(queue[i].event))
      BY <1>1, <3>1 DEF InQueue
    <3>3. QED  BY <1>5, <1>6, <3>1, <3>2
  <2>3. QED  BY <2>1, <2>2
<1>9. InQueue'
  BY <1>2, <1>5, <1>6, <1>7, <1>8 DEF InQueue, IsBlock
<1>10. Seen' = Seen
  <2>1. queue' # <<>> /\ Head(queue') = queue'[1] /\ (queue # <<>> => Head(queue) = queue[1])
    BY <1>2, <1>5
  <2>2. CASE queue = <<>>
    <3>1. Head(queue') = j
      BY <1>5, <2>1, <2>2
    <3>2. QED  BY <1>1, <1>4, <1>7, <2>2, <3>1 DEF Seen, Current
  <2>3. CASE queue # <<>>
    <3>1. Head(queue') = Head(queue)
      BY <1>2, <1>5, <2>1, <2>3
    <3>2. QED  BY <1>1, <1>7, <2>1, <2>3, <3>1 DEF Seen, Current
  <2>4. QED  BY <2>2, <2>3
<1>11. QED  BY <1>1, <1>7, <1>9, <1>10

(***************************************************************************)
(* The client after the log, step by step.                                 *)
(***************************************************************************)

(* Nothing is handled, and what is spent is spent by a new transaction.    *)
Besides ==
  /\ UNCHANGED <<log, queue>>
  /\ DOMAIN made \subseteq DOMAIN made' /\ \A t \in DOMAIN made : made'[t] = made[t]
  /\ db'.txs = db.txs /\ db'.blocks = db.blocks /\ db'.trees = db.trees
  /\ \A c \in DOMAIN db'.commitments :
       \/ db'.commitments[c].l1 = -1
       \/ c \in DOMAIN db.commitments /\ db'.commitments[c].l1 = db.commitments[c].l1
  /\ \A c \in DOMAIN db'.commitments : db'.commitments[c].nullified =>
       \/ /\ c \in DOMAIN db.commitments /\ db.commitments[c].nullified
          /\ db'.commitments[c].by = db.commitments[c].by
       \/ /\ db'.commitments[c].by \in DOMAIN made' \ DOMAIN made
          /\ c \in made'[db'.commitments[c].by].inputs

(* What the log says of two of its events.                                 *)
LEMMA InOrder ==
  ASSUME IInv, ChainInv, NEW i \in 1..Len(log)
  PROVE  /\ IsBlock(log[i]) => log[i].block.n = Height(i - 1) /\ log[i].block.l1 = i
                               /\ Height(i) = log[i].block.n + 1
         /\ ~ IsBlock(log[i]) => log[i].n < Height(i - 1) /\ Height(i) = log[i].n
         /\ \A a \in 1..i - 1 : IsBlock(log[a]) /\ Stands(a, i - 1) => log[a].block.n < Height(i - 1)
         /\ \A s \in i..Len(log) : AllBlocks(s) => log[i].block.n < Height(s)
<1>1. Numbered /\ Len(log) \in Nat
  BY LogTypes DEF ChainInv, LogInv
<1>2. /\ IsBlock(log[i]) => log[i].block.n = Height(i - 1) /\ log[i].block.l1 = i
      /\ ~ IsBlock(log[i]) => log[i].n < Height(i - 1)
  BY <1>1 DEF Numbered
<1>3. Height(i) = IF IsBlock(log[i]) THEN log[i].block.n + 1 ELSE log[i].n
  BY <1>1 DEF Height
<1>4. \A a \in 1..i - 1 : a \in 1..Len(log) /\ i - 1 \in a..Len(log)
  BY <1>1
<1>5. \A a \in 1..i - 1 : IsBlock(log[a]) /\ Stands(a, i - 1) => log[a].block.n < Height(i - 1)
  BY <1>1, <1>4 DEF Numbered
<1>6. ASSUME NEW s \in i..Len(log), AllBlocks(s) PROVE log[i].block.n < Height(s)
  <2>1. i \in 1..s /\ \A k \in i + 1..s : k \in 1..s
    BY <1>1
  <2>2. IsBlock(log[i]) /\ Stands(i, s)
    BY <1>6, <2>1 DEF AllBlocks, Stands
  <2>3. QED  BY <1>1, <2>2 DEF Numbered
<1>7. QED  BY <1>2, <1>3, <1>5, <1>6

LEMMA NumbersKnown ==
  ASSUME IInv, TxsInv
  PROVE  \A x \in DOMAIN db.txs : db.txs[x].n # -1
<1> SUFFICES ASSUME NEW x \in DOMAIN db.txs PROVE db.txs[x].n # -1
  OBVIOUS
<1>1. PICK a \in 1..Len(log) : BlockAt(a, x) /\ db.txs[x].n = log[a].block.n
  BY DEF TxsInv
<1>2. log[a].block.n \in Nat
  BY <1>1, LogTypes DEF BlockAt
<1>3. QED  BY <1>1, <1>2

(***************************************************************************)
(* What stands.                                                            *)
(***************************************************************************)
LEMMA StandsBefore ==
  ASSUME NEW a \in Nat, NEW e \in Nat, NEW f \in Nat, e <= f, Stands(a, f)
  PROVE  Stands(a, e)
BY DEF Stands

LEMMA StandsOn ==
  ASSUME NEW a \in Nat, NEW e \in Nat, a <= e, Stands(a, e),
         ~ IsBlock(log[e + 1]) => log[a].block.n < log[e + 1].n
  PROVE  Stands(a, e + 1)
<1>1. \A k \in a + 1..e + 1 : k \in a + 1..e \/ k = e + 1
  OBVIOUS
<1>2. QED  BY <1>1 DEF Stands

LEMMA StandsAtOnce ==
  ASSUME NEW a \in Nat PROVE Stands(a, a)
BY DEF Stands

(* At one time the blocks that stand have different numbers, in order.     *)
LEMMA NumbersDiffer ==
  ASSUME IInv, ChainInv, NEW e \in 1..Len(log), NEW a \in 1..e, NEW b \in 1..e,
         Stood(a, e), Stood(b, e), a < b
  PROVE  Num(a) < Num(b) /\ Num(b) < Height(e) /\ Num(a) \in Nat /\ Num(b) \in Nat
<1>1. /\ Len(log) \in Nat /\ e \in Nat /\ a \in Nat /\ b \in Nat /\ a <= b - 1 /\ b - 1 \in Nat
      /\ b - 1 <= e /\ a \in 1..b - 1 /\ b \in 1..Len(log) /\ a \in 1..Len(log) /\ e \in b..Len(log)
  BY LogTypes
<1>2. Stands(a, b - 1)
  BY <1>1, StandsBefore DEF Stood
<1>3. Num(a) < Height(b - 1) /\ Num(b) = Height(b - 1)
  BY <1>1, <1>2, InOrder DEF Stood, Num
<1>4. Num(b) < Height(e)
  BY <1>1 DEF ChainInv, LogInv, Numbered, Stood, Num
<1>5. Num(a) \in Nat /\ Num(b) \in Nat
  BY <1>1, LogTypes DEF Stood, Num
<1>6. QED  BY <1>3, <1>4, <1>5

LEMMA NumberOnce ==
  ASSUME IInv, ChainInv, NEW e \in 1..Len(log), NEW a \in 1..e, NEW b \in 1..e,
         Stood(a, e), Stood(b, e), Num(a) = Num(b)
  PROVE  a = b
<1>1. a \in Nat /\ b \in Nat /\ (a < b \/ b < a \/ a = b)
  BY LogTypes
<1>2. ASSUME a < b PROVE FALSE
  BY <1>2, NumbersDiffer
<1>3. ASSUME b < a PROVE FALSE
  BY <1>3, NumbersDiffer
<1>4. QED  BY <1>1, <1>2, <1>3

LEMMA StoodBelow ==
  ASSUME IInv, ChainInv, NEW e \in 1..Len(log), NEW a \in 1..e, Stood(a, e)
  PROVE  Num(a) < Height(e) /\ Num(a) \in Nat /\ TxOf(a) \in DOMAIN made
<1>1. a \in 1..Len(log) /\ e \in a..Len(log)
  BY LogTypes
<1>2. QED  BY <1>1, LogTypes DEF ChainInv, LogInv, Numbered, Stood, Num, TxOf

(* The chain is what stands in the end.                                    *)
LEMMA StoodOnChain ==
  ASSUME IInv, ChainInv, ChainLogged, NEW a \in 1..Len(log), Stood(a, Len(log))
  PROVE  Num(a) + 1 \in DOMAIN chain /\ chain[Num(a) + 1] = log[a].block
<1>1. PICK L : L = Len(log)
  OBVIOUS
<1>2. L \in Nat /\ L \in 1..L /\ a \in 1..L
  BY <1>1, LogTypes
<1>3. Num(a) < Height(L) /\ Num(a) \in Nat
  BY <1>1, <1>2, StoodBelow
<1>4. Len(chain) = Height(L) /\ Len(chain) \in Nat /\ DOMAIN chain = 1..Len(chain)
  BY <1>1, LogTypes DEF ChainInv, LogInv, Numbered, IInv, Types, ChainTypes
<1>5. PICK i \in DOMAIN chain : i = Num(a) + 1
  BY <1>3, <1>4
<1>6. PICK b : b = chain[i].l1
  OBVIOUS
<1>7. b \in 1..L /\ Stood(b, L) /\ log[b].block = chain[i] /\ chain[i].n = i - 1
  BY <1>1, <1>6 DEF ChainLogged
<1>8. Num(b) = Num(a)
  BY <1>3, <1>5, <1>7 DEF Num
<1>9. a = b
  BY <1>1, <1>2, <1>7, <1>8, NumberOnce
<1>10. QED  BY <1>5, <1>7, <1>9

LEMMA StoodGrows ==
  ASSUME IInv, Grown
  PROVE  /\ \A a \in 1..Len(log) : /\ Num(a)' = Num(a) /\ TxOf(a)' = TxOf(a)
                                   /\ IsBlock(log[a])' = IsBlock(log[a])
         /\ \A a \in 1..Len(log) : \A e \in 0..Len(log) : Stood(a, e)' = Stood(a, e)
<1>1. \A a \in 1..Len(log) : \A e \in 0..Len(log) : Stands(a, e)' = Stands(a, e)
  BY LogGrows
<1>2. \A a \in 1..Len(log) : log'[a] = log[a]
  BY DEF Grown
<1>3. QED  BY <1>1, <1>2 DEF Stood, Num, TxOf, IsBlock

LEMMA PlacesAlone ==
  ASSUME PlacesInv, UNCHANGED chainVars
  PROVE  PlacesInv'
<1>1. made' = made /\ chain' = chain /\ log' = log
  BY DEF chainVars
<1>2. /\ \A a : TxOf(a)' = TxOf(a) /\ Num(a)' = Num(a) /\ IsBlock(log[a])' = IsBlock(log[a])
      /\ \A a, e : Stood(a, e)' = Stood(a, e)
  BY <1>1 DEF TxOf, Num, Stood, Stands, IsBlock
<1>3. ChainLogged'
  BY <1>1, <1>2 DEF PlacesInv, ChainLogged
<1>4. OnceEach'
  BY <1>1, <1>2 DEF PlacesInv, OnceEach
<1>5. RootsBelow'
  BY <1>1, <1>2 DEF PlacesInv, RootsBelow
<1>6. Steady'
  BY <1>1 DEF PlacesInv, Steady, AllBlocks, Height, IsBlock
<1>7. QED  BY <1>3, <1>4, <1>5, <1>6 DEF PlacesInv

LEMMA MakePlaces ==
  ASSUME IInv, PlacesInv, NEW tx, NEW taken, Make(tx, taken)
  PROVE  PlacesInv'
<1>1. MadeGrows(tx) /\ chain' = chain /\ log' = log
  BY MakeGrows
<1>2. \A a \in 1..Len(log) : IsBlock(log[a]) => TxOf(a) \in DOMAIN made
  BY LogTypes DEF TxOf
<1>3. \A a \in 1..Len(log) : IsBlock(log[a]) => made'[TxOf(a)] = made[TxOf(a)]
  BY <1>1, <1>2 DEF MadeGrows
<1>4. /\ \A a : TxOf(a)' = TxOf(a) /\ Num(a)' = Num(a) /\ IsBlock(log[a])' = IsBlock(log[a])
      /\ \A a, e : Stood(a, e)' = Stood(a, e)
  BY <1>1 DEF TxOf, Num, Stood, Stands, IsBlock
<1>5. ChainLogged'
  BY <1>1, <1>4 DEF PlacesInv, ChainLogged
<1>6. OnceEach'
  <2>1. Len(log) \in Nat
    BY LogTypes
  <2>2. \A e \in 1..Len(log) : \A a \in 1..e : a \in 1..Len(log)
    BY <2>1
  <2>3. \A e \in 1..Len(log) : \A a \in 1..e : Stood(a, e) => made'[TxOf(a)] = made[TxOf(a)]
    BY <1>3, <2>2 DEF Stood
  <2>4. QED  BY <1>1, <1>4, <2>3 DEF PlacesInv, OnceEach
<1>7. RootsBelow'
  BY <1>1, <1>3, <1>4 DEF PlacesInv, RootsBelow
<1>8. Steady'
  BY <1>1 DEF PlacesInv, Steady, AllBlocks, Height, IsBlock
<1>9. QED  BY <1>5, <1>6, <1>7, <1>8 DEF PlacesInv

(* One more event: which blocks stand, and that they differ.               *)
LEMMA OnceMore ==
  ASSUME IInv, ChainInv, PlacesInv, NEW event \in Events, Logs(event),
         IsBlock(event) =>
           \A i \in DOMAIN chain :
             /\ chain[i].tx # event.block.tx
             /\ made[chain[i].tx].inputs \cap made[event.block.tx].inputs = {}
  PROVE  OnceEach'
<1>1. PICK L : L = Len(log)
  OBVIOUS
<1>2. /\ L \in Nat /\ Len(log') = L + 1 /\ log'[L + 1] = event /\ made' = made
      /\ \A i \in 1..L : log'[i] = log[i]
      /\ \A i \in 1..L + 1 : i \in 1..L \/ i = L + 1
  BY <1>1, LogTypes, Logged DEF Grown, Logs
<1>3. /\ \A a \in 1..L : Num(a)' = Num(a) /\ TxOf(a)' = TxOf(a)
      /\ \A a \in 1..L : \A e \in 0..L : Stood(a, e)' = Stood(a, e)
  BY <1>1, Logged, StoodGrows
<1>4. ASSUME NEW a \in 1..L, Stood(a, L + 1)' PROVE Stood(a, L) /\ L \in 1..L
  <2>1. Stands(a, L)'
    <3>1. \A k \in a + 1..L : k \in a + 1..L + 1
      BY <1>2
    <3>2. QED  BY <1>4, <3>1 DEF Stood, Stands
  <2>2. Stood(a, L)'
    BY <1>4, <2>1 DEF Stood
  <2>3. L \in 0..L /\ L \in 1..L
    BY <1>2
  <2>4. QED  BY <1>3, <2>2, <2>3
<1>5. ASSUME NEW e \in 1..L + 1, NEW a \in 1..e, NEW b \in 1..e, Stood(a, e)', Stood(b, e)', a < b
      PROVE  TxOf(a)' # TxOf(b)' /\ made[TxOf(a)'].inputs \cap made[TxOf(b)'].inputs = {}
  <2>1. CASE e \in 1..L
    <3>1. a \in 1..L /\ b \in 1..L /\ e \in 0..L
      BY <1>2, <2>1
    <3>2. Stood(a, e) /\ Stood(b, e) /\ a # b
      BY <1>2, <1>3, <1>5, <3>1
    <3>3. QED  BY <1>1, <1>3, <2>1, <3>1, <3>2 DEF PlacesInv, OnceEach
  <2>2. CASE e = L + 1 /\ b \in 1..L
    <3>1. a \in 1..L
      BY <1>2, <1>5, <2>2
    <3>2. Stood(a, L) /\ Stood(b, L) /\ a # b /\ L \in 1..L
      BY <1>2, <1>4, <1>5, <2>2, <3>1
    <3>3. QED  BY <1>1, <1>3, <2>2, <3>1, <3>2 DEF PlacesInv, OnceEach
  <2>3. CASE e = L + 1 /\ b = L + 1
    <3>1. a \in 1..L
      BY <1>2, <1>5, <2>3
    <3>2. Stood(a, L)
      BY <1>4, <1>5, <2>3, <3>1
    <3>3. IsBlock(event) /\ TxOf(b)' = event.block.tx
      BY <1>2, <1>5, <2>3 DEF Stood, IsBlock, TxOf
    <3>4. Num(a) + 1 \in DOMAIN chain /\ chain[Num(a) + 1] = log[a].block
      BY <1>1, <3>1, <3>2, StoodOnChain DEF PlacesInv
    <3>5. TxOf(a)' = chain[Num(a) + 1].tx
      BY <1>3, <3>1, <3>4 DEF TxOf
    <3>6. QED  BY <3>3, <3>4, <3>5
  <2>4. QED  BY <1>2, <1>5, <2>1, <2>2, <2>3
<1>6. ASSUME NEW e \in 1..L + 1, NEW a \in 1..e, NEW b \in 1..e, Stood(a, e)', Stood(b, e)', a # b
      PROVE  TxOf(a)' # TxOf(b)' /\ made[TxOf(a)'].inputs \cap made[TxOf(b)'].inputs = {}
  <2>1. a < b \/ b < a
    BY <1>2, <1>6
  <2>2. QED  BY <1>5, <1>6, <2>1
<1>7. QED  BY <1>2, <1>6 DEF OnceEach

LEMMA ProposePlaces ==
  ASSUME IInv, ChainInv, PlacesInv, Propose
  PROVE  /\ PlacesInv'
         /\ \E event \in Events : /\ Logs(event) /\ IsBlock(event) /\ event.block.n = Len(chain)
                                  /\ event.block.tx \in pool /\ Includable(event.block.tx)
<1> DEFINE Block(t) == [n |-> Len(chain), tx |-> t, l1 |-> Len(log) + 1]
           Event(t) == [type |-> "BlockProposed", block |-> Block(t)]
<1>1. PICK t \in pool : /\ Includable(t) /\ chain' = Append(chain, Block(t)) /\ log' = Append(log, Event(t))
  BY DEF Propose
<1>2. UNCHANGED <<made, pool>>
  BY DEF Propose
<1>3. PICK L : L = Len(log)
  OBVIOUS
<1>4. PICK event : event = Event(t)
  OBVIOUS
<1>5. /\ chain \in Seq([n : Nat, tx : Nat, l1 : Nat]) /\ L \in Nat /\ Len(chain) \in Nat
      /\ DOMAIN chain = 1..Len(chain) /\ pool \subseteq Nat /\ DOMAIN made \subseteq Nat
  BY <1>3, LogTypes DEF IInv, Types, ChainTypes, MadeTypes
<1>6. /\ event \in Events /\ IsBlock(event) /\ event.block = Block(t) /\ event.block.tx = t
      /\ event.block.n = Len(chain) /\ event.block.l1 = L + 1
  <2>1. t \in Nat
    BY <1>5
  <2>2. QED  BY <1>3, <1>4, <1>5, <2>1 DEF Events, IsBlock
<1>7. Logs(event)
  BY <1>1, <1>2, <1>4 DEF Logs
<1>8. \A i \in DOMAIN chain : /\ chain[i].tx # t
                              /\ made[chain[i].tx].inputs \cap made[t].inputs = {}
  <2> SUFFICES ASSUME NEW i \in DOMAIN chain
               PROVE  chain[i].tx # t /\ made[chain[i].tx].inputs \cap made[t].inputs = {}
    OBVIOUS
  <2>1. chain[i].tx \in OnChain
    BY DEF OnChain, ChainTree, ToSet
  <2>2. made[chain[i].tx].inputs \subseteq Spent
    BY <2>1 DEF Spent
  <2>3. QED  BY <1>1, <2>1, <2>2 DEF Includable
<1>9. OnceEach'
  BY <1>6, <1>7, <1>8, OnceMore
<1>10. /\ Len(log') = L + 1 /\ log'[L + 1] = event
       /\ \A i \in 1..L : log'[i] = log[i]
       /\ \A i \in 1..L + 1 : i \in 1..L \/ i = L + 1
  BY <1>3, <1>6, <1>7, Logged DEF Grown
<1>11. /\ \A a \in 1..L : Num(a)' = Num(a) /\ TxOf(a)' = TxOf(a)
       /\ \A a \in 1..L : \A e \in 0..L : Stood(a, e)' = Stood(a, e)
  BY <1>3, <1>6, <1>7, Logged, StoodGrows
<1>12. chain' = Append(chain, event.block) /\ event.block \in [n : Nat, tx : Nat, l1 : Nat]
  <2>1. t \in Nat
    BY <1>5
  <2>2. QED  BY <1>1, <1>3, <1>5, <1>6, <2>1
<1> HIDE DEF Event, Block
<1>13. /\ DOMAIN chain' = 1..Len(chain) + 1 /\ chain'[Len(chain) + 1] = event.block
       /\ \A i \in 1..Len(chain) : chain'[i] = chain[i]
       /\ \A i \in 1..Len(chain) + 1 : i \in 1..Len(chain) \/ i = Len(chain) + 1
  BY <1>5, <1>12
<1>14. ASSUME NEW a \in 1..L, Stood(a, L) PROVE Stood(a, L + 1)'
  <2>1. L \in 0..L /\ a \in Nat /\ a <= L
    BY <1>5
  <2>2. Stood(a, L)'
    BY <1>11, <1>14, <2>1
  <2>3. \A k \in a + 1..L + 1 : k \in a + 1..L \/ k = L + 1
    BY <2>1
  <2>4. QED  BY <1>6, <1>10, <2>2, <2>3 DEF Stood, Stands, IsBlock
<1>15. ChainLogged'
  <2> SUFFICES ASSUME NEW i \in 1..Len(chain) + 1, NEW a, a = chain'[i].l1
               PROVE  a \in 1..L + 1 /\ Stood(a, L + 1)' /\ log'[a].block = chain'[i] /\ chain'[i].n = i - 1
    BY <1>10, <1>13 DEF ChainLogged
  <2>1. CASE i \in 1..Len(chain)
    <3>1. a \in 1..L /\ Stood(a, L) /\ log[a].block = chain[i] /\ chain[i].n = i - 1
      BY <1>3, <1>5, <1>13, <2>1 DEF PlacesInv, ChainLogged
    <3>2. a \in 1..L + 1
      BY <1>5, <3>1
    <3>3. QED  BY <1>10, <1>13, <1>14, <2>1, <3>1, <3>2
  <2>2. CASE i = Len(chain) + 1
    <3>1. a = L + 1 /\ L + 1 \in 1..L + 1 /\ Len(chain) = i - 1
      BY <1>5, <1>6, <1>13, <2>2
    <3>2. Stood(a, L + 1)'
      <4>1. \A k \in L + 1 + 1..L + 1 : FALSE
        BY <1>5
      <4>2. QED  BY <1>6, <1>10, <3>1, <4>1 DEF Stood, Stands, IsBlock
    <3>3. QED  BY <1>6, <1>10, <1>13, <2>2, <3>1, <3>2
  <2>3. QED  BY <1>13, <2>1, <2>2
<1>16. RootsBelow'
  <2> SUFFICES ASSUME NEW a \in 1..L + 1, IsBlock(log'[a]), NEW c \in made[TxOf(a)'].inputs
               PROVE  made[TxOf(a)'].roots[c].n < Num(a)'
    BY <1>2, <1>10 DEF RootsBelow, IsBlock
  <2>1. CASE a \in 1..L
    BY <1>3, <1>10, <1>11, <2>1 DEF PlacesInv, RootsBelow
  <2>2. CASE a = L + 1
    <3>1. TxOf(a)' = t /\ Num(a)' = Len(chain)
      BY <1>6, <1>10, <2>2 DEF TxOf, Num
    <3>2. QED  BY <1>1, <3>1 DEF Includable, RootHolds
  <2>3. QED  BY <1>10, <2>1, <2>2
<1>s. Steady'
  <2>1. \A i \in 0..L : Height(i)' = Height(i) /\ AllBlocks(i)' = AllBlocks(i)
    BY <1>3, <1>6, <1>7, Logged, LogGrows
  <2>2. ASSUME NEW i \in 0..L + 1, AllBlocks(i)' PROVE Height(i)' = i
    <3>1. CASE i \in 0..L
      BY <1>3, <2>1, <2>2, <3>1 DEF PlacesInv, Steady
    <3>2. CASE i = L + 1
      <4>1. L \in 0..L /\ \A k \in 1..L : k \in 1..L + 1
        BY <1>5
      <4>2. AllBlocks(L)
        BY <2>1, <2>2, <3>2, <4>1 DEF AllBlocks
      <4>3. Height(L) = L /\ Len(chain) = Height(L)
        BY <1>3, <4>1, <4>2 DEF PlacesInv, Steady, ChainInv, LogInv, Numbered
      <4>4. log'[L + 1].block.n = L /\ IsBlock(log'[L + 1]) /\ i # 0
        BY <1>5, <1>6, <1>10, <3>2, <4>3
      <4>5. Height(i)' = log'[L + 1].block.n + 1
        BY <3>2, <4>4 DEF Height, IsBlock
      <4>6. QED  BY <3>2, <4>4, <4>5
    <3>3. QED  BY <1>5, <2>2, <3>1, <3>2
  <2>3. QED  BY <1>10, <2>2 DEF Steady
<1>17. PlacesInv'
  BY <1>9, <1>15, <1>16, <1>s DEF PlacesInv
<1>18. QED  BY <1>1, <1>6, <1>7, <1>17

LEMMA RollBackPlaces ==
  ASSUME IInv, ChainInv, PlacesInv, RollBack
  PROVE  PlacesInv'
<1> DEFINE Event(n) == [type |-> "Rollback", n |-> n]
<1>1. PICK n \in 0..Len(chain) - 1 : chain' = SubSeq(chain, 1, n) /\ log' = Append(log, Event(n))
  BY DEF RollBack
<1>2. made' = made
  BY DEF RollBack
<1>3. PICK L : L = Len(log)
  OBVIOUS
<1>4. PICK event : event = Event(n)
  OBVIOUS
<1>5. /\ chain \in Seq([n : Nat, tx : Nat, l1 : Nat]) /\ L \in Nat /\ Len(chain) \in Nat
      /\ DOMAIN chain = 1..Len(chain) /\ n \in Nat /\ n < Len(chain)
  <2>1. chain \in Seq([n : Nat, tx : Nat, l1 : Nat]) /\ L \in Nat
    BY <1>3, LogTypes DEF IInv, Types, ChainTypes
  <2>2. Len(chain) \in Nat /\ DOMAIN chain = 1..Len(chain)
    BY <2>1
  <2>3. QED  BY <1>1, <2>1, <2>2
<1>6. event \in Events /\ ~ IsBlock(event) /\ event.n = n
  BY <1>4, <1>5 DEF Events, IsBlock
<1>7. Logs(event)
  BY <1>1, <1>2, <1>4 DEF Logs
<1>8. OnceEach'
  BY <1>6, <1>7, OnceMore
<1>9. DOMAIN chain' = 1..n /\ \A i \in 1..n : chain'[i] = chain[i] /\ i \in 1..Len(chain)
  BY <1>1, <1>5
<1> HIDE DEF Event
<1>10. /\ Len(log') = L + 1 /\ log'[L + 1] = event
       /\ \A i \in 1..L : log'[i] = log[i]
       /\ \A i \in 1..L + 1 : i \in 1..L \/ i = L + 1
  BY <1>3, <1>6, <1>7, Logged DEF Grown
<1>11. /\ \A a \in 1..L : Num(a)' = Num(a) /\ TxOf(a)' = TxOf(a)
       /\ \A a \in 1..L : \A e \in 0..L : Stood(a, e)' = Stood(a, e)
  BY <1>3, <1>6, <1>7, Logged, StoodGrows
<1>12. ChainLogged'
  <2> SUFFICES ASSUME NEW i \in 1..n, NEW a, a = chain'[i].l1
               PROVE  a \in 1..L + 1 /\ Stood(a, L + 1)' /\ log'[a].block = chain'[i] /\ chain'[i].n = i - 1
    BY <1>9, <1>10 DEF ChainLogged
  <2>1. a \in 1..L /\ Stood(a, L) /\ log[a].block = chain[i] /\ chain[i].n = i - 1
    BY <1>3, <1>5, <1>9 DEF PlacesInv, ChainLogged
  <2>0. i - 1 < n /\ log[a].block.n = i - 1
    BY <1>5, <2>1
  <2>l. L \in Nat /\ a \in 1..L
    BY <1>5, <2>1
  <2>p. log'[a] = log[a]
    BY <1>10, <2>l
  <2>a. a \in 1..L + 1 /\ L \in 0..L /\ log'[a] = log[a]
    BY <2>l, <2>p
  <2>2. log'[a].block.n < n
    BY <2>0, <2>a
  <2>3. Stood(a, L)'
    BY <1>11, <2>1, <2>a
  <2>4. \A k \in a + 1..L + 1 : k \in a + 1..L \/ k = L + 1
    BY <1>5, <2>1
  <2>5. Stood(a, L + 1)'
    BY <1>6, <1>10, <2>2, <2>3, <2>4 DEF Stood, Stands, IsBlock
  <2>6. QED  BY <1>9, <2>1, <2>a, <2>5
<1>13. RootsBelow'
  <2> SUFFICES ASSUME NEW a \in 1..L + 1, IsBlock(log'[a]), NEW c \in made[TxOf(a)'].inputs
               PROVE  made[TxOf(a)'].roots[c].n < Num(a)'
    BY <1>2, <1>10 DEF RootsBelow, IsBlock
  <2>1. a \in 1..L
    BY <1>6, <1>10 DEF IsBlock
  <2>2. QED  BY <1>3, <1>10, <1>11, <2>1 DEF PlacesInv, RootsBelow
<1>14. Steady'
  <2>1. \A i \in 0..L : Height(i)' = Height(i) /\ AllBlocks(i)' = AllBlocks(i)
    BY <1>3, <1>6, <1>7, Logged, LogGrows
  <2>2. ~ AllBlocks(L + 1)'
    <3>1. L + 1 \in 1..L + 1
      BY <1>5
    <3>2. QED  BY <1>6, <1>10, <3>1 DEF AllBlocks, IsBlock
  <2>3. \A i \in 0..L + 1 : i \in 0..L \/ i = L + 1
    BY <1>5
  <2>4. QED  BY <1>3, <1>10, <2>1, <2>2, <2>3 DEF PlacesInv, Steady
<1>15. QED  BY <1>8, <1>12, <1>13, <1>14 DEF PlacesInv

(* When a commitment got on chain, when it was spent, and its root.        *)
MarksKept(d, e, c) ==
  /\ e.commitments[c].onChain = d.commitments[c].onChain
  /\ e.commitments[c].nullifiedOnChain = d.commitments[c].nullifiedOnChain
  /\ e.commitments[c].root = d.commitments[c].root

LEMMA MarkFields ==
  ASSUME NEW m, IsMarks(m), NEW n \in Int, NEW l1, NEW root, NEW t
  PROVE  /\ LET q == [m EXCEPT !.onChain = n, !.l1 = l1] IN
            q.onChain = n /\ q.nullifiedOnChain = m.nullifiedOnChain /\ q.root = m.root
         /\ LET q == [m EXCEPT !.nullifiedOnChain = n, !.l1 = l1] IN
            q.nullifiedOnChain = n /\ q.onChain = m.onChain /\ q.root = m.root
         /\ LET q == [m EXCEPT !.root = root] IN
            q.root = root /\ q.onChain = m.onChain /\ q.nullifiedOnChain = m.nullifiedOnChain
         /\ LET q == [m EXCEPT !.pending = TRUE] IN
            q.onChain = m.onChain /\ q.nullifiedOnChain = m.nullifiedOnChain /\ q.root = m.root
         /\ LET q == [m EXCEPT !.pending = FALSE] IN
            q.onChain = m.onChain /\ q.nullifiedOnChain = m.nullifiedOnChain /\ q.root = m.root
         /\ LET q == [m EXCEPT !.pending = FALSE, !.nullified = TRUE, !.by = t] IN
            q.onChain = m.onChain /\ q.nullifiedOnChain = m.nullifiedOnChain /\ q.root = m.root
         /\ LET q == [m EXCEPT !.nullified = FALSE] IN
            q.onChain = m.onChain /\ q.nullifiedOnChain = m.nullifiedOnChain /\ q.root = m.root
         /\ LET q == [m EXCEPT !.inTx = FALSE] IN
            q.onChain = m.onChain /\ q.nullifiedOnChain = m.nullifiedOnChain /\ q.root = m.root
BY DEF IsMarks

LEMMA RequestsKeep ==
  ASSUME NEW d, IsDB(d), NEW cs, NEW t
  PROVE  \A c \in DOMAIN d.commitments :
           /\ MarksKept(d, MarkPending(d, cs), c) /\ MarksKept(d, ClearPending(d, cs), c)
           /\ MarksKept(d, MarkNullified(d, cs, t), c) /\ MarksKept(d, ClearNullifiers(d, cs), c)
<1> DEFINE P(m) == [m EXCEPT !.pending = TRUE]
           Q(m) == [m EXCEPT !.pending = FALSE]
           R(m) == [m EXCEPT !.pending = FALSE, !.nullified = TRUE, !.by = t]
           S(m) == [m EXCEPT !.nullified = FALSE]
           f == [c \in DOMAIN d.commitments |->
                   IF c \in cs THEN P(d.commitments[c]) ELSE d.commitments[c]]
           g == [c \in DOMAIN d.commitments |->
                   IF c \in cs THEN Q(d.commitments[c]) ELSE d.commitments[c]]
           h == [c \in DOMAIN d.commitments |->
                   IF c \in cs THEN R(d.commitments[c]) ELSE d.commitments[c]]
           k == [c \in DOMAIN d.commitments |->
                   IF c \in cs THEN S(d.commitments[c]) ELSE d.commitments[c]]
<1> SUFFICES ASSUME NEW c \in DOMAIN d.commitments
             PROVE  /\ MarksKept(d, MarkPending(d, cs), c) /\ MarksKept(d, ClearPending(d, cs), c)
                    /\ MarksKept(d, MarkNullified(d, cs, t), c) /\ MarksKept(d, ClearNullifiers(d, cs), c)
  OBVIOUS
<1> DEFINE m == d.commitments[c]
           Like(q) == /\ q.onChain = m.onChain /\ q.nullifiedOnChain = m.nullifiedOnChain
                      /\ q.root = m.root
<1>1. IsMarks(m) /\ 0 \in Int
  BY DEF IsDB
<1>2. Like(P(m)) /\ Like(Q(m)) /\ Like(R(m)) /\ Like(S(m)) /\ Like(m)
  <2> HIDE DEF m
  <2>1. QED  BY <1>1, MarkFields
<1>3. /\ MarkPending(d, cs).commitments = f /\ ClearPending(d, cs).commitments = g
      /\ MarkNullified(d, cs, t).commitments = h /\ ClearNullifiers(d, cs).commitments = k
  BY Fields DEF MarkPending, ClearPending, MarkNullified, ClearNullifiers, Mark
<1>4. f[c] \in {P(m), m} /\ g[c] \in {Q(m), m} /\ h[c] \in {R(m), m} /\ k[c] \in {S(m), m}
  OBVIOUS
<1> HIDE DEF P, Q, R, S, f, g, h, k
<1>5. Like(f[c]) /\ Like(g[c]) /\ Like(h[c]) /\ Like(k[c])
  <2> HIDE DEF Like
  <2>1. QED  BY <1>2, <1>4
<1>6. QED  BY <1>3, <1>5 DEF MarksKept

LEMMA StoredMarks ==
  ASSUME NEW d, IsDB(d), NEW cs, NEW deposited
  PROVE  LET e == StoreCommitments(d, cs, deposited) IN
         \A c \in cs : /\ e.commitments[c].onChain = -1 /\ e.commitments[c].nullifiedOnChain = -1
                       /\ c \notin DOMAIN d.commitments => e.commitments[c].root = NoTree
<1> DEFINE f == [c \in DOMAIN d.commitments \cup cs |->
                   IF c \notin cs THEN d.commitments[c]
                   ELSE [onChain |-> -1, pending |-> FALSE, nullified |-> FALSE,
                         nullifiedOnChain |-> -1, l1 |-> -1, deposited |-> c \in deposited,
                         inTx |-> TRUE,
                         root |-> IF c \in DOMAIN d.commitments THEN d.commitments[c].root
                                  ELSE NoTree, by |-> 0]]
           e == [d EXCEPT !.commitments = f]
<1>1. e.commitments = f
  BY Fields
<1>2. \A c \in cs : /\ f[c].onChain = -1 /\ f[c].nullifiedOnChain = -1
                    /\ c \notin DOMAIN d.commitments => f[c].root = NoTree
  OBVIOUS
<1>3. StoreCommitments(d, cs, deposited) = e
  BY DEF StoreCommitments
<1> HIDE DEF e, f
<1>4. QED  BY <1>1, <1>2, <1>3

(* A block marks commitments once.                                         *)
LEMMA OnChainMarks ==
  ASSUME NEW d, IsDB(d), NEW cs, NEW n \in Int, NEW l1
  PROVE  \A c \in DOMAIN d.commitments : LET m == d.commitments[c] IN
         /\ LET q == MarkOnChain(d, cs, n, l1).commitments[c] IN
            /\ q.onChain = (IF c \in cs /\ m.onChain = -1 THEN n ELSE m.onChain)
            /\ q.nullifiedOnChain = m.nullifiedOnChain /\ q.root = m.root
         /\ LET q == MarkNullifiedOnChain(d, cs, n, l1).commitments[c] IN
            /\ q.nullifiedOnChain =
                 (IF c \in cs /\ m.nullifiedOnChain = -1 THEN n ELSE m.nullifiedOnChain)
            /\ q.onChain = m.onChain /\ q.root = m.root
<1> DEFINE p(m) == [m EXCEPT !.onChain = n, !.l1 = l1]
           q(m) == [m EXCEPT !.nullifiedOnChain = n, !.l1 = l1]
           P(m) == IF m.onChain = -1 THEN p(m) ELSE m
           Q(m) == IF m.nullifiedOnChain = -1 THEN q(m) ELSE m
           f == [c \in DOMAIN d.commitments |->
                   IF c \in cs THEN P(d.commitments[c]) ELSE d.commitments[c]]
           g == [c \in DOMAIN d.commitments |->
                   IF c \in cs THEN Q(d.commitments[c]) ELSE d.commitments[c]]
<1> SUFFICES ASSUME NEW c \in DOMAIN d.commitments, NEW m, m = d.commitments[c]
             PROVE  /\ LET x == MarkOnChain(d, cs, n, l1).commitments[c] IN
                       /\ x.onChain = (IF c \in cs /\ m.onChain = -1 THEN n ELSE m.onChain)
                       /\ x.nullifiedOnChain = m.nullifiedOnChain /\ x.root = m.root
                    /\ LET x == MarkNullifiedOnChain(d, cs, n, l1).commitments[c] IN
                       /\ x.nullifiedOnChain =
                            (IF c \in cs /\ m.nullifiedOnChain = -1 THEN n ELSE m.nullifiedOnChain)
                       /\ x.onChain = m.onChain /\ x.root = m.root
  OBVIOUS
<1>1. IsMarks(m)
  BY DEF IsDB
<1>2. /\ p(m).onChain = n /\ p(m).nullifiedOnChain = m.nullifiedOnChain /\ p(m).root = m.root
      /\ q(m).nullifiedOnChain = n /\ q(m).onChain = m.onChain /\ q(m).root = m.root
  BY <1>1, MarkFields
<1>3. /\ MarkOnChain(d, cs, n, l1).commitments = f
      /\ MarkNullifiedOnChain(d, cs, n, l1).commitments = g
  BY Fields DEF MarkOnChain, MarkNullifiedOnChain, Mark
<1>4. /\ f[c] = IF c \in cs /\ m.onChain = -1 THEN p(m) ELSE m
      /\ g[c] = IF c \in cs /\ m.nullifiedOnChain = -1 THEN q(m) ELSE m
  OBVIOUS
<1> HIDE DEF p, q, f, g
<1>5. QED  BY <1>2, <1>3, <1>4

LEMMA PathMarks ==
  ASSUME NEW d, IsDB(d), NEW cs, NEW root
  PROVE  \A c \in DOMAIN d.commitments :
         LET m == d.commitments[c]
             q == SetSiblingInfo(d, cs, root).commitments[c] IN
         /\ q.root = (IF c \in cs /\ m.onChain # -1 THEN root ELSE m.root)
         /\ q.onChain = m.onChain /\ q.nullifiedOnChain = m.nullifiedOnChain
<1> DEFINE r(m) == [m EXCEPT !.root = root]
           R(m) == IF m.onChain # -1 THEN r(m) ELSE m
           h == [c \in DOMAIN d.commitments |->
                   IF c \in cs THEN R(d.commitments[c]) ELSE d.commitments[c]]
<1> SUFFICES ASSUME NEW c \in DOMAIN d.commitments, NEW m, m = d.commitments[c]
             PROVE  LET x == SetSiblingInfo(d, cs, root).commitments[c] IN
                    /\ x.root = (IF c \in cs /\ m.onChain # -1 THEN root ELSE m.root)
                    /\ x.onChain = m.onChain /\ x.nullifiedOnChain = m.nullifiedOnChain
  OBVIOUS
<1>1. IsMarks(m) /\ 0 \in Int
  BY DEF IsDB
<1>2. /\ r(m).root = root /\ r(m).onChain = m.onChain
      /\ r(m).nullifiedOnChain = m.nullifiedOnChain
  BY <1>1, MarkFields
<1>3. SetSiblingInfo(d, cs, root).commitments = h
  BY Fields DEF SetSiblingInfo, Mark
<1>4. h[c] = IF c \in cs /\ m.onChain # -1 THEN r(m) ELSE m
  OBVIOUS
<1> HIDE DEF r, h
<1>5. QED  BY <1>2, <1>3, <1>4

LEMMA ClearedMarks ==
  ASSUME NEW d, IsDB(d), NEW n \in Int
  PROVE  \A c \in DOMAIN d.commitments : LET m == d.commitments[c] IN
         /\ LET q == ClearOnChain(d, n).commitments[c] IN
            /\ q.onChain = (IF m.onChain >= n THEN -1 ELSE m.onChain)
            /\ q.nullifiedOnChain = m.nullifiedOnChain /\ q.root = m.root
         /\ LET q == ClearNullifiedOnChain(d, n).commitments[c] IN
            /\ q.nullifiedOnChain = (IF m.nullifiedOnChain >= n THEN -1 ELSE m.nullifiedOnChain)
            /\ q.onChain = m.onChain /\ q.root = m.root
<1> DEFINE p(m) == [m EXCEPT !.onChain = -1, !.l1 = -1]
           q(m) == [m EXCEPT !.nullifiedOnChain = -1, !.l1 = -1]
           P(m) == IF m.onChain >= n THEN p(m) ELSE m
           Q(m) == IF m.nullifiedOnChain >= n THEN q(m) ELSE m
           f == [c \in DOMAIN d.commitments |->
                   IF c \in DOMAIN d.commitments THEN P(d.commitments[c]) ELSE d.commitments[c]]
           g == [c \in DOMAIN d.commitments |->
                   IF c \in DOMAIN d.commitments THEN Q(d.commitments[c]) ELSE d.commitments[c]]
<1> SUFFICES ASSUME NEW c \in DOMAIN d.commitments, NEW m, m = d.commitments[c]
             PROVE  /\ LET x == ClearOnChain(d, n).commitments[c] IN
                       /\ x.onChain = (IF m.onChain >= n THEN -1 ELSE m.onChain)
                       /\ x.nullifiedOnChain = m.nullifiedOnChain /\ x.root = m.root
                    /\ LET x == ClearNullifiedOnChain(d, n).commitments[c] IN
                       /\ x.nullifiedOnChain =
                            (IF m.nullifiedOnChain >= n THEN -1 ELSE m.nullifiedOnChain)
                       /\ x.onChain = m.onChain /\ x.root = m.root
  OBVIOUS
<1>1. IsMarks(m) /\ -1 \in Int
  BY DEF IsDB
<1>2. /\ p(m).onChain = -1 /\ p(m).nullifiedOnChain = m.nullifiedOnChain /\ p(m).root = m.root
      /\ q(m).nullifiedOnChain = -1 /\ q(m).onChain = m.onChain /\ q(m).root = m.root
  BY <1>1, MarkFields
<1>3. ClearOnChain(d, n).commitments = f /\ ClearNullifiedOnChain(d, n).commitments = g
  BY Fields DEF ClearOnChain, ClearNullifiedOnChain, Mark
<1>4. /\ f[c] = IF m.onChain >= n THEN p(m) ELSE m
      /\ g[c] = IF m.nullifiedOnChain >= n THEN q(m) ELSE m
  OBVIOUS
<1> HIDE DEF p, q, f, g
<1>5. QED  BY <1>2, <1>3, <1>4

LEMMA DeletedMarks ==
  ASSUME NEW d, IsDB(d), NEW cs
  PROVE  LET e == DeleteCommitments(d, cs) IN
         /\ \A c \in DOMAIN e.commitments : c \in DOMAIN d.commitments /\ MarksKept(d, e, c)
         /\ DOMAIN d.commitments \ DOMAIN e.commitments \subseteq cs
<1> DEFINE gone == {c \in Held(d, cs) : ~ d.commitments[c].deposited}
           P(m) == [m EXCEPT !.inTx = FALSE]
           w == Without(d.commitments, gone)
           a == [d EXCEPT !.commitments = w]
           f == [c \in DOMAIN w |-> IF c \in cs THEN P(w[c]) ELSE w[c]]
           e == [a EXCEPT !.commitments = f]
<1>1. /\ DOMAIN w \subseteq DOMAIN d.commitments /\ DOMAIN d.commitments \ DOMAIN w \subseteq cs
      /\ \A c \in DOMAIN w : w[c] = d.commitments[c]
  BY DEF Without, Held
<1>2. a.commitments = w /\ IsDB(a)
  <2> HIDE DEF w
  <2>1. a.commitments = w
    BY Fields
  <2>2. a \in [commitments : {w}, txs : {d.txs}, blocks : {d.blocks}, trees : {d.trees}]
    BY DEF IsDB
  <2> HIDE DEF a
  <2>3. \A c \in DOMAIN w : IsMarks(w[c])
    BY <1>1 DEF IsDB
  <2>4. QED  BY <2>1, <2>2, <2>3 DEF IsDB
<1>3. DeleteCommitments(d, cs) = e
  <2>1. DeleteCommitments(d, cs) =
          Mark(a, cs, LAMBDA m : [m EXCEPT !.inTx = FALSE])
    BY DEF DeleteCommitments
  <2> HIDE DEF a, w
  <2>2. QED  BY <1>2, <2>1 DEF Mark
<1>4. e.commitments = f
  BY <1>2, Fields
<1>5. ASSUME NEW c \in DOMAIN w
      PROVE  LET m == d.commitments[c] IN
             /\ f[c].onChain = m.onChain /\ f[c].nullifiedOnChain = m.nullifiedOnChain
             /\ f[c].root = m.root
  <2>1. IsMarks(w[c]) /\ w[c] = d.commitments[c]
    BY <1>1, <1>2 DEF IsDB
  <2>2. f[c] \in {P(w[c]), w[c]}
    OBVIOUS
  <2> DEFINE m == w[c]
  <2> HIDE DEF w, f
  <2>3. /\ P(m).onChain = m.onChain /\ P(m).nullifiedOnChain = m.nullifiedOnChain
        /\ P(m).root = m.root
    <3> HIDE DEF m
    <3>1. QED  BY <2>1, MarkFields DEF m
  <2> HIDE DEF P
  <2>4. QED  BY <2>1, <2>2, <2>3 DEF m
<1>6. DOMAIN f = DOMAIN w
  OBVIOUS
<1> HIDE DEF e, f, w
<1>7. QED  BY <1>1, <1>3, <1>4, <1>5, <1>6 DEF MarksKept

(* What marking block b does to the marks.                                 *)
BlockPlaced(d, e, b) ==
  /\ DOMAIN d.commitments \subseteq DOMAIN e.commitments
  /\ \A c \in DOMAIN d.commitments :
       LET m == d.commitments[c]
           q == e.commitments[c] IN
       /\ q.onChain = (IF c \in Commitments(b.tx) /\ m.onChain = -1 THEN b.n ELSE m.onChain)
       /\ q.nullifiedOnChain = (IF c \in made[b.tx].inputs /\ m.nullifiedOnChain = -1 THEN b.n
                                ELSE m.nullifiedOnChain)
       /\ q.root = m.root
  /\ \A c \in DOMAIN e.commitments \ DOMAIN d.commitments :
       LET q == e.commitments[c] IN
       /\ c = <<b.tx, 1>> /\ made[b.tx].kind \in Foreign
       /\ q.onChain = b.n /\ q.nullifiedOnChain = -1 /\ q.root = NoTree
  /\ Decrypts(d, b.tx) => <<b.tx, 1>> \in DOMAIN e.commitments

LEMMA SaveIfOursStores ==
  ASSUME NEW d, IsDB(d), NEW t, NEW n, \A x \in DOMAIN d.txs : d.txs[x].n # -1
  PROVE  SaveIfOurs(d, t, n).commitments =
           IF Decrypts(d, t) THEN StoreCommitments(d, {<<t, 1>>}, {}).commitments ELSE d.commitments
<1>1. CASE Decrypts(d, t)
  <2> DEFINE a == StoreCommitments(d, {<<t, 1>>}, {})
             e == SaveBlock(SaveTransaction(a, t, n, TRUE), n, t)
  <2>1. a.txs = d.txs /\ IsDB(a)
    BY StoredOnce, StoreTame DEF Tame
  <2>2. SaveIfOurs(d, t, n) = e
    BY <1>1 DEF SaveIfOurs
  <2>3. Saved(a, e, t, n, TRUE)
    <3>1. \A x \in DOMAIN a.txs : a.txs[x].n # -1
      BY <2>1
    <3> HIDE DEF a
    <3>2. QED  BY <2>1, <3>1, SavedTransaction, Zenon
  <2> HIDE DEF e
  <2>4. e.commitments = a.commitments
    BY <2>3 DEF Saved
  <2>5. QED  BY <1>1, <2>2, <2>4
<1>2. CASE ~ Decrypts(d, t) /\ Concerns(d, t)
  <2> DEFINE e == SaveBlock(SaveTransaction(d, t, n, FALSE), n, t)
  <2>1. Saved(d, e, t, n, FALSE)
    BY SavedTransaction, Zenon
  <2>2. SaveIfOurs(d, t, n) = e
    BY <1>2 DEF SaveIfOurs
  <2> HIDE DEF e
  <2>3. QED  BY <1>2, <2>1, <2>2 DEF Saved
<1>3. CASE ~ Decrypts(d, t) /\ ~ Concerns(d, t)
  BY <1>3 DEF SaveIfOurs
<1>4. QED  BY <1>1, <1>2, <1>3

LEMMA MarkBlockMarks ==
  ASSUME MadeInv, MadeTypes, IsDB(db), NEW b,
         b.tx \in DOMAIN made, b.n \in Nat, b.l1 \in Nat,
         \A x \in DOMAIN db.txs : db.txs[x].n # -1
  PROVE  BlockPlaced(db, MarkBlock(db, b), b)
<1> DEFINE a == StoreCommitments(db, {<<b.tx, 1>>}, {})
           e == SaveIfOurs(db, b.tx, b.n)
           f == MarkOnChain(e, Commitments(b.tx), b.n, b.l1)
           g == MarkNullifiedOnChain(f, made[b.tx].inputs, b.n, b.l1)
           t == <<b.tx, 1>>
<1>1. e.commitments = IF Decrypts(db, b.tx) THEN a.commitments ELSE db.commitments
  BY SaveIfOursStores
<1>2. /\ DOMAIN a.commitments = DOMAIN db.commitments \cup {t}
      /\ \A c \in DOMAIN db.commitments \ {t} : a.commitments[c] = db.commitments[c]
  BY StoredOnce
<1>3. /\ a.commitments[t].onChain = -1 /\ a.commitments[t].nullifiedOnChain = -1
      /\ t \notin DOMAIN db.commitments => a.commitments[t].root = NoTree
  BY StoredMarks
<1>4. IsDB(e)
  BY SaveIfOursTame DEF Tame
<1>5. Placed(e, f, b.l1)
  BY <1>4, MarksPlace
<1>6. IsDB(f)
  BY <1>4, MarkOnChainTame DEF Tame
<1>7. Placed(f, g, b.l1)
  BY <1>6, MarksPlace
<1>8. g = MarkBlock(db, b)
  BY DEF MarkBlock
<1>9. \A c \in DOMAIN e.commitments : LET m == e.commitments[c]
                                          q == f.commitments[c] IN
        /\ q.onChain = (IF c \in Commitments(b.tx) /\ m.onChain = -1 THEN b.n ELSE m.onChain)
        /\ q.nullifiedOnChain = m.nullifiedOnChain /\ q.root = m.root
  <2> HIDE DEF e
  <2>1. QED  BY <1>4, OnChainMarks
<1>10. \A c \in DOMAIN f.commitments : LET m == f.commitments[c]
                                           q == g.commitments[c] IN
        /\ q.nullifiedOnChain = (IF c \in made[b.tx].inputs /\ m.nullifiedOnChain = -1 THEN b.n
                                 ELSE m.nullifiedOnChain)
        /\ q.onChain = m.onChain /\ q.root = m.root
  <2> HIDE DEF f
  <2>1. QED  BY <1>6, OnChainMarks
<1>11. Decrypts(db, b.tx) => /\ t \in Commitments(b.tx) /\ made[b.tx].kind \in Foreign
                             /\ made[b.tx].inputs = {} /\ t \notin DOMAIN db.commitments
  <2> SUFFICES ASSUME Decrypts(db, b.tx)
               PROVE  /\ t \in Commitments(b.tx) /\ made[b.tx].kind \in Foreign
                      /\ made[b.tx].inputs = {} /\ t \notin DOMAIN db.commitments
    OBVIOUS
  <2>1. made[b.tx].kind \in Foreign /\ t \notin DOMAIN db.commitments
    BY DecryptsForeign
  <2>2. made[b.tx].inputs = {}
    BY <2>1 DEF MadeInv
  <2>3. 1 \in DOMAIN made[b.tx].outs
    <3>1. made[b.tx].outs \in Seq(BOOLEAN) /\ made[b.tx].outs # <<>>
      BY DEF MadeTypes, Decrypts
    <3>2. QED  BY <3>1
  <2>4. QED  BY <2>1, <2>2, <2>3 DEF Commitments
<1> HIDE DEF a, e, f, g, t
<1>12. DOMAIN f.commitments = DOMAIN e.commitments /\ DOMAIN g.commitments = DOMAIN e.commitments
  BY <1>5, <1>7 DEF Placed
<1>13. \A c \in DOMAIN e.commitments : LET m == e.commitments[c]
                                           q == g.commitments[c] IN
         /\ q.onChain = (IF c \in Commitments(b.tx) /\ m.onChain = -1 THEN b.n ELSE m.onChain)
         /\ q.nullifiedOnChain = (IF c \in made[b.tx].inputs /\ m.nullifiedOnChain = -1 THEN b.n
                                  ELSE m.nullifiedOnChain)
         /\ q.root = m.root
  BY <1>9, <1>10, <1>12
<1>14. \A c \in DOMAIN db.commitments : /\ c \in DOMAIN e.commitments
                                        /\ e.commitments[c] = db.commitments[c]
  BY <1>1, <1>2, <1>11
<1>15. \A c \in DOMAIN e.commitments \ DOMAIN db.commitments :
         /\ c = t /\ Decrypts(db, b.tx) /\ e.commitments[c].onChain = -1
         /\ e.commitments[c].nullifiedOnChain = -1 /\ e.commitments[c].root = NoTree
  BY <1>1, <1>2, <1>3, <1>11
<1>16. Decrypts(db, b.tx) => t \in DOMAIN e.commitments
  BY <1>1, <1>2
<1>17. \A c \in DOMAIN g.commitments \ DOMAIN db.commitments :
         LET q == g.commitments[c] IN
         /\ c = t /\ made[b.tx].kind \in Foreign
         /\ q.onChain = b.n /\ q.nullifiedOnChain = -1 /\ q.root = NoTree
  BY <1>11, <1>12, <1>13, <1>15
<1>18. BlockPlaced(db, g, b)
  BY <1>12, <1>13, <1>14, <1>16, <1>17 DEF BlockPlaced, t
<1>19. QED  BY <1>8, <1>18

(* What a rollback to block n does to the blocks and the marks.            *)
RollbackPlaced(d, e, n) ==
  /\ DOMAIN e.blocks = {m \in DOMAIN d.blocks : ~(m >= n)}
  /\ \A m \in DOMAIN e.blocks : e.blocks[m] = d.blocks[m]
  /\ \A c \in DOMAIN e.commitments :
       LET m == d.commitments[c]
           q == e.commitments[c] IN
       /\ c \in DOMAIN d.commitments
       /\ q.onChain = (IF m.onChain >= n THEN -1 ELSE m.onChain)
       /\ q.nullifiedOnChain = (IF m.nullifiedOnChain >= n THEN -1 ELSE m.nullifiedOnChain)
       /\ q.root = m.root
  /\ \A c \in DOMAIN d.commitments \ DOMAIN e.commitments :
       c[1] \in Decrypted(d, n) \cup Invalid(d, n)

LEMMA RollbackMarks ==
  ASSUME NEW d, IsDB(d), NEW n \in Nat
  PROVE  RollbackPlaced(d, Rollback(d, n), n)
<1> DEFINE forgotten == {<<t, 1>> : t \in Decrypted(d, n)} \cup UNION {Commitments(t) : t \in Invalid(d, n)}
           nullifiers == UNION {made[t].inputs : t \in Invalid(d, n)}
           ts == Decrypted(d, n) \cup Invalid(d, n)
           d1 == DeleteTreeByBlockNumberL2(d, n)
           d2 == DeleteBlocksByBlockNumberL2(d1, n)
           d3 == ClearNullifiedOnChain(d2, n)
           d4 == ClearOnChain(d3, n)
           d5 == ClearNullifiers(d4, nullifiers)
           d6 == DeleteCommitments(d5, forgotten)
           d7 == DeleteTransactions(d6, ts)
<1>1. d7 = Rollback(d, n)
  BY DEF Rollback, Removed, Decrypted, Invalid
<1>0. \A c \in forgotten : c[1] \in Decrypted(d, n) \cup Invalid(d, n)
  BY DEF Commitments
<1> HIDE DEF forgotten, ts, nullifiers
<1>2. IsDB(d1) /\ d1.commitments = d.commitments /\ d1.blocks = d.blocks
  <2>1. IsDB(d1)
    BY DatabaseTame DEF Tame
  <2> DEFINE t == KeepBelow(d.trees, n)
  <2>2. d1 = [d EXCEPT !.trees = t]
    BY DEF DeleteTreeByBlockNumberL2
  <2> HIDE DEF t, d1
  <2>3. d1.commitments = d.commitments /\ d1.blocks = d.blocks
    BY <2>2 DEF IsDB
  <2>4. QED  BY <2>1, <2>3
<1> HIDE DEF d1
<1>3. /\ IsDB(d2) /\ d2.commitments = d.commitments
      /\ DOMAIN d2.blocks = {m \in DOMAIN d.blocks : ~(m >= n)}
      /\ \A m \in DOMAIN d2.blocks : d2.blocks[m] = d.blocks[m]
  <2>1. IsDB(d2)
    BY <1>2, DatabaseTame DEF Tame
  <2> DEFINE w == Without(d1.blocks, FindBlocksFromBlockNumberL2(d1, n))
  <2>2. /\ DOMAIN w = {m \in DOMAIN d.blocks : ~(m >= n)}
        /\ \A m \in DOMAIN w : w[m] = d.blocks[m]
    BY <1>2 DEF Without, FindBlocksFromBlockNumberL2
  <2>3. d2 = [d1 EXCEPT !.blocks = w]
    BY DEF DeleteBlocksByBlockNumberL2
  <2> HIDE DEF w, d2
  <2>4. d2.commitments = d1.commitments /\ d2.blocks = w
    BY <1>2, <2>3 DEF IsDB
  <2>5. QED  BY <1>2, <2>1, <2>2, <2>4
<1> HIDE DEF d2
<1>4. /\ IsDB(d3) /\ Placed(d2, d3, -1)
      /\ \A c \in DOMAIN d2.commitments :
           LET m == d2.commitments[c]
               q == d3.commitments[c] IN
           /\ q.nullifiedOnChain = (IF m.nullifiedOnChain >= n THEN -1 ELSE m.nullifiedOnChain)
           /\ q.onChain = m.onChain /\ q.root = m.root
  <2>1. IsDB(d3) /\ Placed(d2, d3, -1)
    BY <1>3, ClearsPlace, ClearNullifiedOnChainTame DEF Tame
  <2>2. QED  BY <1>3, <2>1, ClearedMarks
<1> HIDE DEF d3
<1>5. /\ IsDB(d4) /\ Placed(d3, d4, -1)
      /\ \A c \in DOMAIN d3.commitments :
           LET m == d3.commitments[c]
               q == d4.commitments[c] IN
           /\ q.onChain = (IF m.onChain >= n THEN -1 ELSE m.onChain)
           /\ q.nullifiedOnChain = m.nullifiedOnChain /\ q.root = m.root
  <2>1. IsDB(d4) /\ Placed(d3, d4, -1)
    BY <1>4, ClearsPlace, ClearOnChainTame DEF Tame
  <2>2. QED  BY <1>4, <2>1, ClearedMarks
<1> HIDE DEF d4
<1>6. /\ IsDB(d5) /\ d5.blocks = d4.blocks
      /\ DOMAIN d5.commitments = DOMAIN d4.commitments
      /\ \A c \in DOMAIN d4.commitments : MarksKept(d4, d5, c)
  <2>1. IsDB(d5)
    BY <1>5, ClearNullifiersTame DEF Tame
  <2>2. d5.blocks = d4.blocks /\ DOMAIN d5.commitments = DOMAIN d4.commitments
    BY <1>5, NullifiersCleared
  <2>3. \A c \in DOMAIN d4.commitments : MarksKept(d4, d5, c)
    BY <1>5, RequestsKeep
  <2>4. QED  BY <2>1, <2>2, <2>3
<1> HIDE DEF d5
<1>7. /\ IsDB(d6) /\ d6.blocks = d5.blocks
      /\ \A c \in DOMAIN d6.commitments : c \in DOMAIN d5.commitments /\ MarksKept(d5, d6, c)
      /\ DOMAIN d5.commitments \ DOMAIN d6.commitments \subseteq forgotten
  <2>1. IsDB(d6) /\ d6.blocks = d5.blocks
    BY <1>6, DeleteCommitmentsTame, CommitmentsDeleted DEF Tame
  <2>2. QED  BY <1>6, <2>1, DeletedMarks
<1> HIDE DEF d6
<1>8. d7.commitments = d6.commitments /\ d7.blocks = d6.blocks
  <2> DEFINE w == Without(d6.txs, ts)
  <2>2. d7 = [d6 EXCEPT !.txs = w]
    BY DEF DeleteTransactions
  <2> HIDE DEF w, d7
  <2>3. QED  BY <1>7, <2>2 DEF IsDB
<1> HIDE DEF d7
<1>9. d7.blocks = d2.blocks
  BY <1>4, <1>5, <1>6, <1>7, <1>8 DEF Placed
<1>10. DOMAIN d5.commitments = DOMAIN d.commitments /\ DOMAIN d4.commitments = DOMAIN d.commitments
       /\ DOMAIN d3.commitments = DOMAIN d.commitments /\ DOMAIN d2.commitments = DOMAIN d.commitments
  BY <1>3, <1>4, <1>5, <1>6 DEF Placed
<1>11. ASSUME NEW c \in DOMAIN d7.commitments
       PROVE  LET m == d.commitments[c]
                  q == d7.commitments[c] IN
              /\ c \in DOMAIN d.commitments
              /\ q.onChain = (IF m.onChain >= n THEN -1 ELSE m.onChain)
              /\ q.nullifiedOnChain = (IF m.nullifiedOnChain >= n THEN -1 ELSE m.nullifiedOnChain)
              /\ q.root = m.root
  <2>1. c \in DOMAIN d.commitments /\ MarksKept(d5, d7, c) /\ MarksKept(d4, d5, c)
    BY <1>6, <1>7, <1>8, <1>10 DEF MarksKept
  <2>2. d2.commitments = d.commitments
    BY <1>3
  <2>3. QED  BY <1>4, <1>5, <1>10, <2>1, <2>2 DEF MarksKept
<1>12. \A c \in DOMAIN d.commitments \ DOMAIN d7.commitments :
         c[1] \in Decrypted(d, n) \cup Invalid(d, n)
  BY <1>0, <1>7, <1>8, <1>10
<1>13. RollbackPlaced(d, d7, n)
  <2>1. /\ DOMAIN d7.blocks = {m \in DOMAIN d.blocks : ~(m >= n)}
        /\ \A m \in DOMAIN d7.blocks : d7.blocks[m] = d.blocks[m]
    BY <1>3, <1>9
  <2>2. QED  BY <1>11, <1>12, <2>1 DEF RollbackPlaced
<1>14. QED  BY <1>1, <1>13

(* The tree that block b adds, to trees that are in place.                 *)
NewTree(d, b) == Append(GetTreeByBlockNumberL2(d, b.n - 1), b.tx)

InPlace(d, H) ==
  /\ d.trees = First(d.trees, H)
  /\ \A k \in 1..H : d.trees[k].n = k - 1 /\ d.trees[k].tree = [j \in 1..k |-> d.trees[k].tree[j]]

LEMMA NewTreeIs ==
  ASSUME NEW H \in Nat, NEW d, InPlace(d, H), NEW b, b.n \in 0..H
  PROVE  NewTree(d, b) = [j \in 1..b.n + 1 |-> IF j = b.n + 1 THEN b.tx ELSE d.trees[b.n].tree[j]]
<1>0. /\ d.trees = First(d.trees, H)
      /\ \A k \in 1..H : d.trees[k].n = k - 1 /\ d.trees[k].tree = [j \in 1..k |-> d.trees[k].tree[j]]
  BY DEF InPlace
<1> DEFINE I == {i \in 1..Len(d.trees) : d.trees[i].n = b.n - 1}
           i == IF I # {} THEN Min(I) ELSE 0
           t == IF i = 0 THEN <<>> ELSE d.trees[i].tree
<1>1. NewTree(d, b) = Append(t, b.tx)
  BY DEF NewTree, GetTreeByBlockNumberL2, SelectInSeq
<1>2. Len(d.trees) = H
  BY <1>0, FirstOnes
<1>3. i = b.n
  <2>1. CASE b.n = 0
    <3>1. \A k \in 1..H : k - 1 # b.n - 1
      BY <2>1
    <3>0. \A k \in 1..H : d.trees[k].n # b.n - 1
      BY <1>0, <3>1
    <3>2. I = {}
      BY <1>2, <3>0
    <3>3. QED  BY <2>1, <3>2
  <2>2. CASE b.n # 0
    <3>1. b.n \in 1..H /\ \A k \in 1..H : k - 1 = b.n - 1 => k = b.n
      BY <2>2
    <3>2. I = {b.n}
      BY <1>0, <1>2, <3>1
    <3>3. Min({b.n}) = b.n
      BY DEF Min
    <3>4. QED  BY <3>2, <3>3
  <2>3. QED  BY <2>1, <2>2
<1> HIDE DEF i
<1>4. CASE b.n = 0
  <2>1. t = <<>>
    BY <1>3, <1>4
  <2>2. Append(<<>>, b.tx) = <<b.tx>>
    OBVIOUS
  <2>3. <<b.tx>> = [j \in 1..1 |-> b.tx]
    OBVIOUS
  <2>4. [j \in 1..1 |-> b.tx] = [j \in 1..b.n + 1 |-> IF j = b.n + 1 THEN b.tx ELSE d.trees[b.n].tree[j]]
    BY <1>4
  <2>5. QED  BY <1>1, <2>1, <2>2, <2>3, <2>4
<1>5. CASE b.n # 0
  <2>1. PICK n \in 1..H : n = b.n
    BY <1>5
  <2>2. t = [j \in 1..n |-> d.trees[n].tree[j]]
    BY <1>0, <1>3, <2>1
  <2> HIDE DEF t
  <2> DEFINE S == {d.trees[n].tree[j] : j \in 1..n} \cup {b.tx}
  <2>3. \A j \in 1..n : d.trees[n].tree[j] \in S
    OBVIOUS
  <2>4. b.tx \in S
    OBVIOUS
  <2> HIDE DEF S
  <2>5. t \in Seq(S) /\ Len(t) = n /\ \A j \in 1..n : t[j] = d.trees[n].tree[j]
    <3>1. [j \in 1..n |-> d.trees[n].tree[j]] \in Seq(S)
      BY <2>3
    <3>2. QED  BY <2>2, <3>1
  <2>6. Append(t, b.tx) = [j \in 1..n + 1 |-> IF j = n + 1 THEN b.tx ELSE t[j]]
    BY <2>4, <2>5
  <2>7. \A j \in 1..n + 1 : j # n + 1 => t[j] = d.trees[n].tree[j]
    BY <2>5
  <2>8. QED  BY <1>1, <2>1, <2>6, <2>7
<1>6. QED  BY <1>4, <1>5

LEMMA FinishBlockMarks ==
  ASSUME NEW d, IsDB(d), NEW b, NEW syncing, NEW H \in Nat, d.trees = First(d.trees, H)
  PROVE  LET e == FinishBlock(d, b, syncing) IN
         /\ \A c \in DOMAIN d.commitments :
              /\ e.commitments[c].onChain = d.commitments[c].onChain
              /\ e.commitments[c].nullifiedOnChain = d.commitments[c].nullifiedOnChain
              /\ \/ e.commitments[c].root = d.commitments[c].root
                 \/ c \in Commitments(b.tx) /\ e.commitments[c].root = NewTree(d, b)
         /\ ~ TreeKnown(d, b.l1) =>
              /\ e.trees[H + 1].tree = NewTree(d, b)
              /\ \A c \in DOMAIN d.commitments :
                   c \in Commitments(b.tx) /\ d.commitments[c].onChain # -1 =>
                     e.commitments[c].root = NewTree(d, b)
<1> DEFINE tree == NewTree(d, b)
           new == [l1 |-> b.l1, n |-> b.n, tree |-> tree]
           saved == IF TreeKnown(d, b.l1) THEN d ELSE SaveTree(d, b.l1, b.n, tree)
           e == SetSiblingInfo(saved, Commitments(b.tx), tree)
           f == FinishBlock(d, b, syncing)
<1>1. f = IF TreeKnown(d, b.l1) /\ ~ syncing THEN d ELSE e
  BY DEF FinishBlock, NewTree
<1>2. new.tree = tree
  OBVIOUS
<1>3. SaveTree(d, b.l1, b.n, tree) = [d EXCEPT !.trees = Append(d.trees, new)]
  BY DEF SaveTree, IsDB
<1> HIDE DEF new, tree
<1>4. /\ saved.commitments = d.commitments /\ IsDB(saved)
      /\ saved.trees = IF TreeKnown(d, b.l1) THEN d.trees ELSE Append(d.trees, new)
  <2>1. CASE TreeKnown(d, b.l1)
    BY <2>1
  <2>2. CASE ~ TreeKnown(d, b.l1)
    <3> DEFINE t == Append(d.trees, new)
               x == [d EXCEPT !.trees = t]
    <3>1. saved = x
      BY <1>3, <2>2
    <3> HIDE DEF t
    <3>2. x.commitments = d.commitments /\ x.trees = t
      BY DEF IsDB
    <3>3. IsDB(x)
      <4>1. x \in [commitments : {d.commitments}, txs : {d.txs}, blocks : {d.blocks}, trees : {t}]
        BY DEF IsDB
      <4> HIDE DEF x
      <4>2. QED  BY <3>2, <4>1 DEF IsDB
    <3> HIDE DEF x
    <3>4. QED  BY <2>2, <3>1, <3>2, <3>3 DEF t
  <2>3. QED  BY <2>1, <2>2
<1> HIDE DEF saved
<1>5. Placed(saved, e, -1)
  BY <1>4, PathsPlace
<1>6. \A c \in DOMAIN d.commitments :
        LET m == d.commitments[c]
            q == e.commitments[c] IN
        /\ q.root = (IF c \in Commitments(b.tx) /\ m.onChain # -1 THEN tree ELSE m.root)
        /\ q.onChain = m.onChain /\ q.nullifiedOnChain = m.nullifiedOnChain
  BY <1>4, PathMarks
<1> HIDE DEF e
<1>7. ~ TreeKnown(d, b.l1) => e.trees[H + 1].tree = tree
  <2> SUFFICES ASSUME ~ TreeKnown(d, b.l1) PROVE e.trees[H + 1].tree = tree
    OBVIOUS
  <2> DEFINE T == {d.trees[i] : i \in 1..H} \cup {new}
  <2>1. DOMAIN d.trees = 1..H /\ d.trees = [i \in 1..H |-> d.trees[i]] /\ Len(d.trees) = H
    BY FirstOnes DEF First
  <2>2. \A i \in 1..H : d.trees[i] \in T
    OBVIOUS
  <2>3. new \in T
    OBVIOUS
  <2> HIDE DEF T
  <2>4. d.trees \in Seq(T)
    <3>1. d.trees \in [1..H -> T]
      BY <2>1, <2>2
    <3>2. QED  BY <3>1
  <2>5. e.trees = Append(d.trees, new)
    BY <1>4, <1>5 DEF Placed
  <2>6. e.trees[H + 1] = new
    BY <2>1, <2>3, <2>4, <2>5
  <2>7. QED  BY <1>2, <2>6
<1>8. QED  BY <1>1, <1>6, <1>7 DEF tree

(* What a block spends was made by a block below that stands.              *)
LEMMA SpendsAlone ==
  ASSUME IInv, SpendsLater, log' = log,
         DOMAIN made \subseteq DOMAIN made', \A t \in DOMAIN made : made'[t] = made[t]
  PROVE  SpendsLater'
<1>1. /\ \A a : TxOf(a)' = TxOf(a) /\ Num(a)' = Num(a) /\ IsBlock(log[a])' = IsBlock(log[a])
      /\ \A a, e : Stands(a, e)' = Stands(a, e)
      /\ \A a, t : BlockAt(a, t)' = BlockAt(a, t)
  BY DEF TxOf, Num, Stands, IsBlock, BlockAt
<1>2. \A a \in 1..Len(log) : IsBlock(log[a]) => TxOf(a) \in DOMAIN made
  BY LogTypes DEF TxOf
<1>3. \A a \in 1..Len(log) : IsBlock(log[a]) => made'[TxOf(a)] = made[TxOf(a)]
  BY <1>2
<1>4. QED  BY <1>1, <1>3 DEF SpendsLater

LEMMA SpendsLogged ==
  ASSUME IInv, ChainInv, PlacesInv, SpendsLater, RootsRight,
         NEW event \in Events, Logs(event),
         IsBlock(event) => event.block.n = Len(chain) /\ Includable(event.block.tx)
                           /\ event.block.tx \in DOMAIN made
  PROVE  SpendsLater'
<1>1. PICK L : L = Len(log)
  OBVIOUS
<1>2. /\ L \in Nat /\ Len(log') = L + 1 /\ log'[L + 1] = event /\ made' = made
      /\ \A i \in 1..L : log'[i] = log[i]
      /\ \A i \in 1..L + 1 : i \in 1..L \/ i = L + 1
  BY <1>1, LogTypes, Logged DEF Grown, Logs
<1>3. /\ \A a \in 1..L : Num(a)' = Num(a) /\ TxOf(a)' = TxOf(a)
      /\ \A a \in 1..L : \A e \in 0..L : Stood(a, e)' = Stood(a, e)
      /\ \A i \in 1..L : \A t : BlockAt(i, t)' = BlockAt(i, t)
      /\ \A a \in 1..L : \A b \in 0..L : Stands(a, b)' = Stands(a, b)
  BY <1>1, Logged, StoodGrows, LogGrows
<1> SUFFICES ASSUME NEW a \in 1..L + 1, IsBlock(log'[a]), NEW c \in made[TxOf(a)'].inputs
             PROVE  \E b \in 1..a - 1 : BlockAt(b, c[1])' /\ Stands(b, a)' /\ Num(b)' < Num(a)'
  BY <1>2 DEF SpendsLater, IsBlock
<1>4. CASE a \in 1..L
  <2>1. IsBlock(log[a]) /\ c \in made[TxOf(a)].inputs
    BY <1>2, <1>3, <1>4
  <2>2. PICK b \in 1..a - 1 : BlockAt(b, c[1]) /\ Stands(b, a) /\ Num(b) < Num(a)
    BY <1>1, <1>4, <2>1 DEF SpendsLater
  <2>3. b \in 1..L /\ a \in 0..L
    BY <1>2, <1>4
  <2>4. BlockAt(b, c[1])' /\ Stands(b, a)' /\ Num(b)' < Num(a)'
    BY <1>3, <1>4, <2>2, <2>3
  <2>5. QED  BY <2>4
<1>5. CASE a = L + 1
  <2>1. PICK t : t = event.block.tx
    OBVIOUS
  <2>2. TxOf(a)' = t /\ Num(a)' = Len(chain) /\ IsBlock(event) /\ t \in DOMAIN made
    BY <1>2, <1>5, <2>1 DEF TxOf, Num, IsBlock
  <2>3. PICK n : n = made[t].roots[c].n
    OBVIOUS
  <2>4. /\ n < Len(chain) /\ made[t].roots[c].root = SubSeq(ChainTree, 1, n + 1)
        /\ n \in Nat /\ EndsWith(made[t].roots[c].root, c[1])
    <3>1. RootHolds(made[t].roots[c]) /\ c \in made[t].inputs
      BY <2>1, <2>2 DEF Includable
    <3>2. QED  BY <2>2, <2>3, <3>1 DEF RootHolds, RootsRight
  <2>5. /\ chain \in Seq([n : Nat, tx : Nat, l1 : Nat]) /\ Len(chain) \in Nat
        /\ DOMAIN chain = 1..Len(chain)
    <3>1. chain \in Seq([n : Nat, tx : Nat, l1 : Nat])
      BY DEF IInv, Types, ChainTypes
    <3>2. QED  BY <3>1
  <2>6. n + 1 \in 1..Len(chain)
    BY <2>4, <2>5
  <2>7. chain[n + 1].tx = c[1]
    <3>1. ChainTree \in Seq(Nat) /\ Len(ChainTree) = Len(chain) /\ ChainTree[n + 1] = chain[n + 1].tx
      <4>1. \A i \in 1..Len(chain) : chain[i].tx \in Nat
        <5>1. PICK S : S = [n : Nat, tx : Nat, l1 : Nat]
          OBVIOUS
        <5>2. chain \in Seq(S)
          BY <2>5, <5>1
        <5>3. \A i \in 1..Len(chain) : chain[i] \in S
          BY <5>2
        <5>4. QED  BY <5>1, <5>3
      <4>2. [i \in 1..Len(chain) |-> chain[i].tx] \in Seq(Nat)
        BY <2>5, <4>1
      <4>3. ChainTree = [i \in 1..Len(chain) |-> chain[i].tx]
        BY <2>5 DEF ChainTree
      <4>4. QED  BY <2>5, <2>6, <4>2, <4>3
    <3>2. PICK x : x = SubSeq(ChainTree, 1, n + 1)
      OBVIOUS
    <3>3. Len(x) = n + 1 /\ x[n + 1] = ChainTree[n + 1]
      BY <2>4, <2>6, <3>1, <3>2
    <3>4. QED  BY <2>4, <3>1, <3>2, <3>3 DEF EndsWith
  <2>8. PICK b : b = chain[n + 1].l1
    OBVIOUS
  <2>9. b \in 1..L /\ Stood(b, L) /\ log[b].block = chain[n + 1] /\ chain[n + 1].n = n
    <3>1. PICK i \in DOMAIN chain : i = n + 1
      BY <2>5, <2>6
    <3>2. n = i - 1
      BY <2>4, <3>1
    <3>3. b \in 1..L /\ Stood(b, L) /\ log[b].block = chain[i] /\ chain[i].n = i - 1
      BY <1>1, <2>8, <3>1 DEF PlacesInv, ChainLogged
    <3>4. QED  BY <3>1, <3>2, <3>3
  <2>10. BlockAt(b, c[1]) /\ Num(b) = n
    BY <2>7, <2>9 DEF BlockAt, Stood, Num
  <2>11. b \in 1..a - 1 /\ L \in 0..L /\ \A k \in b + 1..L + 1 : k \in b + 1..L \/ k = L + 1
    BY <1>2, <1>5, <2>9
  <2>12. Stands(b, L)'
    BY <1>3, <2>9, <2>11 DEF Stood
  <2>13. Stands(b, a)'
    BY <1>2, <1>5, <2>2, <2>11, <2>12 DEF Stands, IsBlock
  <2>14. QED  BY <1>3, <2>2, <2>4, <2>9, <2>10, <2>11, <2>13
<1>6. QED  BY <1>2, <1>4, <1>5

(* Roots end with the transaction of the commitment they are for.          *)
RootEnds(c) == db.commitments[c].root = NoTree \/ EndsWith(db.commitments[c].root, c[1])

LEMMA RootsOn ==
  ASSUME RootsRight, DOMAIN made \subseteq DOMAIN made',
         \A c \in DOMAIN db'.commitments :
           \/ c \in DOMAIN db.commitments /\ db'.commitments[c].root = db.commitments[c].root
           \/ RootEnds(c)',
         \A r \in Requests : \A c \in Rooted(request'[r]) :
           \/ c \in Rooted(request[r]) /\ request'[r].roots[c] = request[r].roots[c]
           \/ EndsWith(request'[r].roots[c].root, c[1]) /\ request'[r].roots[c].n \in Int,
         \A t \in DOMAIN made : made'[t] = made[t],
         \A t \in DOMAIN made' \ DOMAIN made : \A c \in made'[t].inputs :
           EndsWith(made'[t].roots[c].root, c[1]) /\ made'[t].roots[c].n \in Nat
  PROVE  RootsRight'
<1>1. \A c \in DOMAIN db'.commitments :
        \/ db'.commitments[c].root = NoTree
        \/ EndsWith(db'.commitments[c].root, c[1])
  BY DEF RootsRight, RootEnds, EndsWith
<1>2. \A r \in Requests : \A c \in Rooted(request'[r]) :
        EndsWith(request'[r].roots[c].root, c[1]) /\ request'[r].roots[c].n \in Int
  BY DEF RootsRight
<1>3. \A t \in DOMAIN made' : \A c \in made'[t].inputs :
        EndsWith(made'[t].roots[c].root, c[1]) /\ made'[t].roots[c].n \in Nat
  <2> SUFFICES ASSUME NEW t \in DOMAIN made', NEW c \in made'[t].inputs
               PROVE  EndsWith(made'[t].roots[c].root, c[1]) /\ made'[t].roots[c].n \in Nat
    OBVIOUS
  <2>1. CASE t \in DOMAIN made
    BY <2>1 DEF RootsRight
  <2>2. CASE t \notin DOMAIN made
    BY <2>2
  <2>3. QED  BY <2>1, <2>2
<1>4. \A x, t : EndsWith(x, t)' = EndsWith(x, t)
  BY DEF EndsWith
<1>5. QED  BY <1>1, <1>2, <1>3 DEF RootsRight, EndsWith, Rooted

(* A step that handles no event keeps every mark, and what it stores is of *)
(* a transaction that is new.                                              *)
BesidesMarks ==
  /\ DOMAIN db.commitments \subseteq DOMAIN db'.commitments
  /\ \A c \in DOMAIN db.commitments : MarksKept(db, db', c)
  /\ \A c \in DOMAIN db'.commitments \ DOMAIN db.commitments :
       /\ c[1] \notin DOMAIN made
       /\ db'.commitments[c].onChain = -1 /\ db'.commitments[c].nullifiedOnChain = -1
  /\ \A t \in DOMAIN made' \ DOMAIN made :
       OursOf(t)' \subseteq DOMAIN db'.commitments \/ made'[t].kind \in Foreign

LEMMA MarksBesides ==
  ASSUME IInv, ChainInv, Besides, BesidesMarks, Seen' = Seen,
         NEW s \in 0..Len(log), NEW e \in 0..Len(log), TreesInv(s), MarksInv(s, e)
  PROVE  MarksInv(s, e)'
<1>1. /\ log' = log /\ db'.trees = db.trees /\ db'.blocks = db.blocks
      /\ DOMAIN made \subseteq DOMAIN made' /\ \A t \in DOMAIN made : made'[t] = made[t]
  BY DEF Besides
<1>2. /\ \A a : TxOf(a)' = TxOf(a) /\ Num(a)' = Num(a) /\ IsBlock(log[a])' = IsBlock(log[a])
      /\ \A a, x : Stands(a, x)' = Stands(a, x) /\ Stood(a, x)' = Stood(a, x)
      /\ \A a, t : BlockAt(a, t)' = BlockAt(a, t)
      /\ \A a : AllBlocks(a)' = AllBlocks(a) /\ Height(a)' = Height(a)
  BY <1>1 DEF TxOf, Num, Stands, Stood, IsBlock, BlockAt, AllBlocks, Height
<1>3. \A t \in DOMAIN made : \A b : Breaks(b, t)' = Breaks(b, t)
  BY <1>1 DEF Breaks, IsBlock, CheckValidHistoricRootsBlockNumber
<1>4. /\ e \in Nat /\ s \in Nat /\ Len(log) \in Nat /\ e <= Len(log) /\ s <= Len(log)
      /\ \A a \in 1..e : a \in 1..Len(log)
  BY LogTypes
<1>5. \A a \in 1..Len(log) : IsBlock(log[a]) =>
        TxOf(a) \in DOMAIN made /\ made'[TxOf(a)] = made[TxOf(a)]
  BY <1>1, LogTypes DEF TxOf
<1>6. Ahead(s, e)'
  BY <1>1, <1>2 DEF MarksInv, Ahead
<1>7. TreesRight(s)'
  BY <1>1, <1>2 DEF MarksInv, TreesRight
<1>8. BlocksRight(e)'
  BY <1>1, <1>2 DEF MarksInv, BlocksRight
<1>9. HeldRight(e)'
  <2> SUFFICES ASSUME NEW t \in DOMAIN made'
               PROVE  OursOf(t)' \subseteq DOMAIN db'.commitments \/
                        IF made'[t].kind \in Foreign
                        THEN \A a \in 1..e : BlockAt(a, t) => ~ Stands(a, e)
                        ELSE \E b \in 1..e : \E a \in 1..b - 1 : BlockAt(a, t) /\ Breaks(b, t)'
    BY <1>2 DEF HeldRight
  <2>1. CASE t \in DOMAIN made
    <3>1. OursOf(t)' = OursOf(t)
      BY <1>1, <2>1 DEF OursOf
    <3>2. OursOf(t) \subseteq DOMAIN db.commitments \/
            IF made[t].kind \in Foreign
            THEN \A a \in 1..e : BlockAt(a, t) => ~ Stands(a, e)
            ELSE \E b \in 1..e : \E a \in 1..b - 1 : BlockAt(a, t) /\ Breaks(b, t)
      BY <2>1 DEF MarksInv, HeldRight
    <3>3. QED  BY <1>1, <1>3, <2>1, <3>1, <3>2 DEF BesidesMarks
  <2>2. CASE t \notin DOMAIN made
    <3>1. \A a \in 1..e : ~ BlockAt(a, t)
      BY <1>4, <1>5, <2>2 DEF BlockAt, TxOf
    <3>2. QED  BY <2>2, <3>1 DEF BesidesMarks
  <2>3. QED  BY <2>1, <2>2
<1>10. ASSUME NEW c \in DOMAIN db'.commitments PROVE MarkRight(c, s, e)'
  <2>1. CASE c \in DOMAIN db.commitments
    <3>1. MarkRight(c, s, e) /\ MarksKept(db, db', c)
      BY <2>1 DEF MarksInv, BesidesMarks
    <3>2. \A a \in 1..e : Stood(a, e) => made'[TxOf(a)] = made[TxOf(a)]
      BY <1>4, <1>5 DEF Stood
    <3>3. QED  BY <1>1, <1>2, <3>1, <3>2 DEF MarkRight, MarksKept
  <2>2. CASE c \notin DOMAIN db.commitments
    <3>1. /\ c[1] \notin DOMAIN made
          /\ db'.commitments[c].onChain = -1 /\ db'.commitments[c].nullifiedOnChain = -1
      BY <2>2 DEF BesidesMarks
    <3>2. \A a \in 1..Len(log) : ~ BlockAt(a, c[1])
      BY <1>5, <3>1 DEF BlockAt, TxOf
    <3>3. \A a \in 1..Len(log) : IsBlock(log[a]) => c \notin made[TxOf(a)].inputs
      BY <1>5, <3>1 DEF ChainInv, MadeInv
    <3>4. \A a \in 1..e : ~ BlockAt(a, c[1]) /\ ~(Stood(a, e) /\ c \in made'[TxOf(a)].inputs)
      BY <1>4, <1>5, <3>2, <3>3 DEF Stood
    <3>5. \A a \in 1..s : ~ BlockAt(a, c[1])
      BY <1>4, <3>2
    <3>6. QED  BY <1>2, <3>1, <3>4, <3>5 DEF MarkRight
  <2>3. QED  BY <2>1, <2>2
<1>11. QED  BY <1>6, <1>7, <1>8, <1>9, <1>10 DEF MarksInv

LEMMA MarksQueued ==
  ASSUME IInv, NEW event \in Events, Logs(event), db' = db, Seen' = Seen, Seen \in Nat,
         NEW s \in 0..Len(log), NEW e \in 0..Len(log), MarksInv(s, e)
  PROVE  MarksInv(s, e)'
<1>1. PICK L : L = Len(log)
  OBVIOUS
<1>2. /\ L \in Nat /\ Len(log') = L + 1 /\ made' = made /\ \A i \in 1..L : log'[i] = log[i]
      /\ e \in Nat /\ s \in Nat /\ e <= L /\ s <= L
  BY <1>1, LogTypes, Logged DEF Grown, Logs
<1>3. /\ \A i \in 0..L : Height(i)' = Height(i) /\ AllBlocks(i)' = AllBlocks(i)
      /\ \A i \in 1..L : \A t : BlockAt(i, t)' = BlockAt(i, t)
      /\ \A a \in 1..L : \A b \in 0..L : Stands(a, b)' = Stands(a, b) /\ Stood(a, b)' = Stood(a, b)
      /\ \A a \in 1..L : Num(a)' = Num(a) /\ TxOf(a)' = TxOf(a)
      /\ \A a \in 1..L : IsBlock(log[a])' = IsBlock(log[a])
  BY <1>1, Logged, LogGrows, StoodGrows
<1>4. \A b \in 1..L : \A t : Breaks(b, t)' = Breaks(b, t)
  BY <1>2 DEF Breaks, IsBlock, CheckValidHistoricRootsBlockNumber
<1>5. /\ \A a \in 1..e : a \in 1..L
      /\ \A a \in 1..s : a \in 1..L
      /\ e \in 0..L /\ s \in 0..L
  BY <1>2
<1>6. Ahead(s, e)'
  <2>1. /\ e \in Seen..L
        /\ e = s \/ (e = s + 1 /\ IsBlock(log[e]) /\ (Seen = e \/ AllBlocks(e)))
    BY <1>1 DEF MarksInv, Ahead
  <2>2. e \in Seen..L + 1
    BY <1>2, <2>1
  <2>3. e = s + 1 => e \in 1..L
    BY <1>2
  <2>4. QED  BY <1>2, <1>3, <1>5, <2>1, <2>2, <2>3 DEF Ahead
<1>7. TreesRight(s)'
  <2>1. \A a \in 1..s : Stood(a, s)' = Stood(a, s) /\ Num(a)' = Num(a) /\ TxOf(a)' = TxOf(a)
    BY <1>3, <1>5
  <2>2. Height(s)' = Height(s)
    BY <1>3, <1>5
  <2>3. QED  BY <2>1, <2>2 DEF MarksInv, TreesRight
<1>8. /\ \A a \in 1..e : /\ Stood(a, e)' = Stood(a, e) /\ Stands(a, e)' = Stands(a, e)
                         /\ Num(a)' = Num(a) /\ TxOf(a)' = TxOf(a)
                         /\ \A t : BlockAt(a, t)' = BlockAt(a, t)
                         /\ \A t : Breaks(a, t)' = Breaks(a, t)
  BY <1>3, <1>4, <1>5
<1>9. BlocksRight(e)'
  BY <1>8 DEF MarksInv, BlocksRight
<1>10. HeldRight(e)'
  <2>1. \A b \in 1..e : \A a \in 1..b - 1 : a \in 1..e
    BY <1>2
  <2>2. \A t \in DOMAIN made : OursOf(t)' = OursOf(t)
    BY <1>2 DEF OursOf
  <2>3. QED  BY <1>2, <1>8, <2>1, <2>2 DEF MarksInv, HeldRight
<1>11. ASSUME NEW c \in DOMAIN db.commitments PROVE MarkRight(c, s, e)'
  <2>1. MarkRight(c, s, e)
    BY <1>11 DEF MarksInv
  <2>2. \A a \in 1..s : /\ \A t : BlockAt(a, t)' = BlockAt(a, t)
                        /\ Stands(a, e)' = Stands(a, e) /\ Num(a)' = Num(a)
    BY <1>3, <1>5
  <2>3. QED  BY <1>2, <1>8, <2>1, <2>2 DEF MarkRight
<1>12. QED  BY <1>6, <1>7, <1>9, <1>10, <1>11 DEF MarksInv

(* What the log says stays the same when it does.                          *)
LEMMA SameLog ==
  ASSUME log' = log, made' = made
  PROVE  /\ \A a : TxOf(a)' = TxOf(a) /\ Num(a)' = Num(a) /\ IsBlock(log[a])' = IsBlock(log[a])
         /\ \A a, x : Stands(a, x)' = Stands(a, x) /\ Stood(a, x)' = Stood(a, x)
         /\ \A a, t : BlockAt(a, t)' = BlockAt(a, t) /\ Breaks(a, t)' = Breaks(a, t)
         /\ \A a : AllBlocks(a)' = AllBlocks(a) /\ Height(a)' = Height(a)
         /\ \A t : OursOf(t)' = OursOf(t)
BY DEF TxOf, Num, Stands, Stood, IsBlock, BlockAt, AllBlocks, Height, Breaks,
       CheckValidHistoricRootsBlockNumber, OursOf

LEMMA ToldOnce ==
  ASSUME IInv, PlacesInv, NEW e \in 1..Len(log), NEW a \in 1..e, NEW b \in 1..e,
         Stands(a, e), Stands(b, e), NEW t, BlockAt(a, t), BlockAt(b, t)
  PROVE  a = b
<1>1. Stood(a, e) /\ Stood(b, e) /\ TxOf(a) = t /\ TxOf(b) = t
  BY DEF BlockAt, Stood, TxOf
<1>2. QED  BY <1>1 DEF PlacesInv, OnceEach

LEMMA SpentFrom ==
  ASSUME IInv, SpendsLater, NEW e \in 1..Len(log), NEW a \in 1..e, Stood(a, e),
         NEW c \in made[TxOf(a)].inputs
  PROVE  \E b \in 1..a - 1 : BlockAt(b, c[1]) /\ Stands(b, e)
<1>1. Len(log) \in Nat /\ e \in Nat /\ a \in Nat /\ a \in 1..Len(log) /\ IsBlock(log[a])
  BY LogTypes DEF Stood
<1>2. PICK b \in 1..a - 1 : BlockAt(b, c[1]) /\ Stands(b, a) /\ Num(b) < Num(a)
  BY <1>1 DEF SpendsLater
<1>3. b \in 1..Len(log) /\ \A k \in b + 1..e : k \in b + 1..a \/ (k \in a + 1..e /\ k \in 1..Len(log))
  BY <1>1
<1>4. Num(b) \in Nat /\ Num(a) \in Nat
  BY <1>1, <1>2, <1>3, LogTypes DEF Num, BlockAt
<1>5. ASSUME NEW k \in b + 1..e, ~ IsBlock(log[k]) PROVE Num(b) < log[k].n
  <2>1. CASE k \in b + 1..a
    BY <1>2, <1>5, <2>1 DEF Stands, Num
  <2>2. CASE k \in a + 1..e /\ k \in 1..Len(log)
    <3>1. Num(a) < log[k].n /\ log[k].n \in Nat
      BY <1>5, <2>2, LogTypes DEF Stood, Stands, Num
    <3>2. QED  BY <1>2, <1>4, <3>1
  <2>3. QED  BY <1>3, <2>1, <2>2
<1>6. QED  BY <1>2, <1>5 DEF Stands, Num

(* The first part of a block.                                              *)
LEMMA BlockHeld ==
  ASSUME IInv, PlacesInv, log' = log, made' = made, NEW i \in 1..Len(log), IsBlock(log[i]),
         BlockPlaced(db, db', log[i].block), MadeInv, log[i].block.tx \in DOMAIN made,
         NEW e \in i - 1..Len(log), HeldRight(e), NEW f \in i..Len(log), f = e \/ (e = i - 1 /\ f = i)
  PROVE  HeldRight(f)'
<1>1. PICK tx : tx = log[i].block.tx
  OBVIOUS
<1>2. BlockAt(i, tx) /\ \A a : BlockAt(a, tx) \/ a # i
  BY <1>1 DEF BlockAt
<1>3. i \in Nat /\ e \in Nat /\ f \in Nat /\ Len(log) \in Nat
  BY LogTypes
<1> SUFFICES ASSUME NEW t \in DOMAIN made
             PROVE  OursOf(t) \subseteq DOMAIN db'.commitments \/
                      IF made[t].kind \in Foreign
                      THEN \A a \in 1..f : BlockAt(a, t) => ~ Stands(a, f)
                      ELSE \E b \in 1..f : \E a \in 1..b - 1 : BlockAt(a, t) /\ Breaks(b, t)
  BY SameLog DEF HeldRight
<1>4. OursOf(t) \subseteq DOMAIN db.commitments \/
        IF made[t].kind \in Foreign
        THEN \A a \in 1..e : BlockAt(a, t) => ~ Stands(a, e)
        ELSE \E b \in 1..e : \E a \in 1..b - 1 : BlockAt(a, t) /\ Breaks(b, t)
  BY DEF HeldRight
<1>5. CASE OursOf(t) \subseteq DOMAIN db.commitments
  BY <1>5 DEF BlockPlaced
<1>6. CASE made[t].kind \notin Foreign
  <2>1. 1..e \subseteq 1..f
    BY <1>3
  <2>2. QED  BY <1>4, <1>5, <1>6, <2>1
<1>7. CASE made[t].kind \in Foreign /\ t # tx
  <2> SUFFICES ASSUME \A a \in 1..e : BlockAt(a, t) => ~ Stands(a, e),
                      NEW a \in 1..f, BlockAt(a, t), Stands(a, f)
               PROVE  FALSE
    BY <1>4, <1>5, <1>7
  <2>1. a # i
    BY <1>1, <1>7 DEF BlockAt
  <2>2. a \in 1..e /\ a \in Nat /\ e <= f
    BY <1>3, <2>1
  <2>3. Stands(a, e)
    BY <1>3, <2>2, StandsBefore
  <2>4. QED  BY <2>2, <2>3
<1>8. CASE made[t].kind \in Foreign /\ t = tx
  <2>1. DOMAIN made[t].outs = {1}
    BY <1>8 DEF MadeInv
  <2>2. HasSecrets(t) /\ made[t].outs # <<>>
    <3>0. \A x \in Seq(BOOLEAN) : x = <<>> => 1 \notin DOMAIN x
      <4>1. \A x \in Seq(BOOLEAN) : DOMAIN x = 1..Len(x) /\ (x = <<>> => Len(x) = 0)
        OBVIOUS
      <4>2. QED  BY <4>1
    <3>1. made[t].outs \in Seq(BOOLEAN)
      BY DEF IInv, Types, ChainTypes, MadeTypes
    <3>2. QED  BY <1>8, <2>1, <3>0, <3>1 DEF HasSecrets
  <2>3. OursOf(t) \subseteq {<<t, 1>>} /\ (<<t, 1>> \in OursOf(t) => made[t].outs[1])
    BY <2>1 DEF OursOf
  <2>4. CASE <<t, 1>> \in DOMAIN db.commitments
    BY <1>5, <2>3, <2>4
  <2>5. CASE <<t, 1>> \notin DOMAIN db.commitments /\ made[t].outs[1]
    <3>1. Decrypts(db, t)
      BY <2>2, <2>5 DEF Decrypts
    <3>2. QED  BY <1>1, <1>8, <2>3, <3>1 DEF BlockPlaced
  <2>6. CASE ~ made[t].outs[1]
    <3>1. OursOf(t) = {}
      BY <2>3, <2>6
    <3>2. QED  BY <3>1
  <2>7. QED  BY <2>4, <2>5, <2>6
<1>9. QED  BY <1>6, <1>7, <1>8

LEMMA BlockBlocks ==
  ASSUME IInv, log' = log, made' = made, NEW i \in 1..Len(log), IsBlock(log[i]),
         NEW e \in i - 1..Len(log), BlocksRight(e),
         NEW f \in i..Len(log), (f = e /\ AllBlocks(e)) \/ (e = i - 1 /\ f = i),
         db'.blocks = db.blocks \/ BlockKept(db, db', log[i].block.n, log[i].block.tx)
  PROVE  BlocksRight(f)'
<1>1. i \in Nat /\ e \in Nat /\ f \in Nat /\ Len(log) \in Nat /\ 1..e \subseteq 1..f /\ i \in 1..f
      /\ e <= f
  BY LogTypes
<1>2. ASSUME NEW a \in 1..e, Stands(a, e) PROVE Stands(a, f)
  <2>1. CASE e = f
    BY <1>2, <2>1
  <2>2. CASE e = i - 1 /\ f = i
    <3>1. f = e + 1 /\ a \in Nat /\ a <= e /\ e \in Nat
      BY <1>1, <2>2
    <3>2. IsBlock(log[e + 1])
      BY <2>2, <3>1
    <3>3. Stands(a, e + 1)
      BY <1>2, <3>1, <3>2, StandsOn
    <3>4. QED  BY <3>1, <3>3
  <2>3. QED  BY <2>1, <2>2
<1>3. Stands(i, f)
  <2>1. CASE f = e /\ AllBlocks(e)
    <3>1. \A k \in i + 1..e : k \in 1..e
      BY <1>1
    <3>2. QED  BY <2>1, <3>1 DEF AllBlocks, Stands
  <2>2. CASE f = i
    BY <1>1, <2>2, StandsAtOnce
  <2>3. QED  BY <2>1, <2>2
<1> SUFFICES ASSUME NEW n \in DOMAIN db'.blocks
             PROVE  \E a \in 1..f : BlockAt(a, db'.blocks[n]) /\ Stands(a, f) /\ Num(a) = n
  BY SameLog DEF BlocksRight
<1>4. CASE n \in DOMAIN db.blocks /\ db'.blocks[n] = db.blocks[n]
  <2>1. PICK a \in 1..e : BlockAt(a, db.blocks[n]) /\ Stands(a, e) /\ Num(a) = n
    BY <1>4 DEF BlocksRight
  <2>2. QED  BY <1>1, <1>2, <1>4, <2>1
<1>5. CASE n = log[i].block.n /\ db'.blocks[n] = log[i].block.tx
  <2>1. BlockAt(i, db'.blocks[n]) /\ Num(i) = n
    BY <1>5 DEF BlockAt, Num
  <2>2. QED  BY <1>1, <1>3, <2>1
<1>6. QED  BY <1>4, <1>5 DEF BlockKept

(* The marks of one commitment, when the block is new to the client ...    *)
LEMMA BlockMarks ==
  ASSUME IInv, ChainInv, PlacesInv, SpendsLater, log' = log, made' = made,
         NEW i \in 1..Len(log), IsBlock(log[i]), BlockPlaced(db, db', log[i].block),
         db'.trees = db.trees, \A c \in DOMAIN db.commitments : MarkRight(c, i - 1, i - 1),
         NEW c \in DOMAIN db'.commitments, c \in OursOf(c[1])
  PROVE  MarkRight(c, i - 1, i)'
<1> DEFINE tx == log[i].block.tx
           q == db'.commitments[c]
<1>1. /\ i \in Nat /\ i - 1 \in Nat /\ Len(log) \in Nat /\ i \in 1..i /\ IsBlock(log[(i - 1) + 1])
      /\ \A a \in 1..i : a \in Nat /\ (a = i \/ (a \in 1..i - 1 /\ a <= i - 1))
      /\ 1..i - 1 \subseteq 1..i /\ (i - 1) + 1 = i /\ i - 1 <= i
  BY LogTypes
<1>2. \A a \in 1..i - 1 : Stands(a, i - 1) <=> Stands(a, i)
  BY <1>1, StandsBefore, StandsOn
<1>3. \A a \in 1..i - 1 : Stood(a, i - 1) <=> Stood(a, i)
  BY <1>2 DEF Stood
<1>4. Stands(i, i) /\ Stood(i, i) /\ BlockAt(i, tx) /\ TxOf(i) = tx /\ Num(i) = log[i].block.n
  BY <1>1, StandsAtOnce DEF Stood, BlockAt, TxOf, Num
<1>5. \A a \in 1..i : BlockAt(a, tx) /\ Stands(a, i) => a = i
  BY <1>4, ToldOnce
<1>6. \A a \in 1..i : BlockAt(a, c[1]) /\ a = i => c[1] = tx
  BY DEF BlockAt
<1>7. \A a \in 1..i : Stood(a, i) => Num(a) \in Nat
  BY <1>1, LogTypes DEF Stood, Num
<1>8. \A a \in 1..i : BlockAt(a, c[1]) => Num(a) \in Nat
  BY <1>1, LogTypes DEF BlockAt, Num
<1>9. c \in Commitments(tx) <=> c[1] = tx
  BY DEF OursOf, Commitments
<1> SUFFICES
      /\ \A a \in 1..i : BlockAt(a, c[1]) /\ Stands(a, i) => q.onChain = Num(a)
      /\ q.onChain # -1 => \E a \in 1..i : BlockAt(a, c[1]) /\ Stands(a, i)
      /\ \A a \in 1..i : Stood(a, i) /\ c \in made[TxOf(a)].inputs => q.nullifiedOnChain = Num(a)
      /\ q.nullifiedOnChain # -1 => \E a \in 1..i : Stood(a, i) /\ c \in made[TxOf(a)].inputs
      /\ \A a \in 1..i - 1 : BlockAt(a, c[1]) /\ Stands(a, i) => q.root = db.trees[Num(a) + 1].tree
  BY SameLog DEF MarkRight
<1>10. CASE c \in DOMAIN db.commitments
  <2> DEFINE m == db.commitments[c]
  <2>1. /\ q.onChain = (IF c[1] = tx /\ m.onChain = -1 THEN Num(i) ELSE m.onChain)
        /\ q.nullifiedOnChain = (IF c \in made[tx].inputs /\ m.nullifiedOnChain = -1 THEN Num(i)
                                 ELSE m.nullifiedOnChain)
        /\ q.root = m.root
    BY <1>4, <1>9, <1>10 DEF BlockPlaced
  <2>2. /\ \A a \in 1..i - 1 : BlockAt(a, c[1]) /\ Stands(a, i) => m.onChain = Num(a)
        /\ m.onChain # -1 => \E a \in 1..i - 1 : BlockAt(a, c[1]) /\ Stands(a, i)
        /\ \A a \in 1..i - 1 : Stood(a, i) /\ c \in made[TxOf(a)].inputs => m.nullifiedOnChain = Num(a)
        /\ m.nullifiedOnChain # -1 => \E a \in 1..i - 1 : Stood(a, i) /\ c \in made[TxOf(a)].inputs
        /\ \A a \in 1..i - 1 : BlockAt(a, c[1]) /\ Stands(a, i) => m.root = db.trees[Num(a) + 1].tree
    BY <1>2, <1>3, <1>10 DEF MarkRight
  <2> HIDE DEF m, q
  <2>3. c[1] = tx => m.onChain = -1
    BY <1>1, <1>5, <2>2
  <2>4. c \in made[tx].inputs => m.nullifiedOnChain = -1
    <3>1. \A a \in 1..i - 1 : Stood(a, i) => made[TxOf(a)].inputs \cap made[TxOf(i)].inputs = {}
      BY <1>1, <1>4 DEF PlacesInv, OnceEach
    <3>2. QED  BY <1>4, <2>2, <3>1
  <2>5. \A a \in 1..i : BlockAt(a, c[1]) /\ Stands(a, i) => q.onChain = Num(a)
    <3> SUFFICES ASSUME NEW a \in 1..i, BlockAt(a, c[1]), Stands(a, i) PROVE q.onChain = Num(a)
      OBVIOUS
    <3>1. CASE a = i
      BY <1>6, <2>1, <2>3, <3>1
    <3>2. CASE a \in 1..i - 1
      <4>1. m.onChain = Num(a) /\ Num(a) # -1
        BY <1>8, <2>2, <3>2
      <4>2. QED  BY <2>1, <4>1
    <3>3. QED  BY <1>1, <3>1, <3>2
  <2>6. ASSUME q.onChain # -1 PROVE \E a \in 1..i : BlockAt(a, c[1]) /\ Stands(a, i)
    <3>1. CASE c[1] = tx
      BY <1>1, <1>4, <3>1
    <3>2. CASE c[1] # tx
      BY <1>1, <2>1, <2>2, <2>6, <3>2
    <3>3. QED  BY <3>1, <3>2
  <2>7. \A a \in 1..i : Stood(a, i) /\ c \in made[TxOf(a)].inputs => q.nullifiedOnChain = Num(a)
    <3> SUFFICES ASSUME NEW a \in 1..i, Stood(a, i), c \in made[TxOf(a)].inputs
                 PROVE  q.nullifiedOnChain = Num(a)
      OBVIOUS
    <3>1. CASE a = i
      BY <1>4, <2>1, <2>4, <3>1
    <3>2. CASE a \in 1..i - 1
      <4>1. m.nullifiedOnChain = Num(a) /\ Num(a) # -1
        BY <1>7, <2>2, <3>2
      <4>2. QED  BY <2>1, <4>1
    <3>3. QED  BY <1>1, <3>1, <3>2
  <2>8. ASSUME q.nullifiedOnChain # -1
        PROVE  \E a \in 1..i : Stood(a, i) /\ c \in made[TxOf(a)].inputs
    <3>1. CASE c \in made[tx].inputs
      BY <1>1, <1>4, <3>1
    <3>2. CASE c \notin made[tx].inputs
      BY <1>1, <2>1, <2>2, <2>8, <3>2
    <3>3. QED  BY <3>1, <3>2
  <2>9. \A a \in 1..i - 1 : BlockAt(a, c[1]) /\ Stands(a, i) => q.root = db.trees[Num(a) + 1].tree
    BY <2>1, <2>2
  <2>10. QED  BY <2>5, <2>6, <2>7, <2>8, <2>9
<1>11. CASE c \notin DOMAIN db.commitments
  <2>1. c[1] = tx /\ q.onChain = Num(i) /\ q.nullifiedOnChain = -1
    <3>1. c = <<tx, 1>> /\ q.onChain = log[i].block.n /\ q.nullifiedOnChain = -1
      BY <1>11 DEF BlockPlaced
    <3>2. QED  BY <1>4, <3>1
  <2> HIDE DEF q
  <2>2. \A a \in 1..i : ~(Stood(a, i) /\ c \in made[TxOf(a)].inputs)
    <3> SUFFICES ASSUME NEW a \in 1..i, Stood(a, i), c \in made[TxOf(a)].inputs PROVE FALSE
      OBVIOUS
    <3>1. PICK k \in 1..a - 1 : BlockAt(k, c[1]) /\ Stands(k, i)
      BY SpentFrom
    <3>2. k \in 1..i /\ k # i
      BY <1>1, <3>1
    <3>3. QED  BY <1>5, <2>1, <3>1, <3>2
  <2>3. \A a \in 1..i - 1 : ~(BlockAt(a, c[1]) /\ Stands(a, i))
    <3>1. \A a \in 1..i - 1 : a \in 1..i /\ a # i
      BY <1>1
    <3>2. QED  BY <1>5, <2>1, <3>1
  <2>4. QED  BY <1>1, <1>4, <1>5, <2>1, <2>2, <2>3
<1>12. QED  BY <1>10, <1>11

(* ... and when it is replayed: the marks are there.                       *)
LEMMA MarksAgain ==
  ASSUME IInv, ChainInv, log' = log, made' = made,
         NEW s \in 0..Len(log), NEW e \in 1..Len(log), NEW i \in 1..e, AllBlocks(e), HeldRight(e),
         BlockPlaced(db, db', log[i].block), db'.trees = db.trees,
         \A c \in DOMAIN db.commitments : MarkRight(c, s, e),
         NEW c \in DOMAIN db'.commitments, c \in OursOf(c[1])
  PROVE  MarkRight(c, s, e)'
<1> DEFINE tx == log[i].block.tx
           q == db'.commitments[c]
           m == db.commitments[c]
<1>1. i \in 1..Len(log) /\ \A k \in i + 1..e : k \in 1..e
  BY LogTypes
<1>2. Stood(i, e) /\ BlockAt(i, tx) /\ TxOf(i) = tx /\ Num(i) = log[i].block.n /\ Num(i) \in Nat
      /\ tx \in DOMAIN made
  BY <1>1, LogTypes DEF Stood, Stands, AllBlocks, BlockAt, TxOf, Num
<1>3. c \in Commitments(tx) <=> c[1] = tx
  BY DEF OursOf, Commitments
<1>4. CASE c \in DOMAIN db.commitments
  <2>1. MarkRight(c, s, e)
    BY <1>4
  <2>2. (c[1] = tx => m.onChain = Num(i)) /\ (c \in made[tx].inputs => m.nullifiedOnChain = Num(i))
    BY <1>2, <2>1 DEF MarkRight, Stood
  <2>3. q.onChain = m.onChain /\ q.nullifiedOnChain = m.nullifiedOnChain /\ q.root = m.root
    BY <1>2, <1>3, <1>4, <2>2 DEF BlockPlaced
  <2>4. QED  BY <2>1, <2>3, SameLog DEF MarkRight
<1>5. CASE c \notin DOMAIN db.commitments
  <2>1. c = <<tx, 1>> /\ made[tx].kind \in Foreign
    BY <1>5 DEF BlockPlaced
  <2>2. c \in OursOf(tx)
    BY <2>1
  <2>3. \A a \in 1..e : BlockAt(a, tx) => ~ Stands(a, e)
    BY <1>2, <1>5, <2>1, <2>2 DEF HeldRight
  <2>4. QED  BY <1>2, <2>3 DEF Stood
<1>6. QED  BY <1>4, <1>5

LEMMA MarksOfBlock ==
  ASSUME IInv, ChainInv, PlacesInv, SpendsLater, log' = log, made' = made,
         NEW i \in 1..Len(log), IsBlock(log[i]), Seen = i - 1, Seen' = i,
         NEW s \in i - 1..Len(log), s = i - 1 \/ AllBlocks(s), NEW e \in 0..Len(log), MarksInv(s, e),
         BlockPlaced(db, db', log[i].block), BlockMarked(db, db', log[i].block.n, log[i].block.tx, i),
         \A c \in DOMAIN db'.commitments : c \in OursOf(c[1])
  PROVE  \E f \in 0..Len(log) : MarksInv(s, f)'
<1>1. /\ i \in Nat /\ i - 1 \in Nat /\ Len(log) \in Nat /\ e \in Nat /\ s \in Nat
      /\ log[i].block.tx \in DOMAIN made
  BY LogTypes
<1>2. e \in i - 1..Len(log) /\ (e = s \/ (e = s + 1 /\ IsBlock(log[e]) /\ (i - 1 = e \/ AllBlocks(e))))
  BY DEF MarksInv, Ahead
<1>3. /\ TreesRight(s) /\ BlocksRight(e) /\ HeldRight(e)
      /\ \A c \in DOMAIN db.commitments : MarkRight(c, s, e)
  BY DEF MarksInv
<1>4. /\ db'.trees = db.trees /\ MadeInv
      /\ db'.blocks = db.blocks \/ BlockKept(db, db', log[i].block.n, log[i].block.tx)
  BY DEF BlockMarked, ChainInv
<1>5. TreesRight(s)'
  BY <1>3, <1>4, SameLog DEF TreesRight
<1>6. CASE e = i - 1
  <2>1. s = i - 1 /\ i \in i..Len(log)
    BY <1>1, <1>2, <1>6
  <2>2. BlocksRight(i)' /\ HeldRight(i)'
    BY <1>1, <1>2, <1>3, <1>4, <1>6, <2>1, BlockBlocks, BlockHeld
  <2>3. \A c \in DOMAIN db.commitments : MarkRight(c, i - 1, i - 1)
    BY <1>3, <1>6, <2>1
  <2>4. \A c \in DOMAIN db'.commitments : MarkRight(c, s, i)'
    BY <1>4, <2>1, <2>3, BlockMarks
  <2>5. Ahead(s, i)'
    <3>1. i \in i..Len(log) /\ i = s + 1
      BY <1>1, <2>1
    <3>2. QED  BY <3>1 DEF Ahead, IsBlock
  <2>6. i \in 0..Len(log)
    BY <1>1
  <2>7. QED  BY <1>5, <2>2, <2>4, <2>5, <2>6 DEF MarksInv
<1>7. CASE e # i - 1
  <2>1. e \in i..Len(log) /\ i \in 1..e /\ e \in 1..Len(log)
    BY <1>1, <1>2, <1>7
  <2>2. AllBlocks(e)
    BY <1>1, <1>2, <1>7
  <2>3. BlocksRight(e)' /\ HeldRight(e)'
    BY <1>1, <1>2, <1>3, <1>4, <2>1, <2>2, BlockBlocks, BlockHeld
  <2>s. s \in 0..Len(log)
    BY <1>1
  <2>4. \A c \in DOMAIN db'.commitments : MarkRight(c, s, e)'
    BY <1>3, <1>4, <2>1, <2>2, <2>s, MarksAgain
  <2>5. Ahead(s, e)'
    <3>1. e = s \/ (e = s + 1 /\ IsBlock(log[e]))
      BY <1>2
    <3>2. QED  BY <2>1, <2>2, <3>1, SameLog DEF Ahead
  <2>6. QED  BY <1>5, <2>3, <2>4, <2>5 DEF MarksInv
<1>8. QED  BY <1>6, <1>7

(* What storing the tree of block b does to the trees and the roots.       *)
FinishPlaced(d, e, b, H) ==
  /\ Retained(d, e)
  /\ \A c \in DOMAIN d.commitments :
       /\ e.commitments[c].onChain = d.commitments[c].onChain
       /\ e.commitments[c].nullifiedOnChain = d.commitments[c].nullifiedOnChain
       /\ \/ e.commitments[c].root = d.commitments[c].root
          \/ c \in Commitments(b.tx) /\ e.commitments[c].root = NewTree(d, b)
  /\ TreeKnown(d, b.l1) => e.trees = d.trees
  /\ ~ TreeKnown(d, b.l1) =>
       /\ TreeAdded(d, e, b, H) /\ e.trees[H + 1].tree = NewTree(d, b)
       /\ \A c \in DOMAIN d.commitments :
            c \in Commitments(b.tx) /\ d.commitments[c].onChain # -1 =>
              e.commitments[c].root = NewTree(d, b)

LEMMA FinishesBlock ==
  ASSUME IInv, NEW s \in 0..Len(log), TreesInv(s), NEW b, NEW syncing,
         db' = FinishBlock(db, b, syncing)
  PROVE  FinishPlaced(db, db', b, Height(s))
<1>1. PICK H \in Nat : H = Height(s)
  BY LogTypes
<1>2. IsDB(db) /\ db.trees = First(db.trees, H)
  BY <1>1 DEF IInv, Types, DBTypes, TreesInv, First
<1>3. /\ Retained(db, db')
      /\ TreeKnown(db, b.l1) => db'.trees = db.trees
      /\ ~ TreeKnown(db, b.l1) => TreeAdded(db, db', b, H)
  BY <1>2, FinishBlockEffect
<1>4. /\ \A c \in DOMAIN db.commitments :
           /\ db'.commitments[c].onChain = db.commitments[c].onChain
           /\ db'.commitments[c].nullifiedOnChain = db.commitments[c].nullifiedOnChain
           /\ \/ db'.commitments[c].root = db.commitments[c].root
              \/ c \in Commitments(b.tx) /\ db'.commitments[c].root = NewTree(db, b)
      /\ ~ TreeKnown(db, b.l1) =>
           /\ db'.trees[H + 1].tree = NewTree(db, b)
           /\ \A c \in DOMAIN db.commitments :
                c \in Commitments(b.tx) /\ db.commitments[c].onChain # -1 =>
                  db'.commitments[c].root = NewTree(db, b)
  BY <1>2, FinishBlockMarks
<1>5. QED  BY <1>1, <1>3, <1>4 DEF FinishPlaced

(* The tree of the block under way, and that it ends with its transaction. *)
LEMMA TreeOfBlock ==
  ASSUME IInv, ChainInv, NEW i \in 1..Len(log), IsBlock(log[i]), NEW s \in i - 1..Len(log),
         TreesInv(s), s = i - 1 \/ AllBlocks(s), TreesRight(s)
  PROVE  LET b == log[i].block
             n == log[i].block.n IN
         /\ NewTree(db, b) = [j \in 1..n + 1 |-> IF j = n + 1 THEN b.tx ELSE db.trees[n].tree[j]]
         /\ EndsWith(NewTree(db, b), b.tx)
         /\ n \in Nat /\ n = Height(i - 1) /\ b.l1 = i /\ n + 1 = Height(i) /\ n <= Height(s)
<1> DEFINE b == log[i].block
<1>1. PICK n : n = log[i].block.n
  OBVIOUS
<1>2. i \in Nat /\ s \in Nat /\ Len(log) \in Nat /\ s \in 0..Len(log)
  BY LogTypes
<1>3. PICK H \in Nat : H = Height(s)
  BY <1>2, LogTypes
<1>4. n \in Nat /\ n = Height(i - 1) /\ b.l1 = i /\ n + 1 = Height(i) /\ n <= H
  <2>1. n \in Nat /\ n = Height(i - 1) /\ b.l1 = i /\ n + 1 = Height(i)
    BY <1>1, InOrder, LogTypes
  <2>2. CASE s = i - 1
    BY <1>3, <2>1, <2>2
  <2>3. CASE s # i - 1
    <3>1. s \in i..Len(log) /\ AllBlocks(s)
      BY <1>2, <2>3
    <3>2. n < H
      BY <1>1, <1>3, <3>1, InOrder
    <3>3. QED  BY <1>3, <2>1, <3>2
  <2>4. QED  BY <2>1, <2>2, <2>3
<1>5. /\ db.trees = First(db.trees, H)
      /\ \A k \in 1..H : /\ db.trees[k].n = k - 1
                         /\ db.trees[k].tree = [j \in 1..k |-> db.trees[k].tree[j]]
  BY <1>3 DEF TreesInv, First, TreesRight
<1>6. b.n = n /\ b.n \in 0..H
  BY <1>1, <1>3, <1>4
<1> HIDE DEF b
<1>7. NewTree(db, b) = [j \in 1..n + 1 |-> IF j = n + 1 THEN b.tx ELSE db.trees[n].tree[j]]
  <2>1. InPlace(db, H)
    BY <1>5 DEF InPlace
  <2>2. NewTree(db, b) = [j \in 1..b.n + 1 |-> IF j = b.n + 1 THEN b.tx ELSE db.trees[b.n].tree[j]]
    BY <1>6, <2>1, NewTreeIs
  <2>3. QED  BY <1>6, <2>2
<1>8. EndsWith(NewTree(db, b), b.tx)
  <2> DEFINE f == [j \in 1..n + 1 |-> IF j = n + 1 THEN b.tx ELSE db.trees[n].tree[j]]
             S == {f[j] : j \in 1..n + 1}
  <2>1. f[n + 1] = b.tx /\ n + 1 \in 1..n + 1 /\ DOMAIN f = 1..n + 1 /\ n + 1 \in Nat
    BY <1>4
  <2>2. f \in [1..n + 1 -> S]
    OBVIOUS
  <2> HIDE DEF f, S
  <2>3. Len(f) = n + 1
    BY <2>1, <2>2
  <2>4. QED  BY <1>7, <2>1, <2>3 DEF EndsWith, f
<1>9. QED  BY <1>1, <1>3, <1>4, <1>7, <1>8 DEF b

(* A tree that was not known ...                                           *)
LEMMA MarksOfTree ==
  ASSUME IInv, ChainInv, PlacesInv, log' = log, made' = made,
         NEW i \in 1..Len(log), IsBlock(log[i]), Seen = i, Seen' = i,
         TreesInv(i - 1), NEW e \in 0..Len(log), MarksInv(i - 1, e),
         FinishPlaced(db, db', log[i].block, Height(i - 1))
  PROVE  MarksInv(i, i)'
<1> DEFINE b == log[i].block
<1>1. PICK n : n = log[i].block.n
  OBVIOUS
<1>2. /\ i \in Nat /\ Len(log) \in Nat /\ i - 1 \in 0..Len(log) /\ i - 1 \in i - 1..Len(log)
      /\ i \in 1..i /\ i \in 0..Len(log) /\ i - 1 # i /\ i - 1 + 1 = i
      /\ \A a \in 1..i : a \in Nat /\ (a = i \/ (a \in 1..i - 1 /\ a <= i - 1))
      /\ 1..i - 1 \subseteq 1..i /\ i - 1 <= i /\ i - 1 \in Nat
  BY LogTypes
<1>3. e = i
  BY <1>2 DEF MarksInv, Ahead
<1>4. /\ TreesRight(i - 1) /\ BlocksRight(i) /\ HeldRight(i)
      /\ \A c \in DOMAIN db.commitments : MarkRight(c, i - 1, i)
  BY <1>3 DEF MarksInv
<1>5. /\ NewTree(db, b) = [j \in 1..n + 1 |-> IF j = n + 1 THEN b.tx ELSE db.trees[n].tree[j]]
      /\ n \in Nat /\ n = Height(i - 1) /\ b.l1 = i /\ n + 1 = Height(i)
  BY <1>1, <1>2, <1>4, TreeOfBlock
<1>6. ~ TreeKnown(db, b.l1)
  <2>1. \A k \in 1..n : db.trees[k].l1 \in 1..i - 1
    BY <1>5 DEF TreesInv
  <2>2. DOMAIN db.trees = 1..n
    <3>1. db.trees = First(db.trees, n)
      BY <1>5 DEF TreesInv, First
    <3>2. QED  BY <1>5, <3>1, FirstOnes
  <2>3. QED  BY <1>2, <1>5, <2>1, <2>2 DEF TreeKnown
<1>7. /\ \A k \in 1..n : db'.trees[k] = db.trees[k]
      /\ db'.trees[n + 1].tree = NewTree(db, b)
      /\ \A c \in DOMAIN db.commitments :
           c \in Commitments(b.tx) /\ db.commitments[c].onChain # -1 =>
             db'.commitments[c].root = NewTree(db, b)
  BY <1>5, <1>6 DEF FinishPlaced, TreeAdded
<1>8. \A a \in 1..i - 1 : Stands(a, i - 1) <=> Stands(a, i)
  BY <1>2, StandsBefore, StandsOn
<1>9. /\ Stands(i, i) /\ Stood(i, i) /\ BlockAt(i, b.tx) /\ Num(i) = n /\ TxOf(i) = b.tx
  BY <1>1, <1>2, StandsAtOnce DEF Stood, BlockAt, Num, TxOf
<1>10. \A a \in 1..i - 1 : Stood(a, i) => Num(a) \in Nat /\ Num(a) < n
  <2>1. \A a \in 1..i - 1 : a \in 1..i /\ a < i
    BY <1>2
  <2>2. QED  BY <1>9, <2>1, NumbersDiffer
<1>11. TreesRight(i)'
  <2> SUFFICES ASSUME NEW k \in 1..n + 1
               PROVE  /\ db'.trees[k].tree = [j \in 1..k |-> db'.trees[k].tree[j]]
                      /\ \A a \in 1..i : Stood(a, i) /\ Num(a) < k =>
                           db'.trees[k].tree[Num(a) + 1] = TxOf(a)
    <3>1. Height(i)' = n + 1
      BY <1>5, SameLog
    <3>2. \A a \in 1..i : Stood(a, i)' = Stood(a, i) /\ Num(a)' = Num(a) /\ TxOf(a)' = TxOf(a)
      BY SameLog
    <3>3. QED  BY <3>1, <3>2 DEF TreesRight
  <2>1. CASE k \in 1..n
    <3>1. /\ db.trees[k].tree = [j \in 1..k |-> db.trees[k].tree[j]]
          /\ \A a \in 1..i - 1 : Stood(a, i - 1) /\ Num(a) < k =>
               db.trees[k].tree[Num(a) + 1] = TxOf(a)
      BY <1>4, <1>5, <2>1 DEF TreesRight
    <3>2. ~(Num(i) < k)
      BY <1>5, <1>9, <2>1
    <3>3. \A a \in 1..i : Stood(a, i) /\ Num(a) < k => a \in 1..i - 1 /\ Stood(a, i - 1)
      BY <1>2, <1>8, <3>2 DEF Stood
    <3>4. db'.trees[k] = db.trees[k]
      BY <1>7, <2>1
    <3>5. QED  BY <3>1, <3>3, <3>4
  <2>2. CASE k = n + 1
    <3> DEFINE T == db'.trees[k].tree
    <3>1. T = [j \in 1..k |-> IF j = k THEN b.tx ELSE db.trees[n].tree[j]]
      BY <1>5, <1>7, <2>2
    <3> HIDE DEF T
    <3>2. T = [j \in 1..k |-> T[j]] /\ T[n + 1] = b.tx
          /\ \A j \in 1..n : T[j] = db.trees[n].tree[j]
      BY <1>5, <2>2, <3>1
    <3>3. ASSUME NEW a \in 1..i, Stood(a, i) PROVE T[Num(a) + 1] = TxOf(a)
      <4>1. CASE a = i
        BY <1>9, <3>2, <4>1
      <4>2. CASE a \in 1..i - 1
        <5>1. Num(a) \in Nat /\ Num(a) < n /\ n \in 1..n /\ Num(a) + 1 \in 1..n
          BY <1>5, <1>10, <3>3, <4>2
        <5>2. Stood(a, i - 1)
          BY <1>8, <3>3, <4>2 DEF Stood
        <5>3. db.trees[n].tree[Num(a) + 1] = TxOf(a)
          BY <1>4, <1>5, <4>2, <5>1, <5>2 DEF TreesRight
        <5>4. QED  BY <3>2, <5>1, <5>3
      <4>3. QED  BY <1>2, <4>1, <4>2
    <3>4. QED  BY <3>2, <3>3 DEF T
  <2>3. QED  BY <1>5, <2>1, <2>2
<1>12. BlocksRight(i)' /\ HeldRight(i)'
  BY <1>4, SameLog DEF FinishPlaced, Retained, BlocksRight, HeldRight
<1>13. ASSUME NEW c \in DOMAIN db'.commitments PROVE MarkRight(c, i, i)'
  <2>1. c \in DOMAIN db.commitments /\ MarkRight(c, i - 1, i)
    BY <1>4, <1>13 DEF FinishPlaced, Retained
  <2>2. /\ db'.commitments[c].onChain = db.commitments[c].onChain
        /\ db'.commitments[c].nullifiedOnChain = db.commitments[c].nullifiedOnChain
        /\ \/ db'.commitments[c].root = db.commitments[c].root
           \/ c \in Commitments(b.tx) /\ db'.commitments[c].root = NewTree(db, b)
    BY <2>1 DEF FinishPlaced
  <2>3. ASSUME NEW a \in 1..i, BlockAt(a, c[1]), Stands(a, i)
        PROVE  db'.commitments[c].root = db'.trees[Num(a) + 1].tree
    <3>1. CASE a = i
      <4>1. c[1] = b.tx /\ c \in OursOf(c[1])
        BY <1>9, <2>1, <2>3, <3>1, TypesImpliesTypeOK DEF BlockAt, IInv, TypeOK
      <4>2. c \in Commitments(b.tx)
        BY <4>1 DEF OursOf, Commitments
      <4>3. db.commitments[c].onChain = n /\ n # -1
        BY <1>2, <1>5, <1>9, <2>1, <4>1 DEF MarkRight
      <4>4. QED  BY <1>7, <1>9, <2>1, <3>1, <4>2, <4>3
    <3>2. CASE a \in 1..i - 1
      <4>1. db.commitments[c].root = db.trees[Num(a) + 1].tree
        BY <2>1, <2>3, <3>2 DEF MarkRight
      <4>2. Num(a) + 1 \in 1..n
        <5>1. Stood(a, i)
          BY <2>3 DEF Stood, BlockAt
        <5>2. QED  BY <1>5, <1>10, <3>2, <5>1
      <4>3. c \notin Commitments(b.tx)
        <5>1. a # i /\ (c \in Commitments(b.tx) => c[1] = b.tx)
          BY <1>2, <3>2 DEF Commitments
        <5>2. QED  BY <1>2, <1>9, <2>3, <5>1, ToldOnce
      <4>4. QED  BY <1>7, <2>2, <4>1, <4>2, <4>3
    <3>3. QED  BY <1>2, <3>1, <3>2
  <2>4. QED  BY <2>1, <2>2, <2>3, SameLog DEF MarkRight
<1>14. Ahead(i, i)'
  BY <1>2 DEF Ahead
<1>15. QED  BY <1>11, <1>12, <1>13, <1>14 DEF MarksInv

(* ... and one that was, when it is replayed.                              *)
LEMMA MarksOfKnownTree ==
  ASSUME IInv, ChainInv, PlacesInv, log' = log, made' = made,
         NEW i \in 1..Len(log), IsBlock(log[i]), Seen = i, Seen' = i,
         NEW s \in i..Len(log), AllBlocks(s), TreesInv(s), NEW e \in 0..Len(log), MarksInv(s, e),
         FinishPlaced(db, db', log[i].block, Height(s))
  PROVE  MarksInv(s, e)'
<1> DEFINE b == log[i].block
<1>2. /\ i \in Nat /\ Len(log) \in Nat /\ s \in i - 1..Len(log) /\ s \in Nat /\ e \in Nat
      /\ s \in 1..Len(log) /\ i \in 1..s /\ s \in 0..Len(log) /\ i - 1 \in 0..Len(log)
  BY LogTypes
<1>3. e \in 1..Len(log) /\ AllBlocks(e) /\ i \in 1..e /\ s <= e /\ e \in i..Len(log)
  BY <1>2 DEF MarksInv, Ahead
<1>4. /\ TreesRight(s) /\ BlocksRight(e) /\ HeldRight(e)
      /\ \A c \in DOMAIN db.commitments : MarkRight(c, s, e)
  BY DEF MarksInv
<1>5. PICK n : n = log[i].block.n
  OBVIOUS
<1>6. /\ NewTree(db, b) = [j \in 1..n + 1 |-> IF j = n + 1 THEN b.tx ELSE db.trees[n].tree[j]]
      /\ n \in Nat /\ n = Height(i - 1) /\ b.l1 = i
  BY <1>2, <1>4, <1>5, TreeOfBlock
<1>7. \A j \in 1..s : Stood(j, s) /\ Num(j) = j - 1
  <2> SUFFICES ASSUME NEW j \in 1..s PROVE Stood(j, s) /\ Num(j) = j - 1
    OBVIOUS
  <2>1. j \in 1..Len(log) /\ j - 1 \in 0..Len(log) /\ \A k \in j + 1..s : k \in 1..s
    BY <1>2
  <2>2. \A k \in 1..j - 1 : k \in 1..s
    BY <1>2
  <2>3. Height(j - 1) = j - 1
    BY <2>1, <2>2 DEF PlacesInv, Steady, AllBlocks
  <2>4. IsBlock(log[j])
    BY DEF AllBlocks
  <2>5. QED  BY <2>1, <2>3, <2>4, InOrder DEF Stood, Stands, AllBlocks, Num
<1>8. n = i - 1 /\ Height(s) = s /\ db.trees[i].l1 = i
  BY <1>2, <1>5, <1>7 DEF Num, TreesInv
<1>9. db'.trees = db.trees
  <2>1. DOMAIN db.trees = 1..s
    <3>1. db.trees = First(db.trees, s)
      BY <1>8 DEF TreesInv, First
    <3>2. QED  BY <1>2, <3>1, FirstOnes
  <2>2. TreeKnown(db, b.l1)
    BY <1>2, <1>6, <1>8, <2>1 DEF TreeKnown
  <2>3. QED  BY <2>2 DEF FinishPlaced
<1>10. \A k \in 1..s : \A j \in 1..k : db.trees[k].tree[j] = TxOf(j)
  <2> SUFFICES ASSUME NEW k \in 1..s, NEW j \in 1..k PROVE db.trees[k].tree[j] = TxOf(j)
    OBVIOUS
  <2>1. j \in 1..s /\ j - 1 < k /\ (j - 1) + 1 = j
    BY <1>2
  <2>2. Stood(j, s) /\ Num(j) = j - 1
    BY <1>7, <2>1
  <2>3. k \in 1..Height(s)
    BY <1>8
  <2>4. db.trees[k].tree[Num(j) + 1] = TxOf(j)
    BY <1>4, <2>1, <2>2, <2>3 DEF TreesRight
  <2>5. QED  BY <2>1, <2>2, <2>4
<1>11. NewTree(db, b) = db.trees[i].tree
  <2>1. db.trees[i].tree = [j \in 1..i |-> db.trees[i].tree[j]]
    BY <1>2, <1>4, <1>8 DEF TreesRight
  <2>2. NewTree(db, b) = [j \in 1..i |-> IF j = i THEN b.tx ELSE db.trees[n].tree[j]]
    BY <1>2, <1>6, <1>8
  <2>3. ASSUME NEW j \in 1..i
        PROVE  db.trees[i].tree[j] = IF j = i THEN b.tx ELSE db.trees[n].tree[j]
    <3>1. db.trees[i].tree[j] = TxOf(j)
      BY <1>2, <1>10
    <3>2. CASE j = i
      BY <3>1, <3>2 DEF TxOf
    <3>3. CASE j # i
      <4>1. n \in 1..s /\ j \in 1..n
        BY <1>2, <1>8, <3>3
      <4>2. db.trees[n].tree[j] = TxOf(j)
        BY <1>10, <4>1
      <4>3. QED  BY <3>1, <3>3, <4>2
    <3>4. QED  BY <3>2, <3>3
  <2>4. QED  BY <2>1, <2>2, <2>3
<1>12. BlocksRight(e)' /\ HeldRight(e)'
  BY <1>4, SameLog DEF FinishPlaced, Retained, BlocksRight, HeldRight
<1>13. TreesRight(s)'
  BY <1>4, <1>9, SameLog DEF TreesRight
<1>14. ASSUME NEW c \in DOMAIN db'.commitments PROVE MarkRight(c, s, e)'
  <2>1. c \in DOMAIN db.commitments /\ MarkRight(c, s, e)
    BY <1>4, <1>14 DEF FinishPlaced, Retained
  <2>2. /\ db'.commitments[c].onChain = db.commitments[c].onChain
        /\ db'.commitments[c].nullifiedOnChain = db.commitments[c].nullifiedOnChain
        /\ \/ db'.commitments[c].root = db.commitments[c].root
           \/ c \in Commitments(b.tx) /\ db'.commitments[c].root = NewTree(db, b)
    BY <2>1 DEF FinishPlaced
  <2>3. ASSUME NEW a \in 1..s, BlockAt(a, c[1]), Stands(a, e)
        PROVE  db'.commitments[c].root = db'.trees[Num(a) + 1].tree
    <3>1. db.commitments[c].root = db.trees[Num(a) + 1].tree
      BY <2>1, <2>3 DEF MarkRight
    <3>2. CASE c \in Commitments(b.tx)
      <4>1. c[1] = b.tx /\ BlockAt(i, b.tx) /\ a \in 1..e
        BY <1>2, <1>3, <3>2 DEF Commitments, BlockAt
      <4>2. Stands(i, e)
        <5>1. \A k \in i + 1..e : k \in 1..e
          BY <1>2
        <5>2. QED  BY <1>3, <5>1 DEF Stands, AllBlocks
      <4>3. a = i
        BY <1>3, <2>3, <4>1, <4>2, ToldOnce
      <4>0. Num(i) = n /\ n + 1 = i
        BY <1>2, <1>5, <1>8 DEF Num
      <4>4. Num(a) + 1 = i
        BY <4>0, <4>3
      <4>5. QED  BY <1>9, <1>11, <2>2, <3>1, <4>4
    <3>3. CASE c \notin Commitments(b.tx)
      BY <1>9, <2>2, <3>1, <3>3
    <3>4. QED  BY <3>2, <3>3
  <2>4. QED  BY <2>1, <2>2, <2>3, SameLog DEF MarkRight
<1>15. Ahead(s, e)'
  <2>1. /\ e \in i..Len(log)
        /\ e = s \/ (e = s + 1 /\ IsBlock(log[e]) /\ (i = e \/ AllBlocks(e)))
    BY <1>3 DEF MarksInv, Ahead
  <2>2. QED  BY <2>1, SameLog DEF Ahead
<1>16. QED  BY <1>12, <1>13, <1>14, <1>15 DEF MarksInv

(* A rollback: what it removes stood no longer.                            *)
LEMMA RollbackHeld ==
  ASSUME IInv, PlacesInv, log' = log, made' = made, TxsInv,
         NEW i \in 1..Len(log), ~ IsBlock(log[i]), NEW n, n = log[i].n,
         RollbackPlaced(db, db', n), BlocksRight(i - 1), HeldRight(i - 1)
  PROVE  HeldRight(i)'
<1>1. /\ i \in Nat /\ i - 1 \in Nat /\ Len(log) \in Nat /\ 1..i - 1 \subseteq 1..i /\ i \in 1..i
      /\ \A a \in 1..i : a \in Nat /\ (a = i \/ (a \in 1..i - 1 /\ a <= i - 1))
      /\ i - 1 <= i /\ n \in Nat
  BY LogTypes
<1> SUFFICES ASSUME NEW t \in DOMAIN made
             PROVE  OursOf(t) \subseteq DOMAIN db'.commitments \/
                      IF made[t].kind \in Foreign
                      THEN \A a \in 1..i : BlockAt(a, t) => ~ Stands(a, i)
                      ELSE \E b \in 1..i : \E a \in 1..b - 1 : BlockAt(a, t) /\ Breaks(b, t)
  BY SameLog DEF HeldRight
<1>2. \A a \in 1..i : BlockAt(a, t) => a \in 1..i - 1
  BY <1>1 DEF BlockAt
<1>3. CASE ~(OursOf(t) \subseteq DOMAIN db.commitments)
  <2>1. IF made[t].kind \in Foreign
        THEN \A a \in 1..i - 1 : BlockAt(a, t) => ~ Stands(a, i - 1)
        ELSE \E b \in 1..i - 1 : \E a \in 1..b - 1 : BlockAt(a, t) /\ Breaks(b, t)
    BY <1>3 DEF HeldRight
  <2>2. \A a \in 1..i - 1 : Stands(a, i) => Stands(a, i - 1)
    BY <1>1, StandsBefore
  <2>3. QED  BY <1>1, <1>2, <2>1, <2>2
<1>4. CASE OursOf(t) \subseteq DOMAIN db.commitments
  <2> SUFFICES ASSUME NEW c \in OursOf(t), c \notin DOMAIN db'.commitments
               PROVE  IF made[t].kind \in Foreign
                      THEN \A a \in 1..i : BlockAt(a, t) => ~ Stands(a, i)
                      ELSE \E b \in 1..i : \E a \in 1..b - 1 : BlockAt(a, t) /\ Breaks(b, t)
    OBVIOUS
  <2>1. c[1] = t /\ t \in Decrypted(db, n) \cup Invalid(db, n)
    BY <1>4 DEF RollbackPlaced, OursOf
  <2>2. PICK m \in DOMAIN db.blocks : m >= n /\ db.blocks[m] = t /\ t \in DOMAIN db.txs
    BY <2>1 DEF Decrypted, Invalid, Removed, GetTransactionsByL2Block, FindBlocksFromBlockNumberL2
  <2>3. PICK a \in 1..i - 1 : BlockAt(a, t) /\ Stands(a, i - 1) /\ Num(a) = m
    BY <2>2 DEF BlocksRight
  <2>4. CASE made[t].kind \in Foreign
    <3> SUFFICES ASSUME NEW k \in 1..i, BlockAt(k, t), Stands(k, i) PROVE FALSE
      BY <2>4
    <3>1. k \in 1..i - 1 /\ k \in Nat /\ i - 1 \in 1..Len(log)
      BY <1>1, <1>2
    <3>2. Stands(k, i - 1)
      BY <1>1, <3>1, StandsBefore
    <3>3. k = a
      BY <2>3, <3>1, <3>2, ToldOnce
    <3>4. Num(k) < n /\ Num(k) \in Nat
      <4>1. i \in k + 1..i /\ k \in 1..Len(log)
        BY <1>1, <3>1
      <4>2. QED  BY <4>1, LogTypes DEF Stands, Num, BlockAt
    <3>5. QED  BY <1>1, <2>2, <2>3, <3>3, <3>4
  <2>5. CASE made[t].kind \notin Foreign
    <3>1. t \in Invalid(db, n)
      BY <2>1, <2>2, <2>5 DEF TxsInv, Decrypted
    <3>2. Breaks(i, t)
      BY <3>1 DEF Invalid, Breaks
    <3>3. QED  BY <1>1, <2>3, <2>5, <3>2
  <2>6. QED  BY <2>4, <2>5
<1>5. QED  BY <1>3, <1>4

LEMMA RollbackLeaves ==
  ASSUME IInv, ChainInv, log' = log, made' = made,
         NEW i \in 1..Len(log), ~ IsBlock(log[i]), NEW n, n = log[i].n,
         RollbackPlaced(db, db', n), \A k \in 1..n : db'.trees[k] = db.trees[k],
         \A c \in DOMAIN db.commitments : MarkRight(c, i - 1, i - 1),
         NEW c \in DOMAIN db'.commitments
  PROVE  MarkRight(c, i, i)'
<1> DEFINE m == db.commitments[c]
           q == db'.commitments[c]
<1>1. /\ i \in Nat /\ i - 1 \in Nat /\ Len(log) \in Nat /\ 1..i - 1 \subseteq 1..i
      /\ \A a \in 1..i : a \in Nat /\ (a = i \/ (a \in 1..i - 1 /\ a <= i - 1))
      /\ i - 1 <= i /\ n \in Nat /\ \A a \in 1..i : a \in 1..Len(log)
      /\ (i - 1) + 1 = i
  BY LogTypes
<1>2. \A a \in 1..i : IsBlock(log[a]) => a \in 1..i - 1 /\ Num(a) \in Nat
  BY <1>1, LogTypes DEF Num
<1>3. \A a \in 1..i - 1 : Stands(a, i) <=> Stands(a, i - 1) /\ Num(a) < n
  <2> SUFFICES ASSUME NEW a \in 1..i - 1 PROVE Stands(a, i) <=> Stands(a, i - 1) /\ Num(a) < n
    OBVIOUS
  <2>1. /\ \A k \in a + 1..i : k \in a + 1..i - 1 \/ k = i
        /\ i \in a + 1..i /\ \A k \in a + 1..i - 1 : k \in a + 1..i
    BY <1>1
  <2>2. QED  BY <2>1 DEF Stands, Num
<1>4. /\ c \in DOMAIN db.commitments
      /\ q.onChain = (IF m.onChain >= n THEN -1 ELSE m.onChain)
      /\ q.nullifiedOnChain = (IF m.nullifiedOnChain >= n THEN -1 ELSE m.nullifiedOnChain)
      /\ q.root = m.root
  BY DEF RollbackPlaced
<1>5. /\ \A a \in 1..i - 1 : BlockAt(a, c[1]) /\ Stands(a, i - 1) => m.onChain = Num(a)
      /\ m.onChain # -1 => \E a \in 1..i - 1 : BlockAt(a, c[1]) /\ Stands(a, i - 1)
      /\ \A a \in 1..i - 1 : Stood(a, i - 1) /\ c \in made[TxOf(a)].inputs => m.nullifiedOnChain = Num(a)
      /\ m.nullifiedOnChain # -1 => \E a \in 1..i - 1 : Stood(a, i - 1) /\ c \in made[TxOf(a)].inputs
      /\ \A a \in 1..i - 1 : BlockAt(a, c[1]) /\ Stands(a, i - 1) => m.root = db.trees[Num(a) + 1].tree
  BY <1>4 DEF MarkRight
<1> SUFFICES
      /\ \A a \in 1..i : BlockAt(a, c[1]) /\ Stands(a, i) => q.onChain = Num(a)
      /\ q.onChain # -1 => \E a \in 1..i : BlockAt(a, c[1]) /\ Stands(a, i)
      /\ \A a \in 1..i : Stood(a, i) /\ c \in made[TxOf(a)].inputs => q.nullifiedOnChain = Num(a)
      /\ q.nullifiedOnChain # -1 => \E a \in 1..i : Stood(a, i) /\ c \in made[TxOf(a)].inputs
      /\ \A a \in 1..i : BlockAt(a, c[1]) /\ Stands(a, i) => q.root = db'.trees[Num(a) + 1].tree
  BY SameLog DEF MarkRight
<1> HIDE DEF m, q
<1>6. ASSUME NEW a \in 1..i, BlockAt(a, c[1]), Stands(a, i)
      PROVE  q.onChain = Num(a) /\ q.root = db'.trees[Num(a) + 1].tree
  <2>1. a \in 1..i - 1 /\ Num(a) \in Nat
    BY <1>2, <1>6 DEF BlockAt
  <2>2. Stands(a, i - 1) /\ Num(a) < n
    BY <1>3, <1>6, <2>1
  <2>3. m.onChain = Num(a) /\ m.root = db.trees[Num(a) + 1].tree
    BY <1>5, <1>6, <2>1, <2>2
  <2>4. ~(m.onChain >= n) /\ Num(a) + 1 \in 1..n
    BY <1>1, <2>1, <2>2, <2>3
  <2>5. QED  BY <1>4, <2>3, <2>4
<1>7. ASSUME q.onChain # -1 PROVE \E a \in 1..i : BlockAt(a, c[1]) /\ Stands(a, i)
  <2>1. m.onChain # -1 /\ ~(m.onChain >= n)
    BY <1>4, <1>7
  <2>2. PICK a \in 1..i - 1 : BlockAt(a, c[1]) /\ Stands(a, i - 1)
    BY <1>5, <2>1
  <2>3. Num(a) \in Nat /\ m.onChain = Num(a)
    BY <1>1, <1>2, <1>5, <2>2 DEF BlockAt
  <2>4. Num(a) < n
    BY <1>1, <2>1, <2>3
  <2>5. QED  BY <1>1, <1>3, <2>2, <2>4
<1>8. ASSUME NEW a \in 1..i, Stood(a, i), c \in made[TxOf(a)].inputs
      PROVE  q.nullifiedOnChain = Num(a)
  <2>1. a \in 1..i - 1 /\ Num(a) \in Nat
    BY <1>2, <1>8 DEF Stood
  <2>2. Stood(a, i - 1) /\ Num(a) < n
    BY <1>3, <1>8, <2>1 DEF Stood
  <2>3. m.nullifiedOnChain = Num(a)
    BY <1>5, <1>8, <2>1, <2>2
  <2>4. ~(m.nullifiedOnChain >= n)
    BY <1>1, <2>1, <2>2, <2>3
  <2>5. QED  BY <1>4, <2>3, <2>4
<1>9. ASSUME q.nullifiedOnChain # -1 PROVE \E a \in 1..i : Stood(a, i) /\ c \in made[TxOf(a)].inputs
  <2>1. m.nullifiedOnChain # -1 /\ ~(m.nullifiedOnChain >= n)
    BY <1>4, <1>9
  <2>2. PICK a \in 1..i - 1 : Stood(a, i - 1) /\ c \in made[TxOf(a)].inputs
    BY <1>5, <2>1
  <2>3. Num(a) \in Nat /\ m.nullifiedOnChain = Num(a)
    BY <1>1, <1>2, <1>5, <2>2 DEF Stood
  <2>4. Num(a) < n
    BY <1>1, <2>1, <2>3
  <2>5. Stood(a, i)
    BY <1>3, <2>2, <2>4 DEF Stood
  <2>6. QED  BY <1>1, <2>2, <2>5
<1>10. QED  BY <1>6, <1>7, <1>8, <1>9

LEMMA MarksOfRollback ==
  ASSUME IInv, ChainInv, PlacesInv, log' = log, made' = made, TxsInv,
         NEW i \in 1..Len(log), ~ IsBlock(log[i]), NEW n, n = log[i].n, Seen = i - 1, Seen' = i,
         RollbackPlaced(db, db', n), \A k \in 1..n : db'.trees[k] = db.trees[k],
         NEW e \in 0..Len(log), MarksInv(i - 1, e)
  PROVE  MarksInv(i, i)'
<1>1. /\ i \in Nat /\ i - 1 \in Nat /\ Len(log) \in Nat /\ i \in i..Len(log) /\ (i - 1) + 1 = i
      /\ \A a \in 1..i : a \in Nat /\ (a = i \/ (a \in 1..i - 1 /\ a <= i - 1))
      /\ 1..i - 1 \subseteq 1..i /\ i - 1 <= i
  BY LogTypes
<1>2. e = i - 1
  BY <1>1 DEF MarksInv, Ahead
<1>3. /\ TreesRight(i - 1) /\ BlocksRight(i - 1) /\ HeldRight(i - 1)
      /\ \A c \in DOMAIN db.commitments : MarkRight(c, i - 1, i - 1)
  BY <1>2 DEF MarksInv
<1>4. n \in Nat /\ n < Height(i - 1) /\ Height(i) = n /\ Height(i - 1) \in Nat
  <2>1. i - 1 \in 0..Len(log)
    BY <1>1
  <2>2. QED  BY <2>1, InOrder, LogTypes
<1>5. TreesRight(i)'
  <2> SUFFICES ASSUME NEW k \in 1..n
               PROVE  /\ db'.trees[k].tree = [j \in 1..k |-> db'.trees[k].tree[j]]
                      /\ \A a \in 1..i : Stood(a, i) /\ Num(a) < k =>
                           db'.trees[k].tree[Num(a) + 1] = TxOf(a)
    <3>1. Height(i)' = n
      BY <1>4, SameLog
    <3>2. \A a \in 1..i : Stood(a, i)' = Stood(a, i) /\ Num(a)' = Num(a) /\ TxOf(a)' = TxOf(a)
      BY SameLog
    <3>3. QED  BY <3>1, <3>2 DEF TreesRight
  <2>1. k \in 1..Height(i - 1) /\ db'.trees[k] = db.trees[k]
    BY <1>4
  <2>2. \A a \in 1..i : Stood(a, i) => a \in 1..i - 1 /\ Stood(a, i - 1)
    BY <1>1, StandsBefore DEF Stood
  <2>3. QED  BY <1>3, <2>1, <2>2 DEF TreesRight
<1>6. BlocksRight(i)'
  <2> SUFFICES ASSUME NEW m \in DOMAIN db'.blocks
               PROVE  \E a \in 1..i : BlockAt(a, db'.blocks[m]) /\ Stands(a, i) /\ Num(a) = m
    BY SameLog DEF BlocksRight
  <2>1. m \in DOMAIN db.blocks /\ ~(m >= n) /\ db'.blocks[m] = db.blocks[m]
    BY DEF RollbackPlaced
  <2>2. PICK a \in 1..i - 1 : BlockAt(a, db.blocks[m]) /\ Stands(a, i - 1) /\ Num(a) = m
    BY <1>3, <2>1 DEF BlocksRight
  <2>3. a \in 1..Len(log) /\ a \in 1..i /\ a \in Nat /\ a <= i - 1
    BY <1>1
  <2>4. Num(a) < log[i].n
    <3>1. Num(a) \in Nat
      BY <2>2, <2>3, LogTypes DEF BlockAt, Num
    <3>2. QED  BY <1>4, <2>1, <2>2, <3>1
  <2>5. Stands(a, i)
    BY <1>1, <2>2, <2>3, <2>4, StandsOn DEF Num
  <2>6. QED  BY <2>1, <2>2, <2>3, <2>5
<1>7. HeldRight(i)'
  BY <1>3, RollbackHeld
<1>8. \A c \in DOMAIN db'.commitments : MarkRight(c, i, i)'
  BY <1>3, RollbackLeaves
<1>9. Ahead(i, i)'
  BY <1>1 DEF Ahead
<1>10. QED  BY <1>5, <1>6, <1>7, <1>8, <1>9 DEF MarksInv

(* A restart before any rollback.                                          *)
LEMMA MarksReplayed ==
  ASSUME IInv, log' = log, made' = made, db' = db, \A i \in 1..Len(log) : IsBlock(log[i]),
         NEW s \in 0..Len(log), NEW e \in 0..Len(log), Seen \in Nat, Seen' \in 0..s, MarksInv(s, e)
  PROVE  MarksInv(s, e)'
<1>1. Len(log) \in Nat /\ s \in Nat /\ e \in Nat /\ AllBlocks(e)
  BY LogTypes DEF AllBlocks
<1>2. Ahead(s, e)'
  <2>1. e \in Seen'..Len(log) /\ (e = s \/ (e = s + 1 /\ IsBlock(log[e])))
    BY <1>1 DEF MarksInv, Ahead
  <2>2. QED  BY <1>1, <2>1, SameLog DEF Ahead
<1>3. TreesRight(s)' /\ BlocksRight(e)'
  BY SameLog DEF MarksInv, TreesRight, BlocksRight
<1>4. HeldRight(e)'
  BY SameLog DEF MarksInv, HeldRight
<1>5. ASSUME NEW c \in DOMAIN db.commitments PROVE MarkRight(c, s, e)'
  <2>1. MarkRight(c, s, e)
    BY DEF MarksInv
  <2>2. QED  BY <2>1, SameLog DEF MarkRight
<1>6. QED  BY <1>2, <1>3, <1>4, <1>5 DEF MarksInv

LEMMA FollowsBesides ==
  ASSUME IInv, ChainInv, FollowsLog, Besides, BesidesMarks
  PROVE  FollowsLog'
<1>1. PICK s \in 0..Len(log) : TreesInv(s) /\ SpentInv(s) /\ \E e \in 0..Len(log) : MarksInv(s, e)
  BY DEF FollowsLog
<1>2. log' = log /\ queue' = queue
  BY DEF Besides
<1>3. InQueue' /\ Handled' = Handled /\ Seen' = Seen /\ Reached(s)' = Reached(s)
  <2>1. Handled' = Handled
    BY <1>2 DEF Handled
  <2>2. Seen' = Seen
    BY <1>2, <2>1 DEF Seen, Current
  <2>3. InQueue'
    BY <1>2, <2>1 DEF FollowsLog, InQueue, IsBlock
  <2>4. QED  BY <2>1, <2>2, <2>3 DEF Reached
<1>4. s \in Nat /\ Len(log) \in Nat /\ s \in Handled..Len(log) /\ Reached(s) \in Nat
      /\ Reached(s) <= Len(log)
  BY <1>1, LogTypes, Positions DEF TreesInv, FollowsLog
<1>5. /\ \A a : \A t : BlockAt(a, t)' = BlockAt(a, t)
      /\ \A a : AllBlocks(a)' = AllBlocks(a) /\ Height(a)' = Height(a)
      /\ \A a, b : Stands(a, b)' = Stands(a, b)
      /\ \A t : SameNumber(t)' = SameNumber(t)
  BY <1>2 DEF BlockAt, AllBlocks, Height, Stands, SameNumber, Inclusions, IsBlock
<1>6. \A t \in DOMAIN made : \A b : Breaks(b, t)' = Breaks(b, t)
  BY <1>2 DEF Besides, Breaks, IsBlock, CheckValidHistoricRootsBlockNumber
<1>7. TxsInv'
  <2>1. DOMAIN db.txs \subseteq DOMAIN made
    BY DEF IInv, Types, DBTypes
  <2>2. QED  BY <1>2, <1>3, <1>5, <2>1 DEF FollowsLog, TxsInv, Besides
<1>8. TreesInv(s)'
  <2>1. \A c \in DOMAIN db'.commitments : db'.commitments[c].l1 <= s + 1
    BY <1>1, <1>4 DEF TreesInv, Besides
  <2>2. db'.trees = db.trees
    BY DEF Besides
  <2>3. QED  BY <1>1, <1>2, <1>3, <1>5, <2>1, <2>2 DEF TreesInv
<1>9. SpentInv(s)'
  <2> SUFFICES ASSUME NEW c \in DOMAIN db'.commitments, db'.commitments[c].nullified,
                      NEW t, t = db'.commitments[c].by
               PROVE  /\ t \in DOMAIN made' /\ c \in made'[t].inputs
                      /\ SameNumber(t) => StandsInDB(s, t)' /\ NotRemoved(s, t)'
    BY <1>5 DEF SpentInv
  <2>1. CASE /\ c \in DOMAIN db.commitments /\ db.commitments[c].nullified
             /\ t = db.commitments[c].by
    <3>1. /\ t \in DOMAIN made /\ c \in made[t].inputs
          /\ SameNumber(t) => StandsInDB(s, t) /\ NotRemoved(s, t)
      BY <1>1, <2>1 DEF SpentInv
    <3>2. t \in DOMAIN made' /\ c \in made'[t].inputs
      BY <3>1 DEF Besides
    <3>3. StandsInDB(s, t) => StandsInDB(s, t)'
      BY <1>2, <1>3, <1>5 DEF StandsInDB, Besides
    <3>4. NotRemoved(s, t) => NotRemoved(s, t)'
      BY <1>2, <1>3, <1>5, <1>6, <3>1 DEF NotRemoved
    <3>5. QED  BY <3>1, <3>2, <3>3, <3>4
  <2>2. CASE t \in DOMAIN made' \ DOMAIN made /\ c \in made'[t].inputs
    <3>1. \A a \in 1..Len(log) : ~ BlockAt(a, t)
      BY <2>2, LogTypes DEF BlockAt
    <3>2. \A a \in 1..Reached(s) : ~ BlockAt(a, t)'
      BY <1>4, <1>5, <3>1
    <3>3. StandsInDB(s, t)'
      BY <1>3, <3>2 DEF StandsInDB
    <3>4. NotRemoved(s, t)'
      <4>1. \A b \in 1..Reached(s) : \A a \in 1..b - 1 : a \in 1..Reached(s)
        BY <1>4
      <4>2. QED  BY <1>3, <3>2, <4>1 DEF NotRemoved
    <3>5. QED  BY <2>2, <3>3, <3>4
  <2>3. QED  BY <2>1, <2>2 DEF Besides
<1>10. s \in 0..Len(log')
  BY <1>1, <1>2
<1>11. \E e \in 0..Len(log') : MarksInv(s, e)'
  BY <1>1, <1>2, <1>3, MarksBesides
<1>12. QED  BY <1>3, <1>7, <1>8, <1>9, <1>10, <1>11 DEF FollowsLog

(* One more event is logged and queued.                                    *)
LEMMA FollowsQueued ==
  ASSUME IInv, FollowsLog, NEW event \in Events, Logs(event), db' = db,
         queue' = Append(queue, Job(event, "socket"))
  PROVE  FollowsLog'
<1>0. PICK L : L = Len(log)
  OBVIOUS
<1>1. PICK s \in 0..L : TreesInv(s) /\ SpentInv(s) /\ \E e \in 0..L : MarksInv(s, e)
  BY <1>0 DEF FollowsLog
<1>2. /\ L \in Nat /\ Len(log') = L + 1 /\ log'[L + 1] = event /\ \A i \in 1..L : log'[i] = log[i]
      /\ made' = made
  BY <1>0, LogTypes, Logged DEF Grown, Logs
<1>3. InQueue' /\ Handled' = Handled /\ Seen' = Seen /\ Reached(s)' = Reached(s)
  <2>1. InQueue' /\ Handled' = Handled /\ Seen' = Seen
    BY Queued DEF FollowsLog
  <2>2. QED  BY <2>1 DEF Reached
<1>4. s \in Nat /\ s \in Handled..L /\ Reached(s) \in Nat /\ Reached(s) <= L /\ Handled \in Nat
      /\ Seen \in Nat /\ Seen <= L
  BY <1>0, <1>1, LogTypes, Positions DEF TreesInv, FollowsLog
<1>5. /\ \A i \in 0..L : Height(i)' = Height(i) /\ AllBlocks(i)' = AllBlocks(i)
      /\ \A i \in 1..L : \A t : BlockAt(i, t)' = BlockAt(i, t)
      /\ \A a \in 1..L : \A b \in 0..L : Stands(a, b)' = Stands(a, b)
  BY <1>0, Logged, LogGrows
<1>6. \A b \in 1..L : \A t : Breaks(b, t)' = Breaks(b, t)
  BY <1>2 DEF Breaks, IsBlock, CheckValidHistoricRootsBlockNumber
<1>7. TxsInv'
  <2> SUFFICES ASSUME NEW t \in DOMAIN db.txs
               PROVE  /\ \E a \in 1..L + 1 : /\ BlockAt(a, t)' /\ (a <= Seen \/ AllBlocks(a)')
                                             /\ db.txs[t].n = log'[a].block.n
                      /\ db.txs[t].decrypted => made[t].kind \in Foreign
    BY <1>2, <1>3 DEF TxsInv
  <2>1. PICK a \in 1..L : /\ BlockAt(a, t) /\ (a <= Seen \/ AllBlocks(a))
                          /\ db.txs[t].n = log[a].block.n
    BY <1>0 DEF FollowsLog, TxsInv
  <2>2. a \in 1..L + 1 /\ a \in 0..L
    BY <1>2
  <2>3. BlockAt(a, t)' /\ AllBlocks(a)' = AllBlocks(a) /\ log'[a] = log[a]
    BY <1>2, <1>5, <2>1, <2>2
  <2>4. db.txs[t].decrypted => made[t].kind \in Foreign
    BY DEF FollowsLog, TxsInv
  <2>5. QED  BY <2>1, <2>2, <2>3, <2>4
<1>8. TreesInv(s)'
  <2>1. Height(s)' = Height(s) /\ AllBlocks(s)' = AllBlocks(s)
    BY <1>5
  <2>2. s \in Handled..L + 1
    BY <1>2, <1>4
  <2>3. QED  BY <1>1, <1>2, <1>3, <2>1, <2>2 DEF TreesInv
<1>9. SpentInv(s)'
  <2> SUFFICES ASSUME NEW c \in DOMAIN db.commitments, db.commitments[c].nullified,
                      NEW t, t = db.commitments[c].by
               PROVE  /\ t \in DOMAIN made /\ c \in made[t].inputs
                      /\ SameNumber(t)' => StandsInDB(s, t)' /\ NotRemoved(s, t)'
    BY <1>2 DEF SpentInv
  <2>1. /\ t \in DOMAIN made /\ c \in made[t].inputs
        /\ SameNumber(t) => StandsInDB(s, t) /\ NotRemoved(s, t)
    BY <1>1 DEF SpentInv
  <2>2. SameNumber(t)' => SameNumber(t)
    <3>1. DOMAIN log = 1..L /\ DOMAIN log' = 1..L + 1
      <4>1. log \in Seq(Events) /\ log' \in Seq(Events)
        BY LogTypes DEF Logs
      <4>2. QED  BY <1>0, <1>2, <4>1
    <3>2. Inclusions(t) \subseteq Inclusions(t)'
      BY <1>2, <3>1 DEF Inclusions, IsBlock
    <3>3. \A a \in Inclusions(t) : log'[a] = log[a]
      BY <1>2, <3>1 DEF Inclusions
    <3>4. QED  BY <3>2, <3>3 DEF SameNumber
  <2>3. \A a \in 1..Reached(s) : a \in 1..L /\ log'[a] = log[a]
    BY <1>2, <1>4
  <2>4. StandsInDB(s, t) => StandsInDB(s, t)'
    <3>1. Reached(s) \in 0..L
      BY <1>2, <1>4
    <3>2. \A a \in 1..Reached(s) : Stands(a, Reached(s))' = Stands(a, Reached(s))
                                   /\ BlockAt(a, t)' = BlockAt(a, t)
      <4>1. PICK z \in 0..L : z = Reached(s)
        BY <3>1
      <4>2. Reached(s)' = z
        BY <1>3, <4>1
      <4>3. \A a \in 1..z : Stands(a, z)' = Stands(a, z) /\ BlockAt(a, t)' = BlockAt(a, t)
        BY <1>5, <2>3, <4>1
      <4>4. QED  BY <4>1, <4>2, <4>3 DEF Stands
    <3>3. QED  BY <1>3, <2>3, <3>2 DEF StandsInDB
  <2>5. NotRemoved(s, t) => NotRemoved(s, t)'
    <3>1. \A b \in 1..Reached(s) : \A a \in 1..b - 1 :
            /\ a \in 1..L /\ b \in 1..L /\ b - 1 \in 0..L
            /\ log'[a] = log[a] /\ log'[b] = log[b]
      BY <1>2, <1>4
    <3>2. \A b \in 1..Reached(s) : \A a \in 1..b - 1 :
            /\ BlockAt(a, t)' = BlockAt(a, t) /\ Breaks(b, t)' = Breaks(b, t)
            /\ Stands(a, b - 1)' = Stands(a, b - 1)
      BY <1>5, <1>6, <3>1
    <3>3. QED  BY <1>3, <3>1, <3>2 DEF NotRemoved
  <2>6. QED  BY <2>1, <2>2, <2>4, <2>5
<1>10. s \in 0..Len(log')
  BY <1>2
<1>11. \E e \in 0..Len(log') : MarksInv(s, e)'
  <2>1. PICK e \in 0..L : MarksInv(s, e)
    BY <1>1
  <2>2. MarksInv(s, e)'
    BY <1>0, <1>3, <1>4, <2>1, MarksQueued
  <2>3. e \in 0..Len(log')
    BY <1>2
  <2>4. QED  BY <2>2, <2>3
<1>12. QED  BY <1>3, <1>7, <1>8, <1>9, <1>10, <1>11 DEF FollowsLog

LEMMA HandleBlockFollows ==
  ASSUME IInv, ChainInv, PlacesInv, SpendsLater, FollowsLog, HandleBlock
  PROVE  FollowsLog'
<1>1. /\ queue # <<>> /\ IsBlock(Current.event) /\ Current.step # "marked"
      /\ db' = MarkBlock(db, Current.event.block)
      /\ queue' = <<[Current EXCEPT !.step = "marked"]>> \o Tail(queue)
      /\ made' = made /\ log' = log /\ pool' = pool
  BY DEF HandleBlock, chainVars
<1>2. PICK i : i = Handled + 1
  OBVIOUS
<1>3. PICK b : b = Current.event.block
  OBVIOUS
<1>4. PICK s \in 0..Len(log) : TreesInv(s) /\ SpentInv(s) /\ \E e \in 0..Len(log) : MarksInv(s, e)
  BY DEF FollowsLog
<1>5. InQueue /\ TxsInv /\ MadeInv
  BY DEF FollowsLog, ChainInv
<1>6. /\ i \in 1..Len(log) /\ IsBlock(log[i]) /\ b = log[i].block /\ Handled = i - 1
      /\ Seen = i - 1 /\ Len(log) \in Nat /\ i \in Nat /\ s \in Nat /\ s \in i - 1..Len(log)
      /\ (s = i - 1 \/ AllBlocks(s))
  <2>1. /\ i \in 1..Len(log) /\ Current.event = log[i] /\ Seen = Handled /\ Handled \in Nat
        /\ Len(log) \in Nat
    BY <1>1, <1>2, <1>5, UnderWay, Positions, LogTypes
  <2>2. Handled = i - 1
    BY <1>2, <2>1
  <2>3. QED  BY <1>1, <1>3, <1>4, <2>1, <2>2 DEF TreesInv
<1>7. /\ b.n = Height(i - 1) /\ b.l1 = i /\ b.n \in Nat /\ b.tx \in DOMAIN made
      /\ BlockAt(i, b.tx)
  BY <1>6, InOrder, LogTypes DEF BlockAt
<1>8. BlockMarked(db, db', b.n, b.tx, i) /\ BlockPlaced(db, db', b)
  <2>1. IsDB(db) /\ MadeTypes
    BY DEF IInv, Types, DBTypes, ChainTypes
  <2>2. BlockMarked(db, MarkBlock(db, b), b.n, b.tx, b.l1)
    BY <1>5, <1>6, <1>7, <2>1, NumbersKnown, MarkBlockEffect
  <2>3. BlockPlaced(db, MarkBlock(db, b), b)
    BY <1>5, <1>6, <1>7, <2>1, NumbersKnown, MarkBlockMarks
  <2>4. QED  BY <1>1, <1>3, <1>7, <2>2, <2>3
<1>9. InQueue' /\ Handled' = i - 1 /\ Seen' = i
  BY <1>1, <1>2, <1>5, <1>6, Marked1
<1>10. Reached(s) = s /\ Reached(s)' = IF s > i THEN s ELSE i
  BY <1>6, <1>9 DEF Reached
<1>11. /\ \A a : \A t : BlockAt(a, t)' = BlockAt(a, t) /\ Breaks(a, t)' = Breaks(a, t)
       /\ \A a : AllBlocks(a)' = AllBlocks(a) /\ Height(a)' = Height(a)
       /\ \A a, e : Stands(a, e)' = Stands(a, e)
       /\ \A t : SameNumber(t)' = SameNumber(t)
  BY <1>1 DEF BlockAt, Breaks, CheckValidHistoricRootsBlockNumber, AllBlocks, Height, Stands,
              SameNumber, Inclusions, IsBlock
<1>12. TxsInv'
  <2> SUFFICES ASSUME NEW t \in DOMAIN db'.txs
               PROVE  /\ \E a \in 1..Len(log) : /\ BlockAt(a, t) /\ (a <= i \/ AllBlocks(a))
                                                /\ db'.txs[t].n = log[a].block.n
                      /\ db'.txs[t].decrypted => made[t].kind \in Foreign
    BY <1>1, <1>9, <1>11 DEF TxsInv
  <2>1. CASE t \in DOMAIN db.txs
    <3>1. db'.txs[t] = db.txs[t]
      BY <1>8, <2>1 DEF BlockMarked, BlockKept
    <3>2. PICK a \in 1..Len(log) : /\ BlockAt(a, t) /\ (a <= i - 1 \/ AllBlocks(a))
                                   /\ db.txs[t].n = log[a].block.n
      BY <1>5, <1>6, <2>1 DEF TxsInv
    <3>3. a <= i - 1 => a <= i
      BY <1>6
    <3>4. db.txs[t].decrypted => made[t].kind \in Foreign
      BY <1>5, <2>1 DEF TxsInv
    <3>5. QED  BY <3>1, <3>2, <3>3, <3>4
  <2>2. CASE t \notin DOMAIN db.txs
    <3>1. /\ t = b.tx /\ db'.txs[t].n = b.n
          /\ db'.txs[t].decrypted => made[t].kind \in Foreign
      BY <1>8, <2>2 DEF BlockMarked, BlockKept
    <3>2. i <= i
      BY <1>6
    <3>3. QED  BY <1>6, <1>7, <3>1, <3>2
  <2>3. QED  BY <2>1, <2>2
<1>13. TreesInv(s)'
  <2>1. db'.trees = db.trees
    BY <1>8 DEF BlockMarked
  <2>2. \A c \in DOMAIN db'.commitments : db'.commitments[c].l1 <= s + 1
    <3>1. \A c \in DOMAIN db.commitments : db.commitments[c].l1 <= s + 1
      BY <1>4 DEF TreesInv
    <3>2. i <= s + 1 /\ -1 <= s + 1
      BY <1>6
    <3>3. ASSUME NEW c \in DOMAIN db'.commitments
          PROVE  \/ db'.commitments[c].l1 \in {-1, i}
                 \/ c \in DOMAIN db.commitments /\ db'.commitments[c].l1 = db.commitments[c].l1
      BY <1>8 DEF BlockMarked
    <3>4. QED  BY <3>1, <3>2, <3>3
  <2>3. QED  BY <1>1, <1>4, <1>6, <1>9, <1>11, <2>1, <2>2 DEF TreesInv
<1>14. SpentInv(s)'
  <2> SUFFICES ASSUME NEW c \in DOMAIN db'.commitments, db'.commitments[c].nullified,
                      NEW t, t = db'.commitments[c].by
               PROVE  /\ t \in DOMAIN made /\ c \in made[t].inputs
                      /\ SameNumber(t) => StandsInDB(s, t)' /\ NotRemoved(s, t)'
    BY <1>1, <1>11 DEF SpentInv
  <2>1. c \in DOMAIN db.commitments /\ db.commitments[c].nullified /\ t = db.commitments[c].by
    BY <1>8 DEF BlockMarked
  <2>2. /\ t \in DOMAIN made /\ c \in made[t].inputs
        /\ SameNumber(t) => StandsInDB(s, t) /\ NotRemoved(s, t)
    BY <1>4, <2>1 DEF SpentInv
  <2>3. ASSUME StandsInDB(s, t) PROVE StandsInDB(s, t)'
    <3> SUFFICES ASSUME NEW a \in 1..(IF s > i THEN s ELSE i), BlockAt(a, t),
                        Stands(a, IF s > i THEN s ELSE i)
                 PROVE  /\ t \in DOMAIN db'.txs /\ log[a].block.n \in DOMAIN db'.blocks
                        /\ db'.blocks[log[a].block.n] = t
      BY <1>1, <1>10, <1>11 DEF StandsInDB
    <3>1. CASE a = i
      <4>1. t = b.tx /\ log[a].block.n = b.n
        BY <1>6, <3>1 DEF BlockAt
      <4>2. Held(db, made[t].inputs) # {}
        BY <2>1, <2>2 DEF Held
      <4>3. BlockKept(db, db', b.n, t)
        BY <1>8, <4>1, <4>2 DEF BlockMarked
      <4>4. QED  BY <4>1, <4>3 DEF BlockKept
    <3>2. CASE a # i
      <4>1. a \in 1..s /\ Stands(a, s)
        <5>1. CASE s > i
          BY <5>1
        <5>2. CASE ~(s > i)
          <6>1. a \in 1..s /\ a \in 1..i /\ \A k \in a + 1..s : k \in a + 1..i
            BY <1>6, <3>2, <5>2
          <6>2. QED  BY <5>2, <6>1 DEF Stands
        <5>3. QED  BY <5>1, <5>2
      <4>2. /\ t \in DOMAIN db.txs /\ log[a].block.n \in DOMAIN db.blocks
            /\ db.blocks[log[a].block.n] = t
        BY <1>10, <2>3, <4>1 DEF StandsInDB
      <4>3. log[a].block.n # b.n
        <5>1. a \in 1..Len(log) /\ IsBlock(log[a])
          BY <1>6, <4>1 DEF BlockAt
        <5>2. log[a].block.n \in Nat
          BY <5>1, LogTypes
        <5>3. CASE a < i
          <6>1. a \in 1..i - 1 /\ \A k \in a + 1..i - 1 : k \in a + 1..s
            BY <1>6, <5>1, <5>3
          <6>2. Stands(a, i - 1)
            BY <4>1, <6>1 DEF Stands
          <6>3. log[a].block.n < b.n
            BY <1>6, <1>7, <5>1, <6>1, <6>2, InOrder
          <6>4. QED  BY <1>7, <5>2, <6>3
        <5>4. CASE a > i
          <6>1. s # i - 1 /\ AllBlocks(s) /\ i \in 1..a - 1
                /\ \A k \in 1..a - 1 : k \in 1..s
            BY <1>6, <4>1, <5>4
          <6>2. Stands(i, a - 1)
            <7>1. \A k \in i + 1..a - 1 : k \in 1..s
              BY <1>6, <4>1
            <7>2. QED  BY <6>1, <7>1 DEF AllBlocks, Stands
          <6>3. b.n < log[a].block.n
            BY <1>6, <5>1, <6>1, <6>2, InOrder
          <6>4. QED  BY <1>7, <5>2, <6>3
        <5>5. QED  BY <1>6, <3>2, <5>1, <5>3, <5>4
      <4>4. QED  BY <1>8, <4>2, <4>3 DEF BlockMarked, BlockKept
    <3>3. QED  BY <3>1, <3>2
  <2>4. ASSUME NotRemoved(s, t) PROVE NotRemoved(s, t)'
    <3> SUFFICES ASSUME NEW e \in 1..(IF s > i THEN s ELSE i), NEW a \in 1..e - 1,
                        BlockAt(a, t), Breaks(e, t), Stands(a, e - 1)
                 PROVE  log[a].block.n < log[e].n
      BY <1>1, <1>10, <1>11 DEF NotRemoved
    <3>1. e # i
      BY <1>6 DEF Breaks
    <3>2. e \in 1..s
      BY <1>6, <3>1
    <3>3. QED  BY <1>10, <2>4, <3>2 DEF NotRemoved
  <2>5. QED  BY <2>2, <2>3, <2>4
<1>15. s \in 0..Len(log')
  BY <1>1
<1>16. \E e \in 0..Len(log') : MarksInv(s, e)'
  <2>1. PICK e \in 0..Len(log) : MarksInv(s, e)
    BY <1>4
  <2>2. \A c \in DOMAIN db'.commitments : c \in OursOf(c[1])
    BY <1>1, HandleBlockIInv DEF IInv, Types, DBTypes, Ours, OursOf
  <2>3. QED  BY <1>1, <1>6, <1>8, <1>9, <2>1, <2>2, MarksOfBlock
<1>17. QED  BY <1>9, <1>12, <1>13, <1>14, <1>15, <1>16 DEF FollowsLog

LEMMA FinishEventFollows ==
  ASSUME IInv, ChainInv, PlacesInv, FollowsLog, FinishEvent
  PROVE  FollowsLog'
<1>1. /\ queue # <<>> /\ Current.step = "marked" /\ queue' = Tail(queue)
      /\ db' = FinishBlock(db, Current.event.block, Current.by # "socket")
      /\ made' = made /\ log' = log /\ pool' = pool
  BY DEF FinishEvent, chainVars
<1>2. PICK i : i = Handled + 1
  OBVIOUS
<1>3. PICK b : b = Current.event.block
  OBVIOUS
<1>4. PICK s \in 0..Len(log) : TreesInv(s) /\ SpentInv(s) /\ \E e \in 0..Len(log) : MarksInv(s, e)
  BY DEF FollowsLog
<1>5. InQueue /\ TxsInv
  BY DEF FollowsLog
<1>6. /\ i \in 1..Len(log) /\ IsBlock(log[i]) /\ b = log[i].block /\ Handled = i - 1
      /\ Seen = i /\ Len(log) \in Nat /\ i \in Nat /\ s \in Nat /\ s \in i - 1..Len(log)
      /\ (s = i - 1 \/ AllBlocks(s))
  <2>1. /\ i \in 1..Len(log) /\ Current.event = log[i] /\ Seen = i /\ Handled \in Nat
        /\ Len(log) \in Nat /\ IsBlock(Current.event)
    BY <1>1, <1>2, <1>5, UnderWay, Positions, LogTypes
  <2>2. Handled = i - 1
    BY <1>2, <2>1
  <2>3. QED  BY <1>3, <1>4, <2>1, <2>2 DEF TreesInv
<1>7. b.n = Height(i - 1) /\ b.l1 = i /\ b.n \in Nat /\ Height(i) = b.n + 1
  BY <1>6, InOrder, LogTypes
<1>8. InQueue' /\ Handled' = i /\ Seen' = i
  BY <1>1, <1>2, <1>5, Next1
<1>9. Height(s) \in Nat /\ db.trees = First(db.trees, Height(s))
  BY <1>4, LogTypes DEF TreesInv, First
<1>10. PICK H : H = Height(s)
  OBVIOUS
<1>11. /\ Retained(db, db')
       /\ TreeKnown(db, i) => db'.trees = db.trees
       /\ ~ TreeKnown(db, i) => TreeAdded(db, db', b, H)
  <2>1. IsDB(db)
    BY DEF IInv, Types, DBTypes
  <2> DEFINE syncing == Current.by # "socket"
  <2>2. db' = FinishBlock(db, b, syncing)
    BY <1>1, <1>3
  <2> HIDE DEF syncing
  <2>3. QED  BY <1>7, <1>9, <1>10, <2>1, <2>2, FinishBlockEffect
<1>12. /\ \A a : \A t : BlockAt(a, t)' = BlockAt(a, t) /\ Breaks(a, t)' = Breaks(a, t)
       /\ \A a : AllBlocks(a)' = AllBlocks(a) /\ Height(a)' = Height(a)
       /\ \A a, e : Stands(a, e)' = Stands(a, e)
       /\ \A t : SameNumber(t)' = SameNumber(t)
  BY <1>1 DEF BlockAt, Breaks, CheckValidHistoricRootsBlockNumber, AllBlocks, Height, Stands,
              SameNumber, Inclusions, IsBlock
<1>13. TxsInv'
  BY <1>1, <1>5, <1>6, <1>8, <1>11, <1>12 DEF TxsInv, Retained
<1>14. PICK z \in 0..Len(log) : z = IF s > i THEN s ELSE i
  BY <1>6
<1>15. Reached(s) = z /\ Reached(z)' = z
  BY <1>6, <1>8, <1>14 DEF Reached
<1>16. \A c \in DOMAIN db'.commitments : db'.commitments[c].l1 <= z + 1
  <2>1. \A c \in DOMAIN db.commitments : db.commitments[c].l1 <= s + 1
    BY <1>4 DEF TreesInv
  <2>2. \A c \in DOMAIN db.commitments : db.commitments[c].l1 \in Int
    BY DEF IInv, Types, DBTypes, IsDB, IsMarks
  <2>3. s <= z /\ z \in Nat
    BY <1>6, <1>14
  <2>4. ASSUME NEW c \in DOMAIN db'.commitments PROVE db'.commitments[c].l1 <= z + 1
    <3>1. c \in DOMAIN db.commitments /\ db'.commitments[c].l1 \in {db.commitments[c].l1, -1}
      BY <1>11 DEF Retained
    <3>2. db.commitments[c].l1 \in Int /\ db.commitments[c].l1 <= s + 1
      BY <2>1, <2>2, <3>1
    <3>3. QED  BY <1>6, <2>3, <3>1, <3>2
  <2>5. QED  BY <2>4
<1>17. TreesInv(z)'
  <2>1. CASE s = i - 1
    <3>1. z = i /\ H = b.n
      BY <1>6, <1>7, <1>10, <1>14, <2>1
    <3>2. \A k \in 1..H : db.trees[k].n = k - 1 /\ db.trees[k].l1 \in 1..i - 1
      BY <1>4, <1>10, <2>1 DEF TreesInv
    <3>3. ~ TreeKnown(db, i)
      <4>1. DOMAIN db.trees = 1..H
        BY <1>9, <1>10, FirstOnes
      <4>2. QED  BY <1>6, <3>2, <4>1 DEF TreeKnown
    <3>4. TreeAdded(db, db', b, H)
      BY <1>11, <3>3
    <3>5. db'.trees = [k \in 1..H + 1 |-> db'.trees[k]]
      BY <3>4 DEF TreeAdded, First
    <3>6. /\ \A k \in 1..H : db'.trees[k].n = k - 1 /\ db'.trees[k].l1 \in 1..i - 1
          /\ db'.trees[H + 1].n = H /\ db'.trees[H + 1].l1 = i
      BY <1>7, <3>1, <3>2, <3>4 DEF TreeAdded
    <3>7. \A k \in 1..H + 1 : db'.trees[k].n = k - 1 /\ db'.trees[k].l1 \in 1..i
      <4>1. 1..i - 1 \subseteq 1..i /\ i \in 1..i
        BY <1>6
      <4>2. \A k \in 1..H + 1 : k \in 1..H \/ k = H + 1
        BY <1>7, <3>1
      <4>3. H = (H + 1) - 1
        BY <1>7, <3>1
      <4>4. QED  BY <3>6, <4>1, <4>2, <4>3
    <3>8. ASSUME AllBlocks(i) PROVE H + 1 = i /\ \A k \in 1..i : db'.trees[k].l1 = k
      <4>1. AllBlocks(s)
        BY <1>6, <2>1, <3>8 DEF AllBlocks
      <4>2. H = i - 1 /\ \A k \in 1..i - 1 : db.trees[k].l1 = k
        BY <1>4, <1>10, <2>1, <4>1 DEF TreesInv
      <4>3. \A k \in 1..i - 1 : db'.trees[k].l1 = k
        BY <3>4, <4>2 DEF TreeAdded
      <4>4. \A k \in 1..i : k \in 1..i - 1 \/ k = H + 1
        BY <1>6, <4>2
      <4>5. QED  BY <1>6, <3>6, <4>2, <4>3, <4>4
    <3>9. Height(i)' = H + 1 /\ AllBlocks(i)' = AllBlocks(i)
      BY <1>7, <1>12, <3>1
    <3>10. i \in Handled'..Len(log') /\ i = Handled'
      BY <1>1, <1>6, <1>8
    <3>11. TreesInv(i)'
      BY <1>16, <3>1, <3>5, <3>7, <3>8, <3>9, <3>10 DEF TreesInv
    <3>12. QED  BY <3>1, <3>11
  <2>2. CASE s # i - 1
    <3>1. z = s /\ AllBlocks(s) /\ s >= i
      BY <1>6, <1>14, <2>2
    <3>2. TreeKnown(db, i)
      <4>1. H = s /\ db.trees[i].l1 = i
        BY <1>4, <1>6, <1>10, <3>1 DEF TreesInv
      <4>2. DOMAIN db.trees = 1..H
        BY <1>9, <1>10, FirstOnes
      <4>3. i \in DOMAIN db.trees
        BY <1>6, <3>1, <4>1, <4>2
      <4>4. QED  BY <4>1, <4>3 DEF TreeKnown
    <3>3. db'.trees = db.trees
      BY <1>11, <3>2
    <3>4. s \in Handled'..Len(log')
      BY <1>1, <1>6, <1>8, <3>1
    <3>5. AllBlocks(s)' /\ Height(s)' = Height(s)
      BY <1>12, <3>1
    <3>6. TreesInv(s)'
      BY <1>4, <1>16, <3>1, <3>3, <3>4, <3>5 DEF TreesInv
    <3>7. QED  BY <3>1, <3>6
  <2>3. QED  BY <2>1, <2>2
<1>18. SpentInv(z)'
  <2> SUFFICES ASSUME NEW c \in DOMAIN db'.commitments, db'.commitments[c].nullified,
                      NEW t, t = db'.commitments[c].by
               PROVE  /\ t \in DOMAIN made /\ c \in made[t].inputs
                      /\ SameNumber(t) => StandsInDB(z, t)' /\ NotRemoved(z, t)'
    BY <1>1, <1>12 DEF SpentInv
  <2>1. c \in DOMAIN db.commitments /\ db.commitments[c].nullified /\ t = db.commitments[c].by
    BY <1>11 DEF Retained
  <2>2. /\ t \in DOMAIN made /\ c \in made[t].inputs
        /\ SameNumber(t) => StandsInDB(s, t) /\ NotRemoved(s, t)
    BY <1>4, <2>1 DEF SpentInv
  <2>3. StandsInDB(s, t) => StandsInDB(z, t)'
    <3>1. db'.txs = db.txs /\ db'.blocks = db.blocks
      BY <1>11 DEF Retained
    <3>2. QED  BY <1>1, <1>12, <1>15, <3>1 DEF StandsInDB
  <2>4. NotRemoved(s, t) => NotRemoved(z, t)'
    BY <1>1, <1>12, <1>15 DEF NotRemoved
  <2>5. QED  BY <2>2, <2>3, <2>4
<1>19. z \in 0..Len(log')
  BY <1>1
<1>20. \E e \in 0..Len(log') : MarksInv(z, e)'
  <2>1. PICK e \in 0..Len(log) : MarksInv(s, e)
    BY <1>4
  <2>2. FinishPlaced(db, db', b, Height(s))
    <3> DEFINE syncing == Current.by # "socket"
    <3>1. db' = FinishBlock(db, b, syncing)
      BY <1>1, <1>3
    <3> HIDE DEF syncing
    <3>2. QED  BY <1>4, <3>1, FinishesBlock
  <2>3. CASE s = i - 1
    <3>1. z = i /\ TreesInv(i - 1) /\ MarksInv(i - 1, e) /\ FinishPlaced(db, db', b, Height(i - 1))
      BY <1>4, <1>6, <1>14, <2>1, <2>2, <2>3
    <3>2. MarksInv(i, i)'
      BY <1>1, <1>6, <1>8, <3>1, MarksOfTree
    <3>3. QED  BY <1>1, <1>19, <3>1, <3>2
  <2>4. CASE s # i - 1
    <3>1. z = s /\ AllBlocks(s) /\ s \in i..Len(log)
      BY <1>6, <1>14, <2>4
    <3>2. MarksInv(s, e)'
      BY <1>1, <1>4, <1>6, <1>8, <2>1, <2>2, <3>1, MarksOfKnownTree
    <3>3. QED  BY <1>1, <3>1, <3>2
  <2>5. QED  BY <2>3, <2>4
<1>21. QED  BY <1>8, <1>13, <1>17, <1>18, <1>19, <1>20 DEF FollowsLog

LEMMA HandleRollbackFollows ==
  ASSUME IInv, ChainInv, PlacesInv, FollowsLog, HandleRollback
  PROVE  FollowsLog'
<1>1. /\ queue # <<>> /\ ~ IsBlock(Current.event) /\ queue' = Tail(queue)
      /\ db' = Rollback(db, Current.event.n)
      /\ made' = made /\ log' = log /\ pool' = pool
  BY DEF HandleRollback, chainVars
<1>2. PICK i : i = Handled + 1
  OBVIOUS
<1>3. PICK n : n = Current.event.n
  OBVIOUS
<1>4. PICK s \in 0..Len(log) : TreesInv(s) /\ SpentInv(s) /\ \E e \in 0..Len(log) : MarksInv(s, e)
  BY DEF FollowsLog
<1>5. InQueue /\ TxsInv /\ MadeInv
  BY DEF FollowsLog, ChainInv
<1>6. /\ i \in 1..Len(log) /\ ~ IsBlock(log[i]) /\ n = log[i].n /\ Handled = i - 1
      /\ Seen = i - 1 /\ Len(log) \in Nat /\ i \in Nat /\ s = i - 1
  <2>1. /\ i \in 1..Len(log) /\ Current.event = log[i] /\ Seen = Handled /\ Handled \in Nat
        /\ Len(log) \in Nat
    BY <1>1, <1>2, <1>5, UnderWay, Positions, LogTypes
  <2>2. Handled = i - 1
    BY <1>2, <2>1
  <2>3. s = i - 1
    <3>1. s \in i - 1..Len(log) /\ (s = i - 1 \/ AllBlocks(s))
      BY <1>4, <2>2 DEF TreesInv
    <3>2. s # i - 1 => i \in 1..s
      BY <2>1, <3>1
    <3>3. QED  BY <1>1, <2>1, <3>1, <3>2 DEF AllBlocks
  <2>4. QED  BY <1>1, <1>3, <2>1, <2>2, <2>3
<1>7. n \in Nat /\ n < Height(i - 1) /\ Height(i) = n
  BY <1>6, InOrder, LogTypes
<1>8. InQueue' /\ Handled' = i /\ Seen' = i
  BY <1>1, <1>2, <1>5, Next1
<1>9. PICK H \in Nat : H = Height(i - 1)
  BY <1>6, LogTypes
<1>10. /\ db.trees = First(db.trees, H)
       /\ \A k \in 1..H : db.trees[k].n = k - 1 /\ db.trees[k].l1 \in 1..i - 1
       /\ \A c \in DOMAIN db.commitments : db.commitments[c].l1 <= i
  BY <1>4, <1>6, <1>9 DEF TreesInv, First
<1>11. RolledBack(db, db', n) /\ RollbackPlaced(db, db', n)
  <2>1. IsDB(db)
    BY DEF IInv, Types, DBTypes
  <2>2. RolledBack(db, Rollback(db, n), n)
    BY <1>7, <2>1, RollbackEffect
  <2>3. RollbackPlaced(db, Rollback(db, n), n)
    BY <1>7, <2>1, RollbackMarks
  <2>4. QED  BY <1>1, <1>3, <2>2, <2>3
<1>12. db'.trees = First(db.trees, n)
  <2>1. n \in 0..H
    BY <1>7, <1>9
  <2>2. KeepBelow(db.trees, n) = First(db.trees, n)
    BY <1>10, <2>1, KeptBelow
  <2>3. QED  BY <1>11, <2>2 DEF RolledBack
<1>13. /\ \A a : \A t : BlockAt(a, t)' = BlockAt(a, t) /\ Breaks(a, t)' = Breaks(a, t)
       /\ \A a : AllBlocks(a)' = AllBlocks(a) /\ Height(a)' = Height(a)
       /\ \A a, e : Stands(a, e)' = Stands(a, e)
       /\ \A t : SameNumber(t)' = SameNumber(t)
  BY <1>1 DEF BlockAt, Breaks, CheckValidHistoricRootsBlockNumber, AllBlocks, Height, Stands,
              SameNumber, Inclusions, IsBlock
<1>14. \A t \in DOMAIN db'.txs : t \in DOMAIN db.txs /\ db'.txs[t] = db.txs[t]
  BY <1>11 DEF RolledBack
<1>15. TxsInv'
  <2> SUFFICES ASSUME NEW t \in DOMAIN db'.txs
               PROVE  /\ \E a \in 1..Len(log) : /\ BlockAt(a, t) /\ (a <= i \/ AllBlocks(a))
                                                /\ db'.txs[t].n = log[a].block.n
                      /\ db'.txs[t].decrypted => made[t].kind \in Foreign
    BY <1>1, <1>8, <1>13 DEF TxsInv
  <2>1. t \in DOMAIN db.txs /\ db'.txs[t] = db.txs[t]
    BY <1>14
  <2>2. PICK a \in 1..Len(log) : /\ BlockAt(a, t) /\ (a <= i - 1 \/ AllBlocks(a))
                                 /\ db.txs[t].n = log[a].block.n
    BY <1>5, <1>6, <2>1 DEF TxsInv
  <2>3. a <= i - 1 => a <= i
    BY <1>6
  <2>4. db.txs[t].decrypted => made[t].kind \in Foreign
    BY <1>5, <2>1 DEF TxsInv
  <2>5. QED  BY <2>1, <2>2, <2>3, <2>4
<1>16. TreesInv(i)'
  <2>1. db'.trees = [k \in 1..n |-> db.trees[k]]
    BY <1>12 DEF First
  <2>2. \A k \in 1..n : k \in 1..H /\ db'.trees[k] = db.trees[k]
    BY <1>7, <1>9, <2>1
  <2>3. db'.trees = [k \in 1..n |-> db'.trees[k]]
    BY <2>1
  <2>4. 1..i - 1 \subseteq 1..i
    BY <1>6
  <2>5. \A k \in 1..n : db'.trees[k].n = k - 1 /\ db'.trees[k].l1 \in 1..i
    BY <1>10, <2>2, <2>4
  <2>6. \A c \in DOMAIN db'.commitments : db'.commitments[c].l1 <= i + 1
    <3>1. \A c \in DOMAIN db.commitments : db.commitments[c].l1 \in Int
      BY DEF IInv, Types, DBTypes, IsDB, IsMarks
    <3>2. \A c \in DOMAIN db'.commitments :
            c \in DOMAIN db.commitments /\ db'.commitments[c].l1 \in {db.commitments[c].l1, -1}
      BY <1>11 DEF RolledBack
    <3>3. ASSUME NEW c \in DOMAIN db'.commitments PROVE db'.commitments[c].l1 <= i + 1
      <4>1. db.commitments[c].l1 \in Int /\ db.commitments[c].l1 <= i
        BY <1>10, <3>1, <3>2
      <4>2. QED  BY <1>6, <3>2, <4>1
    <3>4. QED  BY <3>3
  <2>7. ~ AllBlocks(i)
    BY <1>6 DEF AllBlocks
  <2>8. i \in Handled'..Len(log') /\ i = Handled'
    BY <1>1, <1>6, <1>8
  <2>9. Height(i)' = n /\ ~ AllBlocks(i)'
    BY <1>7, <1>13, <2>7
  <2>10. QED  BY <2>3, <2>5, <2>6, <2>8, <2>9 DEF TreesInv
<1>17. Reached(s) = i - 1 /\ Reached(i)' = i
  BY <1>6, <1>8 DEF Reached
<1>18. SpentInv(i)'
  <2> SUFFICES ASSUME NEW c \in DOMAIN db'.commitments, db'.commitments[c].nullified,
                      NEW t, t = db'.commitments[c].by
               PROVE  /\ t \in DOMAIN made /\ c \in made[t].inputs
                      /\ SameNumber(t) => StandsInDB(i, t)' /\ NotRemoved(i, t)'
    BY <1>1, <1>13 DEF SpentInv
  <2>1. /\ c \in DOMAIN db.commitments /\ db.commitments[c].nullified /\ t = db.commitments[c].by
        /\ \A u \in Invalid(db, n) : c \notin made[u].inputs
    BY <1>11 DEF RolledBack
  <2>2. /\ t \in DOMAIN made /\ c \in made[t].inputs
        /\ SameNumber(t) => StandsInDB(s, t) /\ NotRemoved(s, t)
    BY <1>4, <2>1 DEF SpentInv
  <2>3. t \notin Invalid(db, n) /\ t \notin Decrypted(db, n)
    <3>1. t \notin Invalid(db, n)
      BY <2>1, <2>2
    <3>2. t \in Decrypted(db, n) => t \in DOMAIN db.txs /\ db.txs[t].decrypted
      BY DEF Decrypted, Removed, GetTransactionsByL2Block
    <3>3. made[t].kind \notin Foreign
      BY <1>5, <2>2 DEF MadeInv
    <3>4. QED  BY <1>5, <3>1, <3>2, <3>3 DEF TxsInv
  <2>4. \A a \in 1..i : BlockAt(a, t) => a \in 1..i - 1 /\ a \in 1..Len(log) /\ log[a].block.n \in Nat
    <3> SUFFICES ASSUME NEW a \in 1..i, BlockAt(a, t)
                 PROVE  a \in 1..i - 1 /\ a \in 1..Len(log) /\ log[a].block.n \in Nat
      OBVIOUS
    <3>1. IsBlock(log[a]) /\ a # i
      BY <1>6 DEF BlockAt
    <3>2. a \in 1..i - 1 /\ a \in 1..Len(log)
      BY <1>6, <3>1
    <3>3. QED  BY <3>1, <3>2, LogTypes
  <2>5. ASSUME SameNumber(t), NEW a \in 1..i - 1, BlockAt(a, t), Stands(a, i - 1)
        PROVE  /\ t \in DOMAIN db.txs /\ log[a].block.n \in DOMAIN db.blocks
               /\ db.blocks[log[a].block.n] = t /\ db.txs[t].n = log[a].block.n
    <3>1. /\ t \in DOMAIN db.txs /\ log[a].block.n \in DOMAIN db.blocks
          /\ db.blocks[log[a].block.n] = t
      BY <1>17, <2>2, <2>5 DEF StandsInDB
    <3>2. PICK e \in 1..Len(log) : BlockAt(e, t) /\ db.txs[t].n = log[e].block.n
      BY <1>5, <3>1 DEF TxsInv
    <3>3. a \in Inclusions(t) /\ e \in Inclusions(t)
      <4>1. a \in 1..Len(log) /\ DOMAIN log = 1..Len(log)
        BY <1>6, LogTypes
      <4>2. QED  BY <2>5, <3>2, <4>1 DEF Inclusions, BlockAt
    <3>4. log[a].block.n = log[e].block.n
      BY <2>5, <3>3 DEF SameNumber
    <3>5. QED  BY <3>1, <3>2, <3>4
  <2>6. ASSUME SameNumber(t) PROVE StandsInDB(i, t)'
    <3> SUFFICES ASSUME NEW a \in 1..i, BlockAt(a, t), Stands(a, i)
                 PROVE  /\ t \in DOMAIN db'.txs /\ log[a].block.n \in DOMAIN db'.blocks
                        /\ db'.blocks[log[a].block.n] = t
      BY <1>1, <1>13, <1>17 DEF StandsInDB
    <3>1. a \in 1..i - 1 /\ log[a].block.n \in Nat
      BY <2>4
    <3>2. Stands(a, i - 1) /\ log[a].block.n < n
      <4>1. i \in a + 1..i /\ \A k \in a + 1..i - 1 : k \in a + 1..i
        BY <1>6, <3>1
      <4>2. QED  BY <1>6, <4>1 DEF Stands
    <3>3. /\ t \in DOMAIN db.txs /\ log[a].block.n \in DOMAIN db.blocks
          /\ db.blocks[log[a].block.n] = t /\ db.txs[t].n = log[a].block.n
      BY <2>5, <2>6, <3>1, <3>2
    <3>4. ~(log[a].block.n >= n)
      BY <1>7, <3>1, <3>2
    <3>5. QED  BY <1>11, <2>3, <3>3, <3>4 DEF RolledBack
  <2>7. ASSUME SameNumber(t) PROVE NotRemoved(i, t)'
    <3> SUFFICES ASSUME NEW e \in 1..i, NEW a \in 1..e - 1,
                        BlockAt(a, t), Breaks(e, t), Stands(a, e - 1)
                 PROVE  log[a].block.n < log[e].n
      BY <1>1, <1>13, <1>17 DEF NotRemoved
    <3>1. CASE e # i
      <4>1. e \in 1..i - 1
        BY <1>6, <3>1
      <4>2. QED  BY <1>17, <2>2, <2>7, <4>1 DEF NotRemoved
    <3>2. CASE e = i
      <4>1. a \in 1..i - 1 /\ a \in 1..i /\ Stands(a, i - 1)
        BY <1>6, <3>2
      <4>2. log[a].block.n \in Nat
        BY <2>4, <4>1
      <4>3. /\ t \in DOMAIN db.txs /\ log[a].block.n \in DOMAIN db.blocks
            /\ db.blocks[log[a].block.n] = t /\ db.txs[t].n = log[a].block.n
        BY <2>5, <2>7, <4>1
      <4>4. ~ CheckValidHistoricRootsBlockNumber(t, n - 1)
        BY <1>6, <3>2 DEF Breaks
      <4>5. ASSUME log[a].block.n >= n PROVE FALSE
        <5>1. t \in Removed(db, n)
          BY <4>3, <4>5 DEF Removed, GetTransactionsByL2Block, FindBlocksFromBlockNumberL2
        <5>2. QED  BY <2>3, <4>4, <5>1 DEF Invalid
      <4>6. QED  BY <1>6, <1>7, <3>2, <4>2, <4>5
    <3>3. QED  BY <3>1, <3>2
  <2>8. QED  BY <2>2, <2>6, <2>7
<1>19. i \in 0..Len(log')
  BY <1>1, <1>6
<1>20. \E e \in 0..Len(log') : MarksInv(i, e)'
  <2>1. PICK e \in 0..Len(log) : MarksInv(i - 1, e)
    BY <1>4, <1>6
  <2>2. \A k \in 1..n : db'.trees[k] = db.trees[k]
    BY <1>12 DEF First
  <2>3. MarksInv(i, i)'
    BY <1>1, <1>5, <1>6, <1>8, <1>11, <2>1, <2>2, MarksOfRollback
  <2>4. QED  BY <1>19, <2>3
<1>21. QED  BY <1>8, <1>15, <1>16, <1>18, <1>19, <1>20 DEF FollowsLog

(* What is replayed.                                                       *)
LEMMA Replayed ==
  ASSUME IInv, NEW from \in 1..Len(log) + 1, NEW by
  PROVE  LET q == SyncState(from, by) IN
         /\ Len(q) = Len(log) + 1 - from
         /\ \A i \in 1..Len(q) : q[i] = Job(log[(from - 1) + i], by)
<1> DEFINE past == SubSeq(log, from, Len(log))
           q == [i \in DOMAIN past |-> Job(past[i], by)]
<1>1. log \in Seq(Events) /\ Len(log) \in Nat /\ from \in Nat /\ from # 0
  BY LogTypes
<1>2. /\ past \in Seq(Events) /\ Len(past) = Len(log) + 1 - from /\ DOMAIN past = 1..Len(past)
      /\ \A i \in 1..Len(past) : past[i] = log[(from - 1) + i]
  <2>1. CASE from = Len(log) + 1
    BY <1>1, <2>1
  <2>2. CASE from # Len(log) + 1
    <3>1. /\ past \in Seq(Events) /\ Len(past) = Len(log) - from + 1
          /\ \A i \in 1..Len(past) : past[i] = log[from + i - 1]
      BY <1>1, <2>2
    <3>2. \A i \in 1..Len(past) : from + i - 1 = (from - 1) + i
      BY <1>1, <3>1
    <3>3. QED  BY <1>1, <3>1, <3>2
  <2>3. QED  BY <2>1, <2>2
<1>3. SyncState(from, by) = q
  BY <1>1 DEF SyncState
<1> HIDE DEF past
<1>4. DOMAIN q = 1..Len(past) /\ Len(past) \in Nat
  BY <1>1, <1>2
<1>5. Len(q) = Len(past)
  BY <1>4
<1>6. \A i \in 1..Len(past) : q[i] = Job(past[i], by)
  BY <1>4
<1> HIDE DEF q
<1>7. QED  BY <1>2, <1>3, <1>5, <1>6

LEMMA RestartFollows ==
  ASSUME IInv, ChainInv, FollowsLog, Restart, RollbacksHandledOnce'
  PROVE  /\ FollowsLog' /\ \A i \in 1..Len(log) : IsBlock(log[i]) /\ log[i].block.tx \in pool
<1>0. PICK L : L = Len(log)
  OBVIOUS
<1>1. PICK from \in 1..L + 1 : FirstSeen(from) /\ queue' = SyncState(from, "start")
  BY <1>0 DEF Restart
<1>2. /\ RestartAfterRollback \/ count.rollbacks = 0
      /\ count' = [count EXCEPT !.restarts = @ + 1]
      /\ made' = made /\ log' = log /\ pool' = pool /\ db' = db
  BY DEF Restart, Count, chainVars
<1>3. \A i \in 1..L : IsBlock(log[i]) /\ log[i].block.tx \in pool
  <2>1. count'.restarts # 0
    BY <1>2 DEF IInv, Types, CountTypes
  <2>2. count.rollbacks = 0
    BY <1>2, <2>1 DEF RollbacksHandledOnce
  <2>3. QED  BY <1>0, <2>2 DEF ChainInv, LogInv, NoneYet
<1>4. PICK s \in 0..L : TreesInv(s) /\ SpentInv(s) /\ \E e \in 0..L : MarksInv(s, e)
  BY <1>0 DEF FollowsLog
<1>5. L \in Nat /\ from \in Nat /\ from >= 1 /\ s \in Nat
  BY <1>0, LogTypes
<1>6. from <= s + 1
  <2>1. CASE from = 1
    BY <1>5, <2>1
  <2>2. CASE from # 1
    <3>1. PICK c \in DOMAIN db.commitments : from = db.commitments[c].l1
      BY <1>1, <2>2 DEF FirstSeen
    <3>2. QED  BY <1>4, <3>1 DEF TreesInv
  <2>3. QED  BY <2>1, <2>2
<1>7. /\ Len(queue') = L + 1 - from
      /\ \A i \in 1..Len(queue') : queue'[i] = Job(log[(from - 1) + i], "start")
  <2> HIDE DEF SyncState
  <2>1. from \in 1..Len(log) + 1
    BY <1>0
  <2>2. QED  BY <1>0, <1>1, <2>1, Replayed
<1>8. \A i \in 1..Len(queue') :
        queue'[i].event = log[(from - 1) + i] /\ queue'[i].step = "new" /\ (from - 1) + i \in 1..L
  <2>1. \A e : Job(e, "start").event = e /\ Job(e, "start").step = "new"
    BY DEF Job
  <2>2. \A i \in 1..Len(queue') : (from - 1) + i \in 1..L
    BY <1>5, <1>7
  <2>3. QED  BY <1>7, <2>1, <2>2
<1>9. Handled' = from - 1
  BY <1>0, <1>2, <1>5, <1>7 DEF Handled
<1>10. queue' \in Seq(Jobs)
  BY RestartIInv DEF IInv, Types, QueueTypes
<1>11. Seen' = from - 1
  <2>1. queue' # <<>> => Head(queue') = queue'[1] /\ 1 \in 1..Len(queue')
    BY <1>10
  <2>2. queue' # <<>> => Head(queue').step = "new"
    BY <1>8, <2>1
  <2>3. QED  BY <1>9, <2>2 DEF Seen, Current
<1>12. InQueue'
  BY <1>0, <1>2, <1>5, <1>7, <1>8, <1>9 DEF InQueue, IsBlock
<1>13. /\ \A a : \A t : BlockAt(a, t)' = BlockAt(a, t) /\ Breaks(a, t)' = Breaks(a, t)
       /\ \A a : AllBlocks(a)' = AllBlocks(a) /\ Height(a)' = Height(a)
       /\ \A a, e : Stands(a, e)' = Stands(a, e)
       /\ \A t : SameNumber(t)' = SameNumber(t)
  BY <1>2 DEF BlockAt, Breaks, CheckValidHistoricRootsBlockNumber, AllBlocks, Height, Stands,
              SameNumber, Inclusions, IsBlock
<1>14. \A k \in 0..L : AllBlocks(k) /\ \A a \in 1..L : Stands(a, k)
  <2>1. \A k \in 0..L : \A i \in 1..k : i \in 1..L
    BY <1>5
  <2>2. \A a \in 1..L : \A k \in 0..L : \A i \in a + 1..k : i \in 1..L
    BY <1>5
  <2>3. QED  BY <1>3, <2>1, <2>2 DEF AllBlocks, Stands
<1>15. TxsInv'
  <2>1. \A a \in 1..L : AllBlocks(a)
    BY <1>5, <1>14
  <2>2. TxsInv
    BY DEF FollowsLog
  <2>3. QED  BY <1>0, <1>2, <1>13, <2>1, <2>2 DEF TxsInv
<1>16. TreesInv(s)'
  <2>1. s \in Handled'..L /\ AllBlocks(s)
    BY <1>5, <1>6, <1>9, <1>14
  <2>2. QED  BY <1>0, <1>2, <1>4, <1>13, <2>1 DEF TreesInv
<1>17. Reached(s)' = s
  BY <1>5, <1>6, <1>11 DEF Reached
<1>18. Reached(s) \in s..L
  <2>1. s \in Handled..Len(log)
    BY <1>4 DEF TreesInv
  <2>2. InQueue
    BY DEF FollowsLog
  <2>3. Reached(s) \in Seen..Len(log) /\ s <= Reached(s) /\ Seen \in Nat
    BY <2>1, <2>2, Positions
  <2>4. QED  BY <1>0, <1>5, <2>3
<1>19. SpentInv(s)'
  <2> SUFFICES ASSUME NEW c \in DOMAIN db.commitments, db.commitments[c].nullified,
                      NEW t, t = db.commitments[c].by
               PROVE  /\ t \in DOMAIN made /\ c \in made[t].inputs
                      /\ SameNumber(t) => StandsInDB(s, t)' /\ NotRemoved(s, t)'
    BY <1>2, <1>13 DEF SpentInv
  <2>1. /\ t \in DOMAIN made /\ c \in made[t].inputs /\ (SameNumber(t) => StandsInDB(s, t))
    BY <1>4 DEF SpentInv
  <2>2. StandsInDB(s, t) => StandsInDB(s, t)'
    <3>1. PICK z \in 0..L : z = Reached(s)
      BY <1>5, <1>18
    <3>2. \A a \in 1..s : a \in 1..z /\ a \in 1..L /\ Stands(a, z)
      BY <1>5, <1>14, <1>18, <3>1
    <3>3. QED  BY <1>2, <1>13, <1>17, <3>1, <3>2 DEF StandsInDB
  <2>3. NotRemoved(s, t)'
    <3>1. \A e \in 1..s : ~ Breaks(e, t)
      <4>1. \A e \in 1..s : e \in 1..L
        BY <1>5
      <4>2. QED  BY <1>3, <4>1 DEF Breaks
    <3>2. QED  BY <1>13, <1>17, <3>1 DEF NotRemoved
  <2>4. QED  BY <2>1, <2>2, <2>3
<1>20. \E e \in 0..L : MarksInv(s, e)'
  <2>1. PICK e \in 0..L : MarksInv(s, e)
    BY <1>4
  <2>2. Seen' \in 0..s
    BY <1>5, <1>6, <1>11
  <2>3. Seen \in Nat
    <3>1. InQueue
      BY DEF FollowsLog
    <3>2. QED  BY <3>1, Positions
  <2>4. QED  BY <1>0, <1>2, <1>3, <2>1, <2>2, <2>3, MarksReplayed
<1>21. FollowsLog'
  BY <1>0, <1>2, <1>4, <1>12, <1>15, <1>16, <1>19, <1>20 DEF FollowsLog
<1>22. QED  BY <1>0, <1>3, <1>21

(* Nothing is out of order unless an event was missed.                     *)
LEMMA NeverResynchronises ==
  ASSUME IInv, ChainInv, FollowsLog, Resynchronise
  PROVE  FALSE
<1>1. queue # <<>> /\ IsBlock(Current.event) /\ OutOfOrder(Current)
  BY DEF Resynchronise
<1>2. PICK i : i = Handled + 1
  OBVIOUS
<1>3. PICK s \in 0..Len(log) : TreesInv(s)
  BY DEF FollowsLog
<1>4. /\ i \in 1..Len(log) /\ IsBlock(log[i]) /\ Handled = i - 1 /\ Current.event = log[i]
      /\ Len(log) \in Nat
  BY <1>1, <1>2, UnderWay, Positions, LogTypes DEF FollowsLog
<1>5. Height(s) \in Nat /\ Height(i - 1) \in Nat /\ Len(db.trees) = Height(s)
  <2>1. Height(s) \in Nat /\ db.trees = First(db.trees, Height(s))
    BY <1>3, LogTypes DEF TreesInv, First
  <2>2. Height(i - 1) \in Nat
    BY <1>4, LogTypes
  <2>3. PICK H \in Nat : H = Height(s)
    BY <2>1
  <2>4. Len(db.trees) = H
    BY <2>1, <2>3, FirstOnes
  <2>5. QED  BY <2>1, <2>2, <2>3, <2>4
<1>6. log[i].block.n = Height(i - 1) /\ log[i].block.n > Height(s)
  BY <1>1, <1>4, <1>5, InOrder DEF OutOfOrder, GetNumberOfL2Blocks
<1>7. CASE s = i - 1
  BY <1>5, <1>6, <1>7
<1>8. CASE s # i - 1
  <2>1. s \in i..Len(log) /\ AllBlocks(s)
    BY <1>3, <1>4, <1>8 DEF TreesInv
  <2>2. log[i].block.n < Height(s)
    BY <1>4, <2>1, InOrder
  <2>3. QED  BY <1>5, <1>6, <2>2
<1>9. QED  BY <1>7, <1>8

(***************************************************************************)
(* The requests, the chain and the client after the log.                   *)
(***************************************************************************)
LEMMA Stepped ==
  ASSUME IInv, NEW r \in Requests, NEW to, Step(r, to)
  PROVE  request'[r] = to /\ \A q \in Requests \ {r} : request'[q] = request[q]
BY DEF IInv, Types, RequestTypes, Step

LEMMA Counted ==
  ASSUME IInv, NEW what \in {"rollbacks", "failures", "provided", "restarts"}, Count(what)
  PROVE  /\ count'[what] # 0
         /\ \A x \in {"rollbacks", "lost", "provided", "restarts"} :
              x # what => count'[x] = count[x]
<1> DEFINE Counts == [proposed : Nat, rollbacks : Nat, lost : Nat, failures : Nat,
                      provided : Nat, restarts : Nat, left : {count.left}]
           n == count[what] + 1
<1>1. count \in Counts /\ count' = [count EXCEPT ![what] = n]
  BY DEF IInv, Types, CountTypes, Count
<1>2. n \in Nat /\ n # 0
  BY <1>1
<1> HIDE DEF n
<1>3. QED  BY <1>1, <1>2

(* What a step counts: a request that names its inputs, a block missed, a  *)
(* rollback, a restart.                                                    *)
Before ==
  /\ RollbacksHandledOnce' => RollbacksHandledOnce
  /\ count'.provided = 0 => count.provided = 0

LEMMA SameCount ==
  ASSUME count' = count
  PROVE  Before /\ count'.rollbacks = count.rollbacks
BY DEF Before, RollbacksHandledOnce

LEMMA CountBefore ==
  ASSUME IInv, NEW what \in {"rollbacks", "failures", "provided", "restarts"}, Count(what)
  PROVE  Before /\ (what # "rollbacks" => count'.rollbacks = count.rollbacks)
<1>1. count'.lost = count.lost
  BY Counted
<1>2. count.restarts = count'.restarts \/ count'.restarts # 0
  BY Counted
<1>3. count.provided = count'.provided \/ count'.provided # 0
  BY Counted
<1>4. what # "rollbacks" => count'.rollbacks = count.rollbacks
  BY Counted
<1>5. QED  BY <1>1, <1>2, <1>3, <1>4 DEF Before, RollbacksHandledOnce

LEMMA ProposeBefore ==
  ASSUME IInv, Propose
  PROVE  Before
<1>1. PICK lost \in BOOLEAN :
        count' = [count EXCEPT !.proposed = @ + 1, !.lost = @ + (IF lost THEN 1 ELSE 0)]
  <2>1. PICK t \in {u \in pool : Includable(u)} : \E lost \in BOOLEAN :
          count' = [count EXCEPT !.proposed = @ + 1, !.lost = @ + (IF lost THEN 1 ELSE 0)]
    BY DEF Propose
  <2>2. QED  BY <2>1
<1> DEFINE Counts == [proposed : Nat, rollbacks : Nat, lost : Nat, failures : Nat,
                      provided : Nat, restarts : Nat, left : {count.left}]
           a == count.proposed + 1
           b == count.lost + (IF lost THEN 1 ELSE 0)
<1>2. count \in Counts /\ count' = [count EXCEPT !.proposed = a, !.lost = b]
  BY <1>1 DEF IInv, Types, CountTypes
<1>3. b = 0 => count.lost = 0
  BY <1>2
<1> HIDE DEF a, b
<1>4. count'.lost = b /\ count'.restarts = count.restarts /\ count'.provided = count.provided
  BY <1>2
<1>5. QED  BY <1>3, <1>4 DEF Before, RollbacksHandledOnce

LEMMA FailureBefore ==
  ASSUME IInv, NEW left, count.failures < MaxFailures,
         count' = [count EXCEPT !.failures = @ + 1, !.left = left]
  PROVE  Before /\ count'.rollbacks = count.rollbacks
BY FailureCounted DEF Before, RollbacksHandledOnce

(* Transaction n is made; the client stores what is its own, and marks     *)
(* what it spends.                                                         *)
Transacts(tx, n) ==
  /\ MadeGrows(tx) /\ GoodTransaction(tx) /\ n = Len(made) + 1
  /\ UNCHANGED <<log, queue, count>>
  /\ pool' \subseteq pool \cup {n}
  /\ db'.txs = db.txs /\ db'.blocks = db.blocks /\ db'.trees = db.trees
  /\ DOMAIN db.commitments \subseteq DOMAIN db'.commitments
  /\ \A c \in DOMAIN db'.commitments \ DOMAIN db.commitments :
       /\ c[1] = n /\ ~ db'.commitments[c].nullified /\ db'.commitments[c].l1 = -1
       /\ db'.commitments[c].onChain = -1 /\ db'.commitments[c].nullifiedOnChain = -1
       /\ db'.commitments[c].root = NoTree
  /\ tx.kind \in Foreign \/ OursIn(tx, n) \subseteq DOMAIN db'.commitments
  /\ \A c \in DOMAIN db.commitments :
       /\ MarksKept(db, db', c) /\ db'.commitments[c].l1 = db.commitments[c].l1
       /\ c \in tx.inputs => db'.commitments[c].nullified /\ db'.commitments[c].by = n
       /\ c \notin tx.inputs => db'.commitments[c] = db.commitments[c]

LEMMA OfMade ==
  ASSUME IInv
  PROVE  /\ \A c \in DOMAIN db.commitments : c[1] \in DOMAIN made
         /\ \A r \in Requests : \A c \in request[r].inputs : c[1] \in DOMAIN made
BY TypesImpliesTypeOK DEF IInv, TypeOK, OursOf

LEMMA StoresTransacts ==
  ASSUME IInv, NEW tx, NEW taken, Make(tx, taken), GoodTransaction(tx),
         UNCHANGED <<queue, count>>, NEW d, IsDB(d), Same(db, d), NEW deposited,
         db' = StoreCommitments(d, OursIn(tx, Len(made) + 1), deposited),
         \A c \in DOMAIN db.commitments :
           /\ MarksKept(db, d, c)
           /\ c \in tx.inputs => d.commitments[c].nullified /\ d.commitments[c].by = Len(made) + 1
           /\ c \notin tx.inputs => d.commitments[c] = db.commitments[c]
  PROVE  Transacts(tx, Len(made) + 1)
<1> DEFINE n == Len(made) + 1
<1>1. /\ MadeGrows(tx) /\ UNCHANGED <<chain, log>> /\ pool' \subseteq pool \cup {n}
  BY MakeGrows
<1>2. \A c \in OursIn(tx, n) : c[1] = n
  BY DEF OursIn
<1>3. \A c \in DOMAIN db.commitments : c \notin OursIn(tx, n)
  <2>1. n \notin DOMAIN made
    BY <1>1 DEF MadeGrows
  <2>2. QED  BY <1>2, <2>1, OfMade
<1>4. /\ db'.txs = d.txs /\ db'.blocks = d.blocks /\ db'.trees = d.trees
      /\ DOMAIN db'.commitments = DOMAIN d.commitments \cup OursIn(tx, n)
      /\ \A c \in DOMAIN d.commitments \ OursIn(tx, n) : db'.commitments[c] = d.commitments[c]
      /\ \A c \in OursIn(tx, n) : ~ db'.commitments[c].nullified /\ db'.commitments[c].l1 = -1
  BY StoredOnce
<1>5. \A c \in DOMAIN db.commitments : db'.commitments[c] = d.commitments[c]
  BY <1>3, <1>4 DEF Same
<1>6. \A c \in DOMAIN db'.commitments \ DOMAIN db.commitments :
        /\ c \in OursIn(tx, n) /\ c \notin DOMAIN d.commitments
        /\ c[1] = n /\ ~ db'.commitments[c].nullified /\ db'.commitments[c].l1 = -1
  BY <1>2, <1>4 DEF Same
<1>7. \A c \in OursIn(tx, n) :
        /\ db'.commitments[c].onChain = -1 /\ db'.commitments[c].nullifiedOnChain = -1
        /\ c \notin DOMAIN d.commitments => db'.commitments[c].root = NoTree
  BY StoredMarks
<1>8. \A c \in DOMAIN db.commitments : MarksKept(db, db', c)
  BY <1>5 DEF MarksKept
<1>9. OursIn(tx, n) \subseteq DOMAIN db'.commitments
  BY <1>4
<1>10. QED  BY <1>1, <1>4, <1>5, <1>6, <1>7, <1>8, <1>9 DEF Transacts, Same

LEMMA FirstOutput ==
  ASSUME NEW outs \in TransferOutputs
  PROVE  1 \in DOMAIN outs /\ ~ outs[1]
<1>1. outs = <<FALSE>> \/ outs = <<FALSE, TRUE>>
  BY DEF TransferOutputs
<1>2. \A x \in Seq(BOOLEAN) : Len(x) >= 1 => 1 \in DOMAIN x
  OBVIOUS
<1>3. CASE outs = <<FALSE>>
  <2>1. <<FALSE>> \in Seq(BOOLEAN) /\ Len(<<FALSE>>) = 1
    OBVIOUS
  <2>2. <<FALSE>>[1] = FALSE
    OBVIOUS
  <2>3. QED  BY <1>2, <1>3, <2>1, <2>2
<1>4. CASE outs = <<FALSE, TRUE>>
  <2>1. <<FALSE, TRUE>> \in Seq(BOOLEAN) /\ Len(<<FALSE, TRUE>>) = 2
    OBVIOUS
  <2>2. <<FALSE, TRUE>>[1] = FALSE
    OBVIOUS
  <2>3. QED  BY <1>2, <1>4, <2>1, <2>2
<1>5. QED  BY <1>1, <1>3, <1>4

LEMMA ProveTransacts ==
  ASSUME IInv, NEW r \in Requests, Prove(r)
  PROVE  \E tx : \E n : \E taken :
           Transacts(tx, n) /\ Make(tx, taken) /\ tx.inputs = request[r].inputs
           /\ tx.roots = request[r].roots /\ Step(r, Idle)
<1> DEFINE q == request[r]
           n == Len(made) + 1
           Tx(kind, outs) == [kind |-> kind, inputs |-> q.inputs, roots |-> q.roots, outs |-> outs]
<1>a. PICK kind \in Kinds : \E outs \in Outputs(kind) :
        /\ Make(Tx(kind, outs), \A c \in Tx(kind, outs).inputs : RootHolds(Tx(kind, outs).roots[c]))
        /\ db' = SaveExtendedTransaction(db, Tx(kind, outs), n)
  BY DEF Prove
<1>1. PICK outs \in Outputs(kind) :
        /\ Make(Tx(kind, outs), \A c \in Tx(kind, outs).inputs : RootHolds(Tx(kind, outs).roots[c]))
        /\ db' = SaveExtendedTransaction(db, Tx(kind, outs), n)
  BY <1>a
<1>2. Step(r, Idle) /\ UNCHANGED <<mem, queue, count>>
  BY DEF Prove
<1> DEFINE tx == Tx(kind, outs)
           taken == \A c \in tx.inputs : RootHolds(tx.roots[c])
<1>3. tx.kind = kind /\ tx.outs = outs /\ tx.inputs = q.inputs /\ tx.roots = q.roots /\ Make(tx, taken)
  BY <1>1
<1>4. GoodTransaction(tx)
  <2>1. \A c \in tx.inputs : c[1] \in DOMAIN made
    BY <1>3, OfMade
  <2>2. kind \notin Foreign
    BY KindsAssumption DEF Services, Foreign
  <2>3. kind = "transfer" => outs \in TransferOutputs
    BY DEF Outputs
  <2>4. QED  BY <1>3, <2>1, <2>2, <2>3, FirstOutput DEF GoodTransaction
<1> DEFINE d == MarkNullified(db, tx.inputs, n)
           deposited == IF tx.kind = "depositFee" THEN {<<n, 1>>} ELSE {}
<1>5. db' = StoreCommitments(d, OursIn(tx, n), deposited)
  BY <1>1 DEF SaveExtendedTransaction, OursIn
<1> HIDE DEF tx, taken, deposited
<1>6. IsDB(db) /\ n \in Nat
  BY DEF IInv, Types, DBTypes, ChainTypes, MadeTypes
<1>7. IsDB(d)
  BY <1>6, MarkNullifiedReleases DEF Releases, Tame
<1>8. /\ Same(db, d)
      /\ \A c \in DOMAIN db.commitments :
           /\ c \in tx.inputs => d.commitments[c].nullified /\ d.commitments[c].by = n
           /\ MarksKept(db, d, c)
           /\ c \notin tx.inputs => d.commitments[c] = db.commitments[c]
  BY <1>6, RequestMarks, RequestsKeep
<1> HIDE DEF d
<1>9. Transacts(tx, n)
  BY <1>2, <1>3, <1>4, <1>5, <1>7, <1>8, StoresTransacts
<1>10. QED  BY <1>2, <1>3, <1>9

LEMMA DepositTransacts ==
  ASSUME IInv, Deposit
  PROVE  \E tx : \E n : \E taken :
           Transacts(tx, n) /\ Make(tx, taken) /\ tx.inputs = {} /\ request' = request
<1> DEFINE tx == [kind |-> "deposit", inputs |-> {}, roots |-> <<>>, outs |-> <<TRUE>>]
           n == Len(made) + 1
<1>1. /\ Make(tx, TRUE) /\ db' = StoreCommitments(db, {<<n, 1>>}, {<<n, 1>>})
      /\ UNCHANGED <<mem, queue, request, count>>
  BY DEF Deposit
<1>2. GoodTransaction(tx) /\ tx.inputs = {}
  BY DEF GoodTransaction, Foreign
<1>3. OursIn(tx, n) = {<<n, 1>>}
  <2>1. tx.outs = <<TRUE>>
    OBVIOUS
  <2>2. \A x \in Seq(BOOLEAN) : Len(x) = 1 => DOMAIN x = {1}
    OBVIOUS
  <2>3. <<TRUE>> \in Seq(BOOLEAN) /\ Len(<<TRUE>>) = 1 /\ <<TRUE>>[1] = TRUE
    OBVIOUS
  <2> HIDE DEF tx
  <2>4. DOMAIN tx.outs = {1} /\ tx.outs[1] = TRUE
    BY <2>1, <2>2, <2>3
  <2>5. {j \in DOMAIN tx.outs : tx.outs[j]} = {1}
    BY <2>4
  <2>6. QED  BY <2>5 DEF OursIn
<1>4. IsDB(db) /\ Same(db, db) /\ \A c \in DOMAIN db.commitments : MarksKept(db, db, c)
  BY DEF IInv, Types, DBTypes, Same, MarksKept
<1> HIDE DEF tx
<1>5. Transacts(tx, n)
  BY <1>1, <1>2, <1>3, <1>4, StoresTransacts
<1>6. QED  BY <1>1, <1>2, <1>5

LEMMA OthersTransacts ==
  ASSUME IInv, OthersTransact
  PROVE  \E tx : \E n : \E taken :
           Transacts(tx, n) /\ Make(tx, taken) /\ tx.inputs = {} /\ request' = request
<1> DEFINE Tx(kind) == [kind |-> kind, inputs |-> {}, roots |-> <<>>,
                        outs |-> <<kind = "received">>]
<1>1. PICK kind \in Foreign : Make(Tx(kind), TRUE)
  BY DEF OthersTransact
<1>2. UNCHANGED <<db, mem, queue, request, count>>
  BY DEF OthersTransact
<1>3. GoodTransaction(Tx(kind)) /\ Tx(kind).inputs = {}
  <2>1. \A x \in Seq(BOOLEAN) : Len(x) = 1 => DOMAIN x = {1}
    OBVIOUS
  <2>2. <<kind = "received">> \in Seq(BOOLEAN) /\ Len(<<kind = "received">>) = 1
    OBVIOUS
  <2>3. Tx(kind).outs = <<kind = "received">> /\ Tx(kind).kind = kind /\ Tx(kind).inputs = {}
    OBVIOUS
  <2>4. DOMAIN Tx(kind).outs = {1}
    BY <2>1, <2>2, <2>3
  <2> HIDE DEF Tx
  <2>5. QED  BY <2>3, <2>4 DEF GoodTransaction, Foreign
<1> HIDE DEF Tx
<1>4. MadeGrows(Tx(kind)) /\ UNCHANGED <<chain, log>> /\ pool' \subseteq pool \cup {Len(made) + 1}
  BY <1>1, MakeGrows
<1>5. Transacts(Tx(kind), Len(made) + 1)
  <2>1. Tx(kind).kind \in Foreign
    BY DEF Tx
  <2>2. QED  BY <1>2, <1>3, <1>4, <2>1 DEF Transacts, MarksKept
<1>6. QED  BY <1>1, <1>2, <1>3, <1>5

LEMMA TransactsFollows ==
  ASSUME IInv, ChainInv, NEW tx, NEW n, Transacts(tx, n), NEW taken, Make(tx, taken)
  PROVE  ChainInv' /\ (FollowsLog => FollowsLog')
<1>1. ChainInv'
  BY MakeChain DEF Transacts
<1>2. Besides
  <2>1. n \in DOMAIN made' \ DOMAIN made /\ made'[n] = tx
    BY DEF Transacts, MadeGrows
  <2>2. \A c \in DOMAIN db'.commitments :
          \/ c \in DOMAIN db.commitments
          \/ ~ db'.commitments[c].nullified /\ db'.commitments[c].l1 = -1
    BY DEF Transacts
  <2>3. QED  BY <2>1, <2>2 DEF Besides, Transacts, MadeGrows
<1>3. BesidesMarks
  <2>1. /\ DOMAIN made' \ DOMAIN made = {n} /\ n \notin DOMAIN made /\ made'[n] = tx
    BY DEF Transacts, MadeGrows
  <2>2. OursOf(n)' = OursIn(tx, n)
    BY <2>1 DEF OursOf, OursIn
  <2>3. \A t \in DOMAIN made' \ DOMAIN made :
          OursOf(t)' \subseteq DOMAIN db'.commitments \/ made'[t].kind \in Foreign
    BY <2>1, <2>2 DEF Transacts
  <2>4. QED  BY <2>1, <2>3 DEF Transacts, BesidesMarks
<1>4. QED  BY <1>1, <1>2, <1>3, FollowsBesides

(***************************************************************************)
(* The roots that are stored.                                              *)
(***************************************************************************)
RootsInv == SpendsLater /\ RootsRight

(* A request has no root that it did not have.                             *)
RootsStay(r) ==
  \A c \in Rooted(request'[r]) :
    c \in Rooted(request[r]) /\ request'[r].roots[c] = request[r].roots[c]

LEMMA IdleHasNoRoots ==
  ASSUME NEW r, request'[r] = request[r] \/ request'[r] = Idle
  PROVE  RootsStay(r)
BY DEF RootsStay, Rooted, Idle

LEMMA RootsKept ==
  ASSUME RootsRight, made' = made,
         \A c \in DOMAIN db'.commitments :
           \/ c \in DOMAIN db.commitments /\ db'.commitments[c].root = db.commitments[c].root
           \/ RootEnds(c)',
         \A r \in Requests : RootsStay(r)
  PROVE  RootsRight'
BY RootsOn DEF RootsStay

LEMMA HandleBlockRoots ==
  ASSUME IInv, ChainInv, FollowsLog, RootsRight, HandleBlock
  PROVE  RootsRight'
<1> DEFINE b == Current.event.block
<1>1. /\ queue # <<>> /\ IsBlock(Current.event) /\ db' = MarkBlock(db, b)
      /\ made' = made /\ request' = request
  BY DEF HandleBlock, chainVars
<1>2. QueueTypes /\ MadeTypes /\ log \in Seq(Events) /\ IsDB(db) /\ MadeInv
  BY DEF IInv, Types, ChainTypes, DBTypes, ChainInv
<1>3. b.n \in Nat /\ b.l1 \in Nat /\ b.tx \in DOMAIN made
  BY <1>1, <1>2, BlockTypes
<1>4. \A x \in DOMAIN db.txs : db.txs[x].n # -1
  BY NumbersKnown DEF FollowsLog
<1> HIDE DEF b
<1>5. BlockPlaced(db, db', b)
  BY <1>1, <1>2, <1>3, <1>4, MarkBlockMarks
<1>6. \A c \in DOMAIN db'.commitments :
        \/ c \in DOMAIN db.commitments /\ db'.commitments[c].root = db.commitments[c].root
        \/ RootEnds(c)'
  BY <1>5 DEF BlockPlaced, RootEnds
<1>a. \A r \in Requests : RootsStay(r)
  BY IdleHasNoRoots DEF HandleBlock
<1>7. QED  BY <1>a, <1>1, <1>6, RootsKept

LEMMA FinishEventRoots ==
  ASSUME IInv, ChainInv, FollowsLog, RootsRight, FinishEvent
  PROVE  RootsRight'
<1>1. /\ queue # <<>> /\ Current.step = "marked"
      /\ db' = FinishBlock(db, Current.event.block, Current.by # "socket")
      /\ made' = made /\ request' = request
  BY DEF FinishEvent, chainVars
<1>2. PICK i : i = Handled + 1
  OBVIOUS
<1>3. PICK b : b = Current.event.block
  OBVIOUS
<1>4. PICK s \in 0..Len(log) : TreesInv(s) /\ \E e \in 0..Len(log) : MarksInv(s, e)
  BY DEF FollowsLog
<1>5. InQueue
  BY DEF FollowsLog
<1>6. /\ i \in 1..Len(log) /\ IsBlock(log[i]) /\ b = log[i].block /\ Handled = i - 1
      /\ s \in i - 1..Len(log) /\ (s = i - 1 \/ AllBlocks(s))
  <2>1. /\ i \in 1..Len(log) /\ Current.event = log[i] /\ Handled \in Nat
        /\ Len(log) \in Nat /\ IsBlock(Current.event)
    BY <1>1, <1>2, <1>5, UnderWay, Positions, LogTypes
  <2>2. Handled = i - 1
    BY <1>2, <2>1
  <2>3. QED  BY <1>3, <1>4, <2>1, <2>2 DEF TreesInv
<1>7. FinishPlaced(db, db', b, Height(s))
  <2> DEFINE syncing == Current.by # "socket"
  <2>1. db' = FinishBlock(db, b, syncing)
    BY <1>1, <1>3
  <2> HIDE DEF syncing
  <2>2. QED  BY <1>4, <2>1, FinishesBlock
<1>8. EndsWith(NewTree(db, b), b.tx)
  BY <1>4, <1>6, TreeOfBlock DEF MarksInv
<1>9. ASSUME NEW c \in DOMAIN db'.commitments
      PROVE  \/ c \in DOMAIN db.commitments /\ db'.commitments[c].root = db.commitments[c].root
             \/ RootEnds(c)'
  <2>1. c \in DOMAIN db.commitments
    BY <1>7 DEF FinishPlaced, Retained
  <2>2. CASE c \in Commitments(b.tx) /\ db'.commitments[c].root = NewTree(db, b)
    <3>1. c[1] = b.tx
      BY <2>2 DEF Commitments
    <3>2. QED  BY <1>8, <2>2, <3>1 DEF RootEnds, EndsWith
  <2>3. QED  BY <1>7, <2>1, <2>2 DEF FinishPlaced
<1>a. \A r \in Requests : RootsStay(r)
  BY IdleHasNoRoots DEF FinishEvent
<1>10. QED  BY <1>a, <1>1, <1>9, RootsKept

LEMMA HandleRollbackRoots ==
  ASSUME IInv, ChainInv, FollowsLog, RootsRight, HandleRollback
  PROVE  RootsRight'
<1>1. /\ queue # <<>> /\ ~ IsBlock(Current.event) /\ db' = Rollback(db, Current.event.n)
      /\ made' = made /\ request' = request
  BY DEF HandleRollback, chainVars
<1>2. PICK n : n = Current.event.n
  OBVIOUS
<1>3. n \in Nat
  <2>1. Handled + 1 \in 1..Len(log) /\ Current.event = log[Handled + 1]
    BY <1>1, UnderWay DEF FollowsLog
  <2>2. QED  BY <1>1, <1>2, <2>1, LogTypes
<1>4. RollbackPlaced(db, db', n)
  BY <1>1, <1>2, <1>3, RollbackMarks DEF IInv, Types, DBTypes
<1>5. \A c \in DOMAIN db'.commitments :
        c \in DOMAIN db.commitments /\ db'.commitments[c].root = db.commitments[c].root
  BY <1>4 DEF RollbackPlaced
<1>a. \A r \in Requests : RootsStay(r)
  BY IdleHasNoRoots DEF HandleRollback
<1>6. QED  BY <1>a, <1>1, <1>5, RootsKept

(* Requests read roots, and send them.                                     *)
LEMMA RequestRoots ==
  ASSUME IInv, RootsRight, made' = made, NEW cs,
         db' = db \/ db' = MarkPending(db, cs) \/ db' = ClearPending(db, cs),
         \A r \in Requests : RootsStay(r)
  PROVE  RootsRight'
<1>1. IsDB(db)
  BY DEF IInv, Types, DBTypes
<1>2. /\ DOMAIN db'.commitments = DOMAIN db.commitments
      /\ \A c \in DOMAIN db.commitments : db'.commitments[c].root = db.commitments[c].root
  <2>1. CASE db' = db
    BY <2>1
  <2>2. CASE db' = MarkPending(db, cs)
    <3>1. PICK e : e = MarkPending(db, cs)
      OBVIOUS
    <3>2. /\ DOMAIN e.commitments = DOMAIN db.commitments
          /\ \A c \in DOMAIN db.commitments : MarksKept(db, e, c)
      BY <1>1, <3>1, PendingMarks, RequestsKeep DEF Same
    <3>3. QED  BY <2>2, <3>1, <3>2 DEF MarksKept
  <2>3. CASE db' = ClearPending(db, cs)
    <3>1. PICK e : e = ClearPending(db, cs)
      OBVIOUS
    <3>2. /\ DOMAIN e.commitments = DOMAIN db.commitments
          /\ \A c \in DOMAIN db.commitments : MarksKept(db, e, c)
      BY <1>1, <3>1, PendingMarks, RequestsKeep DEF Same
    <3>3. QED  BY <2>3, <3>1, <3>2 DEF MarksKept
  <2>4. QED  BY <2>1, <2>2, <2>3
<1>3. \A c \in DOMAIN db'.commitments :
        c \in DOMAIN db.commitments /\ db'.commitments[c].root = db.commitments[c].root
  BY <1>2
<1>4. QED  BY <1>3, RootsKept

LEMMA SelectRoots ==
  ASSUME IInv, RootsRight, NEW r \in Requests,
         ReadProvided(r) \/ MarkProvided(r) \/ SelectCommitments(r) \/ NextInfo(r)
  PROVE  RootsRight'
<1>1. made' = made /\ \E cs : db' = db \/ db' = MarkPending(db, cs)
  BY DEF ReadProvided, MarkProvided, SelectCommitments, NextInfo, chainVars
<1>2. IsRequest(request[r])
  BY RequestOf
<1>3. \E to : /\ Step(r, to) /\ to.roots = request[r].roots
              /\ Rooted(to) \subseteq Rooted(request[r])
  <2>1. CASE ReadProvided(r)
    <3>1. PICK p : Step(r, [request[r] EXCEPT !.stage = "read", !.provided = p])
                   /\ (request[r].stage = "again" \/ request[r] = Idle)
      BY <2>1 DEF ReadProvided
    <3> DEFINE to == [request[r] EXCEPT !.stage = "read", !.provided = p]
    <3>2. /\ to.stage = "read" /\ to.inputs = request[r].inputs /\ to.call = request[r].call
          /\ to.roots = request[r].roots
      BY <1>2 DEF IsRequest
    <3> HIDE DEF to
    <3>3. request[r].stage # "built"
      BY <3>1 DEF Idle
    <3>4. QED  BY <3>1, <3>2, <3>3 DEF Rooted, to
  <2>2. CASE MarkProvided(r)
    <3> DEFINE q == request[r]
               to == [q EXCEPT !.stage = "marked", !.call = q.provided,
                               !.inputs = q.inputs \cup q.provided]
    <3>1. Step(r, to) /\ q.stage = "read"
      BY <2>2 DEF MarkProvided
    <3>2. /\ to.stage = "marked" /\ to.inputs = q.inputs \cup q.provided
          /\ to.call = q.provided /\ to.roots = q.roots
      BY <1>2 DEF IsRequest
    <3>3. q.call = {}
      BY <1>2, <3>1 DEF IsRequest
    <3> HIDE DEF to
    <3>4. QED  BY <3>1, <3>2, <3>3 DEF Rooted
  <2>3. CASE SelectCommitments(r)
    <3> DEFINE q == request[r]
               to(c) == [q EXCEPT !.stage = "selected", !.call = c \cup q.call,
                                  !.inputs = c \cup q.inputs]
    <3>1. PICK c : Step(r, to(c))
      BY <2>3 DEF SelectCommitments
    <3>2. q.stage # "built"
      <4>1. q.stage \in {"marked", "again"} \/ q = Idle
        BY <2>3 DEF SelectCommitments
      <4>2. QED  BY <4>1 DEF Idle
    <3>3. /\ to(c).stage = "selected" /\ to(c).inputs = c \cup q.inputs
          /\ to(c).call = c \cup q.call /\ to(c).roots = q.roots
      BY <1>2 DEF IsRequest
    <3>4. QED  BY <3>1, <3>2, <3>3 DEF Rooted
  <2>4. CASE NextInfo(r)
    <3> DEFINE q == request[r]
               to == [q EXCEPT !.stage = "again", !.provided = {}, !.call = {}]
    <3>1. Step(r, to) /\ q.stage = "built"
      BY <2>4 DEF NextInfo
    <3>2. to.stage = "again" /\ to.inputs = q.inputs /\ to.roots = q.roots
      BY <1>2 DEF IsRequest
    <3>3. QED  BY <3>1, <3>2 DEF Rooted
  <2>5. QED  BY <2>1, <2>2, <2>3, <2>4
<1>4. \A q \in Requests : RootsStay(q)
  <2>1. PICK to : /\ Step(r, to) /\ to.roots = request[r].roots
                  /\ Rooted(to) \subseteq Rooted(request[r])
    BY <1>3
  <2>2. request'[r] = to /\ \A q \in Requests \ {r} : request'[q] = request[q]
    BY <2>1, Stepped
  <2>3. QED  BY <2>1, <2>2 DEF RootsStay
<1>5. QED  BY <1>1, <1>4, RequestRoots

LEMMA ReadSiblingsRoots ==
  ASSUME IInv, RootsRight, NEW r \in Requests, ReadSiblings(r)
  PROVE  RootsRight'
<1> DEFINE q == request[r]
           roots == [c \in q.inputs |->
                       IF c \in q.call
                       THEN [n |-> db.commitments[c].onChain, root |-> db.commitments[c].root]
                       ELSE q.roots[c]]
           to == [q EXCEPT !.stage = "built", !.roots = roots]
<1>1. /\ Step(r, to) /\ made' = made /\ db' = db
      /\ \A c \in q.call : HasPath(c)
      /\ q.stage = "selected"
  BY DEF ReadSiblings, chainVars
<1>2. IsRequest(q)
  BY RequestOf
<1>a. \A c \in q.inputs \ q.call : c \in Rooted(q) /\ roots[c] = q.roots[c]
  BY <1>1 DEF Rooted
<1>3. \A c \in q.inputs \cap q.call : EndsWith(roots[c].root, c[1]) /\ roots[c].n \in Int
  <2> SUFFICES ASSUME NEW c \in q.inputs \cap q.call
               PROVE  EndsWith(roots[c].root, c[1]) /\ roots[c].n \in Int
    OBVIOUS
  <2>1. c \in DOMAIN db.commitments /\ db.commitments[c].root # NoTree
    BY <1>1 DEF HasPath
  <2>2. EndsWith(db.commitments[c].root, c[1]) /\ IsMarks(db.commitments[c])
    BY <2>1 DEF RootsRight, IInv, Types, DBTypes, IsDB
  <2>3. db.commitments[c].onChain \in Int
    BY <2>2 DEF IsMarks
  <2>4. roots[c].root = db.commitments[c].root /\ roots[c].n = db.commitments[c].onChain
    OBVIOUS
  <2> HIDE DEF roots
  <2>5. QED  BY <2>2, <2>3, <2>4
<1> HIDE DEF roots
<1>4. to.inputs = q.inputs /\ to.roots = roots /\ to.stage = "built"
  BY <1>2 DEF IsRequest
<1> HIDE DEF to
<1>5. request'[r] = to /\ \A p \in Requests \ {r} : request'[p] = request[p]
  BY <1>1, Stepped
<1>6. ASSUME NEW p \in Requests, NEW c \in Rooted(request'[p])
      PROVE  \/ c \in Rooted(request[p]) /\ request'[p].roots[c] = request[p].roots[c]
             \/ EndsWith(request'[p].roots[c].root, c[1]) /\ request'[p].roots[c].n \in Int
  <2>1. CASE p = r
    <3>1. Rooted(to) = q.inputs
      BY <1>4 DEF Rooted
    <3>2. QED  BY <1>a, <1>3, <1>4, <1>5, <1>6, <2>1, <3>1
  <2>2. CASE p # r
    BY <1>5, <1>6, <2>2
  <2>3. QED  BY <2>1, <2>2
<1>7. QED  BY <1>1, <1>6, RootsOn

LEMMA TransactRoots ==
  ASSUME IInv, RootsRight, NEW tx, NEW n, Transacts(tx, n),
         \A c \in tx.inputs : EndsWith(tx.roots[c].root, c[1]) /\ tx.roots[c].n \in Nat,
         \A r \in Requests : RootsStay(r)
  PROVE  RootsRight'
<1>1. /\ DOMAIN made \subseteq DOMAIN made' /\ \A t \in DOMAIN made : made'[t] = made[t]
      /\ \A t \in DOMAIN made' \ DOMAIN made : made'[t] = tx
  BY DEF Transacts, MadeGrows
<1>2. \A c \in DOMAIN db'.commitments :
        \/ c \in DOMAIN db.commitments /\ db'.commitments[c].root = db.commitments[c].root
        \/ RootEnds(c)'
  BY DEF Transacts, MarksKept, RootEnds
<1>3. \A t \in DOMAIN made' \ DOMAIN made : \A c \in made'[t].inputs :
        EndsWith(made'[t].roots[c].root, c[1]) /\ made'[t].roots[c].n \in Nat
  BY <1>1
<1>4. QED  BY <1>1, <1>2, <1>3, RootsOn DEF RootsStay

(***************************************************************************)
(* What is spent twice.                                                    *)
(***************************************************************************)

(* No transaction comes to life, no request takes more, and what stays of  *)
(* our own stays marked.                                                   *)
LEMMA LessSpent ==
  ASSUME IInv, SpentOnce, made' = made, Live' \subseteq Live,
         \A q \in Requests : request'[q] = request[q] \/ request'[q] = Idle,
         \A c \in DOMAIN db'.commitments : made[c[1]].kind \notin Foreign =>
           /\ c \in DOMAIN db.commitments
           /\ db.commitments[c].pending => db'.commitments[c].pending
           /\ db.commitments[c].nullified =>
                db'.commitments[c].nullified \/ \A t \in Live' : c \notin made[t].inputs
  PROVE  SpentOnce'
<1>1. \A t : Spends(t)' = Spends(t) /\ \A c \in Spends(t) : made[c[1]].kind \notin Foreign
                                                            /\ c \in made[t].inputs
  BY DEF Spends, Own
<1>2. \A q \in Requests : Takes(q)' \subseteq Takes(q) /\ \A c \in Takes(q) : made[c[1]].kind \notin Foreign
  BY IdleTypes DEF Takes, Own
<1>3. \A q \in Requests : request'[q].provided = {} /\ request'[q].stage \in {"idle", "selected", "built"}
  <2>1. Idle.provided = {} /\ Idle.stage = "idle"
    BY DEF Idle
  <2>2. QED  BY <2>1 DEF SpentOnce
<1>4. \A t \in Live' : \A c \in Spends(t) \cap DOMAIN db'.commitments : db'.commitments[c].nullified
  BY <1>1 DEF SpentOnce
<1>5. \A q \in Requests : \A c \in Takes(q)' \cap DOMAIN db'.commitments : db'.commitments[c].pending
  BY <1>2 DEF SpentOnce
<1>6. /\ \A t, u \in Live' : t # u => Spends(t) \cap Spends(u) = {}
      /\ \A t \in Live' : \A q \in Requests : Spends(t) \cap Takes(q)' = {}
      /\ \A q, p \in Requests : q # p => Takes(q)' \cap Takes(p)' = {}
  BY <1>2 DEF SpentOnce
<1>7. QED  BY <1>1, <1>3, <1>4, <1>5, <1>6 DEF SpentOnce

(* Requests select only what is neither spent nor held back.               *)
LEMMA RequestsSpend ==
  ASSUME IInv, SpentOnce, UNCHANGED <<made, pool, queue>>, db'.txs = db.txs,
         DOMAIN db'.commitments = DOMAIN db.commitments,
         \A c \in DOMAIN db.commitments : db'.commitments[c].nullified = db.commitments[c].nullified,
         NEW r \in Requests, \A q \in Requests \ {r} : request'[q] = request[q],
         request'[r].provided = {}, request'[r].stage \in {"idle", "selected", "built"},
         \A c \in request'[r].inputs :
           \/ c \in request[r].inputs
           \/ c \in DOMAIN db.commitments /\ ~ db.commitments[c].nullified /\ ~ db.commitments[c].pending,
         \A q \in Requests : \A c \in request'[q].inputs \cap DOMAIN db.commitments :
           made[c[1]].kind \notin Foreign => db'.commitments[c].pending
  PROVE  SpentOnce'
<1>1. \A t : Spends(t)' = Spends(t) /\ \A c \in Spends(t) : made[c[1]].kind \notin Foreign
  BY DEF Spends, Own
<1>2. Live' = Live
  BY DEF Live, Waiting, IsBlock
<1>3. /\ \A q \in Requests \ {r} : Takes(q)' = Takes(q)
      /\ \A c \in Takes(r)' : \/ c \in Takes(r)
                              \/ /\ c \in DOMAIN db.commitments /\ ~ db.commitments[c].nullified
                                 /\ ~ db.commitments[c].pending
  BY DEF Takes, Own
<1>4. \A q \in Requests : \A c \in Takes(q)' \cap DOMAIN db.commitments : db'.commitments[c].pending
  BY DEF Takes, Own
<1>5. \A t \in Live : \A c \in Spends(t) \cap DOMAIN db.commitments : db'.commitments[c].nullified
  BY DEF SpentOnce
<1>6. \A t \in Live : \A q \in Requests : Spends(t) \cap Takes(q)' = {}
  BY <1>3 DEF SpentOnce
<1>7. \A q, p \in Requests : q # p => Takes(q)' \cap Takes(p)' = {}
  BY <1>3 DEF SpentOnce
<1>8. \A q \in Requests : request'[q].provided = {} /\ request'[q].stage \in {"idle", "selected", "built"}
  BY DEF SpentOnce
<1>9. \A t, u \in Live : t # u => Spends(t) \cap Spends(u) = {}
  BY DEF SpentOnce
<1>10. QED  BY <1>1, <1>2, <1>4, <1>5, <1>6, <1>7, <1>8, <1>9 DEF SpentOnce

(* A new transaction spends nothing that another one does.                 *)
LEMMA TransactsSpends ==
  ASSUME IInv, MadeInv, SpentOnce, NEW tx, NEW n, Transacts(tx, n),
         \A t \in Live : Own(tx.inputs) \cap Spends(t) = {},
         \A q \in Requests :
           /\ request'[q] = request[q] \/ request'[q] = Idle
           /\ Own(tx.inputs) \cap Own(request'[q].inputs) = {}
  PROVE  SpentOnce'
<1>1. /\ n \notin DOMAIN made /\ made'[n] = tx /\ \A t \in DOMAIN made : made'[t] = made[t]
      /\ DOMAIN made' = DOMAIN made \cup {n}
      /\ \A c \in tx.inputs : c[1] \in DOMAIN made
  BY DEF Transacts, MadeGrows, GoodTransaction
<1>3. \A t \in DOMAIN made : Spends(t)' = Spends(t)
  <2> SUFFICES ASSUME NEW t \in DOMAIN made PROVE Spends(t)' = Spends(t)
    OBVIOUS
  <2>1. \A c \in made[t].inputs : c[1] \in DOMAIN made
    BY DEF MadeInv
  <2>2. QED  BY <1>1, <2>1 DEF Spends, Own
<1>4. \A t : t = n => Spends(t)' = Own(tx.inputs)
  BY <1>1 DEF Spends, Own
<1>5. \A q \in Requests : Takes(q)' = Own(request'[q].inputs)
  <2> SUFFICES ASSUME NEW q \in Requests PROVE Takes(q)' = Own(request'[q].inputs)
    OBVIOUS
  <2>1. \A c \in request'[q].inputs : c[1] \in DOMAIN made
    BY IdleTypes, OfMade
  <2>2. QED  BY <1>1, <2>1 DEF Takes, Own
<1>6. \A q \in Requests : Takes(q)' \subseteq Takes(q)
  BY <1>5, IdleTypes DEF Takes, Own
<1>7. Live' \subseteq Live \cup {n}
  BY <1>1 DEF Live, Waiting, IsBlock, Transacts
<1>8. \A c \in DOMAIN db'.commitments : c[1] \in DOMAIN made => c \in DOMAIN db.commitments
  BY <1>1 DEF Transacts
<1>9. \A t \in Live : t \in DOMAIN made
  BY DEF Live
<1>10. ASSUME NEW t \in Live', NEW c \in Spends(t)' \cap DOMAIN db'.commitments
       PROVE  db'.commitments[c].nullified
  <2>1. CASE t = n
    <3>1. c \in tx.inputs
      BY <1>4, <1>10, <2>1 DEF Own
    <3>2. c \in DOMAIN db.commitments
      BY <1>1, <1>8, <1>10, <3>1
    <3>3. QED  BY <3>1, <3>2 DEF Transacts
  <2>2. CASE t # n
    <3>1. t \in Live /\ t \in DOMAIN made /\ c \in Spends(t)
      BY <1>3, <1>7, <1>9, <1>10, <2>2
    <3>2. c[1] \in DOMAIN made
      BY <3>1 DEF MadeInv, Spends, Own
    <3>3. c \in DOMAIN db.commitments
      BY <1>8, <1>10, <3>2
    <3>4. db.commitments[c].nullified
      BY <3>1, <3>3 DEF SpentOnce
    <3>5. QED  BY <3>3, <3>4 DEF Transacts
  <2>3. QED  BY <2>1, <2>2
<1>11. ASSUME NEW q \in Requests, NEW c \in Takes(q)' \cap DOMAIN db'.commitments
       PROVE  db'.commitments[c].pending
  <2>1. c \in Takes(q) /\ c \in Own(request'[q].inputs)
    BY <1>5, <1>6, <1>11
  <2>2. c[1] \in DOMAIN made
    BY <2>1, OfMade DEF Takes, Own
  <2>3. c \in DOMAIN db.commitments
    BY <1>8, <1>11, <2>2
  <2>4. db.commitments[c].pending
    BY <2>1, <2>3 DEF SpentOnce
  <2>5. c \notin tx.inputs
    <3>1. c \notin Own(tx.inputs)
      BY <2>1
    <3>2. QED  BY <2>1, <3>1 DEF Own
  <2>6. QED  BY <2>3, <2>4, <2>5 DEF Transacts
<1>12. \A q \in Requests : request'[q].provided = {} /\ request'[q].stage \in {"idle", "selected", "built"}
  <2>1. Idle.provided = {} /\ Idle.stage = "idle"
    BY DEF Idle
  <2>2. QED  BY <2>1 DEF SpentOnce
<1>13. \A t, u \in Live' : t # u => Spends(t)' \cap Spends(u)' = {}
  <2> SUFFICES ASSUME NEW t \in Live', NEW u \in Live', t # u
               PROVE  Spends(t)' \cap Spends(u)' = {}
    OBVIOUS
  <2>1. CASE t # n /\ u # n
    <3>1. t \in Live /\ u \in Live /\ Spends(t)' = Spends(t) /\ Spends(u)' = Spends(u)
      BY <1>3, <1>7, <1>9, <2>1
    <3>2. QED  BY <3>1 DEF SpentOnce
  <2>2. CASE t = n
    <3>1. u \in Live /\ Spends(t)' = Own(tx.inputs) /\ Spends(u)' = Spends(u)
      BY <1>3, <1>4, <1>7, <1>9, <2>2
    <3>2. QED  BY <3>1
  <2>3. CASE u = n
    <3>1. t \in Live /\ Spends(u)' = Own(tx.inputs) /\ Spends(t)' = Spends(t)
      BY <1>3, <1>4, <1>7, <1>9, <2>3
    <3>2. QED  BY <3>1
  <2>4. QED  BY <2>1, <2>2, <2>3
<1>14. \A t \in Live' : \A q \in Requests : Spends(t)' \cap Takes(q)' = {}
  <2> SUFFICES ASSUME NEW t \in Live', NEW q \in Requests
               PROVE  Spends(t)' \cap Takes(q)' = {}
    OBVIOUS
  <2>1. CASE t = n
    BY <1>4, <1>5, <2>1
  <2>2. CASE t # n
    <3>1. t \in Live /\ Spends(t)' = Spends(t)
      BY <1>3, <1>7, <1>9, <2>2
    <3>2. Spends(t) \cap Takes(q) = {}
      BY <3>1 DEF SpentOnce
    <3>3. QED  BY <1>6, <3>1, <3>2
  <2>3. QED  BY <2>1, <2>2
<1>15. \A q, p \in Requests : q # p => Takes(q)' \cap Takes(p)' = {}
  BY <1>6 DEF SpentOnce
<1>16. QED  BY <1>10, <1>11, <1>12, <1>13, <1>14, <1>15 DEF SpentOnce

(* The requests that may be under way.                                     *)
LEMMA SelectSpends ==
  ASSUME IInv, SpentOnce, NEW r \in Requests, SelectCommitments(r)
  PROVE  SpentOnce'
<1> DEFINE To(c) == [request[r] EXCEPT !.stage = "selected", !.call = c \cup request[r].call,
                                       !.inputs = c \cup request[r].inputs]
<1>1. PICK c \in SUBSET {x \in GetAvailableCommitments(db) : db.commitments[x].onChain > -1} :
        db' = MarkPending(db, c) /\ Step(r, To(c))
  BY DEF SelectCommitments
<1>2. UNCHANGED <<chainVars, mem, queue, count>>
  BY DEF SelectCommitments
<1>3. IsRequest(request[r]) /\ request[r].provided = {}
  BY RequestOf DEF SpentOnce
<1>4. /\ To(c).provided = {} /\ To(c).stage = "selected"
      /\ To(c).inputs = c \cup request[r].inputs
  BY <1>3 DEF IsRequest
<1> HIDE DEF To
<1>5. request'[r] = To(c) /\ \A q \in Requests \ {r} : request'[q] = request[q]
  BY <1>1, Stepped
<1>6. IsDB(db)
  BY DEF IInv, Types, DBTypes
<1>7. /\ Same(db, db')
      /\ \A x \in DOMAIN db.commitments :
           /\ db'.commitments[x].nullified = db.commitments[x].nullified
           /\ x \in c => db'.commitments[x].pending
           /\ x \notin c => db'.commitments[x].pending = db.commitments[x].pending
  <2> DEFINE e == MarkPending(db, c)
  <2>1. /\ Same(db, e)
        /\ \A x \in DOMAIN db.commitments :
             /\ e.commitments[x].nullified = db.commitments[x].nullified
             /\ x \in c => e.commitments[x].pending
             /\ x \notin c => e.commitments[x].pending = db.commitments[x].pending
    BY <1>6, PendingMarks
  <2>2. db' = e
    BY <1>1
  <2> HIDE DEF e
  <2>3. QED  BY <2>1, <2>2
<1>8. \A x \in c : /\ x \in DOMAIN db.commitments /\ ~ db.commitments[x].nullified
                   /\ ~ db.commitments[x].pending
  BY DEF GetAvailableCommitments
<1>9. ASSUME NEW q \in Requests, NEW x \in request'[q].inputs \cap DOMAIN db.commitments,
             made[x[1]].kind \notin Foreign
      PROVE  db'.commitments[x].pending
  <2>1. x \in c \/ x \in request[q].inputs
    BY <1>4, <1>5, <1>9
  <2>2. CASE x \in c
    BY <1>7, <1>9, <2>2
  <2>3. CASE x \notin c
    <3>1. x \in Takes(q)
      BY <1>9, <2>1, <2>3 DEF Takes, Own
    <3>2. db.commitments[x].pending
      BY <1>9, <3>1 DEF SpentOnce
    <3>3. QED  BY <1>7, <1>9, <2>3, <3>2
  <2>4. QED  BY <2>2, <2>3
<1>10. \A x \in request'[r].inputs :
           \/ x \in request[r].inputs
           \/ x \in DOMAIN db.commitments /\ ~ db.commitments[x].nullified /\ ~ db.commitments[x].pending
  BY <1>4, <1>5, <1>8
<1>11. UNCHANGED <<made, pool, queue>> /\ db'.txs = db.txs
       /\ DOMAIN db'.commitments = DOMAIN db.commitments
  BY <1>2, <1>7 DEF chainVars, Same
<1>12. request'[r].provided = {} /\ request'[r].stage \in {"idle", "selected", "built"}
  BY <1>4, <1>5
<1>13. \A x \in DOMAIN db.commitments : db'.commitments[x].nullified = db.commitments[x].nullified
  BY <1>7
<1>14. QED  BY <1>5, <1>9, <1>10, <1>11, <1>12, <1>13, RequestsSpend

LEMMA ReadSiblingsSpends ==
  ASSUME IInv, SpentOnce, NEW r \in Requests, ReadSiblings(r)
  PROVE  SpentOnce'
<1> DEFINE q == request[r]
           roots == [c \in q.inputs |->
                       IF c \in q.call
                       THEN [n |-> db.commitments[c].onChain, root |-> db.commitments[c].root]
                       ELSE q.roots[c]]
           to == [q EXCEPT !.stage = "built", !.roots = roots]
<1>1. Step(r, to) /\ UNCHANGED <<chainVars, db, mem, queue, count>>
  BY DEF ReadSiblings
<1>2. IsRequest(q) /\ q.provided = {}
  BY RequestOf DEF SpentOnce
<1> HIDE DEF roots
<1>3. to.inputs = q.inputs /\ to.provided = {} /\ to.stage = "built"
  BY <1>2 DEF IsRequest
<1> HIDE DEF to
<1>4. request'[r] = to /\ \A p \in Requests \ {r} : request'[p] = request[p]
  BY <1>1, Stepped
<1>5. \A p \in Requests : request'[p].inputs = request[p].inputs
  BY <1>3, <1>4
<1>6. \A p \in Requests : \A c \in request'[p].inputs \cap DOMAIN db.commitments :
        made[c[1]].kind \notin Foreign => db'.commitments[c].pending
  BY <1>1, <1>5 DEF SpentOnce, Takes, Own
<1>7. UNCHANGED <<made, pool, queue>>
  BY <1>1 DEF chainVars
<1>8. QED  BY <1>1, <1>3, <1>4, <1>5, <1>6, <1>7, RequestsSpend

LEMMA FailsSpends ==
  ASSUME IInv, SpentOnce, UNCHANGED <<chainVars, mem, queue>>, NEW r \in Requests, Step(r, Idle),
         NEW cs \in SUBSET request[r].inputs, db' = db \/ db' = ClearPending(db, cs)
  PROVE  SpentOnce'
<1>1. request'[r] = Idle /\ \A q \in Requests \ {r} : request'[q] = request[q]
  BY Stepped
<1>2. IsDB(db)
  BY DEF IInv, Types, DBTypes
<1>3. /\ Same(db, db')
      /\ \A c \in DOMAIN db.commitments :
           /\ db'.commitments[c].nullified = db.commitments[c].nullified
           /\ c \notin cs => db'.commitments[c].pending = db.commitments[c].pending
  <2>1. CASE db' = db
    BY <2>1 DEF Same
  <2>2. CASE db' = ClearPending(db, cs)
    <3> DEFINE e == ClearPending(db, cs)
    <3>1. /\ Same(db, e)
          /\ \A c \in DOMAIN db.commitments :
               /\ e.commitments[c].nullified = db.commitments[c].nullified
               /\ c \notin cs => e.commitments[c].pending = db.commitments[c].pending
      BY <1>2, PendingMarks
    <3>2. db' = e
      BY <2>2
    <3> HIDE DEF e
    <3>3. QED  BY <3>1, <3>2
  <2>3. QED  BY <2>1, <2>2
<1>4. ASSUME NEW q \in Requests, NEW c \in request'[q].inputs \cap DOMAIN db.commitments,
             made[c[1]].kind \notin Foreign
      PROVE  db'.commitments[c].pending
  <2>1. q # r /\ c \in request[q].inputs
    BY <1>1, <1>4, IdleTypes
  <2>2. c \in Takes(q)
    BY <1>4, <2>1 DEF Takes, Own
  <2>3. c \notin cs
    <3>1. c \notin Takes(r)
      BY <2>1, <2>2 DEF SpentOnce
    <3>2. QED  BY <1>4, <3>1 DEF Takes, Own
  <2>4. db.commitments[c].pending
    BY <1>4, <2>2 DEF SpentOnce
  <2>5. QED  BY <1>3, <1>4, <2>3, <2>4
<1>5. UNCHANGED <<made, pool, queue>> /\ db'.txs = db.txs
      /\ DOMAIN db'.commitments = DOMAIN db.commitments
  BY <1>3 DEF chainVars, Same
<1>6. request'[r].provided = {} /\ request'[r].stage = "idle" /\ request'[r].inputs = {}
  BY <1>1 DEF Idle
<1>7. \A c \in DOMAIN db.commitments : db'.commitments[c].nullified = db.commitments[c].nullified
  BY <1>3
<1>8. QED  BY <1>1, <1>4, <1>5, <1>6, <1>7, RequestsSpend

LEMMA ProveSpends ==
  ASSUME IInv, MadeInv, SpentOnce, NEW r \in Requests, NEW tx, NEW n, Transacts(tx, n),
         tx.inputs = request[r].inputs, Step(r, Idle),
         \A t \in Live : Spends(t) \cap Takes(r) = {}
  PROVE  SpentOnce'
<1>1. request'[r] = Idle /\ \A q \in Requests \ {r} : request'[q] = request[q]
  BY Stepped
<1>2. Own(tx.inputs) = Takes(r)
  BY DEF Takes
<1>3. ASSUME NEW q \in Requests PROVE Own(tx.inputs) \cap Own(request'[q].inputs) = {}
  <2>1. CASE q = r
    BY <1>1, <2>1, IdleTypes DEF Own
  <2>2. CASE q # r
    <3>1. Own(request'[q].inputs) = Takes(q)
      BY <1>1, <2>2 DEF Takes
    <3>2. Takes(q) \cap Takes(r) = {}
      BY <2>2 DEF SpentOnce
    <3>3. QED  BY <1>2, <3>1, <3>2
  <2>3. QED  BY <2>1, <2>2
<1>4. QED  BY <1>1, <1>2, <1>3, TransactsSpends

(* Blocks and rollbacks handled.                                           *)
LEMMA WaitsInLog ==
  ASSUME IInv, InQueue, NEW t
  PROVE  Waiting(t) <=> \E a \in Handled + 1..Len(log) : BlockAt(a, t)
<1>1. PICK h : h = Handled
  OBVIOUS
<1>2. h \in Nat /\ Len(queue) \in Nat /\ Len(log) = h + Len(queue)
  BY <1>1, LogTypes, Positions
<1>3. \A i \in 1..Len(queue) : queue[i].event = log[h + i]
  BY <1>1 DEF InQueue
<1>4. ASSUME Waiting(t) PROVE \E a \in h + 1..Len(log) : BlockAt(a, t)
  <2>1. PICK i \in 1..Len(queue) : IsBlock(queue[i].event) /\ queue[i].event.block.tx = t
    BY <1>4 DEF Waiting
  <2>2. h + i \in h + 1..Len(log) /\ BlockAt(h + i, t)
    BY <1>2, <1>3, <2>1 DEF BlockAt
  <2>3. QED  BY <2>2
<1>5. ASSUME NEW a \in h + 1..Len(log), BlockAt(a, t) PROVE Waiting(t)
  <2>1. a - h \in 1..Len(queue) /\ h + (a - h) = a
    BY <1>2
  <2>2. queue[a - h].event = log[a]
    BY <1>3, <2>1
  <2>3. QED  BY <1>5, <2>1, <2>2 DEF Waiting, BlockAt
<1>6. QED  BY <1>1, <1>4, <1>5

LEMMA WaitsLater ==
  ASSUME IInv', InQueue', NEW t, Waiting(t)'
  PROVE  \E a \in Handled' + 1..Len(log') : BlockAt(a, t)'
<1>1. PICK h : h = Handled'
  OBVIOUS
<1>2. Len(queue') \in Nat /\ Len(log') \in Nat
  BY DEF IInv, Types, ChainTypes, QueueTypes
<1>3. h \in Nat /\ Len(log') = h + Len(queue')
  BY <1>1, <1>2 DEF InQueue, Handled
<1>4. \A i \in 1..Len(queue') : queue'[i].event = log'[h + i]
  BY <1>1 DEF InQueue
<1>5. PICK i \in 1..Len(queue') : IsBlock(queue'[i].event) /\ queue'[i].event.block.tx = t
  BY DEF Waiting, IsBlock
<1>6. h + i \in h + 1..Len(log')
  BY <1>2, <1>3, <1>5
<1>7. log'[h + i].type = "BlockProposed" /\ log'[h + i].block.tx = t
  BY <1>4, <1>5 DEF IsBlock
<1>8. BlockAt(h + i, t)'
  BY <1>7 DEF BlockAt, IsBlock
<1>9. QED  BY <1>1, <1>6, <1>8

LEMMA HandleBlockSpends ==
  ASSUME IInv, ChainInv, FollowsLog, SpentOnce, HandleBlock
  PROVE  SpentOnce'
<1>1. /\ queue # <<>> /\ IsBlock(Current.event) /\ Current.step # "marked"
      /\ db' = MarkBlock(db, Current.event.block)
      /\ queue' = <<[Current EXCEPT !.step = "marked"]>> \o Tail(queue)
      /\ made' = made /\ log' = log /\ pool' = pool /\ request' = request
  BY DEF HandleBlock, chainVars
<1>2. PICK i : i = Handled + 1
  OBVIOUS
<1>3. PICK b : b = Current.event.block
  OBVIOUS
<1>4. InQueue /\ TxsInv /\ MadeInv /\ IInv'
  BY HandleBlockIInv DEF FollowsLog, ChainInv
<1>5. i \in 1..Len(log) /\ IsBlock(log[i]) /\ b = log[i].block
  BY <1>1, <1>2, <1>3, <1>4, UnderWay
<1>6. b.n \in Nat /\ b.l1 \in Nat /\ b.tx \in DOMAIN made /\ BlockAt(i, b.tx)
  BY <1>5, LogTypes DEF BlockAt
<1>7. BlockMarked(db, db', b.n, b.tx, b.l1)
  <2>1. IsDB(db) /\ MadeTypes
    BY DEF IInv, Types, DBTypes, ChainTypes
  <2>2. BlockMarked(db, MarkBlock(db, b), b.n, b.tx, b.l1)
    BY <1>4, <1>6, <2>1, NumbersKnown, MarkBlockEffect
  <2>3. QED  BY <1>1, <1>3, <2>2
<1>8. InQueue' /\ Handled' = Handled
  BY <1>1, <1>4, Marked1
<1>9. Waiting(b.tx)
  <2>1. i \in Handled + 1..Len(log)
    BY <1>2, <1>4, <1>5, Positions
  <2>2. QED  BY <1>4, <1>6, <2>1, WaitsInLog
<1>10. ASSUME NEW t, Waiting(t)' PROVE Waiting(t)
  <2>1. \E a \in Handled + 1..Len(log) : BlockAt(a, t)'
    BY <1>1, <1>4, <1>8, <1>10, WaitsLater
  <2>2. \A a : BlockAt(a, t)' = BlockAt(a, t)
    BY <1>1 DEF BlockAt, IsBlock
  <2>3. QED  BY <1>4, <2>1, <2>2, WaitsInLog
<1>11. Live' \subseteq Live
  <2>1. DOMAIN db'.txs \subseteq DOMAIN db.txs \cup {b.tx}
    BY <1>7 DEF BlockMarked, BlockKept
  <2>2. QED  BY <1>1, <1>6, <1>9, <1>10, <2>1 DEF Live
<1>12. ASSUME NEW c \in DOMAIN db'.commitments, made[c[1]].kind \notin Foreign
       PROVE  /\ c \in DOMAIN db.commitments
              /\ db'.commitments[c].pending = db.commitments[c].pending
              /\ db'.commitments[c].nullified = db.commitments[c].nullified
  <2>1. c \in DOMAIN db.commitments
    BY <1>7, <1>12 DEF BlockMarked
  <2>2. QED  BY <1>7, <2>1 DEF BlockMarked
<1>13. QED  BY <1>1, <1>11, <1>12, LessSpent

LEMMA FinishEventSpends ==
  ASSUME IInv, ChainInv, FollowsLog, SpentOnce, FinishEvent
  PROVE  SpentOnce'
<1>1. /\ queue # <<>> /\ queue' = Tail(queue)
      /\ db' = FinishBlock(db, Current.event.block, Current.by # "socket")
      /\ made' = made /\ log' = log /\ pool' = pool /\ request' = request
  BY DEF FinishEvent, chainVars
<1>2. InQueue /\ IInv' /\ InQueue' /\ Handled' = Handled + 1
  BY <1>1, FinishEventIInv, Next1 DEF FollowsLog
<1>3. Retained(db, db')
  <2>1. IsDB(db)
    BY DEF IInv, Types, DBTypes
  <2>2. PICK s \in 0..Len(log) : TreesInv(s)
    BY DEF FollowsLog
  <2>3. PICK H \in Nat : H = Height(s)
    BY <2>2, LogTypes
  <2>4. db.trees = First(db.trees, H)
    BY <2>2, <2>3 DEF TreesInv, First
  <2> DEFINE syncing == Current.by # "socket"
             b == Current.event.block
  <2>5. db' = FinishBlock(db, b, syncing)
    BY <1>1
  <2> HIDE DEF syncing, b
  <2>6. QED  BY <2>1, <2>4, <2>5, FinishBlockEffect
<1>4. ASSUME NEW t, Waiting(t)' PROVE Waiting(t)
  <2>1. PICK a \in (Handled + 1) + 1..Len(log) : BlockAt(a, t)'
    BY <1>1, <1>2, <1>4, WaitsLater
  <2>2. BlockAt(a, t)
    BY <1>1, <2>1 DEF BlockAt, IsBlock
  <2>3. a \in Handled + 1..Len(log)
    BY <1>2, <2>1, Positions
  <2>4. QED  BY <1>2, <2>2, <2>3, WaitsInLog
<1>5. Live' \subseteq Live
  BY <1>1, <1>3, <1>4 DEF Live, Retained
<1>6. \A c \in DOMAIN db'.commitments :
        /\ c \in DOMAIN db.commitments
        /\ db'.commitments[c].pending = db.commitments[c].pending
        /\ db'.commitments[c].nullified = db.commitments[c].nullified
  BY <1>3 DEF Retained
<1>7. QED  BY <1>1, <1>5, <1>6, LessSpent

LEMMA HandleRollbackSpends ==
  ASSUME IInv, ChainInv, FollowsLog, SpentOnce, HandleRollback
  PROVE  SpentOnce'
<1>1. /\ queue # <<>> /\ ~ IsBlock(Current.event) /\ queue' = Tail(queue)
      /\ db' = Rollback(db, Current.event.n)
      /\ made' = made /\ log' = log /\ pool' = pool /\ request' = request
  BY DEF HandleRollback, chainVars
<1>2. PICK i : i = Handled + 1
  OBVIOUS
<1>3. PICK n : n = Current.event.n
  OBVIOUS
<1>4. InQueue /\ TxsInv /\ IInv' /\ InQueue' /\ Handled' = i
  BY <1>1, <1>2, HandleRollbackIInv, Next1 DEF FollowsLog
<1>5. /\ i \in 1..Len(log) /\ ~ IsBlock(log[i]) /\ n = log[i].n /\ n \in Nat
      /\ Seen = i - 1 /\ Len(log) \in Nat /\ Handled = i - 1
  <2>1. /\ i \in 1..Len(log) /\ Current.event = log[i] /\ Seen = Handled /\ Handled \in Nat
        /\ Len(log) \in Nat
    BY <1>1, <1>2, <1>4, UnderWay, Positions, LogTypes
  <2>2. QED  BY <1>1, <1>2, <1>3, <2>1, LogTypes
<1>6. RolledBack(db, db', n)
  <2>1. IsDB(db)
    BY DEF IInv, Types, DBTypes
  <2>2. QED  BY <1>1, <1>3, <1>5, <2>1, RollbackEffect
<1>7. ASSUME NEW t, Waiting(t)' PROVE \E a \in i + 1..Len(log) : BlockAt(a, t)
  <2>1. PICK a \in i + 1..Len(log) : BlockAt(a, t)'
    BY <1>1, <1>4, <1>7, WaitsLater
  <2>2. BlockAt(a, t)
    BY <1>1, <2>1 DEF BlockAt, IsBlock
  <2>3. QED  BY <2>2
<1>8. Live' \subseteq Live
  <2>1. ASSUME NEW t, Waiting(t)' PROVE Waiting(t)
    <3>1. PICK a \in i + 1..Len(log) : BlockAt(a, t)
      BY <1>7, <2>1
    <3>2. a \in Handled + 1..Len(log)
      BY <1>5, <3>1
    <3>3. QED  BY <1>4, <3>1, <3>2, WaitsInLog
  <2>2. QED  BY <1>1, <1>6, <2>1 DEF Live, RolledBack

(* What becomes invalid is gone for good: its inputs are free.             *)
<1>9. \A t \in Invalid(db, n) : t \in Live /\ t \notin Live'
  <2> SUFFICES ASSUME NEW t \in Invalid(db, n) PROVE t \in Live /\ t \notin Live'
    OBVIOUS
  <2>1. t \in DOMAIN db.txs /\ ~ CheckValidHistoricRootsBlockNumber(t, n - 1)
    BY DEF Invalid, Removed, GetTransactionsByL2Block
  <2>2. t \in DOMAIN made
    BY <2>1 DEF IInv, Types, DBTypes
  <2>3. t \in Live
    BY <2>1, <2>2 DEF Live
  <2>4. PICK a \in 1..Len(log) : BlockAt(a, t) /\ (a <= i - 1 \/ AllBlocks(a))
    BY <1>4, <1>5, <2>1 DEF TxsInv
  <2>5. a < i
    <3>1. AllBlocks(a) => ~(i <= a)
      BY <1>5 DEF AllBlocks
    <3>2. QED  BY <1>5, <2>4, <3>1
  <2>6. Breaks(i, t)
    BY <1>5, <2>1 DEF Breaks
  <2>7. t \notin pool /\ \A e \in i..Len(log) : ~ BlockAt(e, t)
    BY <1>5, <2>2, <2>4, <2>5, <2>6 DEF ChainInv, LogInv, Dropped
  <2>8. ~ Waiting(t)'
    <3>1. \A e \in i + 1..Len(log) : e \in i..Len(log)
      BY <1>5
    <3>2. QED  BY <1>7, <2>7, <3>1
  <2>9. t \notin DOMAIN db'.txs
    BY <1>6 DEF RolledBack
  <2>10. QED  BY <1>1, <2>3, <2>7, <2>8, <2>9 DEF Live
<1>10. ASSUME NEW c \in DOMAIN db'.commitments, made[c[1]].kind \notin Foreign
       PROVE  /\ c \in DOMAIN db.commitments
              /\ db'.commitments[c].pending = db.commitments[c].pending
              /\ db.commitments[c].nullified =>
                   db'.commitments[c].nullified \/ \A t \in Live' : c \notin made[t].inputs
  <2>1. /\ c \in DOMAIN db.commitments
        /\ db'.commitments[c].pending = db.commitments[c].pending
        /\ db'.commitments[c].nullified =
             (db.commitments[c].nullified /\ ~ \E t \in Invalid(db, n) : c \in made[t].inputs)
    BY <1>6 DEF RolledBack
  <2>2. ASSUME NEW u \in Invalid(db, n), c \in made[u].inputs, NEW t \in Live'
        PROVE  c \notin made[t].inputs
    <3>1. t # u /\ t \in Live /\ u \in Live
      BY <1>8, <1>9
    <3>2. Spends(t) \cap Spends(u) = {}
      BY <3>1 DEF SpentOnce
    <3>3. QED  BY <1>10, <2>2, <3>2 DEF Spends, Own
  <2>3. QED  BY <2>1, <2>2
<1>11. QED  BY <1>1, <1>8, <1>10, LessSpent

(* Whatever waits after a restart is held by proposers: nothing was rolled *)
(* back.                                                                   *)
LEMMA RestartSpends ==
  ASSUME IInv, ChainInv, FollowsLog, SpentOnce, Restart, RollbacksHandledOnce'
  PROVE  SpentOnce'
<1>1. /\ made' = made /\ log' = log /\ pool' = pool /\ db' = db
      /\ request' = [r \in Requests |-> Idle]
  BY DEF Restart, chainVars
<1>2. IInv' /\ InQueue' /\ \A i \in 1..Len(log) : IsBlock(log[i]) /\ log[i].block.tx \in pool
  BY RestartIInv, RestartFollows DEF FollowsLog
<1>3. ASSUME NEW t, Waiting(t)' PROVE t \in pool
  <2>1. PICK a \in Handled' + 1..Len(log') : BlockAt(a, t)'
    BY <1>2, <1>3, WaitsLater
  <2>2. Len(queue') \in Nat /\ Len(log) \in Nat /\ Len(queue') <= Len(log')
    BY <1>2, LogTypes DEF IInv, Types, QueueTypes, InQueue
  <2>3. a \in 1..Len(log)
    BY <1>1, <2>1, <2>2 DEF Handled
  <2>4. log[a].block.tx = t
    BY <1>1, <2>1 DEF BlockAt
  <2>5. QED  BY <1>2, <2>3, <2>4
<1>4. Live' \subseteq Live
  BY <1>1, <1>3 DEF Live
<1>5. \A q \in Requests : request'[q] = Idle
  BY <1>1
<1>6. QED  BY <1>1, <1>4, <1>5, LessSpent

(* A block or a rollback of the chain.                                     *)
LEMMA LoggedSpends ==
  ASSUME IInv, IInv', FollowsLog, SpentOnce, NEW event \in Events, Logs(event),
         IsBlock(event) => event.block.tx \in pool, pool' \subseteq pool,
         db' = db, request' = request, queue' = Append(queue, Job(event, "socket"))
  PROVE  SpentOnce'
<1>1. InQueue /\ InQueue' /\ Handled' = Handled
  BY Queued DEF FollowsLog
<1>2. /\ Len(log) \in Nat /\ Len(log') = Len(log) + 1 /\ log'[Len(log) + 1] = event
      /\ \A i \in 1..Len(log) : log'[i] = log[i]
  BY LogTypes, Logged DEF Grown
<1>3. Handled \in Nat
  BY <1>1, Positions
<1>4. ASSUME NEW t, Waiting(t)' PROVE Waiting(t) \/ t \in pool
  <2>1. PICK a \in Handled + 1..Len(log) + 1 : BlockAt(a, t)'
    BY <1>1, <1>2, <1>4, WaitsLater
  <2>2. CASE a = Len(log) + 1
    BY <1>2, <2>1, <2>2 DEF BlockAt, IsBlock
  <2>3. CASE a # Len(log) + 1
    <3>1. a \in Handled + 1..Len(log) /\ a \in 1..Len(log)
      BY <1>2, <1>3, <2>1, <2>3
    <3>2. BlockAt(a, t)
      BY <1>2, <2>1, <3>1 DEF BlockAt, IsBlock
    <3>3. QED  BY <1>1, <3>1, <3>2, WaitsInLog
  <2>4. QED  BY <2>2, <2>3
<1>5. made' = made
  BY DEF Logs
<1>6. Live' \subseteq Live
  BY <1>4, <1>5 DEF Live
<1>7. QED  BY <1>5, <1>6, LessSpent

(***************************************************************************)
(* The client against the log, all steps.                                  *)
(***************************************************************************)
SInv ==
  /\ IInv /\ ChainInv /\ PlacesInv
  /\ RollbacksHandledOnce => FollowsLog /\ RootsInv
  /\ RollbacksHandledOnce /\ count.provided = 0 => SpentOnce

LEMMA InitSInv == Init => SInv
<1> SUFFICES ASSUME Init PROVE SInv
  OBVIOUS
<1>1. IInv
  BY InitIInv
<1>2. Len(log) = 0 /\ Len(queue) = 0 /\ Len(chain) = 0 /\ DOMAIN made = {} /\ queue = <<>>
  BY DEF Init
<1>3. DOMAIN db.commitments = {} /\ DOMAIN db.txs = {} /\ db.trees = <<>>
  BY DEF Init, EmptyDB
<1>4. ChainInv
  BY <1>2 DEF ChainInv, MadeInv, LogInv, Numbered, Dropped, NoneYet, Height
<1>5. Handled = 0 /\ Seen = 0 /\ Height(0) = 0
  BY <1>2 DEF Handled, Seen, Height
<1>6. TreesInv(0)
  BY <1>2, <1>3, <1>5 DEF TreesInv
<1>a. PlacesInv
  BY <1>2, <1>5 DEF PlacesInv, ChainLogged, OnceEach, RootsBelow, Steady, Height
<1>b. \A r \in Requests : Rooted(request[r]) = {}
  BY DEF Init, Idle, Rooted
<1>c. RootsInv
  BY <1>2, <1>3, <1>b DEF RootsInv, SpendsLater, RootsRight
<1>d. MarksInv(0, 0)
  <2>1. DOMAIN db.blocks = {}
    BY DEF Init, EmptyDB
  <2>2. QED  BY <1>2, <1>3, <1>5, <2>1 DEF MarksInv, Ahead, TreesRight, BlocksRight, HeldRight
<1>7. FollowsLog
  BY <1>2, <1>3, <1>6, <1>d DEF FollowsLog, InQueue, TxsInv, SpentInv
<1>8. SpentOnce
  <2>1. \A r \in Requests : request[r].inputs = {} /\ request[r].provided = {} /\ request[r].stage = "idle"
    BY DEF Init, Idle
  <2>2. Live = {}
    BY <1>2 DEF Live
  <2>3. \A r \in Requests : Takes(r) = {}
    BY <2>1 DEF Takes, Own
  <2>4. QED  BY <2>1, <2>2, <2>3 DEF SpentOnce
<1>9. QED  BY <1>1, <1>4, <1>7, <1>8, <1>a, <1>c DEF SInv

LEMMA KeepsSInv ==
  ASSUME SInv, IInv', ChainInv', PlacesInv', Before,
         FollowsLog /\ RootsInv /\ RollbacksHandledOnce' => FollowsLog' /\ RootsInv',
         FollowsLog /\ SpentOnce /\ RollbacksHandledOnce' /\ count'.provided = 0 => SpentOnce'
  PROVE  SInv'
BY DEF SInv, Before

LEMMA HandlesSInv ==
  ASSUME SInv, Resynchronise \/ HandleBlock \/ FinishEvent \/ HandleRollback
  PROVE  SInv'
<1>1. IInv /\ ChainInv /\ PlacesInv
  BY DEF SInv
<1>2. UNCHANGED chainVars /\ count' = count
  BY DEF Resynchronise, HandleBlock, FinishEvent, HandleRollback
<1>3. IInv'
  BY <1>1, ResynchroniseIInv, HandleBlockIInv, FinishEventIInv, HandleRollbackIInv
<1>4. Before /\ ChainInv' /\ PlacesInv'
  BY <1>1, <1>2, SameCount, ChainAlone, PlacesAlone
<1>5. FollowsLog /\ RootsInv => FollowsLog' /\ RootsInv'
  <2> SUFFICES ASSUME FollowsLog, RootsInv PROVE FollowsLog' /\ RootsInv'
    OBVIOUS
  <2>1. SpendsLater /\ RootsRight
    BY DEF RootsInv
  <2>2. FollowsLog'
    BY <1>1, <2>1, NeverResynchronises, HandleBlockFollows, FinishEventFollows, HandleRollbackFollows
  <2>3. RootsRight'
    BY <1>1, <2>1, NeverResynchronises, HandleBlockRoots, FinishEventRoots, HandleRollbackRoots
  <2>4. SpendsLater'
    BY <1>1, <1>2, <2>1, SpendsAlone DEF chainVars
  <2>5. QED  BY <2>2, <2>3, <2>4 DEF RootsInv
<1>6. FollowsLog /\ SpentOnce => SpentOnce'
  BY <1>1, NeverResynchronises, HandleBlockSpends, FinishEventSpends, HandleRollbackSpends
<1>7. QED  BY <1>3, <1>4, <1>5, <1>6, KeepsSInv

LEMMA RestartSInv ==
  ASSUME SInv, Restart
  PROVE  SInv'
<1>1. IInv /\ ChainInv /\ PlacesInv
  BY DEF SInv
<1>2. UNCHANGED chainVars /\ Count("restarts")
  BY DEF Restart
<1>3. IInv'
  BY <1>1, RestartIInv
<1>4. Before /\ ChainInv' /\ PlacesInv'
  BY <1>1, <1>2, CountBefore, ChainAlone, PlacesAlone
<1>5. FollowsLog /\ RootsInv /\ RollbacksHandledOnce' => FollowsLog' /\ RootsInv'
  <2>1. FollowsLog /\ RollbacksHandledOnce' => FollowsLog'
    BY <1>1, RestartFollows
  <2>2. SpendsLater => SpendsLater'
    BY <1>1, <1>2, SpendsAlone DEF chainVars
  <2>3. made' = made /\ db' = db /\ \A r \in Requests : RootsStay(r)
    BY IdleHasNoRoots DEF Restart, chainVars
  <2>4. RootsRight => RootsRight'
    <3>1. PICK cs : cs = {}
      OBVIOUS
    <3>2. QED  BY <1>1, <2>3, <3>1, RequestRoots
  <2>5. QED  BY <2>1, <2>2, <2>4 DEF RootsInv
<1>6. FollowsLog /\ SpentOnce /\ RollbacksHandledOnce' => SpentOnce'
  BY <1>1, RestartSpends
<1>7. QED  BY <1>3, <1>4, <1>5, <1>6, KeepsSInv

(* What a request does before it makes a transaction.                      *)
LEMMA MarksFollow ==
  ASSUME IInv, ChainInv, UNCHANGED <<chainVars, queue>>, NEW cs,
         db' = db \/ db' = MarkPending(db, cs) \/ db' = ClearPending(db, cs),
         FollowsLog
  PROVE  FollowsLog'
<1>1. IsDB(db)
  BY DEF IInv, Types, DBTypes
<1>2. /\ Same(db, db')
      /\ \A c \in DOMAIN db.commitments :
           /\ db'.commitments[c].nullified = db.commitments[c].nullified
           /\ db'.commitments[c].by = db.commitments[c].by
  <2>1. CASE db' = db
    BY <2>1 DEF Same
  <2>2. CASE db' = MarkPending(db, cs)
    <3> DEFINE e == MarkPending(db, cs)
    <3>1. /\ Same(db, e)
          /\ \A c \in DOMAIN db.commitments :
               /\ e.commitments[c].nullified = db.commitments[c].nullified
               /\ e.commitments[c].by = db.commitments[c].by
      BY <1>1, PendingMarks
    <3>2. db' = e
      BY <2>2
    <3> HIDE DEF e
    <3>3. QED  BY <3>1, <3>2
  <2>3. CASE db' = ClearPending(db, cs)
    <3> DEFINE e == ClearPending(db, cs)
    <3>1. /\ Same(db, e)
          /\ \A c \in DOMAIN db.commitments :
               /\ e.commitments[c].nullified = db.commitments[c].nullified
               /\ e.commitments[c].by = db.commitments[c].by
      BY <1>1, PendingMarks
    <3>2. db' = e
      BY <2>3
    <3> HIDE DEF e
    <3>3. QED  BY <3>1, <3>2
  <2>4. QED  BY <2>1, <2>2, <2>3
<1>3. log' = log /\ queue' = queue /\ made' = made
  BY DEF chainVars
<1>4. Besides
  BY <1>2, <1>3 DEF Besides, Same
<1>5. \A c \in DOMAIN db.commitments : MarksKept(db, db', c)
  <2>1. CASE db' = db
    BY <2>1 DEF MarksKept
  <2>2. CASE db' = MarkPending(db, cs)
    <3>1. PICK e : e = MarkPending(db, cs)
      OBVIOUS
    <3>2. \A c \in DOMAIN db.commitments : MarksKept(db, e, c)
      BY <1>1, <3>1, RequestsKeep
    <3>3. QED  BY <2>2, <3>1, <3>2
  <2>3. CASE db' = ClearPending(db, cs)
    <3>1. PICK e : e = ClearPending(db, cs)
      OBVIOUS
    <3>2. \A c \in DOMAIN db.commitments : MarksKept(db, e, c)
      BY <1>1, <3>1, RequestsKeep
    <3>3. QED  BY <2>3, <3>1, <3>2
  <2>4. QED  BY <2>1, <2>2, <2>3
<1>6. BesidesMarks
  BY <1>2, <1>3, <1>5 DEF BesidesMarks, Same
<1>7. QED  BY <1>4, <1>6, FollowsBesides

LEMMA SelectsSInv ==
  ASSUME SInv, NEW r \in Requests,
         ReadProvided(r) \/ MarkProvided(r) \/ SelectCommitments(r) \/ ReadSiblings(r)
           \/ NextInfo(r)
  PROVE  SInv'
<1>1. IInv /\ ChainInv /\ PlacesInv
  BY DEF SInv
<1>2. UNCHANGED <<chainVars, queue>>
  BY DEF ReadProvided, MarkProvided, SelectCommitments, ReadSiblings, NextInfo
<1>3. IInv'
  BY <1>1, ReadProvidedIInv, MarkProvidedIInv, SelectCommitmentsIInv, ReadSiblingsIInv,
     NextInfoIInv
<1>4. Before /\ count'.rollbacks = count.rollbacks
  <2>1. CASE ReadProvided(r)
    BY <1>1, <2>1, CountBefore DEF ReadProvided
  <2>2. CASE MarkProvided(r) \/ SelectCommitments(r) \/ ReadSiblings(r) \/ NextInfo(r)
    BY <2>2, SameCount DEF MarkProvided, SelectCommitments, ReadSiblings, NextInfo
  <2>3. QED  BY <2>1, <2>2
<1>5. ChainInv' /\ PlacesInv'
  BY <1>1, <1>2, <1>4, ChainAlone, PlacesAlone
<1>6. \E cs : db' = db \/ db' = MarkPending(db, cs)
  BY DEF ReadProvided, MarkProvided, SelectCommitments, ReadSiblings, NextInfo
<1>7. FollowsLog /\ RootsInv => FollowsLog' /\ RootsInv'
  <2>1. FollowsLog => FollowsLog'
    BY <1>1, <1>2, <1>6, MarksFollow
  <2>2. RootsRight => RootsRight'
    BY <1>1, SelectRoots, ReadSiblingsRoots
  <2>3. SpendsLater => SpendsLater'
    BY <1>1, <1>2, SpendsAlone DEF chainVars
  <2>4. QED  BY <2>1, <2>2, <2>3 DEF RootsInv
<1>8. ReadProvided(r) => count'.provided # 0
  BY <1>1, Counted DEF ReadProvided
<1>9. SpentOnce => ~ MarkProvided(r) /\ ~ NextInfo(r)
  BY DEF SpentOnce, MarkProvided, NextInfo
<1>10. SpentOnce /\ count'.provided = 0 => SpentOnce'
  BY <1>1, <1>8, <1>9, SelectSpends, ReadSiblingsSpends
<1>11. QED  BY <1>3, <1>4, <1>5, <1>7, <1>10, KeepsSInv

LEMMA FailsSInv ==
  ASSUME SInv, NEW r \in Requests, InfoFails(r) \/ ProofFails(r) \/ FailsUncaught(r)
  PROVE  SInv'
<1>1. IInv /\ ChainInv /\ PlacesInv
  BY DEF SInv
<1>2. UNCHANGED <<chainVars, mem, queue>> /\ Step(r, Idle)
  BY DEF InfoFails, ProofFails, FailsUncaught
<1>3. IInv'
  BY <1>1, InfoFailsIInv, ProofFailsIInv, FailsUncaughtIInv
<1>4. Before /\ count'.rollbacks = count.rollbacks
  <2>1. CASE ProofFails(r)
    BY <1>1, <2>1, CountBefore DEF ProofFails
  <2>2. CASE InfoFails(r) \/ FailsUncaught(r)
    <3>1. PICK left : /\ count.failures < MaxFailures
                      /\ count' = [count EXCEPT !.failures = @ + 1, !.left = left]
      BY <2>2 DEF InfoFails, FailsUncaught
    <3>2. QED  BY <1>1, <3>1, FailureBefore
  <2>3. QED  BY <2>1, <2>2
<1>5. ChainInv' /\ PlacesInv'
  BY <1>1, <1>2, <1>4, ChainAlone, PlacesAlone
<1>6. PICK cs \in SUBSET request[r].inputs : db' = db \/ db' = ClearPending(db, cs)
  <2>1. request[r].call \subseteq request[r].inputs
    BY <1>1, RequestOf DEF IsRequest
  <2>2. QED  BY <2>1 DEF InfoFails, ProofFails, FailsUncaught, ReleasedOnError
<1>7. FollowsLog /\ RootsInv => FollowsLog' /\ RootsInv'
  <2>2. FollowsLog => FollowsLog'
    BY <1>1, <1>2, <1>6, MarksFollow
  <2>3. \A q \in Requests : RootsStay(q)
    BY <1>1, <1>2, Stepped, IdleHasNoRoots
  <2>4. RootsRight => RootsRight'
    BY <1>1, <1>2, <1>6, <2>3, RequestRoots DEF chainVars
  <2>5. SpendsLater => SpendsLater'
    BY <1>1, <1>2, SpendsAlone DEF chainVars
  <2>6. QED  BY <2>2, <2>4, <2>5 DEF RootsInv
<1>8. SpentOnce => SpentOnce'
  BY <1>1, <1>2, <1>6, FailsSpends
<1>9. QED  BY <1>3, <1>4, <1>5, <1>7, <1>8, KeepsSInv

LEMMA TransactsSInv ==
  ASSUME SInv, (\E r \in Requests : Prove(r)) \/ Deposit \/ OthersTransact
  PROVE  SInv'
<1>1. IInv /\ ChainInv /\ PlacesInv /\ MadeInv
  BY DEF SInv, ChainInv
<1>2. IInv'
  BY <1>1, ProveIInv, DepositIInv, OthersTransactIInv
<1>3. PICK tx, n, taken :
        /\ Transacts(tx, n) /\ Make(tx, taken)
        /\ \/ \E r \in Requests :
                /\ tx.inputs = request[r].inputs /\ Step(r, Idle)
                /\ tx.roots = request[r].roots /\ request[r].stage = "built"
                /\ \A c \in request[r].inputs : request[r].roots[c].n >= 0
           \/ tx.inputs = {} /\ request' = request
  <2>1. ASSUME NEW r \in Requests, Prove(r)
        PROVE  request[r].stage = "built" /\ \A c \in request[r].inputs : request[r].roots[c].n >= 0
    BY <2>1 DEF Prove
  <2>2. QED  BY <1>1, <2>1, ProveTransacts, DepositTransacts, OthersTransacts
<1>4. Before
  BY <1>3, SameCount DEF Transacts
<1>5. ChainInv' /\ PlacesInv' /\ (FollowsLog => FollowsLog')
  BY <1>1, <1>3, TransactsFollows, MakePlaces
<1>7. ASSUME RootsInv PROVE RootsInv'
  <2>1. SpendsLater /\ RootsRight
    BY <1>7 DEF RootsInv
  <2>2. SpendsLater'
    BY <1>1, <1>3, <2>1, SpendsAlone DEF Transacts, MadeGrows
  <2>3. \A r \in Requests : RootsStay(r)
    BY <1>1, <1>3, Stepped, IdleHasNoRoots
  <2>4. \A c \in tx.inputs : EndsWith(tx.roots[c].root, c[1]) /\ tx.roots[c].n \in Nat
    <3>1. CASE \E r \in Requests :
                 /\ tx.inputs = request[r].inputs /\ tx.roots = request[r].roots
                 /\ request[r].stage = "built"
                 /\ \A c \in request[r].inputs : request[r].roots[c].n >= 0
      <4>1. PICK r \in Requests :
              /\ tx.inputs = request[r].inputs /\ tx.roots = request[r].roots
              /\ request[r].stage = "built"
              /\ \A c \in request[r].inputs : request[r].roots[c].n >= 0
        BY <3>1
      <4>2. \A c \in request[r].inputs :
              EndsWith(request[r].roots[c].root, c[1]) /\ request[r].roots[c].n \in Int
        BY <2>1, <4>1 DEF RootsRight, Rooted
      <4>3. \A x \in Int : x >= 0 => x \in Nat
        OBVIOUS
      <4>4. QED  BY <4>1, <4>2, <4>3
    <3>2. CASE tx.inputs = {}
      BY <3>2
    <3>3. QED  BY <1>3, <3>1, <3>2
  <2>5. RootsRight'
    BY <1>1, <1>3, <2>1, <2>3, <2>4, TransactRoots
  <2>6. QED  BY <2>2, <2>5 DEF RootsInv
<1>6. ASSUME SpentOnce PROVE SpentOnce'
  <2>1. CASE \E r \in Requests : tx.inputs = request[r].inputs /\ Step(r, Idle)
    <3>1. PICK r \in Requests : tx.inputs = request[r].inputs /\ Step(r, Idle)
      BY <2>1
    <3>2. \A t \in Live : Spends(t) \cap Takes(r) = {}
      BY <1>6 DEF SpentOnce
    <3>3. QED  BY <1>1, <1>3, <1>6, <3>1, <3>2, ProveSpends
  <2>2. CASE tx.inputs = {} /\ request' = request
    <3>1. Own(tx.inputs) = {}
      BY <2>2 DEF Own
    <3>2. QED  BY <1>1, <1>3, <1>6, <2>2, <3>1, TransactsSpends
  <2>3. QED  BY <1>3, <2>1, <2>2
<1>8. QED  BY <1>2, <1>4, <1>5, <1>6, <1>7, KeepsSInv

LEMMA ProposeSInv ==
  ASSUME SInv, Propose
  PROVE  SInv'
<1>1. IInv /\ ChainInv /\ PlacesInv
  BY DEF SInv
<1>2. IInv' /\ ChainInv' /\ PlacesInv' /\ Before
  BY <1>1, ProposeIInv, ProposeChain, ProposePlaces, ProposeBefore
<1>3. PICK event \in Events, lost \in BOOLEAN :
        /\ Logs(event) /\ IsBlock(event) /\ event.block.tx \in pool
        /\ lost => count'.lost # 0
        /\ queue' = IF lost THEN queue ELSE Append(queue, Job(event, "socket"))
  BY <1>1, ProposeChain
<1>4. db' = db /\ request' = request /\ pool' = pool
  BY DEF Propose
<1>5. RollbacksHandledOnce' => queue' = Append(queue, Job(event, "socket"))
  BY <1>3 DEF RollbacksHandledOnce
<1>6. FollowsLog /\ RootsInv /\ RollbacksHandledOnce' => FollowsLog' /\ RootsInv'
  <2> SUFFICES ASSUME FollowsLog, RootsInv, RollbacksHandledOnce' PROVE FollowsLog' /\ RootsInv'
    OBVIOUS
  <2>1. FollowsLog'
    BY <1>1, <1>3, <1>4, <1>5, FollowsQueued
  <2>2. SpendsLater /\ RootsRight
    BY DEF RootsInv
  <2>3. RootsRight'
    <3>1. PICK cs : cs = {}
      OBVIOUS
    <3>2. made' = made
      BY <1>3 DEF Logs
    <3>3. \A r \in Requests : RootsStay(r)
      BY <1>4, IdleHasNoRoots
    <3>4. QED  BY <1>1, <1>4, <2>2, <3>1, <3>2, <3>3, RequestRoots
  <2>4. SpendsLater'
    <3>1. PICK new \in Events : /\ Logs(new) /\ new.block.n = Len(chain)
                                /\ new.block.tx \in pool /\ Includable(new.block.tx)
      BY <1>1, ProposePlaces
    <3>2. new.block.tx \in DOMAIN made
      BY <1>1, <3>1 DEF IInv, Types, ChainTypes
    <3>3. QED  BY <1>1, <2>2, <3>1, <3>2, SpendsLogged
  <2>5. QED  BY <2>1, <2>3, <2>4 DEF RootsInv
<1>7. FollowsLog /\ SpentOnce /\ RollbacksHandledOnce' => SpentOnce'
  BY <1>1, <1>2, <1>3, <1>4, <1>5, LoggedSpends
<1>8. QED  BY <1>2, <1>6, <1>7, KeepsSInv

LEMMA RollBackSInv ==
  ASSUME SInv, RollBack
  PROVE  SInv'
<1>1. IInv /\ ChainInv /\ PlacesInv
  BY DEF SInv
<1>2. IInv' /\ ChainInv' /\ PlacesInv' /\ Before /\ pool' \subseteq pool
  BY <1>1, RollBackIInv, RollBackChain, RollBackPlaces, CountBefore DEF RollBack
<1>3. PICK event \in Events :
        Logs(event) /\ ~ IsBlock(event) /\ queue' = Append(queue, Job(event, "socket"))
  BY <1>1, RollBackChain
<1>4. db' = db /\ request' = request
  BY DEF RollBack
<1>5. FollowsLog /\ RootsInv => FollowsLog' /\ RootsInv'
  <2> SUFFICES ASSUME FollowsLog, RootsInv PROVE FollowsLog' /\ RootsInv'
    OBVIOUS
  <2>1. FollowsLog'
    BY <1>1, <1>3, <1>4, FollowsQueued
  <2>2. SpendsLater /\ RootsRight
    BY DEF RootsInv
  <2>3. RootsRight'
    <3>1. PICK cs : cs = {}
      OBVIOUS
    <3>2. made' = made
      BY <1>3 DEF Logs
    <3>3. \A r \in Requests : RootsStay(r)
      BY <1>4, IdleHasNoRoots
    <3>4. QED  BY <1>1, <1>4, <2>2, <3>1, <3>2, <3>3, RequestRoots
  <2>4. SpendsLater'
    BY <1>1, <1>3, <2>2, SpendsLogged
  <2>5. QED  BY <2>1, <2>3, <2>4 DEF RootsInv
<1>6. FollowsLog /\ SpentOnce => SpentOnce'
  BY <1>1, <1>2, <1>3, <1>4, LoggedSpends
<1>7. QED  BY <1>2, <1>5, <1>6, KeepsSInv

LEMMA UnchangedSInv ==
  ASSUME SInv, UNCHANGED vars
  PROVE  SInv'
<1>1. IInv /\ ChainInv /\ PlacesInv
  BY DEF SInv
<1>2. /\ UNCHANGED <<chainVars, mem, queue>> /\ request' = request /\ count' = count /\ db' = db
      /\ made' = made /\ pool' = pool
  BY DEF vars, chainVars
<1>3. IInv'
  BY <1>1, NextIInv
<1>4. Before /\ ChainInv' /\ PlacesInv'
  BY <1>1, <1>2, SameCount, ChainAlone, PlacesAlone
<1>5. FollowsLog /\ RootsInv => FollowsLog' /\ RootsInv'
  <2>1. PICK cs : cs = {}
    OBVIOUS
  <2>2. FollowsLog => FollowsLog'
    BY <1>1, <1>2, <2>1, MarksFollow
  <2>3. RootsRight => RootsRight'
    BY <1>1, <1>2, <2>1, RequestRoots, IdleHasNoRoots
  <2>4. SpendsLater => SpendsLater'
    BY <1>1, <1>2, SpendsAlone DEF chainVars
  <2>5. QED  BY <2>2, <2>3, <2>4 DEF RootsInv
<1>6. SpentOnce => SpentOnce'
  BY <1>2 DEF SpentOnce, Live, Spends, Takes, Own, Waiting, IsBlock
<1>7. QED  BY <1>3, <1>4, <1>5, <1>6, KeepsSInv

LEMMA NextSInv == SInv /\ [Next]_vars => SInv'
<1> SUFFICES ASSUME SInv, [Next]_vars PROVE SInv'
  OBVIOUS
<1>1. CASE Resynchronise \/ HandleBlock \/ FinishEvent \/ HandleRollback
  BY <1>1, HandlesSInv
<1>2. CASE Restart
  BY <1>2, RestartSInv
<1>3. ASSUME NEW r \in Requests,
             ReadProvided(r) \/ MarkProvided(r) \/ SelectCommitments(r) \/ ReadSiblings(r)
               \/ NextInfo(r)
      PROVE  SInv'
  BY <1>3, SelectsSInv
<1>4. ASSUME NEW r \in Requests, InfoFails(r) \/ ProofFails(r) \/ FailsUncaught(r) PROVE SInv'
  BY <1>4, FailsSInv
<1>5. CASE (\E r \in Requests : Prove(r)) \/ Deposit \/ OthersTransact
  BY <1>5, TransactsSInv
<1>6. CASE Propose
  BY <1>6, ProposeSInv
<1>7. CASE RollBack
  BY <1>7, RollBackSInv
<1>8. CASE UNCHANGED vars
  BY <1>8, UnchangedSInv
<1>9. QED  BY <1>1, <1>2, <1>3, <1>4, <1>5, <1>6, <1>7, <1>8 DEF Next

(* The transactions that proposers hold spend no commitment of the client  *)
(* twice, whatever requests, blocks, rollbacks and restarts interleave:    *)
(* what a request takes was neither marked nor spent, and a mark goes only *)
(* when no proposer can take the transaction that spends it any more       *)
(* (findUsableCommitments, markNullified, rollbackEventHandler).           *)
THEOREM NothingSpentTwice == Spec => []NoDoubleSpend
<1>1. SInv => NoDoubleSpend
  <2> SUFFICES ASSUME SInv, count.provided = 0, RollbacksHandledOnce,
                      NEW t \in pool, NEW u \in pool, t # u,
                      NEW c \in made[t].inputs \cap made[u].inputs
               PROVE  made[c[1]].kind \in Foreign
    BY DEF NoDoubleSpend
  <2>1. IInv /\ SpentOnce
    BY DEF SInv
  <2>2. t \in Live /\ u \in Live
    BY <2>1 DEF Live, IInv, Types, ChainTypes
  <2>3. Spends(t) \cap Spends(u) = {}
    BY <2>1, <2>2 DEF SpentOnce
  <2>4. QED  BY <2>3 DEF Spends, Own
<1>2. QED  BY InitSInv, NextSInv, <1>1, PTL DEF Spec

(* A client that has handled all there was holds no commitment spent for a *)
(* transaction that lost its block and a root with it: the rollback        *)
(* cleared the mark (rollbackEventHandler, clearNullifiers).               *)
THEOREM InputsAreReleased == Spec => []InputsReleased
<1>1. SInv => InputsReleased
  <2> SUFFICES ASSUME SInv, CaughtUp, RollbacksHandledOnce, NEW c \in DOMAIN db.commitments,
                      db.commitments[c].nullified, RemovedWithRoot(db.commitments[c].by),
                      SameNumber(db.commitments[c].by)
               PROVE  FALSE
    BY DEF InputsReleased
  <2>1. PICK t : t = db.commitments[c].by
    OBVIOUS
  <2>2. IInv /\ InQueue /\ Numbered
    BY DEF SInv, FollowsLog, ChainInv, LogInv
  <2>3. PICK s \in 0..Len(log) : TreesInv(s) /\ SpentInv(s)
    BY DEF SInv, FollowsLog
  <2>4. Len(log) \in Nat /\ DOMAIN log = 1..Len(log)
    BY <2>2, LogTypes
  <2>5. Reached(s) = Len(log)
    <3>1. queue = <<>> /\ Len(queue) = 0
      BY DEF CaughtUp
    <3>2. Handled = Len(log) /\ Seen = Len(log)
      BY <2>4, <3>1 DEF Handled, Seen
    <3>3. s \in Nat /\ s <= Len(log)
      BY <2>3, <2>4
    <3>4. ~ (s > Len(log))
      BY <2>4, <3>3
    <3>5. Reached(s) = IF s > Len(log) THEN s ELSE Len(log)
      BY <3>2 DEF Reached
    <3>6. QED  BY <3>4, <3>5
  <2>6. NotRemoved(s, t)
    BY <2>1, <2>3 DEF SpentInv
  <2>7. PICK b \in 1..Len(log) :
          /\ Breaks(b, t)
          /\ \E a \in Inclusions(t) : a < b /\ Stands(a, b - 1) /\ log[b].n <= log[a].block.n
    BY <2>1, <2>4 DEF RemovedWithRoot, Breaks
  <2>8. PICK a \in Inclusions(t) : a < b /\ Stands(a, b - 1) /\ log[b].n <= log[a].block.n
    BY <2>7
  <2>9. a \in 1..b - 1 /\ BlockAt(a, t)
    BY <2>4, <2>7, <2>8 DEF Inclusions, BlockAt
  <2>10. log[a].block.n < log[b].n
    BY <2>5, <2>6, <2>7, <2>8, <2>9 DEF NotRemoved
  <2>11. log[a].block.n \in Nat /\ log[b].n \in Nat
    <3>1. a \in 1..Len(log)
      BY <2>4, <2>9
    <3>2. QED  BY <2>2, <2>7, <2>9, <3>1, LogTypes DEF BlockAt, Breaks
  <2>12. QED  BY <2>8, <2>10, <2>11
<1>2. QED  BY InitSInv, NextSInv, <1>1, PTL DEF Spec

(***************************************************************************)
(* The client when it has caught up.                                       *)
(***************************************************************************)

(* What the client has once it has handled the whole log.                  *)
LEMMA AllHandled ==
  ASSUME SInv, CaughtUp, RollbacksHandledOnce
  PROVE  TreesInv(Len(log)) /\ MarksInv(Len(log), Len(log))
<1>1. PICK L : L = Len(log)
  OBVIOUS
<1>2. L \in Nat /\ queue = <<>> /\ Len(queue) = 0
  BY <1>1, LogTypes DEF SInv, CaughtUp
<1>3. Handled = L /\ Seen = L
  BY <1>1, <1>2 DEF Handled, Seen
<1>4. PICK s \in 0..L : TreesInv(s) /\ \E e \in 0..L : MarksInv(s, e)
  BY <1>1 DEF SInv, FollowsLog
<1>5. PICK e \in 0..L : MarksInv(s, e)
  BY <1>4
<1>6. s = L
  BY <1>1, <1>2, <1>3, <1>4 DEF TreesInv
<1>7. e = L
  BY <1>1, <1>2, <1>3, <1>5 DEF MarksInv, Ahead
<1>8. QED  BY <1>1, <1>4, <1>5, <1>6, <1>7

(* The blocks of the chain are those that stand in the log.                *)
LEMMA ChainStands ==
  ASSUME IInv, ChainInv, PlacesInv, NEW i \in DOMAIN chain
  PROVE  \E a \in 1..Len(log) :
           /\ Stood(a, Len(log)) /\ Num(a) = i - 1 /\ BlockAt(a, chain[i].tx)
           /\ TxOf(a) = chain[i].tx /\ chain[i].tx \in DOMAIN made
<1>1. PICK a : a = chain[i].l1
  OBVIOUS
<1>2. a \in 1..Len(log) /\ Stood(a, Len(log)) /\ log[a].block = chain[i] /\ chain[i].n = i - 1
  BY <1>1 DEF PlacesInv, ChainLogged
<1>3. TxOf(a) = chain[i].tx /\ Num(a) = i - 1 /\ BlockAt(a, chain[i].tx)
  BY <1>2 DEF TxOf, Num, BlockAt, Stood
<1>4. chain[i].tx \in DOMAIN made
  BY <1>2, LogTypes DEF Stood
<1>5. QED  BY <1>2, <1>3, <1>4

(* No transaction is on chain twice, and none spends what another spends.  *)
LEMMA ChainOnce ==
  ASSUME IInv, ChainInv, PlacesInv, NEW i \in DOMAIN chain, NEW j \in DOMAIN chain, i # j
  PROVE  chain[i].tx # chain[j].tx /\ made[chain[i].tx].inputs \cap made[chain[j].tx].inputs = {}
<1>1. PICK L : L = Len(log)
  OBVIOUS
<1>2. PICK a \in 1..L : Stood(a, L) /\ Num(a) = i - 1 /\ TxOf(a) = chain[i].tx
  BY <1>1, ChainStands
<1>3. PICK b \in 1..L : Stood(b, L) /\ Num(b) = j - 1 /\ TxOf(b) = chain[j].tx
  BY <1>1, ChainStands
<1>4. i \in Nat /\ j \in Nat /\ L \in Nat
  <2>1. PICK S : S = [n : Nat, tx : Nat, l1 : Nat]
    OBVIOUS
  <2>2. chain \in Seq(S)
    BY <2>1 DEF IInv, Types, ChainTypes
  <2>3. DOMAIN chain = 1..Len(chain) /\ Len(chain) \in Nat
    BY <2>2
  <2>4. QED  BY <1>1, <2>3, LogTypes
<1>5. a # b /\ L \in 1..L
  BY <1>2, <1>3, <1>4
<1>6. QED  BY <1>1, <1>2, <1>3, <1>5 DEF PlacesInv, OnceEach

LEMMA TreesOfChain ==
  ASSUME SInv, CaughtUp, RollbacksHandledOnce
  PROVE  /\ DOMAIN db.trees = DOMAIN chain
         /\ \A i \in DOMAIN chain : i \in Nat /\ db.trees[i].tree = SubSeq(ChainTree, 1, i)
<1>1. PICK L : L = Len(log)
  OBVIOUS
<1>2. PICK N : N = Len(chain)
  OBVIOUS
<1>3. IInv /\ ChainInv /\ PlacesInv /\ TreesInv(L) /\ TreesRight(L)
  BY <1>1, AllHandled DEF SInv, MarksInv
<1>4. /\ chain \in Seq([n : Nat, tx : Nat, l1 : Nat]) /\ N \in Nat /\ DOMAIN chain = 1..N
      /\ L \in Nat /\ Height(L) = N
  <2>1. chain \in Seq([n : Nat, tx : Nat, l1 : Nat])
    BY <1>3 DEF IInv, Types, ChainTypes
  <2>2. Height(L) = N /\ L \in Nat
    BY <1>1, <1>2, <1>3, LogTypes DEF ChainInv, LogInv, Numbered
  <2>3. QED  BY <1>2, <2>1, <2>2
<1>5. DOMAIN db.trees = 1..N
  <2>1. db.trees = [k \in 1..N |-> db.trees[k]]
    BY <1>3, <1>4 DEF TreesInv
  <2>2. QED  BY <2>1
<1>6. ASSUME NEW i \in 1..N
      PROVE  db.trees[i].tree = SubSeq(ChainTree, 1, i)
  <2>1. PICK x : x = db.trees[i].tree
    OBVIOUS
  <2>2. x = [k \in 1..i |-> x[k]]
    BY <1>3, <1>4, <2>1 DEF TreesRight
  <2>3. \A k \in 1..i : k \in DOMAIN chain /\ x[k] = chain[k].tx
    <3> SUFFICES ASSUME NEW k \in 1..i PROVE k \in DOMAIN chain /\ x[k] = chain[k].tx
      OBVIOUS
    <3>1. k \in DOMAIN chain /\ k \in Nat /\ i \in Nat /\ k - 1 < i /\ (k - 1) + 1 = k
      BY <1>4
    <3>2. PICK a \in 1..L : Stood(a, L) /\ Num(a) = k - 1 /\ TxOf(a) = chain[k].tx
      BY <1>1, <1>3, <3>1, ChainStands
    <3>3. x[Num(a) + 1] = TxOf(a)
      BY <1>3, <1>4, <2>1, <3>1, <3>2 DEF TreesRight
    <3>4. QED  BY <3>1, <3>2, <3>3
  <2>4. \A k \in 1..N : chain[k].tx \in Nat
    <3>1. PICK S : S = [n : Nat, tx : Nat, l1 : Nat]
      OBVIOUS
    <3>2. chain \in Seq(S)
      BY <1>4, <3>1
    <3>3. \A k \in 1..N : chain[k] \in S
      BY <1>2, <3>2
    <3>4. QED  BY <3>1, <3>3
  <2>5. ChainTree \in Seq(Nat) /\ Len(ChainTree) = N /\ \A k \in 1..N : ChainTree[k] = chain[k].tx
    <3>1. ChainTree = [k \in 1..N |-> chain[k].tx]
      BY <1>4 DEF ChainTree
    <3>2. [k \in 1..N |-> chain[k].tx] \in Seq(Nat)
      BY <1>4, <2>4
    <3>3. QED  BY <1>4, <3>1, <3>2
  <2>6. PICK y : y = SubSeq(ChainTree, 1, i)
    OBVIOUS
  <2>7. y = [k \in 1..i |-> ChainTree[k]]
    <3>1. y \in Seq(Nat) /\ Len(y) = i /\ \A k \in 1..i : y[k] = ChainTree[k]
      <4>1. PICK T : T = ChainTree
        OBVIOUS
      <4>2. T \in Seq(Nat) /\ Len(T) = N /\ 1 \in Nat /\ i \in Nat /\ i >= 1 /\ i <= Len(T)
        BY <1>4, <2>5, <4>1
      <4>3. y = SubSeq(T, 1, i)
        BY <2>6, <4>1
      <4>4. y \in Seq(Nat) /\ Len(y) = i
        BY <4>2, <4>3
      <4>5. \A k \in 1..i : y[k] = T[k]
        BY <4>2, <4>3
      <4>6. QED  BY <4>1, <4>4, <4>5
    <3>2. DOMAIN y = 1..i /\ y = [k \in DOMAIN y |-> y[k]]
      BY <3>1
    <3>3. QED  BY <3>1, <3>2
  <2>8. \A k \in 1..i : x[k] = ChainTree[k]
    <3>1. \A k \in 1..i : k \in 1..N
      BY <1>4
    <3>2. QED  BY <2>3, <2>5, <3>1
  <2>9. x = y
    BY <2>2, <2>7, <2>8
  <2>10. QED  BY <2>1, <2>6, <2>9
<1>7. QED  BY <1>4, <1>5, <1>6

(* The client holds all that is its own on chain.                          *)
LEMMA OwnHeld ==
  ASSUME SInv, CaughtUp, RollbacksHandledOnce, NEW i \in DOMAIN chain
  PROVE  OursOf(chain[i].tx) \subseteq DOMAIN db.commitments
<1>1. PICK L : L = Len(log)
  OBVIOUS
<1>2. PICK t : t = chain[i].tx
  OBVIOUS
<1>3. IInv /\ ChainInv /\ PlacesInv /\ HeldRight(L) /\ L \in Nat
  BY <1>1, AllHandled, LogTypes DEF SInv, MarksInv
<1>4. PICK a \in 1..L : Stood(a, L) /\ BlockAt(a, t) /\ TxOf(a) = t /\ t \in DOMAIN made
  BY <1>1, <1>2, <1>3, ChainStands
<1>5. SUFFICES ASSUME ~(OursOf(t) \subseteq DOMAIN db.commitments) PROVE FALSE
  BY <1>2
<1>6. made[t].kind \notin Foreign
  BY <1>3, <1>4, <1>5 DEF HeldRight, Stood
<1>7. PICK b \in 1..L : \E x \in 1..b - 1 : BlockAt(x, t) /\ Breaks(b, t)
  BY <1>3, <1>4, <1>5, <1>6 DEF HeldRight
<1>8. PICK x \in 1..b - 1 : BlockAt(x, t) /\ Breaks(b, t)
  BY <1>7
<1>9. a < b
  <2>1. x \in 1..L /\ x < b
    BY <1>3
  <2>2. \A e \in b..L : ~ BlockAt(e, t)
    BY <1>1, <1>3, <1>4, <1>8, <2>1 DEF ChainInv, LogInv, Dropped
  <2>3. ~(a >= b)
    BY <1>3, <1>4, <2>2
  <2>4. QED  BY <1>3, <2>3
<1>10. ~ IsBlock(log[b]) /\ ~ CheckValidHistoricRootsBlockNumber(t, log[b].n - 1)
  BY <1>8 DEF Breaks
<1>11. Num(a) < log[b].n
  <2>1. b \in a + 1..L
    BY <1>3, <1>9
  <2>2. QED  BY <1>4, <1>10, <2>1 DEF Stood, Stands, Num
<1>12. Num(a) \in Nat /\ log[b].n \in Nat
  BY <1>1, <1>4, <1>10, LogTypes, <1>3 DEF Num, Stood
<1>13. PICK c \in made[t].inputs : ~(made[t].roots[c].n <= log[b].n - 1)
  BY <1>10 DEF CheckValidHistoricRootsBlockNumber
<1>14. made[t].roots[c].n < Num(a)
  BY <1>1, <1>3, <1>4 DEF PlacesInv, RootsBelow, Stood
<1>15. made[t].roots[c].n \in Nat
  BY <1>4 DEF SInv, RootsInv, RootsRight
<1>16. QED  BY <1>11, <1>12, <1>13, <1>14, <1>15

(* When a commitment got on chain, and its root.                           *)
LEMMA OnChainRight ==
  ASSUME SInv, CaughtUp, RollbacksHandledOnce, NEW c \in DOMAIN db.commitments
  PROVE  LET m == db.commitments[c] IN
         IF c[1] \in OnChain
         THEN m.onChain = BlockOf(c[1]) - 1 /\ m.root = SubSeq(ChainTree, 1, m.onChain + 1)
         ELSE m.onChain = -1
<1>1. PICK L : L = Len(log)
  OBVIOUS
<1>2. IInv /\ ChainInv /\ PlacesInv /\ MarkRight(c, L, L) /\ L \in Nat
  BY <1>1, AllHandled, LogTypes DEF SInv, MarksInv
<1>3. \A t : t \in OnChain <=> \E i \in DOMAIN chain : chain[i].tx = t
  BY DEF OnChain, ChainTree, ToSet
<1>4. CASE c[1] \in OnChain
  <2>1. PICK i \in DOMAIN chain : chain[i].tx = c[1]
    BY <1>3, <1>4
  <2>2. BlockOf(c[1]) = i
    <3>1. \A j \in DOMAIN chain : chain[j].tx = c[1] => j = i
      BY <1>2, <2>1, ChainOnce
    <3>2. QED  BY <2>1, <3>1 DEF BlockOf
  <2>3. PICK a \in 1..L : Stood(a, L) /\ Num(a) = i - 1 /\ BlockAt(a, c[1])
    BY <1>1, <1>2, <2>1, ChainStands
  <2>4. /\ db.commitments[c].onChain = Num(a)
        /\ db.commitments[c].root = db.trees[Num(a) + 1].tree
    BY <1>2, <2>3 DEF MarkRight, Stood
  <2>5. i \in Nat /\ db.trees[i].tree = SubSeq(ChainTree, 1, i)
    BY TreesOfChain
  <2>6. Num(a) + 1 = i
    BY <2>3, <2>5
  <2>7. QED  BY <1>4, <2>2, <2>3, <2>4, <2>5, <2>6
<1>5. CASE c[1] \notin OnChain
  <2>1. ASSUME db.commitments[c].onChain # -1 PROVE FALSE
    <3>1. PICK a \in 1..L : BlockAt(a, c[1]) /\ Stands(a, L)
      BY <1>2, <2>1 DEF MarkRight
    <3>2. Num(a) + 1 \in DOMAIN chain /\ chain[Num(a) + 1] = log[a].block
      BY <1>1, <1>2, <3>1, StoodOnChain DEF Stood, BlockAt, PlacesInv
    <3>3. QED  BY <1>3, <1>5, <3>1, <3>2 DEF BlockAt
  <2>2. QED  BY <1>5, <2>1
<1>6. QED  BY <1>4, <1>5

(* When it was spent on chain.                                             *)
LEMMA SpentRight ==
  ASSUME SInv, CaughtUp, RollbacksHandledOnce, NEW c \in DOMAIN db.commitments
  PROVE  LET spends == {i \in DOMAIN chain : c \in made[chain[i].tx].inputs} IN
         db.commitments[c].nullifiedOnChain = IF spends = {} THEN -1 ELSE Max(spends) - 1
<1> DEFINE spends == {i \in DOMAIN chain : c \in made[chain[i].tx].inputs}
<1>1. PICK L : L = Len(log)
  OBVIOUS
<1>2. IInv /\ ChainInv /\ PlacesInv /\ MarkRight(c, L, L) /\ L \in Nat
  BY <1>1, AllHandled, LogTypes DEF SInv, MarksInv
<1>3. CASE spends = {}
  <2>1. ASSUME db.commitments[c].nullifiedOnChain # -1 PROVE FALSE
    <3>1. PICK a \in 1..L : Stood(a, L) /\ c \in made[TxOf(a)].inputs
      BY <1>2, <2>1 DEF MarkRight
    <3>2. Num(a) + 1 \in DOMAIN chain /\ chain[Num(a) + 1] = log[a].block
      BY <1>1, <1>2, <3>1, StoodOnChain DEF PlacesInv
    <3>3. QED  BY <1>3, <3>1, <3>2 DEF TxOf
  <2>2. QED  BY <1>3, <2>1
<1>4. CASE spends # {}
  <2>1. PICK i \in DOMAIN chain : c \in made[chain[i].tx].inputs
    BY <1>4
  <2>2. spends = {i}
    <3>1. \A j \in DOMAIN chain : c \in made[chain[j].tx].inputs => j = i
      BY <1>2, <2>1, ChainOnce
    <3>2. QED  BY <2>1, <3>1
  <2>3. i \in Nat
    BY TreesOfChain
  <2>4. PICK S : S = spends
    OBVIOUS
  <2>5. Max(S) = i
    <3>1. S = {i} /\ i >= i
      BY <2>2, <2>3, <2>4
    <3>2. \A x \in S : x = i
      BY <3>1
    <3>3. QED  BY <3>1, <3>2 DEF Max
  <2>6. PICK a \in 1..L : Stood(a, L) /\ Num(a) = i - 1 /\ TxOf(a) = chain[i].tx
    BY <1>1, <1>2, ChainStands
  <2>7. db.commitments[c].nullifiedOnChain = Num(a)
    BY <1>2, <2>1, <2>6 DEF MarkRight
  <2>8. QED  BY <1>4, <2>4, <2>5, <2>6, <2>7
<1>5. QED  BY <1>3, <1>4

(* A client that missed no event and handled no rollback twice, once it    *)
(* has caught up, holds every commitment of its own on chain, with the     *)
(* number of the block that made it, the number of the block that spent it *)
(* and the root its path leads to, and keeps the trees of the chain,       *)
(* however requests, blocks, rollbacks and restarts interleaved            *)
(* (blockProposedEventHandler, rollbackEventHandler).                      *)
THEOREM MarksFollowChain == Spec => [](RollbacksHandledOnce => MarksReflectChain)
<1>1. SInv => (RollbacksHandledOnce => MarksReflectChain)
  <2> SUFFICES ASSUME SInv, RollbacksHandledOnce, CaughtUp PROVE MarksReflectChain
    BY DEF MarksReflectChain
  <2>1. UNION {OursOf(t) : t \in OnChain} \subseteq DOMAIN db.commitments
    <3>1. \A t \in OnChain : \E i \in DOMAIN chain : chain[i].tx = t
      BY DEF OnChain, ChainTree, ToSet
    <3>2. \A t \in OnChain : OursOf(t) \subseteq DOMAIN db.commitments
      BY <3>1, OwnHeld
    <3>3. QED  BY <3>2
  <2>2. [i \in DOMAIN db.trees |-> db.trees[i].tree] =
          [i \in DOMAIN chain |-> SubSeq(ChainTree, 1, i)]
    <3>1. DOMAIN db.trees = DOMAIN chain
      BY TreesOfChain
    <3>2. \A i \in DOMAIN chain : db.trees[i].tree = SubSeq(ChainTree, 1, i)
      BY TreesOfChain
    <3>3. QED  BY <3>1, <3>2
  <2>3. QED  BY <2>1, <2>2, OnChainRight, SpentRight DEF MarksReflectChain
<1>2. QED  BY InitSInv, NextSInv, <1>1, PTL DEF Spec
============================================================================
