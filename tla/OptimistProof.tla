--------------------------- MODULE OptimistProof ---------------------------
(***************************************************************************)
(* Theorems about Optimist, for any transactions and any bounds.           *)
(*                                                                         *)
(* The chain is what the stored blocks become when the waiting events are  *)
(* followed, one after the other. So what is proved of the stored blocks   *)
(* holds of the chain whenever no event waits.                             *)
(***************************************************************************)
EXTENDS Optimist, FoldLemmas

Block == [hash : Nat, n : Int, prev : Nat, txs : Seq(Tx), tree : Seq(Nat),
          fault : BOOLEAN, by : {Me, Other, "none"}, l1 : Nat]

Event ==
  [type : {"BlockProposed"}, block : Block] \cup [type : {"Rollback"}, n : Nat]
    \cup [type : {"NewCurrentProposer"}, p : {Me, Other}]
    \cup [type : {"CommittedToChallenge"}, c : Nat]

Known == DOMAIN roots

HashBefore(q, i) == IF i = 1 THEN NoHash ELSE q[i - 1].hash

(* q can be a chain of blocks with hashes up to c, of transactions of R.   *)
Chains(q, c, R) ==
  /\ q \in Seq(Block)
  /\ \A i \in 1..Len(q) : /\ q[i].n = i - 1 /\ q[i].hash \in 1..c
                          /\ ToSet(q[i].txs) \subseteq R
                          /\ q[i].prev = HashBefore(q, i)
  /\ \A i, j \in 1..Len(q) : q[i].hash = q[j].hash => i = j

(* Event e takes the chain from a to b.                                    *)
Follows(a, e, b) ==
  /\ e.type = "BlockProposed" => b = Append(a, e.block)
  /\ e.type = "Rollback" => e.n \in 0..Len(a) - 1 /\ b = SubSeq(a, 1, e.n)
  /\ e.type \notin {"BlockProposed", "Rollback"} => b = a

(* The events take the chain from a to b, through h.                       *)
Through(events, a, b, c, R, h) ==
  /\ h[0] = a /\ h[Len(events)] = b
  /\ \A i \in 0..Len(events) : Chains(h[i], c, R)
  /\ \A i \in 1..Len(events) : Follows(h[i - 1], events[i], h[i])

Leads(events, a, b, c, R) ==
  \E h \in [0..Len(events) -> Seq(Block)] : Through(events, a, b, c, R, h)

(***************************************************************************)
(* Sequences.                                                              *)
(***************************************************************************)
LEMMA AppendedOne ==
  ASSUME NEW S, NEW s \in Seq(S), NEW e \in S
  PROVE  /\ Append(s, e) \in Seq(S) /\ Len(Append(s, e)) = Len(s) + 1
         /\ Len(s) \in Nat
         /\ \A i \in 1..Len(s) : Append(s, e)[i] = s[i]
         /\ Append(s, e)[Len(s) + 1] = e
OBVIOUS

LEMMA TookFirst ==
  ASSUME NEW S, NEW s \in Seq(S), s # <<>>
  PROVE  /\ Tail(s) \in Seq(S) /\ Len(Tail(s)) = Len(s) - 1 /\ Len(s) \in Nat \ {0}
         /\ \A i \in 1..Len(s) - 1 : Tail(s)[i] = s[i + 1]
         /\ Head(s) = s[1] /\ s[1] \in S
OBVIOUS

LEMMA FirstPart ==
  ASSUME NEW S, NEW s \in Seq(S), NEW n \in 0..Len(s)
  PROVE  /\ SubSeq(s, 1, n) \in Seq(S) /\ Len(SubSeq(s, 1, n)) = n
         /\ \A i \in 1..n : SubSeq(s, 1, n)[i] = s[i]
         /\ SubSeq(s, 1, n) = [i \in 1..n |-> s[i]]
OBVIOUS

LEMMA SameSequence ==
  ASSUME NEW S, NEW s \in Seq(S), NEW r \in Seq(S), Len(s) = Len(r),
         \A i \in 1..Len(s) : s[i] = r[i]
  PROVE  s = r
OBVIOUS

LEMMA Members ==
  ASSUME NEW S, NEW s \in Seq(S)
  PROVE  /\ ToSet(s) \subseteq S /\ DOMAIN s = 1..Len(s) /\ Len(s) \in Nat
         /\ ToSet(s) = {s[i] : i \in 1..Len(s)}
BY DEF ToSet

LEMMA FiniteMembers ==
  ASSUME NEW S, NEW s \in Seq(S)
  PROVE  IsFiniteSet(ToSet(s))
<1>1. s \in Surjection(1..Len(s), ToSet(s))
  BY Members DEF Surjection
<1>2. IsFiniteSet(1..Len(s))
  BY FS_Interval
<1>3. QED  BY <1>1, <1>2, FS_Surjection

(***************************************************************************)
(* Chains of blocks.                                                       *)
(***************************************************************************)
LEMMA NoBlocks ==
  ASSUME NEW c, NEW R
  PROVE  Chains(<<>>, c, R)
<1>1. <<>> \in Seq(Block) /\ Len(<<>>) = 0
  OBVIOUS
<1>2. QED  BY <1>1 DEF Chains

LEMMA MoreKnown ==
  ASSUME NEW q, NEW c \in Nat, NEW R, Chains(q, c, R), NEW c2 \in Nat, c <= c2,
         NEW R2, R \subseteq R2
  PROVE  Chains(q, c2, R2)
<1>1. \A x \in 1..c : x \in 1..c2
  OBVIOUS
<1>2. QED  BY <1>1 DEF Chains

LEMMA OneMore ==
  ASSUME NEW q, NEW c \in Nat, NEW R, Chains(q, c, R), NEW b \in Block,
         b.n = Len(q), b.hash \in 1..c, ToSet(b.txs) \subseteq R,
         b.prev = HashBefore(q, Len(q) + 1),
         \A i \in 1..Len(q) : q[i].hash # b.hash
  PROVE  Chains(Append(q, b), c, R)
<1> DEFINE r == Append(q, b)
<1>1. q \in Seq(Block)
  BY DEF Chains
<1>2. /\ r \in Seq(Block) /\ Len(r) = Len(q) + 1 /\ Len(q) \in Nat
      /\ \A i \in 1..Len(q) : r[i] = q[i]
      /\ r[Len(q) + 1] = b
  BY <1>1, AppendedOne
<1> HIDE DEF r
<1>3. \A i \in 1..Len(r) : i \in 1..Len(q) \/ i = Len(q) + 1
  BY <1>2
<1>4. \A i \in 1..Len(r) : /\ r[i].n = i - 1 /\ r[i].hash \in 1..c
                           /\ ToSet(r[i].txs) \subseteq R
                           /\ r[i].prev = HashBefore(r, i)
  <2> TAKE i \in 1..Len(r)
  <2>0. HashBefore(r, i) = HashBefore(q, i)
    <3>1. i # 1 => i - 1 \in 1..Len(q)
      BY <1>2
    <3>2. QED  BY <1>2, <3>1 DEF HashBefore
  <2>1. CASE i \in 1..Len(q)
    BY <1>2, <2>0, <2>1 DEF Chains
  <2>2. CASE i = Len(q) + 1
    BY <1>2, <2>0, <2>2
  <2>3. QED  BY <1>3, <2>1, <2>2
<1>5. ASSUME NEW i \in 1..Len(r), NEW j \in 1..Len(r), r[i].hash = r[j].hash
      PROVE  i = j
  <2>1. CASE i \in 1..Len(q) /\ j \in 1..Len(q)
    BY <1>2, <1>5, <2>1 DEF Chains
  <2>2. CASE i \in 1..Len(q) /\ j = Len(q) + 1
    BY <1>2, <1>5, <2>2
  <2>3. CASE i = Len(q) + 1 /\ j \in 1..Len(q)
    BY <1>2, <1>5, <2>3
  <2>4. QED  BY <1>3, <2>1, <2>2, <2>3
<1>6. QED  BY <1>2, <1>4, <1>5 DEF Chains, r

LEMMA CutShort ==
  ASSUME NEW q, NEW c, NEW R, Chains(q, c, R), NEW n \in 0..Len(q)
  PROVE  Chains(SubSeq(q, 1, n), c, R)
<1> DEFINE r == SubSeq(q, 1, n)
<1>1. q \in Seq(Block)
  BY DEF Chains
<1>2. r \in Seq(Block) /\ Len(r) = n /\ \A i \in 1..n : r[i] = q[i]
  BY <1>1, FirstPart
<1>3. Len(q) \in Nat /\ \A i \in 1..n : i \in 1..Len(q) /\ (i # 1 => i - 1 \in 1..n)
  BY <1>1
<1> HIDE DEF r
<1>4. \A i \in 1..n : HashBefore(r, i) = HashBefore(q, i)
  BY <1>2, <1>3 DEF HashBefore
<1>5. QED  BY <1>2, <1>3, <1>4 DEF Chains, r

(***************************************************************************)
(* Where the events lead.                                                  *)
(***************************************************************************)
LEMMA NothingWaits ==
  ASSUME NEW a, NEW c, NEW R, Chains(a, c, R)
  PROVE  Leads(<<>>, a, a, c, R)
<1> DEFINE h == [i \in 0..0 |-> a]
<1>1. a \in Seq(Block)
  BY DEF Chains
<1>2. Len(<<>>) = 0 /\ h \in [0..0 -> Seq(Block)] /\ h[0] = a
  BY <1>1
<1>3. Through(<<>>, a, a, c, R, h)
  BY <1>2 DEF Through
<1>4. QED  BY <1>2, <1>3 DEF Leads

LEMMA LeadsNowhere ==
  ASSUME NEW a, NEW b, NEW c, NEW R, Leads(<<>>, a, b, c, R)
  PROVE  a = b
BY DEF Leads, Through

LEMMA BothEnds ==
  ASSUME NEW es \in Seq(Event), NEW a, NEW b, NEW c, NEW R, Leads(es, a, b, c, R)
  PROVE  Chains(a, c, R) /\ Chains(b, c, R)
<1>1. 0 \in 0..Len(es) /\ Len(es) \in 0..Len(es)
  OBVIOUS
<1>2. QED  BY <1>1 DEF Leads, Through

LEMMA StillLeads ==
  ASSUME NEW es, NEW a, NEW b, NEW c \in Nat, NEW R, Leads(es, a, b, c, R),
         NEW c2 \in Nat, c <= c2, NEW R2, R \subseteq R2
  PROVE  Leads(es, a, b, c2, R2)
<1>1. PICK h \in [0..Len(es) -> Seq(Block)] : Through(es, a, b, c, R, h)
  BY DEF Leads
<1>2. \A i \in 0..Len(es) : Chains(h[i], c2, R2)
  BY <1>1, MoreKnown DEF Through
<1>3. QED  BY <1>1, <1>2 DEF Leads, Through

LEMMA LeadsOn ==
  ASSUME NEW es \in Seq(Event), NEW a, NEW b, NEW c, NEW R, Leads(es, a, b, c, R),
         NEW e \in Event, NEW b2, Follows(b, e, b2), Chains(b2, c, R)
  PROVE  Leads(Append(es, e), a, b2, c, R)
<1> DEFINE m == Len(es)
           fs == Append(es, e)
<1>1. PICK h \in [0..m -> Seq(Block)] : Through(es, a, b, c, R, h)
  BY DEF Leads
<1> DEFINE g == [i \in 0..m + 1 |-> IF i = m + 1 THEN b2 ELSE h[i]]
<1>2. b2 \in Seq(Block)
  BY DEF Chains
<1>3. /\ m \in Nat /\ Len(fs) = m + 1 /\ fs[m + 1] = e
      /\ \A i \in 1..m : fs[i] = es[i]
  BY AppendedOne
<1>4. g \in [0..m + 1 -> Seq(Block)] /\ g[m + 1] = b2 /\ \A i \in 0..m : g[i] = h[i]
  BY <1>2, <1>3
<1>5. /\ h[0] = a /\ h[m] = b
      /\ \A i \in 0..m : Chains(h[i], c, R)
      /\ \A i \in 1..m : Follows(h[i - 1], es[i], h[i])
  BY <1>1 DEF Through
<1> HIDE DEF g, m, fs
<1>6. ASSUME NEW i \in 1..m + 1 PROVE Follows(g[i - 1], fs[i], g[i])
  <2>1. CASE i = m + 1
    <3>1. i - 1 = m /\ m \in 0..m
      BY <1>3, <2>1
    <3>2. QED  BY <1>3, <1>4, <1>5, <2>1, <3>1
  <2>2. CASE i # m + 1
    <3>1. i \in 1..m /\ i - 1 \in 0..m /\ i \in 0..m
      BY <1>3, <2>2
    <3>2. QED  BY <1>3, <1>4, <1>5, <3>1
  <2>3. QED  BY <2>1, <2>2
<1>7. ASSUME NEW i \in 0..m + 1 PROVE Chains(g[i], c, R)
  <2>1. i = m + 1 \/ i \in 0..m
    BY <1>3
  <2>2. QED  BY <1>4, <1>5, <2>1
<1>8. 0 \in 0..m
  BY <1>3
<1>9. Through(fs, a, b2, c, R, g)
  BY <1>3, <1>4, <1>5, <1>6, <1>7, <1>8 DEF Through
<1>10. QED  BY <1>3, <1>4, <1>9 DEF Leads, fs

LEMMA LeadsFrom ==
  ASSUME NEW es \in Seq(Event), es # <<>>, NEW a, NEW b, NEW c, NEW R,
         Leads(es, a, b, c, R)
  PROVE  \E a2 \in Seq(Block) : /\ Follows(a, Head(es), a2) /\ Chains(a2, c, R)
                                /\ Leads(Tail(es), a2, b, c, R)
<1> DEFINE m == Len(es)
           fs == Tail(es)
<1>1. PICK h \in [0..m -> Seq(Block)] : Through(es, a, b, c, R, h)
  BY DEF Leads
<1> DEFINE g == [i \in 0..m - 1 |-> h[i + 1]]
<1>2. /\ m \in Nat \ {0} /\ Len(fs) = m - 1 /\ Head(es) = es[1]
      /\ \A i \in 1..m - 1 : fs[i] = es[i + 1]
  BY TookFirst
<1>3. g \in [0..m - 1 -> Seq(Block)] /\ \A i \in 0..m - 1 : g[i] = h[i + 1]
  BY <1>2
<1>4. /\ h[0] = a /\ h[m] = b
      /\ \A i \in 0..m : Chains(h[i], c, R)
      /\ \A i \in 1..m : Follows(h[i - 1], es[i], h[i])
  BY <1>1 DEF Through
<1> HIDE DEF g, m, fs
<1>5. ASSUME NEW i \in 1..m - 1 PROVE Follows(g[i - 1], fs[i], g[i])
  <2>1. /\ i + 1 \in 1..m /\ i \in 0..m - 1 /\ i - 1 \in 0..m - 1
        /\ (i - 1) + 1 = i /\ (i + 1) - 1 = i
    BY <1>2
  <2>2. g[i] = h[i + 1] /\ g[i - 1] = h[i] /\ fs[i] = es[i + 1]
    BY <1>2, <1>3, <2>1
  <2>3. Follows(h[(i + 1) - 1], es[i + 1], h[i + 1])
    BY <1>4, <2>1
  <2>4. QED  BY <2>1, <2>2, <2>3
<1>6. ASSUME NEW i \in 0..m - 1 PROVE Chains(g[i], c, R)
  <2>1. i + 1 \in 0..m
    BY <1>2
  <2>2. QED  BY <1>3, <1>4, <2>1
<1>7. g[m - 1] = b /\ g[0] = h[1]
  <2>1. m - 1 \in 0..m - 1 /\ (m - 1) + 1 = m /\ 0 \in 0..m - 1 /\ 0 + 1 = 1
    BY <1>2
  <2>2. QED  BY <1>3, <1>4, <2>1
<1>8. Through(fs, h[1], b, c, R, g)
  BY <1>2, <1>5, <1>6, <1>7 DEF Through
<1>9. Leads(fs, h[1], b, c, R)
  BY <1>2, <1>3, <1>8 DEF Leads
<1>10. Follows(h[0], es[1], h[1]) /\ 1 \in 0..m
  <2>1. 1 \in 1..m /\ 1 - 1 = 0 /\ 1 \in 0..m
    BY <1>2
  <2>2. Follows(h[1 - 1], es[1], h[1])
    BY <1>4, <2>1
  <2>3. QED  BY <2>1, <2>2
<1>11. QED  BY <1>2, <1>4, <1>9, <1>10 DEF fs

(***************************************************************************)
(* The collections.                                                        *)
(***************************************************************************)
IsDB(d) ==
  /\ d \in [blocks : Seq(Block), trees : {d.trees}, txs : {d.txs}, commits : {d.commits}]
  /\ \A t \in DOMAIN d.txs : /\ d.txs[t] \in [mempool : BOOLEAN, n : Int]
                             /\ d.txs[t].mempool => d.txs[t].n = -1

(* t is stored as a transaction of a block.                                *)
Stored(d, t) == t \in DOMAIN d.txs /\ d.txs[t].n # -1

(* From d to e nothing changes but what is in no block: transactions of ts *)
(* are added, others are deleted, or go in and out of the mempool.         *)
SameStored(d, e, ts) ==
  /\ IsDB(e) /\ e.blocks = d.blocks /\ e.trees = d.trees
  /\ DOMAIN e.txs \subseteq DOMAIN d.txs \cup ts
  /\ \A t \in DOMAIN e.txs : e.txs[t].n # -1 => Stored(d, t) /\ d.txs[t].n = e.txs[t].n
  /\ \A t : Stored(d, t) => Stored(e, t)

LEMMA SameTwice ==
  ASSUME NEW d, NEW e, NEW f, NEW ts, NEW ts2, SameStored(d, e, ts), SameStored(e, f, ts2)
  PROVE  SameStored(d, f, ts \cup ts2)
BY DEF SameStored, Stored

LEMMA SameNothing ==
  ASSUME NEW d, IsDB(d)
  PROVE  SameStored(d, d, {})
BY DEF SameStored, Stored

LEMMA TxsOnly ==
  ASSUME NEW d, IsDB(d), NEW f,
         \A t \in DOMAIN f : /\ f[t] \in [mempool : BOOLEAN, n : Int]
                             /\ f[t].mempool => f[t].n = -1
  PROVE  LET e == [d EXCEPT !.txs = f] IN
         IsDB(e) /\ e.blocks = d.blocks /\ e.trees = d.trees /\ e.txs = f /\ e.commits = d.commits
<1> DEFINE e == [d EXCEPT !.txs = f]
<1>1. e.txs = f /\ e.blocks = d.blocks /\ e.trees = d.trees /\ e.commits = d.commits
  BY DEF IsDB
<1>2. e \in [blocks : Seq(Block), trees : {d.trees}, txs : {f}, commits : {d.commits}]
  BY DEF IsDB
<1> HIDE DEF e
<1>3. IsDB(e)
  BY <1>1, <1>2 DEF IsDB
<1>4. QED  BY <1>1, <1>3 DEF e

LEMMA SameTxs ==
  ASSUME NEW d, IsDB(d), NEW f, NEW ts,
         \A t \in DOMAIN f : /\ f[t] \in [mempool : BOOLEAN, n : Int]
                             /\ f[t].mempool => f[t].n = -1,
         DOMAIN f \subseteq DOMAIN d.txs \cup ts,
         \A t \in DOMAIN f : f[t].n # -1 => Stored(d, t) /\ d.txs[t].n = f[t].n,
         \A t : Stored(d, t) => t \in DOMAIN f /\ f[t].n # -1
  PROVE  SameStored(d, [d EXCEPT !.txs = f], ts)
<1> DEFINE e == [d EXCEPT !.txs = f]
<1>1. IsDB(e) /\ e.blocks = d.blocks /\ e.trees = d.trees /\ e.txs = f
  BY TxsOnly
<1> HIDE DEF e
<1>2. \A t : Stored(d, t) => Stored(e, t)
  BY <1>1 DEF Stored
<1>3. SameStored(d, e, ts)
  BY <1>1, <1>2 DEF SameStored
<1>4. QED  BY <1>3 DEF e

LEMMA CommitsOnly ==
  ASSUME NEW d, IsDB(d), NEW f
  PROVE  SameStored(d, [d EXCEPT !.commits = f], {})
<1> DEFINE e == [d EXCEPT !.commits = f]
<1>1. e.txs = d.txs /\ e.blocks = d.blocks /\ e.trees = d.trees
  BY DEF IsDB
<1>2. e \in [blocks : Seq(Block), trees : {d.trees}, txs : {d.txs}, commits : {f}]
  BY DEF IsDB
<1>3. e.commits = f
  BY DEF IsDB
<1> HIDE DEF e
<1>4. IsDB(e)
  BY <1>1, <1>2, <1>3 DEF IsDB
<1>5. SameStored(d, e, {})
  BY <1>1, <1>4 DEF SameStored, Stored
<1>6. QED  BY <1>5 DEF e

LEMMA CommitKept ==
  ASSUME NEW d, IsDB(d), NEW c
  PROVE  SameStored(d, SaveCommit(d, c), {}) /\ SameStored(d, MarkRetrieved(d, c), {})
BY CommitsOnly DEF SaveCommit, MarkRetrieved

(* Updates of transactions that are in no block, and stay so.              *)
LEMMA Updated ==
  ASSUME NEW d, IsDB(d), NEW which, NEW stored \in [mempool : BOOLEAN, n : {-1}],
         \A t \in which : t \in DOMAIN d.txs /\ d.txs[t].n = -1
  PROVE  SameStored(d, UpdateTransactions(d, which, stored), {})
<1> DEFINE f == [t \in DOMAIN d.txs |-> IF t \in which THEN stored ELSE d.txs[t]]
<1>1. stored \in [mempool : BOOLEAN, n : Int] /\ stored.n = -1
  OBVIOUS
<1>2. /\ DOMAIN f = DOMAIN d.txs
      /\ \A t \in DOMAIN d.txs : /\ t \in which => f[t] = stored
                                 /\ t \notin which => f[t] = d.txs[t]
  OBVIOUS
<1>3. UpdateTransactions(d, which, stored) = [d EXCEPT !.txs = f]
  BY DEF UpdateTransactions
<1> HIDE DEF f
<1>4. \A t \in DOMAIN f : /\ f[t] \in [mempool : BOOLEAN, n : Int]
                          /\ f[t].mempool => f[t].n = -1
  BY <1>1, <1>2 DEF IsDB
<1>5. \A t \in DOMAIN f : f[t].n # -1 => Stored(d, t) /\ d.txs[t].n = f[t].n
  BY <1>1, <1>2 DEF Stored
<1>6. \A t : Stored(d, t) => t \in DOMAIN f /\ f[t].n # -1
  BY <1>1, <1>2 DEF Stored
<1>7. QED  BY <1>2, <1>3, <1>4, <1>5, <1>6, SameTxs

LEMMA TakenOut ==
  ASSUME NEW d, IsDB(d), NEW ts
  PROVE  SameStored(d, RemoveTransactionsFromMemPool(d, ts), {})
BY Updated DEF RemoveTransactionsFromMemPool

LEMMA PutBack ==
  ASSUME NEW d, IsDB(d)
  PROVE  SameStored(d, ResetUnsuccessful(d), {})
BY Updated DEF ResetUnsuccessful

LEMMA SavedOne ==
  ASSUME NEW d, IsDB(d), NEW t
  PROVE  SameStored(d, SaveTransaction(d, t), {t})
<1>1. CASE t \in DOMAIN d.txs
  <2>1. SaveTransaction(d, t) = d
    BY <1>1 DEF SaveTransaction
  <2>2. QED  BY <2>1 DEF SameStored, Stored
<1>2. CASE t \notin DOMAIN d.txs
  <2> DEFINE new == [mempool |-> TRUE, n |-> -1]
             f == With(d.txs, t, new)
  <2>1. SaveTransaction(d, t) = [d EXCEPT !.txs = f]
    BY <1>2 DEF SaveTransaction
  <2>2. new \in [mempool : BOOLEAN, n : Int] /\ new.n = -1
    OBVIOUS
  <2> HIDE DEF new
  <2>3. /\ DOMAIN f = DOMAIN d.txs \cup {t} /\ f[t] = new
        /\ \A u \in DOMAIN d.txs : u # t /\ f[u] = d.txs[u]
    BY <1>2 DEF With
  <2> HIDE DEF f
  <2>4. \A u \in DOMAIN f : /\ f[u] \in [mempool : BOOLEAN, n : Int]
                            /\ f[u].mempool => f[u].n = -1
    BY <2>2, <2>3 DEF IsDB
  <2>5. \A u \in DOMAIN f : f[u].n # -1 => Stored(d, u) /\ d.txs[u].n = f[u].n
    BY <2>2, <2>3 DEF Stored
  <2>6. \A u : Stored(d, u) => u \in DOMAIN f /\ f[u].n # -1
    BY <2>3 DEF Stored
  <2>7. QED  BY <2>1, <2>3, <2>4, <2>5, <2>6, SameTxs
<1>3. QED  BY <1>1, <1>2

LEMMA Deleted ==
  ASSUME NEW d, IsDB(d), NEW ts
  PROVE  LET e == DeleteTransactions(d, ts) IN
         /\ IsDB(e) /\ e.blocks = d.blocks /\ e.trees = d.trees /\ e.commits = d.commits
         /\ DOMAIN e.txs = DOMAIN d.txs \ ts /\ \A t \in DOMAIN e.txs : e.txs[t] = d.txs[t]
<1> DEFINE f == Without(d.txs, ts)
           e == [d EXCEPT !.txs = f]
<1>1. DeleteTransactions(d, ts) = e
  BY DEF DeleteTransactions
<1>2. DOMAIN f = DOMAIN d.txs \ ts /\ \A t \in DOMAIN f : f[t] = d.txs[t]
  BY DEF Without
<1> HIDE DEF f
<1>3. \A t \in DOMAIN f : /\ f[t] \in [mempool : BOOLEAN, n : Int]
                          /\ f[t].mempool => f[t].n = -1
  BY <1>2 DEF IsDB
<1>4. IsDB(e) /\ e.blocks = d.blocks /\ e.trees = d.trees /\ e.txs = f /\ e.commits = d.commits
  BY <1>3, TxsOnly
<1> HIDE DEF e
<1>5. QED  BY <1>1, <1>2, <1>4

LEMMA DuplicatesGone ==
  ASSUME NEW d, IsDB(d), NEW cs, NEW ns, NEW keep
  PROVE  SameStored(d, DeleteDuplicatesFromMemPool(d, cs, ns, keep), {})
<1> DEFINE ts == {t \in Mempool(d) \ keep : \/ Commitments[t] \cap cs # {}
                                            \/ Nullifiers[t] \cap ns # {}}
           e == DeleteTransactions(d, ts)
<1>1. DeleteDuplicatesFromMemPool(d, cs, ns, keep) = e
  BY DEF DeleteDuplicatesFromMemPool
<1>2. \A t \in ts : t \in DOMAIN d.txs /\ d.txs[t].n = -1
  BY DEF Mempool, IsDB
<1> HIDE DEF ts
<1>3. /\ IsDB(e) /\ e.blocks = d.blocks /\ e.trees = d.trees
      /\ DOMAIN e.txs = DOMAIN d.txs \ ts /\ \A t \in DOMAIN e.txs : e.txs[t] = d.txs[t]
  BY Deleted
<1> HIDE DEF e
<1>4. SameStored(d, e, {})
  BY <1>2, <1>3 DEF SameStored, Stored
<1>5. QED  BY <1>1, <1>4

(***************************************************************************)
(* What is out of the mempool stays out of it.                             *)
(***************************************************************************)
Quiet(d, e) == DOMAIN d.txs \ Mempool(d) \subseteq DOMAIN e.txs \ Mempool(e)

LEMMA QuietTwice ==
  ASSUME NEW d, NEW e, NEW f, Quiet(d, e), Quiet(e, f)
  PROVE  Quiet(d, f)
BY DEF Quiet

LEMMA QuietTxs ==
  ASSUME NEW d, NEW e, e.txs = d.txs
  PROVE  Quiet(d, e)
BY DEF Quiet, Mempool

LEMMA QuietSave ==
  ASSUME NEW d, IsDB(d), NEW t
  PROVE  LET e == SaveTransaction(d, t) IN
         Quiet(d, e) /\ DOMAIN e.txs = DOMAIN d.txs \cup {t}
<1>1. CASE t \in DOMAIN d.txs
  BY <1>1 DEF SaveTransaction, Quiet
<1>2. CASE t \notin DOMAIN d.txs
  <2> DEFINE new == [mempool |-> TRUE, n |-> -1]
             f == With(d.txs, t, new)
             e == SaveTransaction(d, t)
  <2>1. e = [d EXCEPT !.txs = f]
    BY <1>2 DEF SaveTransaction
  <2> HIDE DEF new
  <2>2. /\ DOMAIN f = DOMAIN d.txs \cup {t}
        /\ \A u \in DOMAIN d.txs : u # t /\ f[u] = d.txs[u]
    BY <1>2 DEF With
  <2> HIDE DEF f, e
  <2>3. e.txs = f
    BY <2>1 DEF IsDB
  <2>4. QED  BY <2>2, <2>3 DEF Quiet, Mempool, e
<1>3. QED  BY <1>1, <1>2

LEMMA QuietDuplicates ==
  ASSUME NEW d, IsDB(d), NEW cs, NEW ns, NEW keep
  PROVE  LET e == DeleteDuplicatesFromMemPool(d, cs, ns, keep) IN
         /\ Quiet(d, e)
         /\ \A t \in DOMAIN d.txs : Commitments[t] \cap cs = {} /\ Nullifiers[t] \cap ns = {}
                                      => t \in DOMAIN e.txs
<1> DEFINE ts == {t \in Mempool(d) \ keep : \/ Commitments[t] \cap cs # {}
                                            \/ Nullifiers[t] \cap ns # {}}
           e == DeleteTransactions(d, ts)
<1>1. DeleteDuplicatesFromMemPool(d, cs, ns, keep) = e
  BY DEF DeleteDuplicatesFromMemPool
<1>2. DOMAIN e.txs = DOMAIN d.txs \ ts /\ \A t \in DOMAIN e.txs : e.txs[t] = d.txs[t]
  BY Deleted
<1> HIDE DEF e
<1>3. ts \subseteq Mempool(d)
  OBVIOUS
<1>4. Quiet(d, e)
  BY <1>2, <1>3 DEF Quiet, Mempool
<1>5. QED  BY <1>1, <1>2, <1>4

LEMMA QuietRemove ==
  ASSUME NEW d, IsDB(d), NEW ts
  PROVE  LET e == RemoveTransactionsFromMemPool(d, ts) IN
         /\ Quiet(d, e) /\ DOMAIN e.txs = DOMAIN d.txs
         /\ \A t \in ts \cap DOMAIN d.txs : t \notin Mempool(e)
<1> DEFINE new == [mempool |-> FALSE, n |-> -1]
           which == {t \in ts \cap DOMAIN d.txs : d.txs[t].n = -1}
           f == [t \in DOMAIN d.txs |-> IF t \in which THEN new ELSE d.txs[t]]
           e == RemoveTransactionsFromMemPool(d, ts)
<1>1. e = [d EXCEPT !.txs = f]
  BY DEF RemoveTransactionsFromMemPool, UpdateTransactions
<1>2. ~ new.mempool
  OBVIOUS
<1>3. \A t \in ts \cap DOMAIN d.txs : t \in which \/ d.txs[t].n # -1
  OBVIOUS
<1> HIDE DEF new, which
<1>4. DOMAIN f = DOMAIN d.txs /\ \A t \in DOMAIN f : f[t] = IF t \in which THEN new ELSE d.txs[t]
  OBVIOUS
<1> HIDE DEF f, e
<1>5. e.txs = f
  BY <1>1 DEF IsDB
<1>6. \A t \in DOMAIN d.txs : d.txs[t].n # -1 => ~ d.txs[t].mempool
  BY DEF IsDB
<1>7. QED  BY <1>2, <1>3, <1>4, <1>5, <1>6 DEF Quiet, Mempool, e

LEMMA QuietLands ==
  ASSUME NEW d, IsDB(d), NEW t, NEW n
  PROVE  Quiet(d, SaveBlockTransaction(d, t, n))
<1> DEFINE new == [mempool |-> FALSE, n |-> n]
           f == With(d.txs, t, new)
           e == SaveBlockTransaction(d, t, n)
<1>1. e = d \/ e = [d EXCEPT !.txs = f]
  BY DEF SaveBlockTransaction
<1>2. ~ new.mempool
  OBVIOUS
<1> HIDE DEF new
<1>3. DOMAIN f = DOMAIN d.txs \cup {t} /\ \A u \in DOMAIN f : f[u] = IF u = t THEN new ELSE d.txs[u]
  BY DEF With
<1> HIDE DEF f, e
<1>4. e.txs = d.txs \/ e.txs = f
  BY <1>1 DEF IsDB
<1>5. QED  BY <1>2, <1>3, <1>4 DEF Quiet, Mempool, e

LEMMA QuietCommits ==
  ASSUME NEW d, IsDB(d), NEW c
  PROVE  Quiet(d, SaveCommit(d, c)) /\ Quiet(d, MarkRetrieved(d, c))
<1>1. SaveCommit(d, c).txs = d.txs /\ MarkRetrieved(d, c).txs = d.txs
  BY DEF IsDB, SaveCommit, MarkRetrieved
<1>2. QED  BY <1>1, QuietTxs

(***************************************************************************)
(* The number under which a transaction is stored.                         *)
(***************************************************************************)
(* The block with number n is the first one of q that holds t.             *)
IsFirst(q, t, n) ==
  /\ n \in 0..Len(q) - 1 /\ t \in ToSet(q[n + 1].txs)
  /\ \A i \in 1..n : t \notin ToSet(q[i].txs)

(* Saves are under way for transactions of the last block only. Every      *)
(* transaction of a block is stored under the first one that holds it, or  *)
(* that is the last one and the save is under way.                         *)
StoredRight(d, under) ==
  /\ \A t \in DOMAIN d.txs : d.txs[t].n # -1 => IsFirst(d.blocks, t, d.txs[t].n)
  /\ \A i \in 1..Len(d.blocks) : \A t \in ToSet(d.blocks[i].txs) :
       \/ Stored(d, t)
       \/ /\ <<t, Len(d.blocks) - 1>> \in under
          /\ IsFirst(d.blocks, t, Len(d.blocks) - 1)
  /\ \A p \in under : /\ d.blocks # <<>> /\ p = <<p[1], Len(d.blocks) - 1>>
                      /\ p[1] \in ToSet(d.blocks[Len(d.blocks)].txs)

LEMMA StaysRight ==
  ASSUME NEW d, NEW e, NEW ts, SameStored(d, e, ts), NEW under, StoredRight(d, under)
  PROVE  StoredRight(e, under)
BY DEF StoredRight, SameStored, Stored

LEMMA LandedRight ==
  ASSUME NEW d, IsDB(d), NEW under, StoredRight(d, under), NEW p \in under
  PROVE  LET e == SaveBlockTransaction(d, p[1], p[2]) IN
         /\ IsDB(e) /\ e.blocks = d.blocks /\ e.trees = d.trees
         /\ DOMAIN e.txs \subseteq DOMAIN d.txs \cup {p[1]}
         /\ StoredRight(e, under \ {p})
<1> DEFINE e == SaveBlockTransaction(d, p[1], p[2])
           m == Len(d.blocks) - 1
<1>0. PICK t, n : t = p[1] /\ n = p[2]
  OBVIOUS
<1>1. d.blocks # <<>> /\ p = <<t, m>> /\ n = m /\ t \in ToSet(d.blocks[Len(d.blocks)].txs)
  BY <1>0 DEF StoredRight
<1>2. d.blocks \in Seq(Block) /\ Len(d.blocks) \in 1..Len(d.blocks) /\ m \in Nat
  <2>1. d.blocks \in Seq(Block)
    BY DEF IsDB
  <2>2. QED  BY <1>1, <2>1
<1> HIDE DEF m
<1>3. \A q \in under : q = <<q[1], m>>
  BY DEF StoredRight, m
<1>4. CASE t \in DOMAIN d.txs /\ d.txs[t].n # -1
  <2>1. e = d
    BY <1>0, <1>4 DEF SaveBlockTransaction
  <2>2. \A i \in 1..Len(d.blocks) : \A u \in ToSet(d.blocks[i].txs) :
          Stored(d, u) \/ (/\ <<u, m>> \in under \ {p}
                           /\ IsFirst(d.blocks, u, m))
    BY <1>1, <1>4 DEF StoredRight, Stored, m
  <2>3. StoredRight(d, under \ {p})
    BY <2>2 DEF StoredRight, m
  <2> HIDE DEF e
  <2>4. QED  BY <2>1, <2>3 DEF e
<1>5. CASE ~(t \in DOMAIN d.txs /\ d.txs[t].n # -1)
  <2> DEFINE new == [mempool |-> FALSE, n |-> m]
             f == With(d.txs, t, new)
             g == [d EXCEPT !.txs = f]
  <2>1. e = g
    BY <1>0, <1>1, <1>5 DEF SaveBlockTransaction
  <2>2. new \in [mempool : BOOLEAN, n : Int] /\ new.n = m /\ ~ new.mempool
    BY <1>2
  <2> HIDE DEF new
  <2>3. /\ DOMAIN f = DOMAIN d.txs \cup {t} /\ f[t] = new
        /\ \A u \in DOMAIN d.txs : u # t => f[u] = d.txs[u]
    BY DEF With
  <2> HIDE DEF f
  <2>4. \A u \in DOMAIN f : /\ f[u] \in [mempool : BOOLEAN, n : Int]
                            /\ f[u].mempool => f[u].n = -1
    BY <2>2, <2>3 DEF IsDB
  <2>5. IsDB(g) /\ g.blocks = d.blocks /\ g.trees = d.trees /\ g.txs = f
    BY <2>4, TxsOnly
  <2> HIDE DEF g
  <2>6. IsFirst(d.blocks, t, m)
    BY <1>1, <1>2, <1>5 DEF StoredRight, Stored, m
  <2>7. \A u \in DOMAIN f : f[u].n # -1 => IsFirst(d.blocks, u, f[u].n)
    BY <2>2, <2>3, <2>6 DEF StoredRight
  <2>8. \A u : Stored(d, u) => Stored(g, u)
    BY <1>5, <2>3, <2>5 DEF Stored
  <2>9. Stored(g, t)
    BY <1>2, <2>2, <2>3, <2>5 DEF Stored
  <2>10. \A i \in 1..Len(d.blocks) : \A u \in ToSet(d.blocks[i].txs) :
           Stored(g, u) \/ (/\ <<u, m>> \in under \ {p}
                            /\ IsFirst(d.blocks, u, m))
    BY <1>1, <2>8, <2>9 DEF StoredRight, m
  <2>11. \A q \in under \ {p} : /\ d.blocks # <<>> /\ q = <<q[1], m>>
                                /\ q[1] \in ToSet(d.blocks[Len(d.blocks)].txs)
    BY DEF StoredRight, m
  <2>12. StoredRight(g, under \ {p})
    BY <2>5, <2>7, <2>10, <2>11 DEF StoredRight, m
  <2> HIDE DEF e
  <2>13. QED  BY <1>0, <2>1, <2>3, <2>5, <2>12 DEF e
<1>6. QED  BY <1>4, <1>5

(***************************************************************************)
(* A block is stored.                                                      *)
(***************************************************************************)
FirstHashes(q, m) == [i \in 1..m |-> q[i].hash]

(* One tree is stored for each block, and it holds the blocks up to it.    *)
TreesRight(d) ==
  d.trees = [n \in 0..Len(d.blocks) - 1 |-> FirstHashes(d.blocks, n + 1)]

LEMMA BlocksOnly ==
  ASSUME NEW d, IsDB(d), NEW q \in Seq(Block)
  PROVE  LET e == [d EXCEPT !.blocks = q] IN
         IsDB(e) /\ e.blocks = q /\ e.trees = d.trees /\ e.txs = d.txs /\ e.commits = d.commits
<1> DEFINE e == [d EXCEPT !.blocks = q]
<1>1. e.txs = d.txs /\ e.blocks = q /\ e.trees = d.trees /\ e.commits = d.commits
  BY DEF IsDB
<1>2. e \in [blocks : Seq(Block), trees : {d.trees}, txs : {d.txs}, commits : {d.commits}]
  BY DEF IsDB
<1> HIDE DEF e
<1>3. IsDB(e)
  BY <1>1, <1>2 DEF IsDB
<1>4. QED  BY <1>1, <1>3 DEF e

LEMMA TreesOnly ==
  ASSUME NEW d, IsDB(d), NEW f
  PROVE  LET e == [d EXCEPT !.trees = f] IN
         IsDB(e) /\ e.blocks = d.blocks /\ e.trees = f /\ e.txs = d.txs /\ e.commits = d.commits
<1> DEFINE e == [d EXCEPT !.trees = f]
<1>1. e.txs = d.txs /\ e.blocks = d.blocks /\ e.trees = f /\ e.commits = d.commits
  BY DEF IsDB
<1>2. e \in [blocks : Seq(Block), trees : {f}, txs : {d.txs}, commits : {d.commits}]
  BY DEF IsDB
<1> HIDE DEF e
<1>3. IsDB(e)
  BY <1>1, <1>2 DEF IsDB
<1>4. QED  BY <1>1, <1>3 DEF e

LEMMA BlockSaved ==
  ASSUME NEW d, IsDB(d), NEW b \in Block, \A i \in 1..Len(d.blocks) : d.blocks[i].hash # b.hash
  PROVE  LET e == SaveBlock(d, b) IN
         /\ IsDB(e) /\ e.blocks = Append(d.blocks, b)
         /\ e.trees = d.trees /\ e.txs = d.txs /\ e.commits = d.commits
<1> DEFINE I == {i \in 1..Len(d.blocks) : d.blocks[i].hash = b.hash}
           i0 == SelectInSeq(d.blocks, LAMBDA x : x.hash = b.hash)
<1>1. I = {}
  OBVIOUS
<1>2. i0 = IF I # {} THEN Min(I) ELSE 0
  BY DEF SelectInSeq
<1>3. i0 = 0
  BY <1>1, <1>2
<1>4. d.blocks \in Seq(Block)
  BY DEF IsDB
<1>5. Append(d.blocks, b) \in Seq(Block)
  BY <1>4
<1>6. SaveBlock(d, b) = [d EXCEPT !.blocks = IF i0 = 0 THEN Append(@, b)
                                             ELSE [@ EXCEPT ![i0] = b]]
  BY DEF SaveBlock
<1> HIDE DEF i0
<1>7. SaveBlock(d, b) = [d EXCEPT !.blocks = Append(d.blocks, b)]
  BY <1>3, <1>6
<1> DEFINE q == Append(d.blocks, b)
           e == [d EXCEPT !.blocks = q]
<1>8. IsDB(e) /\ e.blocks = q /\ e.trees = d.trees /\ e.txs = d.txs /\ e.commits = d.commits
  BY <1>5, BlocksOnly
<1>9. SaveBlock(d, b) = e
  BY <1>7
<1> HIDE DEF e
<1>10. QED  BY <1>8, <1>9

LEMMA FirstStays ==
  ASSUME NEW q \in Seq(Block), NEW b \in Block, NEW t, NEW n, IsFirst(q, t, n)
  PROVE  IsFirst(Append(q, b), t, n)
<1>1. /\ Len(Append(q, b)) = Len(q) + 1 /\ Len(q) \in Nat
      /\ \A i \in 1..Len(q) : Append(q, b)[i] = q[i]
  BY AppendedOne
<1>2. n \in 0..Len(q) - 1 /\ n + 1 \in 1..Len(q) /\ n \in 0..Len(q)
  BY <1>1 DEF IsFirst
<1>3. n \in 0..(Len(q) + 1) - 1 /\ \A i \in 1..n : i \in 1..Len(q)
  BY <1>1, <1>2
<1>4. QED  BY <1>1, <1>2, <1>3 DEF IsFirst

LEMMA AppendedRight ==
  ASSUME NEW d, IsDB(d), StoredRight(d, {}), NEW b \in Block,
         NEW e, IsDB(e), e.blocks = Append(d.blocks, b),
         \A t \in DOMAIN e.txs : e.txs[t].n # -1 => Stored(d, t) /\ d.txs[t].n = e.txs[t].n,
         \A t : Stored(d, t) => Stored(e, t)
  PROVE  StoredRight(e, {<<t, Len(d.blocks)>> : t \in ToSet(b.txs)})
<1> DEFINE under == {<<t, Len(d.blocks)>> : t \in ToSet(b.txs)}
           m == Len(d.blocks)
<1>1. d.blocks \in Seq(Block)
  BY DEF IsDB
<1>2. /\ Len(e.blocks) = m + 1 /\ m \in Nat
      /\ \A i \in 1..m : e.blocks[i] = d.blocks[i]
      /\ e.blocks[m + 1] = b
  BY <1>1, AppendedOne
<1>3. \A t \in ToSet(b.txs) : <<t, m>> \in under
  OBVIOUS
<1>4. \A p \in under : p = <<p[1], m>> /\ p[1] \in ToSet(b.txs)
  OBVIOUS
<1> HIDE DEF under, m
<1>5. Len(e.blocks) - 1 = m /\ e.blocks # <<>>
  BY <1>2
<1>6. \A t \in DOMAIN e.txs : e.txs[t].n # -1 => IsFirst(e.blocks, t, e.txs[t].n)
  BY <1>1, FirstStays DEF StoredRight, Stored
<1>7. \A i \in 1..m : \A t \in ToSet(d.blocks[i].txs) : Stored(d, t)
  BY DEF StoredRight, m
<1>8. ASSUME NEW i \in 1..m + 1, NEW t \in ToSet(e.blocks[i].txs)
      PROVE  Stored(e, t) \/ (<<t, m>> \in under /\ IsFirst(e.blocks, t, m))
  <2>1. CASE i \in 1..m
    BY <1>2, <1>7, <1>8, <2>1
  <2>2. CASE i = m + 1
    <3>1. t \in ToSet(b.txs)
      BY <1>2, <1>8, <2>2
    <3>2. ASSUME ~ Stored(d, t) PROVE IsFirst(e.blocks, t, m)
      <4>1. \A j \in 1..m : t \notin ToSet(e.blocks[j].txs)
        BY <1>2, <1>7, <3>2
      <4>2. m \in 0..Len(e.blocks) - 1
        BY <1>2
      <4>3. QED  BY <1>2, <3>1, <4>1, <4>2 DEF IsFirst
    <3>3. QED  BY <1>3, <3>1, <3>2
  <2>3. QED  BY <1>2, <2>1, <2>2
<1>9. StoredRight(e, under)
  BY <1>2, <1>4, <1>5, <1>6, <1>8 DEF StoredRight
<1>10. QED  BY <1>9 DEF under, m

LEMMA BlockFields ==
  ASSUME NEW b \in Block
  PROVE  /\ b.hash \in Nat /\ b.n \in Int /\ b.prev \in Nat
         /\ b.txs \in Seq(Tx) /\ b.tree \in Seq(Nat)
BY DEF Block

LEMMA HashesAppended ==
  ASSUME NEW q \in Seq(Block), NEW b \in Block, NEW m \in Nat, m = Len(q)
  PROVE  /\ \A n \in 0..m : FirstHashes(Append(q, b), n) = FirstHashes(q, n)
         /\ FirstHashes(Append(q, b), m + 1) = Append(FirstHashes(q, m), b.hash)
         /\ FirstHashes(q, 0) = <<>> /\ FirstHashes(q, m) \in Seq(Nat)
<1> DEFINE r == Append(q, b)
           h == FirstHashes(q, m)
<1>1. r[m + 1] = b /\ \A i \in 1..m : r[i] = q[i]
  BY AppendedOne
<1> HIDE DEF r
<1>2. \A i \in 1..m : q[i].hash \in Nat
  <2>1. \A i \in 1..m : q[i] \in Block
    OBVIOUS
  <2>2. QED  BY <2>1, BlockFields
<1>3. b.hash \in Nat
  BY BlockFields
<1>4. h = [i \in 1..m |-> q[i].hash]
  BY DEF FirstHashes
<1> HIDE DEF h
<1>5. h \in Seq(Nat) /\ Len(h) = m /\ \A i \in 1..m : h[i] = q[i].hash
  BY <1>2, <1>4
<1>6. /\ Append(h, b.hash) \in Seq(Nat) /\ Len(Append(h, b.hash)) = m + 1
      /\ \A i \in 1..m : Append(h, b.hash)[i] = q[i].hash
      /\ Append(h, b.hash)[m + 1] = b.hash
  BY <1>3, <1>5
<1>7. FirstHashes(r, m + 1) = Append(h, b.hash)
  <2> DEFINE g == FirstHashes(r, m + 1)
  <2>1. g = [i \in 1..m + 1 |-> r[i].hash]
    BY DEF FirstHashes
  <2>2. \A i \in 1..m + 1 : i \in 1..m \/ i = m + 1
    OBVIOUS
  <2> HIDE DEF g
  <2>3. \A i \in 1..m + 1 : g[i] = r[i].hash
    BY <2>1
  <2>4. \A i \in 1..m + 1 : g[i] = Append(h, b.hash)[i] /\ g[i] \in Nat
    BY <1>1, <1>2, <1>3, <1>6, <2>2, <2>3
  <2>5. g \in Seq(Nat) /\ Len(g) = m + 1
    BY <2>1, <2>3, <2>4
  <2>6. QED  BY <1>6, <2>4, <2>5, SameSequence DEF g
<1>8. \A n \in 0..m : FirstHashes(r, n) = FirstHashes(q, n)
  <2> TAKE n \in 0..m
  <2>1. \A i \in 1..n : i \in 1..m
    OBVIOUS
  <2>2. \A i \in 1..n : r[i].hash = q[i].hash
    BY <1>1, <2>1
  <2>3. QED  BY <2>2 DEF FirstHashes
<1>9. FirstHashes(q, 0) = <<>>
  BY DEF FirstHashes
<1>10. QED  BY <1>5, <1>7, <1>8, <1>9 DEF r, h

(* The tree saved for the block is the one before it and the block.        *)
LEMMA TreeSavedRight ==
  ASSUME NEW d, IsDB(d), TreesRight(d), NEW b \in Block, b.n = Len(d.blocks),
         NEW e, IsDB(e), e.blocks = Append(d.blocks, b), e.trees = d.trees
  PROVE  LET f == SaveTree(e, b.n, Append(TreeByNumber(d, b.n - 1), b.hash)) IN
         /\ IsDB(f) /\ f.blocks = e.blocks /\ f.txs = e.txs /\ TreesRight(f)
<1> DEFINE tree == Append(TreeByNumber(d, b.n - 1), b.hash)
           g == With(e.trees, b.n, tree)
           f == [e EXCEPT !.trees = g]
<1>0. PICK m \in Nat : m = Len(d.blocks)
  BY DEF IsDB
<1>1. d.blocks \in Seq(Block)
  BY DEF IsDB
<1>2. Len(e.blocks) = m + 1
  BY <1>0, <1>1, AppendedOne
<1>3. /\ \A n \in 0..m : FirstHashes(e.blocks, n) = FirstHashes(d.blocks, n)
      /\ FirstHashes(e.blocks, m + 1) = Append(FirstHashes(d.blocks, m), b.hash)
      /\ FirstHashes(d.blocks, 0) = <<>>
  BY <1>0, <1>1, HashesAppended
<1>4. d.trees = [n \in 0..m - 1 |-> FirstHashes(d.blocks, n + 1)]
  BY <1>0 DEF TreesRight
<1>5. TreeByNumber(d, m - 1) = FirstHashes(d.blocks, m)
  <2>1. CASE m = 0
    <3>1. m - 1 \notin DOMAIN d.trees
      BY <1>4, <2>1
    <3>2. QED  BY <1>3, <2>1, <3>1 DEF TreeByNumber
  <2>2. CASE m # 0
    <3>1. m - 1 \in 0..m - 1 /\ (m - 1) + 1 = m
      BY <2>2
    <3>2. m - 1 \in DOMAIN d.trees /\ d.trees[m - 1] = FirstHashes(d.blocks, m)
      BY <1>4, <3>1
    <3>3. QED  BY <3>2 DEF TreeByNumber
  <2>3. QED  BY <2>1, <2>2
<1>6. tree = FirstHashes(e.blocks, m + 1)
  BY <1>0, <1>3, <1>5
<1>7. SaveTree(e, b.n, tree) = f
  BY DEF SaveTree
<1> HIDE DEF tree
<1>8. g = [n \in 0..(m + 1) - 1 |-> FirstHashes(e.blocks, n + 1)]
  <2>1. DOMAIN d.trees \cup {m} = 0..(m + 1) - 1
    BY <1>4
  <2>2. ASSUME NEW n \in 0..(m + 1) - 1
        PROVE  (IF n = m THEN tree ELSE d.trees[n]) = FirstHashes(e.blocks, n + 1)
    <3>1. CASE n = m
      BY <1>6, <3>1
    <3>2. CASE n # m
      <4>1. n \in 0..m - 1 /\ n + 1 \in 0..m
        BY <3>2
      <4>2. QED  BY <1>3, <1>4, <3>2, <4>1
    <3>3. QED  BY <3>1, <3>2
  <2>3. g = [n \in DOMAIN d.trees \cup {m} |-> IF n = m THEN tree ELSE d.trees[n]]
    BY <1>0 DEF With
  <2>4. QED  BY <2>1, <2>2, <2>3
<1> HIDE DEF g
<1>9. IsDB(f) /\ f.blocks = e.blocks /\ f.txs = e.txs /\ f.trees = g
  BY TreesOnly
<1> HIDE DEF f
<1>10. TreesRight(f)
  BY <1>2, <1>8, <1>9 DEF TreesRight
<1>11. QED  BY <1>7, <1>9, <1>10 DEF tree

(***************************************************************************)
(* The part of the state the handlers change.                              *)
(***************************************************************************)
Local == [n : Int, prev : Nat, tree : Seq(Nat)]
Challenge == [type : {"commit", "reveal"}, c : Nat]

IsMem(m) ==
  m \in [isMe : BOOLEAN, local : Local, last : {m.last}, attempts : {m.attempts},
         challenging : {m.challenging}]

IsNode(s) ==
  /\ s \in [db : {s.db}, mem : {s.mem}, stop : Seq(Nat), pool : SUBSET Challenge,
            saving : {s.saving}, unlanded : {s.unlanded}]
  /\ IsDB(s.db) /\ IsMem(s.mem)

LEMMA LocalReset == ResetLocal \in Local
<1>1. <<>> \in Seq(Nat)
  OBVIOUS
<1>2. QED  BY <1>1 DEF ResetLocal, Local, NoHash

LEMMA MemKept ==
  ASSUME NEW m, IsMem(m), NEW x
  PROVE  /\ IsMem([m EXCEPT !.last = x]) /\ IsMem([m EXCEPT !.attempts = x])
         /\ IsMem([m EXCEPT !.local = ResetLocal])
         /\ \A y \in Local : IsMem([m EXCEPT !.local = y])
         /\ \A y \in BOOLEAN : IsMem([m EXCEPT !.isMe = y])
BY LocalReset DEF IsMem

LEMMA LocalKept ==
  ASSUME NEW m, IsMem(m), NEW x
  PROVE  /\ [m EXCEPT !.last = x].local = m.local /\ [m EXCEPT !.attempts = x].local = m.local
         /\ [m EXCEPT !.isMe = x].local = m.local
         /\ [m EXCEPT !.local = x].local = x
BY DEF IsMem

(* The local block is kept with its transactions out of the mempool, or    *)
(* forgotten.                                                              *)
Consistent(s, r) ==
  \/ r.mem.local = ResetLocal
  \/ /\ r.mem.local = s.mem.local /\ Quiet(s.db, r.db)
     /\ Len(s.db.blocks) <= Len(r.db.blocks)

LEMMA NodeKept ==
  ASSUME NEW s, IsNode(s)
  PROVE  /\ \A d : IsDB(d) => LET r == [s EXCEPT !.db = d] IN
              IsNode(r) /\ r.db = d /\ r.mem = s.mem /\ r.stop = s.stop /\ r.pool = s.pool
                /\ r.saving = s.saving
         /\ \A m : IsMem(m) => LET r == [s EXCEPT !.mem = m] IN
              IsNode(r) /\ r.db = s.db /\ r.mem = m /\ r.stop = s.stop /\ r.pool = s.pool
                /\ r.saving = s.saving
         /\ \A q \in Seq(Nat) : LET r == [s EXCEPT !.stop = q] IN
              IsNode(r) /\ r.db = s.db /\ r.mem = s.mem /\ r.stop = q /\ r.pool = s.pool
                /\ r.saving = s.saving
         /\ \A p \in SUBSET Challenge : LET r == [s EXCEPT !.pool = p] IN
              IsNode(r) /\ r.db = s.db /\ r.mem = s.mem /\ r.stop = s.stop /\ r.pool = p
                /\ r.saving = s.saving
BY DEF IsNode

LEMMA SavingKept ==
  ASSUME NEW s, IsNode(s), NEW v
  PROVE  LET r == [s EXCEPT !.saving = v] IN
         IsNode(r) /\ r.db = s.db /\ r.mem = s.mem /\ r.stop = s.stop /\ r.pool = s.pool
           /\ r.saving = v
BY DEF IsNode

LEMMA UnlandedKept ==
  ASSUME NEW s, IsNode(s), NEW v
  PROVE  LET r == [s EXCEPT !.unlanded = v] IN
         IsNode(r) /\ r.db = s.db /\ r.mem = s.mem /\ r.stop = s.stop /\ r.pool = s.pool
           /\ r.saving = s.saving
BY DEF IsNode

LEMMA Committed ==
  ASSUME NEW s, IsNode(s), NEW c \in Nat
  PROVE  LET r == CommitToChallenge(s, c) IN
         /\ IsNode(r) /\ SameStored(s.db, r.db, {}) /\ r.saving = s.saving /\ r.mem = s.mem
         /\ Quiet(s.db, r.db)
<1> DEFINE new == [type |-> "commit", c |-> c]
           r == CommitToChallenge(s, c)
           d == SaveCommit(s.db, c)
           p == s.pool \cup {new}
           s1 == [s EXCEPT !.db = d]
           s2 == [s1 EXCEPT !.pool = p]
<1>1. IsDB(s.db) /\ s.pool \in SUBSET Challenge
  BY DEF IsNode
<1>2. SameStored(s.db, d, {}) /\ SameStored(s.db, s.db, {})
  BY <1>1, CommitKept, SameNothing
<1>0. Quiet(s.db, d) /\ Quiet(s.db, s.db)
  BY <1>1, QuietCommits, QuietTxs
<1>3. new \in Challenge
  BY DEF Challenge
<1>4. p \in SUBSET Challenge
  BY <1>1, <1>3
<1>5. IsDB(d)
  BY <1>2 DEF SameStored
<1>6. [s EXCEPT !.db = SaveCommit(@, c), !.pool = @ \cup {new}] = s2
  BY DEF IsNode
<1> HIDE DEF new, d, p
<1>7. IsNode(s1) /\ s1.db = d /\ s1.mem = s.mem /\ s1.saving = s.saving
  BY <1>5, NodeKept
<1> HIDE DEF s1
<1>8. IsNode(s2) /\ s2.db = d /\ s2.mem = s.mem /\ s2.saving = s.saving
  BY <1>4, <1>7, NodeKept
<1>9. r = s \/ r = s2
  BY <1>6 DEF CommitToChallenge, new
<1> HIDE DEF s2, r
<1>10. /\ IsNode(r) /\ SameStored(s.db, r.db, {}) /\ r.saving = s.saving /\ r.mem = s.mem
       /\ Quiet(s.db, r.db)
  BY <1>0, <1>2, <1>8, <1>9
<1>11. QED  BY <1>10 DEF r

LEMMA Challenged ==
  ASSUME NEW s, IsNode(s), NEW b \in Block
  PROVE  LET r == ChallengeInvalid(s, b) IN
         /\ IsNode(r) /\ SameStored(s.db, r.db, {}) /\ r.saving = s.saving /\ r.mem = s.mem
         /\ Quiet(s.db, r.db)
<1> DEFINE q == Append(s.stop, b.hash)
           s1 == [s EXCEPT !.stop = q]
           r == CommitToChallenge(s1, b.hash)
<1>1. b.hash \in Nat
  BY BlockFields
<1>2. s.stop \in Seq(Nat)
  BY DEF IsNode
<1>3. q \in Seq(Nat)
  BY <1>1, <1>2
<1>4. ChallengeInvalid(s, b) = r
  BY DEF ChallengeInvalid
<1> HIDE DEF q
<1>5. IsNode(s1) /\ s1.db = s.db /\ s1.mem = s.mem /\ s1.saving = s.saving
  BY <1>3, NodeKept
<1> HIDE DEF s1
<1>6. /\ IsNode(r) /\ SameStored(s1.db, r.db, {}) /\ r.saving = s1.saving /\ r.mem = s1.mem
      /\ Quiet(s1.db, r.db)
  BY <1>1, <1>5, Committed
<1> HIDE DEF r
<1>7. QED  BY <1>4, <1>5, <1>6

(* What is stored of a block before it is checked.                         *)
StoredBlock(s, b) ==
  SaveTree(
    DeleteDuplicatesFromMemPool(
      SaveBlock(s.db, b), BlockMarks(Commitments, b), BlockMarks(Nullifiers, b), ToSet(b.txs)),
    b.n, Append(TreeByNumber(s.db, b.n - 1), b.hash))

LEMMA BlockStored ==
  ASSUME NEW s, IsNode(s), StoredRight(s.db, {}), TreesRight(s.db),
         NEW b \in Block, b.n = Len(s.db.blocks),
         \A i \in 1..Len(s.db.blocks) : s.db.blocks[i].hash # b.hash
  PROVE  LET d == StoredBlock(s, b) IN
         /\ IsDB(d) /\ d.blocks = Append(s.db.blocks, b) /\ TreesRight(d)
         /\ StoredRight(d, {<<t, b.n>> : t \in ToSet(b.txs)})
         /\ DOMAIN d.txs \subseteq DOMAIN s.db.txs /\ Quiet(s.db, d)
<1> DEFINE d1 == SaveBlock(s.db, b)
           d2 == DeleteDuplicatesFromMemPool(d1, BlockMarks(Commitments, b),
                                             BlockMarks(Nullifiers, b), ToSet(b.txs))
           d3 == SaveTree(d2, b.n, Append(TreeByNumber(s.db, b.n - 1), b.hash))
           under == {<<t, b.n>> : t \in ToSet(b.txs)}
<1>1. d3 = StoredBlock(s, b)
  BY DEF StoredBlock
<1>2. IsDB(s.db)
  BY DEF IsNode
<1>3. /\ IsDB(d1) /\ d1.blocks = Append(s.db.blocks, b)
      /\ d1.trees = s.db.trees /\ d1.txs = s.db.txs
  BY <1>2, BlockSaved
<1> HIDE DEF d1
<1>4. SameStored(d1, d2, {}) /\ Quiet(d1, d2)
  BY <1>3, DuplicatesGone, QuietDuplicates
<1>5. IsDB(d2) /\ d2.blocks = Append(s.db.blocks, b) /\ d2.trees = s.db.trees
  BY <1>3, <1>4 DEF SameStored
<1> HIDE DEF d2
<1>6. IsDB(d3) /\ d3.blocks = d2.blocks /\ d3.txs = d2.txs /\ TreesRight(d3)
  BY <1>2, <1>5, TreeSavedRight
<1> HIDE DEF d3
<1>7. /\ \A t \in DOMAIN d3.txs : d3.txs[t].n # -1 => Stored(s.db, t) /\ s.db.txs[t].n = d3.txs[t].n
      /\ \A t : Stored(s.db, t) => Stored(d3, t)
      /\ DOMAIN d3.txs \subseteq DOMAIN s.db.txs
  BY <1>3, <1>4, <1>6 DEF SameStored, Stored
<1>8. under = {<<t, Len(s.db.blocks)>> : t \in ToSet(b.txs)}
  OBVIOUS
<1> HIDE DEF under
<1>9. StoredRight(d3, under)
  BY <1>2, <1>5, <1>6, <1>7, <1>8, AppendedRight
<1>10. Quiet(s.db, d3)
  BY <1>3, <1>4, <1>6, QuietTxs, QuietTwice
<1>11. QED  BY <1>1, <1>5, <1>6, <1>7, <1>9, <1>10 DEF under

(* The handler of a block that is the next one and is not stored yet.      *)
LEMMA NextStored ==
  ASSUME NEW s, IsNode(s), s.saving = {}, StoredRight(s.db, {}), TreesRight(s.db),
         NEW b \in Block, b.n = Len(s.db.blocks),
         \A i \in 1..Len(s.db.blocks) : s.db.blocks[i].hash # b.hash
  PROVE  LET r == BlockProposed(s, b) IN
         /\ IsNode(r) /\ r.db.blocks = Append(s.db.blocks, b)
         /\ TreesRight(r.db) /\ StoredRight(r.db, r.saving)
         /\ DOMAIN r.db.txs \subseteq DOMAIN s.db.txs
         /\ r.saving = {<<t, b.n>> : t \in ToSet(b.txs)}
         /\ r.mem.local = s.mem.local /\ Quiet(s.db, r.db)
<1> DEFINE d == StoredBlock(s, b)
           under == {<<t, b.n>> : t \in ToSet(b.txs)}
           m1 == [s.mem EXCEPT !.last = b.l1]
           s1 == [s EXCEPT !.db = d, !.mem.last = b.l1,
                           !.saving = @ \cup {<<t, b.n>> : t \in ToSet(b.txs)}]
           a1 == [s EXCEPT !.db = d]
           a2 == [a1 EXCEPT !.mem = m1]
           a3 == [a2 EXCEPT !.saving = under]
           c == ChallengeInvalid(s1, b)
           r == BlockProposed(s, b)
<1>1. r = s1 \/ r = c
  BY DEF BlockProposed, StoredBlock
<1>2. IsMem(s.mem)
  BY DEF IsNode
<1>3. s1 = a3
  BY DEF IsNode
<1>4. /\ IsDB(d) /\ d.blocks = Append(s.db.blocks, b) /\ TreesRight(d)
      /\ StoredRight(d, under) /\ DOMAIN d.txs \subseteq DOMAIN s.db.txs /\ Quiet(s.db, d)
  BY BlockStored
<1> HIDE DEF d, under
<1>5. IsMem(m1) /\ m1.local = s.mem.local
  BY <1>2, MemKept, LocalKept
<1> HIDE DEF m1
<1>6. IsNode(a1) /\ a1.db = d /\ a1.mem = s.mem
  BY <1>4, NodeKept
<1> HIDE DEF a1
<1>7. IsNode(a2) /\ a2.db = d /\ a2.mem = m1
  BY <1>5, <1>6, NodeKept
<1> HIDE DEF a2
<1>8. IsNode(a3) /\ a3.db = d /\ a3.saving = under /\ a3.mem = m1
  BY <1>7, SavingKept
<1> HIDE DEF s1, a3
<1>9. /\ IsNode(c) /\ SameStored(s1.db, c.db, {}) /\ c.saving = s1.saving /\ c.mem = s1.mem
      /\ Quiet(s1.db, c.db)
  BY <1>3, <1>8, Challenged
<1> HIDE DEF c, r
<1>10. IsNode(r) /\ SameStored(d, r.db, {}) /\ r.saving = under /\ r.mem = m1
  BY <1>1, <1>3, <1>4, <1>8, <1>9, SameNothing
<1>11. Quiet(s.db, r.db)
  BY <1>1, <1>3, <1>4, <1>8, <1>9, QuietTwice
<1>12. StoredRight(r.db, r.saving)
  BY <1>4, <1>10, StaysRight
<1>13. r.db.blocks = Append(s.db.blocks, b) /\ TreesRight(r.db)
  BY <1>4, <1>10 DEF SameStored, TreesRight
<1>14. DOMAIN r.db.txs \subseteq DOMAIN s.db.txs
  BY <1>4, <1>10 DEF SameStored
<1>15. QED  BY <1>5, <1>10, <1>11, <1>12, <1>13, <1>14 DEF r, under

(***************************************************************************)
(* Blocks are deleted: one per number is all there are.                    *)
(***************************************************************************)
LEMMA OneLonger ==
  ASSUME NEW q \in Seq(Block), NEW k \in 1..Len(q)
  PROVE  Append(SubSeq(q, 1, k - 1), q[k]) = SubSeq(q, 1, k)
<1> DEFINE f == SubSeq(q, 1, k - 1)
           g == SubSeq(q, 1, k)
<1>1. f \in Seq(Block) /\ Len(f) = k - 1 /\ \A i \in 1..k - 1 : f[i] = q[i]
  BY FirstPart
<1>2. g \in Seq(Block) /\ Len(g) = k /\ \A i \in 1..k : g[i] = q[i]
  BY FirstPart
<1>3. q[k] \in Block
  OBVIOUS
<1> HIDE DEF f, g
<1>4. /\ Append(f, q[k]) \in Seq(Block) /\ Len(Append(f, q[k])) = (k - 1) + 1
      /\ \A i \in 1..k - 1 : Append(f, q[k])[i] = f[i]
      /\ Append(f, q[k])[(k - 1) + 1] = q[k]
  BY <1>1, <1>3, AppendedOne
<1>5. \A i \in 1..k : i \in 1..k - 1 \/ i = k
  OBVIOUS
<1>6. \A i \in 1..k : Append(f, q[k])[i] = g[i]
  BY <1>1, <1>2, <1>4, <1>5
<1>7. QED  BY <1>2, <1>4, <1>6, SameSequence DEF f, g

LEMMA DeletedFrom ==
  ASSUME NEW q \in Seq(Block), NEW N \in Nat, N = Len(q),
         \A i \in 1..N : q[i].n = i - 1, NEW n \in 0..N,
         NEW numbers, \A i \in 1..N : i - 1 \in numbers <=> i > n
  PROVE  DeleteFirst(q, numbers) = SubSeq(q, 1, n)
<1> DEFINE S == Seq(Block)
           Once(i) == ~ \E j \in 1..i - 1 : q[j].n = q[i].n
           Kept(y, i) == IF q[i].n \in numbers /\ Once(i) THEN y ELSE Append(y, q[i])
           idx == [i \in 1..Len(q) |-> i]
           First(k) == SubSeq(q, 1, k)
           G == [k \in 1..N |-> [y \in S |-> Kept(y, k)]]
           T == [k \in 0..N |-> {First(IF k < n THEN k ELSE n)}]
           Eq(h) == h = [s \in SUBSET (DOMAIN idx) |->
                           IF s = {} THEN <<>> ELSE Kept(h[s \ {Max(s)}], idx[Max(s)])]
<1>1. DeleteFirst(q, numbers) = (CHOOSE h : Eq(h))[DOMAIN idx]
  BY DEF DeleteFirst, FoldLeft, MapThenFoldSet
<1>2. /\ DOMAIN idx = 1..N /\ \A k \in 1..N : idx[k] = k
      /\ \A k \in 0..N : First(k) \in S
  BY FirstPart
<1>3. \A k \in 1..N : \A y \in S : Kept(y, k) \in S
  <2> SUFFICES ASSUME NEW k \in 1..N, NEW y \in S PROVE Kept(y, k) \in S
    OBVIOUS
  <2>1. q[k] \in Block
    OBVIOUS
  <2>2. Append(y, q[k]) \in Seq(Block)
    BY <2>1
  <2>3. QED  BY <2>2
<1>4. \A k \in 1..N : \A y \in S : G[k][y] = Kept(y, k)
  OBVIOUS
<1>5. <<>> = First(0) /\ <<>> \in S
  <2>1. First(0) \in S /\ Len(First(0)) = 0
    BY FirstPart
  <2>2. QED  BY <2>1
<1>6. T \in [0..N -> SUBSET S] /\ <<>> \in T[0]
  <2>1. \A k \in 0..N : (IF k < n THEN k ELSE n) \in 0..N
    OBVIOUS
  <2>2. T[0] = {First(0)}
    OBVIOUS
  <2> HIDE DEF S, First
  <2>3. QED  BY <1>2, <1>5, <2>1, <2>2
<1>7. ASSUME NEW k \in 1..N, NEW y \in T[k - 1]
      PROVE  y \in S /\ Kept(y, k) \in T[k]
  <2>1. k - 1 \in 0..N /\ k \in 0..N
    OBVIOUS
  <2>2. y = First(IF k - 1 < n THEN k - 1 ELSE n)
    BY <2>1
  <2>3. T[k] = {First(IF k < n THEN k ELSE n)}
    BY <2>1
  <2>4. y \in S
    BY <1>6, <2>1
  <2>5. q[k].n \in numbers <=> k > n
    OBVIOUS
  <2>6. Once(k)
    <3>1. \A j \in 1..k - 1 : j \in 1..N
      OBVIOUS
    <3>2. \A j \in 1..k - 1 : q[j].n = j - 1 /\ q[k].n = k - 1
      BY <3>1
    <3>3. QED  BY <3>2
  <2>7. CASE k - 1 < n
    <3>1. y = First(k - 1) /\ T[k] = {First(k)} /\ ~ (k > n)
      BY <2>2, <2>3, <2>7
    <3>2. Append(First(k - 1), q[k]) = First(k)
      BY OneLonger
    <3> HIDE DEF T, S, First, Once
    <3>3. Kept(y, k) = Append(y, q[k])
      BY <2>5, <3>1
    <3>4. QED  BY <2>4, <3>1, <3>2, <3>3
  <2>8. CASE ~(k - 1 < n)
    <3>1. y = First(n) /\ T[k] = {First(n)} /\ k > n
      BY <2>2, <2>3, <2>8
    <3> HIDE DEF T, S, First, Once
    <3>2. Kept(y, k) = y
      BY <2>5, <2>6, <3>1
    <3>3. QED  BY <2>4, <3>1, <3>2
  <2>9. QED  BY <2>7, <2>8
<1>8. G \in Moves(N, S)
  <2> HIDE DEF S, Kept
  <2>1. QED  BY <1>3 DEF Moves
<1> HIDE DEF S, G, T, Kept, First, idx
<1>9. Rounds(N, S, <<>>, G, T)
  BY <1>4, <1>5, <1>6, <1>7, <1>8 DEF Rounds
<1>10. PICK f \in [SUBSET (1..N) -> S] : IsFold(f, N, <<>>, G)
  BY <1>5, <1>8, FoldExists
<1>11. \A s \in SUBSET (1..N) : s # {} => Max(s) \in 1..N /\ s \ {Max(s)} \in SUBSET (1..N)
  BY MaxIn
<1>12. ASSUME NEW s \in SUBSET (1..N)
       PROVE  f[s] = IF s = {} THEN <<>> ELSE Kept(f[s \ {Max(s)}], idx[Max(s)])
  <2>1. f[s] = IF s = {} THEN <<>> ELSE G[Max(s)][f[s \ {Max(s)}]]
    BY <1>10 DEF IsFold
  <2>2. s # {} => f[s \ {Max(s)}] \in S /\ Max(s) \in 1..N
    BY <1>11
  <2>3. QED  BY <1>2, <1>4, <2>1, <2>2
<1>13. Eq(f)
  <2>1. f = [s \in SUBSET (1..N) |-> f[s]]
    OBVIOUS
  <2>2. QED  BY <1>2, <1>12, <2>1
<1> DEFINE h == CHOOSE g : Eq(g)
<1>14. Eq(h)
  BY <1>13
<1> HIDE DEF h
<1>15. Folds(h, N, S, <<>>, G)
  <2>1. \A s \in SUBSET (1..N) :
          h[s] = IF s = {} THEN <<>> ELSE Kept(h[s \ {Max(s)}], idx[Max(s)])
    BY <1>2, <1>14
  <2>2. {} \in SUBSET (1..N)
    OBVIOUS
  <2>3. ASSUME NEW s \in SUBSET (1..N), s # {}, h[s \ {Max(s)}] \in S
        PROVE  h[s] = G[Max(s)][h[s \ {Max(s)}]]
    <3>1. Max(s) \in 1..N /\ idx[Max(s)] = Max(s)
      BY <1>2, <1>11, <2>3
    <3>2. h[s] = Kept(h[s \ {Max(s)}], Max(s))
      BY <2>1, <2>3, <3>1
    <3>3. QED  BY <1>4, <2>3, <3>1, <3>2
  <2>4. h[{}] = <<>>
    BY <2>1, <2>2
  <2>5. QED  BY <2>3, <2>4 DEF Folds
<1>16. h[1..N] \in T[N]
  BY <1>9, <1>15, FoldReaches
<1>17. T[N] = {First(n)}
  BY DEF T
<1>18. QED  BY <1>1, <1>2, <1>16, <1>17 DEF h, First, idx

(* From d to e the blocks from n on are deleted, and each transaction      *)
(* stored under one of their numbers is deleted or taken back.             *)
Disposes(d, n, numbers, valid, invalid, e) ==
  /\ n \in 0..Len(d.blocks) /\ e.blocks = SubSeq(d.blocks, 1, n)
  /\ \A k \in 0..Len(d.blocks) - 1 : k \in numbers <=> k >= n
  /\ \A t \in invalid : t \in DOMAIN d.txs /\ d.txs[t].n >= n
  /\ \A t \in DOMAIN d.txs : d.txs[t].n >= n => t \in invalid \/ t \in valid
  /\ DOMAIN e.txs = DOMAIN d.txs \ invalid
  /\ \A t \in DOMAIN e.txs : IF t \in valid /\ d.txs[t].n \in numbers
                             THEN e.txs[t].n = -1 ELSE e.txs[t] = d.txs[t]

LEMMA DisposedRight ==
  ASSUME NEW d, IsDB(d), StoredRight(d, {}), NEW n, NEW numbers, NEW valid, NEW invalid, NEW e,
         Disposes(d, n, numbers, valid, invalid, e)
  PROVE  StoredRight(e, {})
<1> USE DEF Disposes
<1>0. PICK N \in Nat : N = Len(d.blocks)
  BY DEF IsDB
<1>1. d.blocks \in Seq(Block)
  BY DEF IsDB
<1>2. Len(e.blocks) = n /\ \A i \in 1..n : e.blocks[i] = d.blocks[i]
  BY <1>1, FirstPart
<1>3. \A t \in DOMAIN d.txs : d.txs[t].n \in Int
  BY DEF IsDB
<1>4. \A t : Stored(d, t) => IsFirst(d.blocks, t, d.txs[t].n) /\ d.txs[t].n \in 0..N - 1
  BY <1>0 DEF StoredRight, Stored, IsFirst
<1>5. ASSUME NEW t \in DOMAIN e.txs, e.txs[t].n # -1
      PROVE  IsFirst(e.blocks, t, e.txs[t].n)
  <2>0. PICK m : m = d.txs[t].n
    OBVIOUS
  <2>1. t \in DOMAIN d.txs /\ t \notin invalid /\ e.txs[t] = d.txs[t] /\ Stored(d, t)
        /\ ~(t \in valid /\ m \in numbers)
    BY <1>5, <2>0 DEF Stored
  <2>2. IsFirst(d.blocks, t, m) /\ m \in 0..N - 1
    BY <1>4, <2>0, <2>1
  <2>3. ~(m >= n)
    BY <1>0, <2>0, <2>1, <2>2
  <2>4. m \in 0..n - 1 /\ m + 1 \in 1..n /\ \A i \in 1..m : i \in 1..n
    BY <2>2, <2>3
  <2>5. IsFirst(e.blocks, t, m)
    BY <1>2, <2>2, <2>4 DEF IsFirst
  <2>6. QED  BY <2>0, <2>1, <2>5
<1>6. ASSUME NEW i \in 1..n, NEW t \in ToSet(e.blocks[i].txs)
      PROVE  Stored(e, t)
  <2>1. i \in 1..N /\ t \in ToSet(d.blocks[i].txs)
    BY <1>0, <1>2, <1>6
  <2>2. Stored(d, t)
    BY <1>0, <2>1 DEF StoredRight
  <2>3. PICK m : m = d.txs[t].n
    OBVIOUS
  <2>4. IsFirst(d.blocks, t, m) /\ m \in 0..N - 1 /\ t \in DOMAIN d.txs
    BY <1>4, <2>2, <2>3 DEF Stored
  <2>5. ~(i \in 1..m)
    BY <2>1, <2>4 DEF IsFirst
  <2>6. ~(m >= n)
    BY <2>4, <2>5
  <2>7. t \notin invalid /\ m \notin numbers
    BY <1>0, <2>3, <2>4, <2>6
  <2>8. t \in DOMAIN e.txs /\ e.txs[t] = d.txs[t]
    BY <2>3, <2>4, <2>7
  <2>9. m # -1
    BY <2>4
  <2>10. QED  BY <2>3, <2>8, <2>9 DEF Stored
<1>7. QED  BY <1>2, <1>5, <1>6 DEF StoredRight

LEMMA TreesCut ==
  ASSUME NEW d, IsDB(d), TreesRight(d), NEW n \in 0..Len(d.blocks),
         NEW e, e.blocks = SubSeq(d.blocks, 1, n), e.trees = DeleteTreesFrom(d, n).trees
  PROVE  TreesRight(e)
<1>0. PICK N \in Nat : N = Len(d.blocks)
  BY DEF IsDB
<1>1. d.blocks \in Seq(Block)
  BY DEF IsDB
<1>2. Len(e.blocks) = n /\ \A i \in 1..n : e.blocks[i] = d.blocks[i]
  BY <1>1, FirstPart
<1>3. d.trees = [k \in 0..N - 1 |-> FirstHashes(d.blocks, k + 1)]
  BY <1>0 DEF TreesRight
<1> DEFINE f == Without(d.trees, {m \in DOMAIN d.trees : m >= n})
<1>4. e.trees = f
  BY TreesOnly DEF DeleteTreesFrom
<1>5. f = [k \in (0..N - 1) \ {m \in 0..N - 1 : m >= n} |-> d.trees[k]]
  BY <1>3 DEF Without
<1>6. (0..N - 1) \ {m \in 0..N - 1 : m >= n} = 0..n - 1
  BY <1>0
<1> HIDE DEF f
<1>7. ASSUME NEW k \in 0..n - 1
      PROVE  d.trees[k] = FirstHashes(e.blocks, k + 1)
  <2>1. k \in 0..N - 1 /\ \A i \in 1..k + 1 : i \in 1..n
    BY <1>0
  <2>2. \A i \in 1..k + 1 : e.blocks[i].hash = d.blocks[i].hash
    BY <1>2, <2>1
  <2>3. FirstHashes(d.blocks, k + 1) = FirstHashes(e.blocks, k + 1)
    BY <2>2 DEF FirstHashes
  <2>4. QED  BY <1>3, <2>1, <2>3
<1>8. e.trees = [k \in 0..n - 1 |-> FirstHashes(e.blocks, k + 1)]
  BY <1>4, <1>5, <1>6, <1>7
<1>9. QED  BY <1>2, <1>8 DEF TreesRight

LEMMA TakenBack ==
  ASSUME NEW d, IsDB(d), NEW ts, NEW numbers, -1 \notin numbers
  PROVE  LET e == AddTransactionsToMemPool(d, ts, numbers) IN
         /\ IsDB(e) /\ e.blocks = d.blocks /\ e.trees = d.trees
         /\ DOMAIN e.txs = DOMAIN d.txs
         /\ \A t \in DOMAIN e.txs : IF t \in ts /\ d.txs[t].n \in numbers
                                    THEN e.txs[t].n = -1 ELSE e.txs[t] = d.txs[t]
<1> DEFINE new == [mempool |-> TRUE, n |-> -1]
           which == {t \in ts \cap DOMAIN d.txs : d.txs[t].n \in numbers}
           f == [t \in DOMAIN d.txs |-> IF t \in which THEN new ELSE d.txs[t]]
           g == [d EXCEPT !.txs = f]
           e == AddTransactionsToMemPool(d, ts, numbers)
<1>1. e = g
  BY DEF AddTransactionsToMemPool, UpdateTransactions
<1>2. new \in [mempool : BOOLEAN, n : Int] /\ new.n = -1
  OBVIOUS
<1>3. \A t \in DOMAIN d.txs : t \in which <=> t \in ts /\ d.txs[t].n \in numbers
  OBVIOUS
<1> HIDE DEF new, which
<1>4. DOMAIN f = DOMAIN d.txs /\ \A t \in DOMAIN f : f[t] = IF t \in which THEN new ELSE d.txs[t]
  OBVIOUS
<1> HIDE DEF f
<1>5. \A t \in DOMAIN f : /\ f[t] \in [mempool : BOOLEAN, n : Int]
                          /\ f[t].mempool => f[t].n = -1
  BY <1>2, <1>4 DEF IsDB
<1>6. IsDB(g) /\ g.blocks = d.blocks /\ g.trees = d.trees /\ g.txs = f
  BY <1>5, TxsOnly
<1> HIDE DEF g, e
<1>7. QED  BY <1>1, <1>2, <1>3, <1>4, <1>6 DEF e

LEMMA RolledBack ==
  ASSUME NEW s, IsNode(s), s.saving = {}, StoredRight(s.db, {}), TreesRight(s.db),
         \A i \in 1..Len(s.db.blocks) : s.db.blocks[i].n = i - 1,
         NEW n \in 0..Len(s.db.blocks)
  PROVE  LET r == Rollback(s, n) IN
         /\ IsNode(r) /\ r.db.blocks = SubSeq(s.db.blocks, 1, n)
         /\ TreesRight(r.db) /\ StoredRight(r.db, {})
         /\ DOMAIN r.db.txs \subseteq DOMAIN s.db.txs
         /\ r.saving = {} /\ r.mem.local = ResetLocal
<1> DEFINE d == s.db
           removed == BlocksFrom(d, n)
           At(i) == d.blocks[i]
           Kept(i) == StillValid(d, At(i), n)
           invalid == UNION {TransactionsOfBlock(d, At(i)) \ Kept(i) : i \in removed}
           numbers == {At(i).n : i \in removed}
           last == {i \in removed : ~ \E j \in removed : j > i /\ At(j).n = At(i).n}
           valid == UNION {Kept(i) : i \in last}
           d1 == DeleteTreesFrom(d, n)
           d2 == DeleteTransactions(d1, invalid)
           d3 == AddTransactionsToMemPool(d2, valid, numbers)
           d4 == DeleteBlocks(d3, numbers)
           m1 == [s.mem EXCEPT !.local = ResetLocal]
           q1 == Dequeued(s)
           w1 == Unlanded(d2, d4)
           a1 == [s EXCEPT !.db = d4]
           a2 == [a1 EXCEPT !.mem = m1]
           a3 == [a2 EXCEPT !.stop = q1]
           a4 == [a3 EXCEPT !.unlanded = w1]
           r == Rollback(s, n)
<1>0. PICK N \in Nat : N = Len(d.blocks)
  BY DEF IsNode, IsDB
<1>1. IsDB(d) /\ IsMem(s.mem) /\ d.blocks \in Seq(Block) /\ s.stop \in Seq(Nat)
  BY DEF IsNode, IsDB
<1>2. r = [s EXCEPT !.db = d4, !.unlanded = w1, !.mem.local = ResetLocal, !.stop = q1]
  BY DEF Rollback
<1>22. r = a4
  BY <1>2 DEF IsNode
<1> HIDE DEF r, w1, a4
<1> HIDE DEF Kept
<1>3. removed = n + 1..N
  <2>1. DOMAIN d.blocks = 1..N
    BY <1>0, <1>1
  <2>2. removed = {i \in 1..N : d.blocks[i].n >= n}
    BY <2>1 DEF BlocksFrom
  <2>3. \A i \in 1..N : d.blocks[i].n = i - 1
    BY <1>0
  <2>4. removed = {i \in 1..N : i - 1 >= n}
    BY <2>2, <2>3
  <2> HIDE DEF removed
  <2>5. QED  BY <2>4
<1> HIDE DEF removed
<1>4. \A i \in removed : i \in 1..N /\ At(i).n = i - 1
  BY <1>0, <1>3
<1>5. last = removed
  <2>1. \A i, j \in removed : At(j).n = At(i).n => j = i
    BY <1>4
  <2>2. QED  BY <1>4, <2>1
<1>6. \A k \in 0..N - 1 : k \in numbers <=> k >= n
  <2>1. \A k \in 0..N - 1 : k >= n => k + 1 \in removed /\ At(k + 1).n = k
    BY <1>3, <1>4
  <2>2. \A k \in numbers : k >= n
    BY <1>3, <1>4
  <2>3. QED  BY <2>1, <2>2
<1>7. -1 \notin numbers
  BY <1>3, <1>4
<1>8. \A t : t \in valid <=> \E i \in removed : t \in Kept(i)
  BY <1>5
<1>9. \A t : t \in invalid <=>
        \E i \in removed : t \in TransactionsOfBlock(d, At(i)) /\ t \notin Kept(i)
  OBVIOUS
<1> HIDE DEF invalid, valid, last, numbers, At
<1>10. \A t : \A i \in removed : t \in TransactionsOfBlock(d, At(i)) <=>
         /\ t \in ToSet(d.blocks[i].txs) /\ t \in DOMAIN d.txs /\ d.txs[t].n = i - 1
  BY <1>4 DEF TransactionsOfBlock, At
<1>11. \A t \in invalid : t \in DOMAIN d.txs /\ d.txs[t].n >= n
  BY <1>3, <1>9, <1>10
<1>12. ASSUME NEW t \in DOMAIN d.txs, d.txs[t].n >= n
       PROVE  t \in invalid \/ t \in valid
  <2>0. PICK k : k = d.txs[t].n
    OBVIOUS
  <2>1. k \in Int
    BY <1>1, <2>0 DEF IsDB
  <2>2. k # -1
    BY <1>12, <2>0, <2>1
  <2>3. IsFirst(d.blocks, t, k)
    BY <2>0, <2>2 DEF StoredRight
  <2>7. k \in 0..N - 1 /\ t \in ToSet(d.blocks[k + 1].txs)
    BY <1>0, <2>3 DEF IsFirst
  <2>8. k >= n
    BY <1>12, <2>0
  <2>4. k + 1 \in removed /\ t \in ToSet(d.blocks[k + 1].txs) /\ (k + 1) - 1 = k
    BY <1>3, <2>7, <2>8
  <2>5. t \in TransactionsOfBlock(d, At(k + 1))
    BY <1>10, <2>0, <2>4
  <2>6. QED  BY <1>8, <1>9, <2>4, <2>5
<1>13. IsDB(d1) /\ d1.blocks = d.blocks /\ d1.txs = d.txs
  BY <1>1, TreesOnly DEF DeleteTreesFrom
<1>14. d1.trees = DeleteTreesFrom(d, n).trees
  OBVIOUS
<1> HIDE DEF d1
<1>15. /\ IsDB(d2) /\ d2.blocks = d.blocks /\ d2.trees = d1.trees
       /\ DOMAIN d2.txs = DOMAIN d.txs \ invalid /\ \A t \in DOMAIN d2.txs : d2.txs[t] = d.txs[t]
  BY <1>13, Deleted
<1> HIDE DEF d2
<1>16. /\ IsDB(d3) /\ d3.blocks = d2.blocks /\ d3.trees = d2.trees
       /\ DOMAIN d3.txs = DOMAIN d2.txs
       /\ \A t \in DOMAIN d3.txs : IF t \in valid /\ d2.txs[t].n \in numbers
                                   THEN d3.txs[t].n = -1 ELSE d3.txs[t] = d2.txs[t]
  BY <1>7, <1>15, TakenBack
<1> HIDE DEF d3
<1>17. DeleteFirst(d.blocks, numbers) = SubSeq(d.blocks, 1, n) /\ SubSeq(d.blocks, 1, n) \in Seq(Block)
  <2>1. \A i \in 1..N : i - 1 \in numbers <=> i > n
    BY <1>6
  <2>2. \A i \in 1..N : d.blocks[i].n = i - 1
    BY <1>0
  <2>3. n \in 0..N
    BY <1>0
  <2> HIDE DEF d
  <2>4. DeleteFirst(d.blocks, numbers) = SubSeq(d.blocks, 1, n)
    BY <1>0, <1>1, <2>1, <2>2, <2>3, DeletedFrom
  <2>5. SubSeq(d.blocks, 1, n) \in Seq(Block)
    BY <1>0, <1>1, <2>3, FirstPart
  <2>6. QED  BY <2>4, <2>5
<1>18. /\ IsDB(d4) /\ d4.blocks = SubSeq(d.blocks, 1, n) /\ d4.trees = d3.trees
       /\ d4.txs = d3.txs
  <2> DEFINE q == SubSeq(d.blocks, 1, n)
             e == [d3 EXCEPT !.blocks = q]
  <2>1. d4 = e
    BY <1>15, <1>16, <1>17 DEF DeleteBlocks
  <2>2. IsDB(e) /\ e.blocks = q /\ e.trees = d3.trees /\ e.txs = d3.txs
    BY <1>16, <1>17, BlocksOnly
  <2> HIDE DEF e, d4
  <2>3. QED  BY <2>1, <2>2
<1> HIDE DEF d4
<1>19. StoredRight(d4, {})
  <2>1. \A t \in DOMAIN d4.txs : IF t \in valid /\ d.txs[t].n \in numbers
                                 THEN d4.txs[t].n = -1 ELSE d4.txs[t] = d.txs[t]
    BY <1>15, <1>16, <1>18
  <2>2. DOMAIN d4.txs = DOMAIN d.txs \ invalid
    BY <1>15, <1>16, <1>18
  <2>3. \A k \in 0..Len(d.blocks) - 1 : k \in numbers <=> k >= n
    BY <1>0, <1>6
  <2> HIDE DEF d
  <2>4. StoredRight(d, {}) /\ n \in 0..Len(d.blocks) /\ IsDB(d)
    BY <1>1 DEF d
  <2>5. \A t \in DOMAIN d.txs : d.txs[t].n >= n => t \in invalid \/ t \in valid
    BY <1>12
  <2>6. d4.blocks = SubSeq(d.blocks, 1, n)
    BY <1>18
  <2>7. Disposes(d, n, numbers, valid, invalid, d4)
    BY <1>11, <2>1, <2>2, <2>3, <2>4, <2>5, <2>6 DEF Disposes
  <2>8. QED  BY <2>4, <2>7, DisposedRight
<1>20. TreesRight(d4)
  BY <1>1, <1>14, <1>15, <1>16, <1>18, TreesCut
<1>21. IsMem(m1) /\ m1.local = ResetLocal /\ q1 \in Seq(Nat)
  <2>1. s.stop # <<>> => Tail(s.stop) \in Seq(Nat)
    BY <1>1
  <2>2. QED  BY <1>1, <2>1, MemKept, LocalKept DEF Dequeued
<1> HIDE DEF m1, q1
<1>23. IsNode(a1) /\ a1.db = d4 /\ a1.mem = s.mem /\ a1.saving = s.saving
  BY <1>18, NodeKept
<1> HIDE DEF a1
<1>24. IsNode(a2) /\ a2.db = d4 /\ a2.saving = s.saving /\ a2.mem = m1
  BY <1>21, <1>23, NodeKept
<1> HIDE DEF a2
<1>25. IsNode(a3) /\ a3.db = d4 /\ a3.saving = s.saving /\ a3.mem = m1
  BY <1>21, <1>24, NodeKept
<1> HIDE DEF a3
<1>28. IsNode(a4) /\ a4.db = d4 /\ a4.saving = s.saving /\ a4.mem = m1
  BY <1>25, UnlandedKept DEF a4
<1>26. DOMAIN d4.txs \subseteq DOMAIN s.db.txs
  BY <1>15, <1>16, <1>18
<1>27. QED  BY <1>18, <1>19, <1>20, <1>21, <1>22, <1>26, <1>28 DEF r

LEMMA ProposerSet ==
  ASSUME NEW s, IsNode(s), NEW p
  PROVE  LET r == NewCurrentProposer(s, p) IN
         IsNode(r) /\ SameStored(s.db, r.db, {}) /\ r.saving = s.saving /\ Consistent(s, r)
<1> DEFINE d == ResetUnsuccessful(s.db)
           m1 == [s.mem EXCEPT !.local = ResetLocal]
           a1 == [s EXCEPT !.mem = m1]
           a2 == [a1 EXCEPT !.db = d]
           s1 == IF s.mem.isMe
                 THEN [s EXCEPT !.mem.local = ResetLocal, !.db = ResetUnsuccessful(@)] ELSE s
           x == (p = Me)
           m2 == [s1.mem EXCEPT !.isMe = x]
           a3 == [s1 EXCEPT !.mem = m2]
           r == NewCurrentProposer(s, p)
<1>1. IsDB(s.db) /\ IsMem(s.mem)
  BY DEF IsNode
<1>2. SameStored(s.db, d, {}) /\ SameStored(s.db, s.db, {})
  BY <1>1, PutBack, SameNothing
<1>3. IsDB(d)
  BY <1>2 DEF SameStored
<1>4. r = [s1 EXCEPT !.mem.isMe = x]
  BY DEF NewCurrentProposer
<1>5. s1 = s \/ s1 = a2
  BY DEF IsNode
<1> HIDE DEF d
<1>6. IsMem(m1) /\ m1.local = ResetLocal
  BY <1>1, MemKept, LocalKept
<1> HIDE DEF m1
<1>7. IsNode(a1) /\ a1.db = s.db /\ a1.saving = s.saving /\ a1.mem = m1
  BY <1>6, NodeKept
<1> HIDE DEF a1
<1>8. IsNode(a2) /\ a2.db = d /\ a2.saving = s.saving /\ a2.mem = m1
  BY <1>3, <1>7, NodeKept
<1> HIDE DEF a2, s1
<1>9. IsNode(s1) /\ SameStored(s.db, s1.db, {}) /\ s1.saving = s.saving
  BY <1>2, <1>5, <1>8
<1>90. s1.mem.local = ResetLocal \/ (s1.mem.local = s.mem.local /\ s1.db = s.db)
  BY <1>5, <1>6, <1>8
<1>10. r = a3
  BY <1>4, <1>9 DEF IsNode
<1>11. x \in BOOLEAN
  OBVIOUS
<1> HIDE DEF x, r
<1>12. IsMem(m2) /\ m2.local = s1.mem.local
  BY <1>9, <1>11, MemKept, LocalKept DEF IsNode
<1> HIDE DEF m2
<1>13. IsNode(a3) /\ a3.db = s1.db /\ a3.saving = s1.saving /\ a3.mem = m2
  BY <1>9, <1>12, NodeKept
<1> HIDE DEF a3
<1>14. Consistent(s, r)
  <2>1. Len(s.db.blocks) <= Len(s.db.blocks)
    BY <1>1 DEF IsDB
  <2>2. QED  BY <1>10, <1>12, <1>13, <1>90, <2>1, QuietTxs DEF Consistent
<1>15. QED  BY <1>9, <1>10, <1>13, <1>14 DEF r

LEMMA CommitSeen ==
  ASSUME NEW s, IsNode(s), NEW c \in Nat
  PROVE  LET r == CommittedToChallenge(s, c) IN
         IsNode(r) /\ SameStored(s.db, r.db, {}) /\ r.saving = s.saving /\ Consistent(s, r)
<1> DEFINE new == [type |-> "reveal", c |-> c]
           d == MarkRetrieved(s.db, c)
           p == IF s.db.commits[c] THEN s.pool ELSE s.pool \cup {new}
           s1 == [s EXCEPT !.db = d]
           s2 == [s1 EXCEPT !.pool = p]
           r == CommittedToChallenge(s, c)
<1>1. IsDB(s.db) /\ s.pool \in SUBSET Challenge
  BY DEF IsNode
<1>2. SameStored(s.db, d, {}) /\ SameStored(s.db, s.db, {})
  BY <1>1, CommitKept, SameNothing
<1>3. new \in Challenge
  BY DEF Challenge
<1>4. p \in SUBSET Challenge
  BY <1>1, <1>3
<1>5. IsDB(d)
  BY <1>2 DEF SameStored
<1>6. [s EXCEPT !.db = MarkRetrieved(@, c),
                !.pool = IF s.db.commits[c] THEN @ ELSE @ \cup {new}] = s2
  BY DEF IsNode
<1>7. r = s \/ r = s2
  BY <1>6 DEF CommittedToChallenge
<1> HIDE DEF new, d, p, r
<1>8. IsNode(s1) /\ s1.db = d /\ s1.saving = s.saving /\ s1.mem = s.mem
  BY <1>5, NodeKept
<1> HIDE DEF s1
<1>9. IsNode(s2) /\ s2.db = d /\ s2.saving = s.saving /\ s2.mem = s.mem
  BY <1>4, <1>8, NodeKept
<1> HIDE DEF s2
<1>10. Quiet(s.db, d) /\ Quiet(s.db, s.db)
  BY <1>1, QuietCommits, QuietTxs DEF d
<1>11. Consistent(s, r)
  <2>1. Len(s.db.blocks) <= Len(s.db.blocks) /\ d.blocks = s.db.blocks
    BY <1>1, <1>2 DEF IsDB, SameStored
  <2>2. QED  BY <1>7, <1>9, <1>10, <2>1 DEF Consistent
<1>12. QED  BY <1>2, <1>7, <1>9, <1>11 DEF r

LEMMA AttemptsKept ==
  ASSUME NEW s, IsNode(s)
  PROVE  LET r == AttemptsChecked(s) IN
         IsNode(r) /\ r.db = s.db /\ r.saving = s.saving /\ r.mem.local = s.mem.local
<1> DEFINE m1 == [s.mem EXCEPT !.last = 1]
           m2 == [m1 EXCEPT !.attempts = 0]
           a1 == [s EXCEPT !.mem = m2]
           r == AttemptsChecked(s)
<1>1. IsMem(s.mem)
  BY DEF IsNode
<1>2. IsMem(m1) /\ m1.local = s.mem.local
  BY <1>1, MemKept, LocalKept
<1>3. [s EXCEPT !.mem.last = 1, !.mem.attempts = 0] = a1
  BY <1>1 DEF IsNode, IsMem
<1>4. r = s \/ r = a1
  BY <1>3 DEF AttemptsChecked
<1> HIDE DEF m1
<1>5. IsMem(m2) /\ m2.local = s.mem.local
  BY <1>2, MemKept, LocalKept
<1> HIDE DEF m2, r
<1>6. IsNode(a1) /\ a1.db = s.db /\ a1.saving = s.saving /\ a1.mem = m2
  BY <1>5, NodeKept
<1> HIDE DEF a1
<1>7. QED  BY <1>4, <1>5, <1>6 DEF r

(***************************************************************************)
(* An event is handled.                                                    *)
(***************************************************************************)
LEMMA EventFields ==
  ASSUME NEW e \in Event
  PROVE  /\ e.type \in {"BlockProposed", "Rollback", "NewCurrentProposer", "CommittedToChallenge"}
         /\ e.type = "BlockProposed" => e.block \in Block
         /\ e.type = "Rollback" => e.n \in Nat
         /\ e.type = "CommittedToChallenge" => e.c \in Nat
<1> USE DEF Event
<1>1. CASE e \in [type : {"BlockProposed"}, block : Block]
  BY <1>1
<1>2. CASE e \in [type : {"Rollback"}, n : Nat]
  BY <1>2
<1>3. CASE e \in [type : {"NewCurrentProposer"}, p : {Me, Other}]
  BY <1>3
<1>4. CASE e \in [type : {"CommittedToChallenge"}, c : Nat]
  BY <1>4
<1>5. QED  BY <1>1, <1>2, <1>3, <1>4

(* Between events the database is that of its blocks.                      *)
Settled(s) ==
  IsNode(s) /\ s.saving = {} /\ StoredRight(s.db, {}) /\ TreesRight(s.db)

(* r is what becomes of s when its blocks become a.                        *)
Outcome(s, r, a) ==
  /\ IsNode(r) /\ r.db.blocks = a /\ TreesRight(r.db) /\ StoredRight(r.db, r.saving)
  /\ DOMAIN r.db.txs \subseteq DOMAIN s.db.txs /\ Consistent(s, r)

LEMMA SameOutcome ==
  ASSUME NEW s, Settled(s), NEW r, IsNode(r), SameStored(s.db, r.db, {}), r.saving = s.saving,
         Consistent(s, r)
  PROVE  Outcome(s, r, s.db.blocks)
<1>1. StoredRight(r.db, r.saving)
  BY StaysRight DEF Settled
<1>2. QED  BY <1>1 DEF Settled, Outcome, SameStored, TreesRight

LEMMA HandledRight ==
  ASSUME NEW s, Settled(s), NEW c, NEW R, Chains(s.db.blocks, c, R),
         NEW e \in Event, NEW a, Follows(s.db.blocks, e, a), Chains(a, c, R)
  PROVE  Outcome(s, Handled(s, e), a)
<1> DEFINE r == Handled(s, e)
<1>1. s.db.blocks \in Seq(Block)
  BY DEF Chains
<1>2. CASE e.type = "BlockProposed"
  <2> DEFINE s0 == AttemptsChecked(s)
             r0 == BlockProposed(s0, e.block)
  <2>1. e.block \in Block
    BY <1>2, EventFields
  <2>2. a = Append(s.db.blocks, e.block)
    BY <1>2 DEF Follows
  <2>3. r = r0
    BY <1>2 DEF Handled
  <2>4. IsNode(s0) /\ s0.db = s.db /\ s0.saving = s.saving /\ s0.mem.local = s.mem.local
    BY AttemptsKept DEF Settled
  <2>5. PICK m \in Nat : m = Len(s.db.blocks)
    BY <1>1
  <2>6. /\ Len(a) = m + 1 /\ a[m + 1] = e.block
        /\ \A i \in 1..m : a[i] = s.db.blocks[i]
    BY <1>1, <2>1, <2>2, <2>5, AppendedOne
  <2>7. m + 1 \in 1..Len(a) /\ \A i \in 1..m : i \in 1..Len(a) /\ i # m + 1
    BY <2>5, <2>6
  <2>8. e.block.n = (m + 1) - 1
    BY <2>6, <2>7 DEF Chains
  <2>9. \A i \in 1..m : s.db.blocks[i].hash # e.block.hash
    BY <2>6, <2>7 DEF Chains
  <2> HIDE DEF s0
  <2>10. s0.saving = {} /\ StoredRight(s0.db, {}) /\ TreesRight(s0.db)
    BY <2>4 DEF Settled
  <2>11. e.block.n = Len(s0.db.blocks)
    BY <2>4, <2>5, <2>8
  <2>12. \A i \in 1..Len(s0.db.blocks) : s0.db.blocks[i].hash # e.block.hash
    BY <2>4, <2>5, <2>9
  <2>13. /\ IsNode(r0) /\ r0.db.blocks = Append(s0.db.blocks, e.block)
         /\ TreesRight(r0.db) /\ StoredRight(r0.db, r0.saving)
         /\ DOMAIN r0.db.txs \subseteq DOMAIN s0.db.txs
         /\ r0.mem.local = s0.mem.local /\ Quiet(s0.db, r0.db)
    BY <2>1, <2>4, <2>10, <2>11, <2>12, NextStored
  <2> HIDE DEF r0, r
  <2>14. Len(s.db.blocks) <= Len(r0.db.blocks)
    BY <2>2, <2>4, <2>5, <2>6, <2>13
  <2>15. QED  BY <2>2, <2>3, <2>4, <2>13, <2>14 DEF Outcome, Consistent, r
<1>3. CASE e.type = "Rollback"
  <2> DEFINE r0 == Rollback(s, e.n)
  <2>1. e.n \in 0..Len(s.db.blocks) - 1 /\ a = SubSeq(s.db.blocks, 1, e.n)
    BY <1>3 DEF Follows
  <2>2. r = r0
    BY <1>3 DEF Handled
  <2>3. e.n \in 0..Len(s.db.blocks)
    BY <1>1, <2>1
  <2>4. \A i \in 1..Len(s.db.blocks) : s.db.blocks[i].n = i - 1
    BY DEF Chains
  <2>5. /\ IsNode(r0) /\ r0.db.blocks = SubSeq(s.db.blocks, 1, e.n)
        /\ TreesRight(r0.db) /\ StoredRight(r0.db, {})
        /\ DOMAIN r0.db.txs \subseteq DOMAIN s.db.txs
        /\ r0.saving = {} /\ r0.mem.local = ResetLocal
    BY <2>3, <2>4, RolledBack DEF Settled
  <2> HIDE DEF r0, r
  <2>6. QED  BY <2>1, <2>2, <2>5 DEF Outcome, Consistent, r
<1>4. CASE e.type = "NewCurrentProposer"
  <2> DEFINE r0 == NewCurrentProposer(s, e.p)
  <2>1. a = s.db.blocks
    BY <1>4 DEF Follows
  <2>2. r = r0
    BY <1>4 DEF Handled
  <2>3. IsNode(r0) /\ SameStored(s.db, r0.db, {}) /\ r0.saving = s.saving /\ Consistent(s, r0)
    BY ProposerSet DEF Settled
  <2> HIDE DEF r0, r
  <2>4. QED  BY <2>1, <2>2, <2>3, SameOutcome DEF r
<1>5. CASE e.type = "CommittedToChallenge"
  <2> DEFINE r0 == CommittedToChallenge(s, e.c)
  <2>1. a = s.db.blocks
    BY <1>5 DEF Follows
  <2>2. r = r0
    BY <1>5 DEF Handled
  <2>3. e.c \in Nat
    BY <1>5, EventFields
  <2>4. IsNode(r0) /\ SameStored(s.db, r0.db, {}) /\ r0.saving = s.saving /\ Consistent(s, r0)
    BY <2>3, CommitSeen DEF Settled
  <2> HIDE DEF r0, r
  <2>5. QED  BY <2>1, <2>2, <2>4, SameOutcome DEF r
<1>6. QED  BY <1>2, <1>3, <1>4, <1>5, EventFields

(***************************************************************************)
(* The invariant.                                                          *)
(***************************************************************************)
Types ==
  /\ count \in [blocks : 0..MaxBlocks, faults : Nat, rotations : Nat, unsent : Nat, early : Nat]
  /\ current \in {Me, Other}
  /\ Known \subseteq Tx /\ IsFiniteSet(Known)
  /\ proposals \in Seq(Block) /\ fast \in Seq(Event)
  /\ log \in Seq(Event \cup [type : {"TransactionSubmitted"}, t : Tx])
  /\ slow \in Seq(Known) /\ batches \in Seq(Seq(Known))
  /\ checked = NoTx \/ \E t \in Known : checked = <<t>>

(* Our proposals are not on the chain yet, nor made twice.                 *)
ProposalsFresh ==
  /\ \A i \in 1..Len(proposals) : /\ proposals[i].hash \in 1..count.blocks
                                  /\ ToSet(proposals[i].txs) \subseteq Known
                                  /\ \A j \in 1..Len(chain) : chain[j].hash # proposals[i].hash
  /\ \A i, j \in 1..Len(proposals) : proposals[i].hash = proposals[j].hash => i = j

Collections ==
  /\ IsDB(db) /\ IsMem(mem) /\ stop \in Seq(Nat) /\ pool \in SUBSET Challenge
  /\ DOMAIN db.txs \subseteq Known /\ TreesRight(db) /\ StoredRight(db, saving)

(* What a rollback wrote last.                                             *)
Writes == unlanded.blocks \in SUBSET Block /\ IsFiniteSet(unlanded.blocks)

IInv ==
  /\ Types /\ ProposalsFresh /\ Collections
  /\ Leads(fast, db.blocks, chain, count.blocks, Known)

(***************************************************************************)
(* What the steps have in common.                                          *)
(***************************************************************************)
LEMMA CollectionsKept ==
  ASSUME Collections, NEW ts, SameStored(db, db', ts), ts \subseteq Known', Known \subseteq Known',
         IsMem(mem'), stop' = stop, saving' = saving, pool' \in SUBSET Challenge
  PROVE  Collections'
<1>1. IsDB(db') /\ DOMAIN db'.txs \subseteq Known'
  BY DEF Collections, SameStored
<1>2. TreesRight(db')
  BY DEF Collections, SameStored, TreesRight
<1>3. StoredRight(db', saving')
  BY StaysRight DEF Collections
<1>4. QED  BY <1>1, <1>2, <1>3 DEF Collections

LEMMA CollectionsSame ==
  ASSUME Collections, db' = db, Known \subseteq Known',
         IsMem(mem'), stop' = stop, saving' = saving, pool' \in SUBSET Challenge
  PROVE  Collections'
BY DEF Collections

LEMMA CountTypes ==
  ASSUME Types
  PROVE  count.blocks \in Nat /\ count.blocks \in 0..MaxBlocks /\ count.faults \in Nat
         /\ count.rotations \in Nat /\ count.unsent \in Nat /\ count.early \in Nat
BY DEF Types

LEMMA LeadsKept ==
  ASSUME IInv, db'.blocks = db.blocks, fast' = fast, chain' = chain,
         count'.blocks \in Nat, count.blocks <= count'.blocks, Known \subseteq Known'
  PROVE  Leads(fast', db'.blocks, chain', count'.blocks, Known')
<1>1. Leads(fast, db.blocks, chain, count.blocks, Known) /\ count.blocks \in Nat
  BY CountTypes DEF IInv
<1>2. QED  BY <1>1, StillLeads

LEMMA FreshKept ==
  ASSUME IInv, proposals' = proposals, chain' = chain,
         count'.blocks \in Nat, count.blocks <= count'.blocks, Known \subseteq Known'
  PROVE  ProposalsFresh'
<1>1. count.blocks \in Nat
  BY CountTypes DEF IInv
<1>2. \A x \in 1..count.blocks : x \in 1..count'.blocks
  BY <1>1
<1>3. QED  BY <1>2 DEF IInv, ProposalsFresh

(* The events that wait and the new one lead to the new chain.             *)
LEMMA Emitted ==
  ASSUME IInv, NEW e \in Event, fast' = Append(fast, e), db' = db,
         Follows(chain, e, chain'), Chains(chain', count'.blocks, Known'),
         count'.blocks \in Nat, count.blocks <= count'.blocks, Known \subseteq Known'
  PROVE  Leads(fast', db'.blocks, chain', count'.blocks, Known')
<1>1. Leads(fast, db.blocks, chain, count.blocks, Known) /\ count.blocks \in Nat
      /\ fast \in Seq(Event)
  BY CountTypes DEF IInv, Types
<1>2. Leads(fast, db.blocks, chain, count'.blocks, Known')
  BY <1>1, StillLeads
<1>3. QED  BY <1>1, <1>2, LeadsOn

LEMMA Logged ==
  ASSUME Types, NEW e \in Event
  PROVE  /\ Append(fast, e) \in Seq(Event)
         /\ (IF KeepLog THEN Append(log, e) ELSE log)
              \in Seq(Event \cup [type : {"TransactionSubmitted"}, t : Tx])
         /\ Len(log) + 1 \in Nat
<1> DEFINE S == Event \cup [type : {"TransactionSubmitted"}, t : Tx]
<1>1. log \in Seq(S) /\ fast \in Seq(Event) /\ e \in S
  BY DEF Types
<1> HIDE DEF S
<1>2. Append(log, e) \in Seq(S) /\ Len(log) + 1 \in Nat
  BY <1>1
<1>3. Append(fast, e) \in Seq(Event)
  BY <1>1
<1>4. QED  BY <1>1, <1>2, <1>3 DEF S

LEMMA EndsOfEvents ==
  ASSUME IInv
  PROVE  /\ Chains(chain, count.blocks, Known) /\ Chains(db.blocks, count.blocks, Known)
         /\ chain \in Seq(Block) /\ Len(chain) \in Nat
<1>1. Chains(chain, count.blocks, Known) /\ Chains(db.blocks, count.blocks, Known)
  BY BothEnds DEF IInv, Types
<1>2. QED  BY <1>1 DEF Chains

(***************************************************************************)
(* The steps.                                                              *)
(***************************************************************************)
LEMMA InitRight == Init => IInv
<1> SUFFICES ASSUME Init PROVE IInv
  OBVIOUS
<1>1. /\ <<>> \in Seq(Nat) /\ <<>> \in Seq(Event) /\ <<>> \in Seq(Block)
      /\ <<>> \in Seq(Known) /\ <<>> \in Seq(Seq(Known))
      /\ <<>> \in Seq(Event \cup [type : {"TransactionSubmitted"}, t : Tx])
      /\ Len(<<>>) = 0
  OBVIOUS
<1>2. Known = {}
  BY DEF Init, Known
<1>3. Types
  <2>1. 0 \in 0..MaxBlocks
    BY BoundsAssumption
  <2>2. count \in [blocks : 0..MaxBlocks, faults : Nat, rotations : Nat, unsent : Nat, early : Nat]
    BY <2>1 DEF Init
  <2>3. IsFiniteSet({})
    BY FS_EmptySet
  <2>4. /\ proposals = <<>> /\ fast = <<>> /\ log = <<>> /\ slow = <<>> /\ batches = <<>>
        /\ checked = NoTx /\ current = Me
    BY DEF Init
  <2>5. QED  BY <1>1, <1>2, <2>2, <2>3, <2>4 DEF Types
<1>4. ProposalsFresh
  BY <1>1 DEF Init, ProposalsFresh
<1>5. db.blocks = <<>> /\ db.txs = <<>> /\ db.trees = <<>> /\ db.commits = <<>> /\ saving = {}
  BY DEF Init, EmptyDB
<1>6. Collections
  <2>1. db \in [blocks : Seq(Block), trees : {db.trees}, txs : {db.txs}, commits : {db.commits}]
    BY <1>1 DEF Init, EmptyDB
  <2>2. DOMAIN db.txs = {}
    BY <1>5
  <2>3. IsDB(db)
    BY <2>1, <2>2 DEF IsDB
  <2>4. mem \in [isMe : BOOLEAN, local : Local, last : {mem.last}, attempts : {mem.attempts},
                 challenging : {mem.challenging}]
    BY LocalReset DEF Init
  <2>5. TreesRight(db)
    BY <1>1, <1>5 DEF TreesRight
  <2>6. StoredRight(db, saving)
    BY <1>1, <1>5, <2>2 DEF StoredRight
  <2>7. stop = <<>> /\ pool = {}
    BY DEF Init
  <2>8. QED  BY <1>1, <1>2, <2>2, <2>3, <2>4, <2>5, <2>6, <2>7 DEF Collections, IsMem
<1>7. Leads(fast, db.blocks, chain, count.blocks, Known)
  <2>1. fast = <<>> /\ chain = <<>>
    BY DEF Init
  <2>2. QED  BY <1>5, <2>1, NoBlocks, NothingWaits
<1>8. QED  BY <1>3, <1>4, <1>6, <1>7 DEF IInv

LEMMA HandleEventRight == IInv /\ HandleEvent => IInv'
<1> SUFFICES ASSUME IInv, HandleEvent PROVE IInv'
  OBVIOUS
<1>1. /\ fast # <<>> /\ saving = {} /\ fast' = Tail(fast)
      /\ UNCHANGED <<chain, log, current, roots, proposals, count, slow, checked,
                     batches, resetting>>
  BY DEF HandleEvent, AllWritten
<1>2. fast \in Seq(Event)
  BY DEF IInv, Types
<1>3. Head(fast) \in Event /\ Tail(fast) \in Seq(Event)
  BY <1>1, <1>2, TookFirst
<1>4. PICK a \in Seq(Block) : /\ Follows(db.blocks, Head(fast), a)
                              /\ Chains(a, count.blocks, Known)
                              /\ Leads(Tail(fast), a, chain, count.blocks, Known)
  BY <1>1, <1>2, LeadsFrom DEF IInv
<1> DEFINE r == Handled(Node, Head(fast))
<1>5. db' = r.db /\ mem' = r.mem /\ stop' = r.stop /\ pool' = r.pool /\ saving' = r.saving
  BY DEF HandleEvent, Becomes
<1>6. Settled(Node) /\ Node.db = db
  BY <1>1 DEF Settled, IInv, Collections, IsNode, Node
<1>7. Chains(db.blocks, count.blocks, Known)
  BY EndsOfEvents
<1>8. Outcome(Node, r, a)
  BY <1>3, <1>4, <1>6, <1>7, HandledRight
<1> HIDE DEF r
<1>9. IsDB(r.db) /\ IsMem(r.mem) /\ r.stop \in Seq(Nat) /\ r.pool \in SUBSET Challenge
  BY <1>8 DEF Outcome, IsNode
<1>10. Known' = Known
  BY <1>1 DEF Known
<1>11. Collections'
  BY <1>5, <1>6, <1>8, <1>9, <1>10 DEF Collections, Outcome, IInv
<1>12. Types'
  BY <1>1, <1>3, <1>10 DEF Types, IInv
<1>13. ProposalsFresh'
  BY <1>1, <1>10 DEF ProposalsFresh, IInv
<1>14. Leads(fast', db'.blocks, chain', count'.blocks, Known')
  BY <1>1, <1>4, <1>5, <1>8, <1>10 DEF Outcome
<1>15. QED  BY <1>11, <1>12, <1>13, <1>14 DEF IInv

LEMMA SaveLandsRight == IInv /\ SaveLands => IInv'
<1> SUFFICES ASSUME IInv, SaveLands PROVE IInv'
  OBVIOUS
<1>1. PICK p \in saving : /\ db' = SaveBlockTransaction(db, p[1], p[2])
                          /\ saving' = saving \ {p}
  BY DEF SaveLands
<1>2. UNCHANGED <<chainVars, mem, fast, slow, stop, checked, batches, resetting>>
  BY DEF SaveLands
<1>3. Known' = Known /\ count.blocks \in Nat
  BY <1>2, CountTypes DEF Known, chainVars, IInv
<1> DEFINE e == SaveBlockTransaction(db, p[1], p[2])
<1>4. IsDB(db) /\ StoredRight(db, saving)
  BY DEF IInv, Collections
<1>5. /\ IsDB(e) /\ e.blocks = db.blocks /\ e.trees = db.trees
      /\ DOMAIN e.txs \subseteq DOMAIN db.txs \cup {p[1]}
      /\ StoredRight(e, saving \ {p})
  BY <1>4, LandedRight
<1>6. db' = e
  BY <1>1
<1> HIDE DEF e
<1>7. p[1] \in Known
  <2>1. db.blocks # <<>> /\ p[1] \in ToSet(db.blocks[Len(db.blocks)].txs)
    BY <1>4 DEF StoredRight
  <2>2. db.blocks \in Seq(Block) /\ Chains(db.blocks, count.blocks, Known)
    BY <1>4, EndsOfEvents DEF IsDB
  <2>3. Len(db.blocks) \in 1..Len(db.blocks)
    BY <2>1, <2>2
  <2>4. QED  BY <2>1, <2>2, <2>3 DEF Chains
<1>8. TreesRight(db')
  BY <1>5, <1>6 DEF TreesRight, IInv, Collections
<1>9. Collections'
  BY <1>1, <1>2, <1>3, <1>5, <1>6, <1>7, <1>8 DEF Collections, IInv, chainVars
<1>10. Types' /\ ProposalsFresh'
  BY <1>2, <1>3 DEF Types, ProposalsFresh, IInv, chainVars
<1>11. Leads(fast', db'.blocks, chain', count'.blocks, Known')
  BY <1>2, <1>3, <1>5, <1>6, LeadsKept DEF chainVars
<1>12. QED  BY <1>9, <1>10, <1>11 DEF IInv

LEMMA RollbackLandsRight == IInv /\ RollbackLands => IInv'
<1> SUFFICES ASSUME IInv, RollbackLands PROVE IInv'
  OBVIOUS
<1>1. UNCHANGED <<chainVars, db, mem, fast, slow, stop, checked, batches, saving, resetting>>
  BY DEF RollbackLands
<1>2. Known' = Known /\ count.blocks \in Nat
  BY <1>1, CountTypes DEF Known, chainVars, IInv
<1>3. Types' /\ Collections' /\ ProposalsFresh'
  BY <1>1, <1>2 DEF Types, Collections, ProposalsFresh, IInv, chainVars
<1>4. Leads(fast', db'.blocks, chain', count'.blocks, Known')
  BY <1>1, <1>2, LeadsKept DEF chainVars
<1>5. QED  BY <1>3, <1>4 DEF IInv

LEMMA CheckSubmittedRight == IInv /\ CheckSubmitted => IInv'
<1> SUFFICES ASSUME IInv, CheckSubmitted PROVE IInv'
  OBVIOUS
<1>1. UNCHANGED <<chainVars, db, mem, fast, stop, batches, saving, resetting>>
  BY DEF CheckSubmitted
<1>2. Known' = Known /\ count.blocks \in Nat
  BY <1>1, CountTypes DEF Known, chainVars, IInv
<1>3. slow # <<>> /\ slow' = Tail(slow) /\ checked' \in {<<Head(slow)>>, NoTx}
  BY DEF CheckSubmitted
<1>4. slow \in Seq(Known)
  BY DEF IInv, Types
<1>5. Tail(slow) \in Seq(Known) /\ Head(slow) \in Known
  BY <1>3, <1>4, TookFirst
<1>6. Types'
  BY <1>1, <1>2, <1>3, <1>5 DEF Types, IInv, chainVars
<1>7. Collections' /\ ProposalsFresh'
  BY <1>1, <1>2 DEF Collections, ProposalsFresh, IInv, chainVars
<1>8. Leads(fast', db'.blocks, chain', count'.blocks, Known')
  BY <1>1, <1>2, LeadsKept DEF chainVars
<1>9. QED  BY <1>6, <1>7, <1>8 DEF IInv

LEMMA SaveSubmittedRight == IInv /\ SaveSubmitted => IInv'
<1> SUFFICES ASSUME IInv, SaveSubmitted PROVE IInv'
  OBVIOUS
<1>1. UNCHANGED <<chainVars, mem, fast, slow, stop, batches, saving, resetting>>
  BY DEF SaveSubmitted
<1>2. Known' = Known /\ count.blocks \in Nat
  BY <1>1, CountTypes DEF Known, chainVars, IInv
<1>3. PICK t \in Known : checked = <<t>>
  BY DEF SaveSubmitted, IInv, Types
<1> DEFINE d1 == DeleteDuplicatesFromMemPool(db, Commitments[t], Nullifiers[t], DOMAIN unlanded.txs)
           d2 == SaveTransaction(d1, t)
<1>4. db' = d2 /\ checked' = NoTx
  BY <1>3 DEF SaveSubmitted
<1>5. IsDB(db)
  BY DEF IInv, Collections
<1>6. SameStored(db, d1, {})
  BY <1>5, DuplicatesGone
<1> HIDE DEF d1
<1>7. SameStored(d1, d2, {t})
  BY <1>6, SavedOne DEF SameStored
<1> HIDE DEF d2
<1>8. SameStored(db, db', {} \cup {t})
  BY <1>4, <1>6, <1>7, SameTwice
<1>9. Collections'
  <2>1. Collections /\ IsMem(mem') /\ pool' \in SUBSET Challenge
    BY <1>1 DEF IInv, Collections, chainVars
  <2>2. {} \cup {t} \subseteq Known'
    BY <1>2
  <2>3. QED  BY <1>1, <1>2, <1>8, <2>1, <2>2, CollectionsKept
<1>10. Types' /\ ProposalsFresh'
  BY <1>1, <1>2, <1>4 DEF Types, ProposalsFresh, IInv, chainVars
<1>11. db'.blocks = db.blocks
  BY <1>8 DEF SameStored
<1>12. Leads(fast', db'.blocks, chain', count'.blocks, Known')
  BY <1>1, <1>2, <1>11, LeadsKept DEF chainVars
<1>13. QED  BY <1>9, <1>10, <1>12 DEF IInv

LEMMA ResetLocalBlockRight == IInv /\ ResetLocalBlock => IInv'
<1> SUFFICES ASSUME IInv, ResetLocalBlock PROVE IInv'
  OBVIOUS
<1>1. UNCHANGED <<chainVars, fast, slow, stop, checked, batches, saving>>
  BY DEF ResetLocalBlock
<1>2. Known' = Known /\ count.blocks \in Nat
  BY <1>1, CountTypes DEF Known, chainVars, IInv
<1>3. db' = ResetUnsuccessful(db) /\ mem' = [mem EXCEPT !.local = ResetLocal]
  BY DEF ResetLocalBlock
<1>4. IsDB(db) /\ IsMem(mem) /\ Collections
  BY DEF IInv, Collections
<1>5. SameStored(db, db', {}) /\ IsMem(mem')
  BY <1>3, <1>4, PutBack, MemKept
<1>6. Collections'
  <2>1. pool' \in SUBSET Challenge
    BY <1>1, <1>4 DEF Collections, chainVars
  <2>2. QED  BY <1>1, <1>2, <1>4, <1>5, <2>1, CollectionsKept
<1>7. Types' /\ ProposalsFresh'
  BY <1>1, <1>2 DEF Types, ProposalsFresh, IInv, chainVars
<1>8. db'.blocks = db.blocks
  BY <1>5 DEF SameStored
<1>9. Leads(fast', db'.blocks, chain', count'.blocks, Known')
  BY <1>1, <1>2, <1>8, LeadsKept DEF chainVars
<1>10. QED  BY <1>6, <1>7, <1>9 DEF IInv

(* A rollback, a rotation or a commit on chain.                            *)
LEMMA EmittedRight ==
  ASSUME IInv, NEW e \in Event, Emit(e), Follows(chain, e, chain'),
         Chains(chain', count.blocks, Known),
         \A j \in 1..Len(chain') : \E k \in 1..Len(chain) : chain'[j] = chain[k],
         current' \in {Me, Other}, pool' \in SUBSET Challenge,
         count' \in [blocks : 0..MaxBlocks, faults : Nat, rotations : Nat, unsent : Nat, early : Nat],
         count'.blocks = count.blocks,
         UNCHANGED <<roots, proposals, db, mem, slow, stop, checked, batches, saving>>
  PROVE  IInv'
<1>1. Known' = Known /\ count.blocks \in Nat /\ count'.blocks \in Nat
      /\ count.blocks <= count'.blocks
  BY CountTypes DEF Known, IInv
<1>2. fast' = Append(fast, e) /\ log' = IF KeepLog THEN Append(log, e) ELSE log
  BY DEF Emit
<1>3. Types /\ fast' \in Seq(Event)
      /\ log' \in Seq(Event \cup [type : {"TransactionSubmitted"}, t : Tx])
  BY <1>2, Logged DEF IInv
<1>4. Types'
  BY <1>1, <1>3 DEF Types
<1>5. ProposalsFresh'
  BY <1>1 DEF ProposalsFresh, IInv
<1>6. Collections'
  BY <1>1, CollectionsSame DEF IInv, Collections
<1>7. Leads(fast', db'.blocks, chain', count'.blocks, Known')
  BY <1>1, <1>2, Emitted
<1>8. QED  BY <1>4, <1>5, <1>6, <1>7 DEF IInv

LEMMA ChangeCurrentProposerRight == IInv /\ ChangeCurrentProposer => IInv'
<1> SUFFICES ASSUME IInv, ChangeCurrentProposer PROVE IInv'
  OBVIOUS
<1>1. PICK p \in {Me, Other} : current' = p /\ Emit([type |-> "NewCurrentProposer", p |-> p])
  BY DEF ChangeCurrentProposer
<1> DEFINE e == [type |-> "NewCurrentProposer", p |-> p]
<1>2. e \in Event /\ e.type = "NewCurrentProposer"
  BY DEF Event
<1>3. UNCHANGED <<chain, roots, proposals, pool, db, mem, slow, stop, checked, batches,
                  saving, resetting>>
  BY DEF ChangeCurrentProposer
<1>4. count' = [count EXCEPT !.rotations = @ + 1]
  BY DEF ChangeCurrentProposer, Count
<1>5. count' \in [blocks : 0..MaxBlocks, faults : Nat, rotations : Nat, unsent : Nat, early : Nat]
      /\ count'.blocks = count.blocks
  <2>1. count \in [blocks : 0..MaxBlocks, faults : Nat, rotations : Nat, unsent : Nat, early : Nat]
    BY DEF IInv, Types
  <2>2. QED  BY <1>4, <2>1
<1>6. Emit(e)
  BY <1>1
<1> HIDE DEF e
<1>7. Follows(chain, e, chain')
  BY <1>2, <1>3 DEF Follows
<1>8. Chains(chain', count.blocks, Known)
  BY <1>3, EndsOfEvents
<1>9. pool' \in SUBSET Challenge
  BY <1>3 DEF IInv, Collections
<1>10. \A j \in 1..Len(chain') : \E k \in 1..Len(chain) : chain'[j] = chain[k]
  BY <1>3
<1>11. QED  BY <1>1, <1>2, <1>3, <1>5, <1>6, <1>7, <1>8, <1>9, <1>10, EmittedRight

LEMMA MineCommitRight == IInv /\ MineCommit => IInv'
<1> SUFFICES ASSUME IInv, MineCommit PROVE IInv'
  OBVIOUS
<1>1. PICK tx \in pool : pool' = pool \ {tx} /\ Emit([type |-> "CommittedToChallenge", c |-> tx.c])
  BY DEF MineCommit
<1> DEFINE e == [type |-> "CommittedToChallenge", c |-> tx.c]
<1>2. tx.c \in Nat
  BY DEF IInv, Collections, Challenge
<1>3. e \in Event /\ e.type = "CommittedToChallenge"
  BY <1>2 DEF Event
<1>4. UNCHANGED <<chain, current, roots, proposals, count, db, mem, slow, stop,
                  checked, batches, saving, resetting>>
  BY DEF MineCommit
<1>5. Emit(e)
  BY <1>1
<1> HIDE DEF e
<1>6. Follows(chain, e, chain')
  BY <1>3, <1>4 DEF Follows
<1>7. Chains(chain', count.blocks, Known)
  BY <1>4, EndsOfEvents
<1>8. pool' \in SUBSET Challenge /\ current' \in {Me, Other} /\ count'.blocks = count.blocks
      /\ count' \in [blocks : 0..MaxBlocks, faults : Nat, rotations : Nat, unsent : Nat, early : Nat]
  BY <1>1, <1>4 DEF IInv, Collections, Types
<1>9. \A j \in 1..Len(chain') : \E k \in 1..Len(chain) : chain'[j] = chain[k]
  BY <1>4
<1>10. QED  BY <1>3, <1>4, <1>5, <1>6, <1>7, <1>8, <1>9, EmittedRight

LEMMA RolledBackOnChain ==
  ASSUME IInv, NEW i \in DOMAIN chain, RollBackTo(i), pool' \in SUBSET Challenge,
         UNCHANGED <<current, roots, proposals, count, db, mem, slow, stop,
                     checked, batches, saving>>
  PROVE  IInv'
<1> DEFINE e == [type |-> "Rollback", n |-> i - 1]
<1>1. chain \in Seq(Block) /\ Chains(chain, count.blocks, Known)
  BY EndsOfEvents
<1>2. i - 1 \in 0..Len(chain) - 1 /\ i - 1 \in 0..Len(chain) /\ i - 1 \in Nat
  BY <1>1
<1>3. e \in Event /\ e.type = "Rollback" /\ e.n = i - 1
  BY <1>2 DEF Event
<1>4. chain' = SubSeq(chain, 1, i - 1) /\ Emit(e)
  BY DEF RollBackTo
<1> HIDE DEF e
<1>5. Follows(chain, e, chain')
  BY <1>2, <1>3, <1>4 DEF Follows
<1>6. Chains(chain', count.blocks, Known)
  BY <1>1, <1>2, <1>4, CutShort
<1>7. \A j \in 1..Len(chain') : \E k \in 1..Len(chain) : chain'[j] = chain[k]
  <2>1. Len(chain') = i - 1 /\ \A j \in 1..i - 1 : chain'[j] = chain[j]
    BY <1>1, <1>2, <1>4, FirstPart
  <2>2. \A j \in 1..i - 1 : j \in 1..Len(chain)
    BY <1>2
  <2>3. QED  BY <2>1, <2>2
<1>8. current' \in {Me, Other} /\ count'.blocks = count.blocks
      /\ count' \in [blocks : 0..MaxBlocks, faults : Nat, rotations : Nat, unsent : Nat, early : Nat]
  BY DEF IInv, Types
<1>9. QED  BY <1>3, <1>4, <1>5, <1>6, <1>7, <1>8, EmittedRight

LEMMA MineRevealRight == IInv /\ MineReveal => IInv'
<1> SUFFICES ASSUME IInv, MineReveal PROVE IInv'
  OBVIOUS
<1>1. UNCHANGED <<current, roots, proposals, count, db, mem, slow, stop,
                  checked, batches, saving, resetting>>
  BY DEF MineReveal
<1>2. pool' \in SUBSET Challenge
  BY DEF MineReveal, IInv, Collections
<1>3. (\E i \in DOMAIN chain : RollBackTo(i)) \/ UNCHANGED <<chain, log, fast>>
  BY DEF MineReveal
<1>4. CASE \E i \in DOMAIN chain : RollBackTo(i)
  BY <1>1, <1>2, <1>4, RolledBackOnChain
<1>5. CASE UNCHANGED <<chain, log, fast>>
  <2>1. Known' = Known /\ count.blocks \in Nat
    BY <1>1, CountTypes DEF Known, IInv
  <2>2. Types' /\ ProposalsFresh' /\ Collections'
    BY <1>1, <1>2, <1>5, <2>1 DEF Types, ProposalsFresh, Collections, IInv
  <2>3. Leads(fast', db'.blocks, chain', count'.blocks, Known')
    BY <1>1, <1>5, <2>1, LeadsKept
  <2>4. QED  BY <2>2, <2>3 DEF IInv
<1>6. QED  BY <1>3, <1>4, <1>5

LEMMA OtherChallengesRight == IInv /\ OtherChallenges => IInv'
<1> SUFFICES ASSUME IInv, OtherChallenges PROVE IInv'
  OBVIOUS
<1>1. PICK i \in DOMAIN chain : RollBackTo(i)
  BY DEF OtherChallenges
<1>2. pool' \in SUBSET Challenge
  BY DEF OtherChallenges, IInv, Collections
<1>3. QED  BY <1>1, <1>2, RolledBackOnChain DEF OtherChallenges

(* A block is appended to the chain.                                       *)
LEMMA LastBefore ==
  ASSUME IInv
  PROVE  TipHash = HashBefore(chain, Len(chain) + 1)
<1>1. chain \in Seq(Block)
  BY EndsOfEvents
<1>2. Len(chain) + 1 = 1 <=> chain = <<>>
  BY <1>1
<1>3. (Len(chain) + 1) - 1 = Len(chain)
  BY <1>1
<1>4. QED  BY <1>2, <1>3 DEF TipHash, HashBefore

LEMMA AppendedToChain ==
  ASSUME IInv, NEW b \in Block, EmitBlock(b), b.n = Len(chain), b.prev = TipHash,
         b.hash \in 1..count'.blocks, ToSet(b.txs) \subseteq Known,
         \A j \in 1..Len(chain) : chain[j].hash # b.hash,
         count' \in [blocks : 0..MaxBlocks, faults : Nat, rotations : Nat, unsent : Nat, early : Nat],
         count.blocks <= count'.blocks,
         UNCHANGED <<current, roots, pool, db, mem, slow, stop, checked, batches, saving>>,
         proposals' \in Seq(Block)
  PROVE  /\ Types' /\ Collections' /\ Leads(fast', db'.blocks, chain', count'.blocks, Known')
         /\ \E x : chain' = Append(chain, x) /\ x.hash = b.hash /\ x \in Block
<1> DEFINE l == Len(log) + 1
           x == [b EXCEPT !.l1 = l]
           e == [type |-> "BlockProposed", block |-> x]
<1>1. Known' = Known /\ count.blocks \in Nat /\ count'.blocks \in Nat
  BY CountTypes DEF Known, IInv
<1>2. chain' = Append(chain, x) /\ Emit(e)
  BY DEF EmitBlock
<1>3. l \in Nat
  BY DEF IInv, Types
<1> HIDE DEF l
<1>4. x \in Block /\ x.hash = b.hash /\ x.n = b.n /\ x.txs = b.txs /\ x.prev = b.prev
  BY <1>3 DEF Block
<1> HIDE DEF x
<1>5. e \in Event /\ e.type = "BlockProposed" /\ e.block = x
  BY <1>4 DEF Event
<1> HIDE DEF e
<1>6. Chains(chain, count.blocks, Known)
  BY EndsOfEvents
<1>7. Chains(chain, count'.blocks, Known)
  BY <1>1, <1>6, MoreKnown
<1>8. Chains(chain', count'.blocks, Known)
  <2>1. x.prev = HashBefore(chain, Len(chain) + 1)
    BY <1>4, LastBefore
  <2>2. QED  BY <1>1, <1>2, <1>4, <1>7, <2>1, OneMore
<1>9. Follows(chain, e, chain')
  BY <1>2, <1>5 DEF Follows
<1>10. fast' = Append(fast, e) /\ log' = IF KeepLog THEN Append(log, e) ELSE log
  BY <1>2 DEF Emit
<1>11. Leads(fast', db'.blocks, chain', count'.blocks, Known')
  BY <1>1, <1>5, <1>8, <1>9, <1>10, Emitted
<1>12. Types /\ fast' \in Seq(Event)
       /\ log' \in Seq(Event \cup [type : {"TransactionSubmitted"}, t : Tx])
  BY <1>5, <1>10, Logged DEF IInv
<1>13. Types'
  BY <1>1, <1>12 DEF Types
<1>14. Collections'
  BY <1>1, CollectionsSame DEF IInv, Collections
<1>15. QED  BY <1>2, <1>4, <1>11, <1>13, <1>14

LEMMA MineProposalRight == IInv /\ MineProposal => IInv'
<1> SUFFICES ASSUME IInv, MineProposal PROVE IInv'
  OBVIOUS
<1>1. /\ proposals # <<>> /\ proposals' = Tail(proposals)
      /\ UNCHANGED <<current, roots, pool, count, db, mem, slow, stop, checked, batches, saving>>
  BY DEF MineProposal
<1>2. Known' = Known /\ count.blocks \in Nat
  BY <1>1, CountTypes DEF Known, IInv
<1>3. proposals \in Seq(Block)
  BY DEF IInv, Types
<1> DEFINE b == Head(proposals)
<1>4. /\ Tail(proposals) \in Seq(Block) /\ Len(Tail(proposals)) = Len(proposals) - 1
      /\ Len(proposals) \in Nat \ {0}
      /\ \A i \in 1..Len(proposals) - 1 : Tail(proposals)[i] = proposals[i + 1]
      /\ b = proposals[1] /\ b \in Block
  BY <1>1, <1>3, TookFirst
<1> HIDE DEF b
<1>5. /\ \A i \in 1..Len(proposals') : i + 1 \in 1..Len(proposals) /\ proposals'[i] = proposals[i + 1]
      /\ 1 \in 1..Len(proposals)
  BY <1>1, <1>4
<1>6. \A i \in 1..Len(proposals') : i + 1 # 1
  OBVIOUS
<1>7. /\ \A i, j \in 1..Len(proposals') : proposals'[i].hash = proposals'[j].hash => i = j
      /\ \A i \in 1..Len(proposals') : proposals'[i].hash # b.hash
  BY <1>4, <1>5, <1>6 DEF IInv, ProposalsFresh
<1>8. \A i \in 1..Len(proposals') :
        /\ proposals'[i].hash \in 1..count'.blocks
        /\ ToSet(proposals'[i].txs) \subseteq Known'
        /\ \A j \in 1..Len(chain) : chain[j].hash # proposals'[i].hash
  BY <1>1, <1>2, <1>5 DEF IInv, ProposalsFresh
<1>9. (b.n = Len(chain) /\ b.prev = TipHash /\ EmitBlock(b)) \/ UNCHANGED <<chain, log, fast>>
  BY DEF MineProposal, b
<1>10. CASE b.n = Len(chain) /\ b.prev = TipHash /\ EmitBlock(b)
  <2>1. /\ b.hash \in 1..count'.blocks /\ ToSet(b.txs) \subseteq Known
        /\ \A j \in 1..Len(chain) : chain[j].hash # b.hash
    BY <1>1, <1>4, <1>5 DEF IInv, ProposalsFresh
  <2>2. count' \in [blocks : 0..MaxBlocks, faults : Nat, rotations : Nat, unsent : Nat, early : Nat]
        /\ count.blocks <= count'.blocks
    BY <1>1, <1>2 DEF IInv, Types
  <2>3. /\ Types' /\ Collections' /\ Leads(fast', db'.blocks, chain', count'.blocks, Known')
        /\ \E x : chain' = Append(chain, x) /\ x.hash = b.hash /\ x \in Block
    BY <1>1, <1>4, <1>10, <2>1, <2>2, AppendedToChain
  <2>4. PICK x \in Block : chain' = Append(chain, x) /\ x.hash = b.hash
    BY <2>3
  <2>5. chain \in Seq(Block)
    BY EndsOfEvents
  <2>6. /\ Len(chain') = Len(chain) + 1 /\ chain'[Len(chain) + 1] = x
        /\ \A j \in 1..Len(chain) : chain'[j] = chain[j]
        /\ Len(chain) \in Nat
    BY <2>4, <2>5, AppendedOne
  <2>7. \A j \in 1..Len(chain') : j \in 1..Len(chain) \/ j = Len(chain) + 1
    BY <2>6
  <2>8. \A i \in 1..Len(proposals') : \A j \in 1..Len(chain') : chain'[j].hash # proposals'[i].hash
    BY <1>7, <1>8, <2>4, <2>6, <2>7
  <2>9. ProposalsFresh'
    BY <1>7, <1>8, <2>8 DEF ProposalsFresh
  <2>10. QED  BY <2>3, <2>9 DEF IInv
<1>11. CASE UNCHANGED <<chain, log, fast>>
  <2>1. Types'
    BY <1>1, <1>2, <1>4, <1>11 DEF Types, IInv
  <2>2. ProposalsFresh'
    BY <1>7, <1>8, <1>11 DEF ProposalsFresh
  <2>3. Collections'
    BY <1>1, <1>2 DEF Collections, IInv
  <2>4. Leads(fast', db'.blocks, chain', count'.blocks, Known')
    BY <1>1, <1>2, <1>11, LeadsKept
  <2>5. QED  BY <2>1, <2>2, <2>3, <2>4 DEF IInv
<1>12. QED  BY <1>9, <1>10, <1>11

Made(h, n, prev, txs, fault, by, tree) ==
  [NoBlock EXCEPT !.hash = h, !.n = n, !.prev = prev, !.txs = txs,
                  !.fault = fault, !.by = by, !.tree = tree]

LEMMA BlockMade ==
  ASSUME NEW h \in Nat, NEW n \in Int, NEW prev \in Nat, NEW txs \in Seq(Tx),
         NEW fault \in BOOLEAN, NEW by \in {Me, Other}, NEW tree \in Seq(Nat)
  PROVE  /\ Made(h, n, prev, txs, fault, by, tree) \in Block
         /\ Made(h, n, prev, txs, fault, by, tree).hash = h
         /\ Made(h, n, prev, txs, fault, by, tree).n = n
         /\ Made(h, n, prev, txs, fault, by, tree).prev = prev
         /\ Made(h, n, prev, txs, fault, by, tree).fault = fault
         /\ Made(h, n, prev, txs, fault, by, tree).by = by
         /\ Made(h, n, prev, txs, fault, by, tree).tree = tree
         /\ Made(h, n, prev, txs, fault, by, tree).txs = txs
<1> DEFINE b1 == [NoBlock EXCEPT !.hash = h, !.n = n, !.prev = prev]
           b2 == [b1 EXCEPT !.txs = txs, !.fault = fault]
           b3 == [b2 EXCEPT !.by = by, !.tree = tree]
           b == Made(h, n, prev, txs, fault, by, tree)
<1>1. NoBlock \in Block
  <2>1. <<>> \in Seq(Tx) /\ <<>> \in Seq(Nat)
    OBVIOUS
  <2>2. QED  BY <2>1 DEF NoBlock, Block, NoHash
<1>2. b = b3
  BY DEF Made
<1>3. b1 \in Block /\ b1.hash = h /\ b1.n = n /\ b1.prev = prev
  BY <1>1 DEF Block
<1> HIDE DEF b1
<1>4. b2 \in Block /\ b2.hash = h /\ b2.n = n /\ b2.prev = prev /\ b2.txs = txs /\ b2.fault = fault
  BY <1>3 DEF Block
<1> HIDE DEF b2
<1>5. /\ b3 \in Block /\ b3.hash = h /\ b3.n = n /\ b3.prev = prev /\ b3.txs = txs
      /\ b3.fault = fault /\ b3.by = by /\ b3.tree = tree
  BY <1>4 DEF Block
<1> HIDE DEF b3, b
<1>6. QED  BY <1>2, <1>5 DEF b

LEMMA OtherProposesRight == IInv /\ OtherProposes => IInv'
<1> SUFFICES ASSUME IInv, OtherProposes PROVE IInv'
  OBVIOUS
<1>1. PICK t \in Known, fault \in BOOLEAN :
        /\ EmitBlock([NoBlock EXCEPT !.hash = count.blocks + 1, !.n = Len(chain),
                      !.prev = TipHash, !.txs = <<t>>, !.fault = fault, !.by = Other,
                      !.tree = Append(ChainTree, count.blocks + 1)])
        /\ count' = [count EXCEPT !.blocks = @ + 1, !.faults = @ + (IF fault THEN 1 ELSE 0)]
  BY DEF OtherProposes, Known
<1>2. /\ count.blocks < MaxBlocks
      /\ UNCHANGED <<current, roots, proposals, pool, db, mem, slow, stop, checked,
                     batches, saving, resetting>>
  <2>1. /\ count.blocks + Len(batches) < MaxBlocks
        /\ UNCHANGED <<current, roots, proposals, pool, db, mem, slow, stop, checked,
                       batches, saving, resetting>>
    BY DEF OtherProposes
  <2>2. Len(batches) \in Nat /\ count.blocks \in Nat /\ MaxBlocks \in Nat
    BY CountTypes, BoundsAssumption DEF IInv, Types
  <2>3. QED  BY <2>1, <2>2
<1>3. Known' = Known /\ count.blocks \in 0..MaxBlocks /\ count.faults \in Nat
  BY <1>2, CountTypes DEF Known, IInv
<1>4. count' \in [blocks : 0..MaxBlocks, faults : Nat, rotations : Nat, unsent : Nat, early : Nat]
      /\ count'.blocks = count.blocks + 1
  <2>1. count \in [blocks : 0..MaxBlocks, faults : Nat, rotations : Nat, unsent : Nat, early : Nat]
    BY DEF IInv, Types
  <2>2. count.blocks + 1 \in 0..MaxBlocks
    BY <1>2, <1>3, BoundsAssumption
  <2>3. count.faults + (IF fault THEN 1 ELSE 0) \in Nat
    BY <1>3
  <2>4. QED  BY <1>1, <2>1, <2>2, <2>3
<1>5. chain \in Seq(Block) /\ Chains(chain, count.blocks, Known) /\ Len(chain) \in Nat
  BY EndsOfEvents
<1> DEFINE h == count.blocks + 1
           prev == TipHash
           tree == Append(ChainTree, h)
           n == Len(chain)
           txs == <<t>>
           b == Made(h, n, prev, txs, fault, Other, tree)
<1>6. \A i \in 1..Len(chain) : chain[i].hash \in Nat
  <2>1. \A i \in 1..Len(chain) : chain[i] \in Block
    BY <1>5
  <2>2. QED  BY <2>1, BlockFields
<1>7. prev \in Nat
  <2>1. chain # <<>> => Len(chain) \in 1..Len(chain)
    BY <1>5
  <2>2. QED  BY <1>6, <2>1 DEF TipHash, NoHash
<1>8. tree \in Seq(Nat)
  <2>1. ChainTree = [i \in 1..Len(chain) |-> chain[i].hash]
    BY <1>5 DEF ChainTree
  <2>2. ChainTree \in Seq(Nat)
    BY <1>5, <1>6, <2>1
  <2>3. h \in Nat
    BY <1>3
  <2>4. QED  BY <2>2, <2>3
<1>9. h \in Nat /\ h \in 1..count'.blocks /\ Len(chain) \in Int
      /\ \A x \in 1..count.blocks : x # h
  BY <1>3, <1>4, <1>5
<1>10. <<t>> \in Seq(Tx) /\ ToSet(<<t>>) \subseteq Known
  <2>1. t \in Tx
    BY DEF IInv, Types
  <2>2. QED  BY <2>1 DEF ToSet
<1>11. EmitBlock(b)
  BY <1>1 DEF Made
<1>12. /\ b \in Block /\ b.hash = h /\ b.n = Len(chain) /\ b.txs = <<t>> /\ b.prev = TipHash
  <2>1. Other \in {Me, Other} /\ txs \in Seq(Tx) /\ n \in Int /\ fault \in BOOLEAN
    BY <1>1, <1>9, <1>10
  <2> HIDE DEF h, prev, tree, n, txs
  <2>0. h \in Nat
    BY <1>9
  <2>2. b \in Block /\ b.hash = h /\ b.n = n /\ b.txs = txs /\ b.prev = prev
    BY <1>7, <1>8, <2>0, <2>1, BlockMade
  <2> HIDE DEF b
  <2>3. QED  BY <2>2 DEF n, txs, prev
<1> HIDE DEF h, prev, tree, n, txs
<1> HIDE DEF b
<1>13. \A j \in 1..Len(chain) : chain[j].hash # h
  BY <1>5, <1>9 DEF Chains
<1>14. proposals' \in Seq(Block) /\ count.blocks <= count'.blocks /\ count'.blocks \in Nat
  BY <1>2, <1>3, <1>4 DEF IInv, Types
<1>15. /\ Types' /\ Collections' /\ Leads(fast', db'.blocks, chain', count'.blocks, Known')
       /\ \E x : chain' = Append(chain, x) /\ x.hash = b.hash /\ x \in Block
  BY <1>2, <1>4, <1>9, <1>10, <1>11, <1>12, <1>13, <1>14, AppendedToChain
<1>16. PICK x \in Block : chain' = Append(chain, x) /\ x.hash = h
  BY <1>12, <1>15
<1>17. /\ Len(chain') = Len(chain) + 1 /\ chain'[Len(chain) + 1] = x
       /\ \A j \in 1..Len(chain) : chain'[j] = chain[j]
  BY <1>5, <1>16, AppendedOne
<1>18. \A j \in 1..Len(chain') : j \in 1..Len(chain) \/ j = Len(chain) + 1
  BY <1>5, <1>17
<1>19. \A i \in 1..Len(proposals) :
         /\ proposals[i].hash \in 1..count.blocks
         /\ ToSet(proposals[i].txs) \subseteq Known
         /\ \A j \in 1..Len(chain) : chain[j].hash # proposals[i].hash
  BY DEF IInv, ProposalsFresh
<1>20. \A x0 \in 1..count.blocks : x0 \in 1..count'.blocks
  BY <1>3, <1>14
<1>21. \A i \in 1..Len(proposals) : \A j \in 1..Len(chain') : chain'[j].hash # proposals[i].hash
  BY <1>9, <1>16, <1>17, <1>18, <1>19
<1>22. ProposalsFresh'
  BY <1>2, <1>3, <1>19, <1>20, <1>21 DEF ProposalsFresh, IInv
<1>23. QED  BY <1>15, <1>22 DEF IInv

LEMMA SubmitTransactionRight == IInv /\ SubmitTransaction => IInv'
<1> SUFFICES ASSUME IInv, SubmitTransaction PROVE IInv'
  OBVIOUS
<1>1. PICK t \in Tx \ Known, onChain \in BOOLEAN :
        /\ \E r : roots' = With(roots, t, r)
        /\ slow' = Append(slow, t)
        /\ log' = IF onChain /\ KeepLog
                  THEN Append(log, [type |-> "TransactionSubmitted", t |-> t]) ELSE log
  BY DEF SubmitTransaction, Known
<1>2. UNCHANGED <<chain, current, proposals, pool, count, db, mem, fast, stop,
                  checked, batches, saving, resetting>>
  BY DEF SubmitTransaction
<1>3. Known' = Known \cup {t}
  BY <1>1 DEF Known, With
<1>4. count.blocks \in Nat /\ count'.blocks \in Nat /\ count.blocks <= count'.blocks
      /\ Known \subseteq Known'
  BY <1>2, <1>3, CountTypes DEF IInv
<1>5. Types'
  <2> DEFINE S == Event \cup [type : {"TransactionSubmitted"}, t : Tx]
             e == [type |-> "TransactionSubmitted", t |-> t]
  <2>1. e \in S
    OBVIOUS
  <2>2. log \in Seq(S)
    BY DEF IInv, Types
  <2> HIDE DEF S, e
  <2>3. Append(log, e) \in Seq(S)
    BY <2>1, <2>2
  <2>4. log' \in Seq(S)
    BY <1>1, <2>2, <2>3 DEF e
  <2>5. IsFiniteSet(Known') /\ Known' \subseteq Tx
    BY <1>3, FS_AddElement DEF IInv, Types
  <2>6. slow \in Seq(Known')
    BY <1>4 DEF IInv, Types
  <2>7. slow' \in Seq(Known')
    BY <1>1, <1>3, <2>6
  <2>8. batches \in Seq(Seq(Known'))
    <3>1. batches \in Seq(Seq(Known)) /\ Seq(Known) \subseteq Seq(Known')
      BY <1>4 DEF IInv, Types
    <3> DEFINE A == Seq(Known)
               B == Seq(Known')
    <3>2. batches \in Seq(A) /\ A \subseteq B
      BY <3>1
    <3> HIDE DEF A, B
    <3>3. batches \in Seq(B)
      BY <3>2
    <3>4. QED  BY <3>3 DEF B
  <2>9. checked = NoTx \/ \E u \in Known' : checked = <<u>>
    BY <1>4 DEF IInv, Types
  <2>10. QED  BY <1>2, <2>4, <2>5, <2>7, <2>8, <2>9 DEF S, IInv, Types
<1>6. ProposalsFresh'
  BY <1>2, <1>4, FreshKept
<1>7. Collections'
  BY <1>2, <1>4, CollectionsSame DEF IInv, Collections
<1>8. Leads(fast', db'.blocks, chain', count'.blocks, Known')
  BY <1>2, <1>4, LeadsKept
<1>9. QED  BY <1>5, <1>6, <1>7, <1>8 DEF IInv

(***************************************************************************)
(* The block assembler.                                                    *)
(***************************************************************************)
LEMMA LeastIn ==
  ASSUME NEW S \in SUBSET Nat, S # {}
  PROVE  Min(S) \in S /\ \A x \in S : Min(S) <= x
<1>1. \E n \in S : \A m \in S : n <= m
  BY LeastOf
<1>2. QED  BY <1>1 DEF Min

LEMMA FoundBlock ==
  ASSUME NEW d, d.blocks \in Seq(Block), NEW n
  PROVE  BlockByNumber(d, n) \in Block
<1> DEFINE I == {i \in 1..Len(d.blocks) : d.blocks[i].n = n}
           i0 == SelectInSeq(d.blocks, LAMBDA x : x.n = n)
<1>1. i0 = IF I # {} THEN Min(I) ELSE 0
  BY DEF SelectInSeq
<1>2. I # {} => Min(I) \in I
  <2>1. I \in SUBSET Nat
    OBVIOUS
  <2> HIDE DEF I
  <2>2. QED  BY <2>1, LeastIn
<1>3. i0 = 0 \/ i0 \in 1..Len(d.blocks)
  BY <1>1, <1>2
<1>4. BlockByNumber(d, n) = IF i0 = 0 THEN NoBlock ELSE d.blocks[i0]
  BY DEF BlockByNumber
<1> HIDE DEF i0
<1>6. NoBlock \in Block
  <2>1. <<>> \in Seq(Tx) /\ <<>> \in Seq(Nat)
    OBVIOUS
  <2>2. QED  BY <2>1 DEF NoBlock, Block, NoHash
<1>7. QED  BY <1>3, <1>4, <1>6

LEMMA FoundTree ==
  ASSUME NEW d, IsDB(d), TreesRight(d), NEW n
  PROVE  TreeByNumber(d, n) \in Seq(Nat)
<1>1. CASE n \in DOMAIN d.trees
  <2>1. n \in 0..Len(d.blocks) - 1 /\ d.trees[n] = FirstHashes(d.blocks, n + 1)
    BY <1>1 DEF TreesRight
  <2>2. d.blocks \in Seq(Block)
    BY DEF IsDB
  <2>3. \A i \in 1..n + 1 : d.blocks[i] \in Block
    BY <2>1, <2>2
  <2>4. \A i \in 1..n + 1 : d.blocks[i].hash \in Nat
    BY <2>3, BlockFields
  <2>5. n + 1 \in Nat
    BY <2>1
  <2>6. [i \in 1..n + 1 |-> d.blocks[i].hash] \in Seq(Nat)
    BY <2>4, <2>5
  <2>7. QED  BY <1>1, <2>1, <2>6 DEF TreeByNumber, FirstHashes
<1>2. CASE n \notin DOMAIN d.trees
  BY <1>2 DEF TreeByNumber
<1>3. QED  BY <1>1, <1>2

(* Reading before the writes of a rollback have landed finds more blocks.  *)
LEMMA SetInSeq ==
  ASSUME NEW S, IsFiniteSet(S)
  PROVE  SetToSeq(S) \in Seq(S) /\ (S = {} => SetToSeq(S) = <<>>)
<1>1. PICK n \in Nat : ExistsBijection(1..n, S)
  BY FS_NatBijection
<1>2. Cardinality(S) = n
  BY <1>1, FS_CountingElements
<1>3. \E f \in [1..n -> S] : IsInjective(f)
  BY <1>1 DEF ExistsBijection, Bijection, Injection, Surjection, IsInjective
<1>4. SetToSeq(S) \in [1..n -> S]
  BY <1>2, <1>3 DEF SetToSeq
<1>5. SetToSeq(S) \in Seq(S)
  BY <1>4
<1>6. S = {} => n = 0
  BY <1>2, FS_EmptySet
<1>7. QED  BY <1>4, <1>5, <1>6

LEMMA ReadRight ==
  ASSUME NEW d, IsDB(d), NEW w, w.blocks \in SUBSET Block, IsFiniteSet(w.blocks)
  PROVE  LET e == AsRead(d, w) IN
         /\ e.blocks \in Seq(Block) /\ e.trees = d.trees /\ Mempool(e) \subseteq DOMAIN d.txs
         /\ w.blocks = {} => e.blocks = d.blocks
<1> DEFINE q == SetToSeq(w.blocks)
           e == AsRead(d, w)
<1>1. q \in Seq(w.blocks) /\ (w.blocks = {} => q = <<>>)
  BY SetInSeq
<1>2. e.blocks = q \o d.blocks /\ e.trees = d.trees /\ DOMAIN e.txs = DOMAIN d.txs
  BY DEF AsRead, IsDB
<1> HIDE DEF q, e
<1>3. q \in Seq(Block) /\ d.blocks \in Seq(Block)
  BY <1>1 DEF IsDB
<1>4. q \o d.blocks \in Seq(Block) /\ (q = <<>> => q \o d.blocks = d.blocks)
  BY <1>3
<1>5. QED  BY <1>1, <1>2, <1>4 DEF Mempool, e

(* When all have landed, what is read is what the collections hold.        *)
LEMMA ReadLanded ==
  ASSUME NEW d, IsDB(d)
  PROVE  LET e == AsRead(d, AllLanded) IN
         /\ e.blocks = d.blocks /\ e.trees = d.trees /\ Mempool(e) = Mempool(d)
         /\ SortedByFee(e) = SortedByFee(d)
         /\ \A local, txs, h : BuildBlock(e, local, txs, h, Me) = BuildBlock(d, local, txs, h, Me)
<1> DEFINE e == AsRead(d, AllLanded)
<1>1. AllLanded.blocks = {} /\ DOMAIN AllLanded.txs = {} /\ {} \in SUBSET Block
  BY DEF AllLanded
<1>2. e.blocks = d.blocks /\ e.trees = d.trees
  BY <1>1, ReadRight, FS_EmptySet
<1>3. DOMAIN e.txs = DOMAIN d.txs /\ \A t \in DOMAIN d.txs : e.txs[t] = d.txs[t]
  BY <1>1 DEF AsRead, IsDB
<1> HIDE DEF e
<1>4. Mempool(e) = Mempool(d)
  BY <1>3 DEF Mempool
<1>5. SortedByFee(e) = SortedByFee(d)
  BY <1>4 DEF SortedByFee
<1>6. /\ \A n : BlockByNumber(e, n) = BlockByNumber(d, n)
      /\ \A n : TreeByNumber(e, n) = TreeByNumber(d, n)
  BY <1>2 DEF BlockByNumber, TreeByNumber
<1>7. LatestBlockInfo(e) = LatestBlockInfo(d)
  BY <1>2, <1>6 DEF LatestBlockInfo
<1>8. \A local, txs, h : BuildBlock(e, local, txs, h, Me) = BuildBlock(d, local, txs, h, Me)
  BY <1>6, <1>7 DEF BuildBlock
<1>9. QED  BY <1>2, <1>4, <1>5, <1>8 DEF e

LEMMA BuiltRight ==
  ASSUME NEW d, d.blocks \in Seq(Block), \A n : TreeByNumber(d, n) \in Seq(Nat),
         NEW local \in Local, NEW txs \in Seq(Tx), NEW h \in Nat
  PROVE  LET b == BuildBlock(d, local, txs, h, Me) IN
         b \in Block /\ b.hash = h /\ b.txs = txs /\ LocalAfter(b) \in Local
<1> DEFINE last == LatestBlockInfo(d)
           stored == last.n + 1 >= local.n
           n == IF stored THEN last.n + 1 ELSE local.n
           timber == IF stored THEN TreeByNumber(d, n - 1) ELSE local.tree
           prev == IF stored THEN last.hash ELSE local.prev
           tree == Append(timber, h)
           b1 == [NoBlock EXCEPT !.hash = h, !.n = n, !.txs = txs]
           b2 == [b1 EXCEPT !.by = Me, !.prev = prev, !.tree = tree]
           b == BuildBlock(d, local, txs, h, Me)
<1>1. b = b2
  BY DEF BuildBlock
<1>2. last \in Block
  BY FoundBlock DEF LatestBlockInfo
<1> HIDE DEF last
<1>3. last.n \in Int /\ last.hash \in Nat
  BY <1>2, BlockFields
<1>4. local.n \in Int /\ local.prev \in Nat /\ local.tree \in Seq(Nat)
  BY DEF Local
<1>5. n \in Int /\ prev \in Nat
  BY <1>3, <1>4
<1>6. TreeByNumber(d, n - 1) \in Seq(Nat)
  OBVIOUS
<1>7. timber \in Seq(Nat)
  BY <1>4, <1>6
<1> HIDE DEF stored, n, prev, timber
<1>8. tree \in Seq(Nat)
  BY <1>7
<1> HIDE DEF tree
<1>9. NoBlock \in Block
  <2>1. <<>> \in Seq(Tx) /\ <<>> \in Seq(Nat)
    OBVIOUS
  <2>2. QED  BY <2>1 DEF NoBlock, Block, NoHash
<1>10. b1 \in Block /\ b1.hash = h /\ b1.txs = txs
  BY <1>5, <1>9 DEF Block
<1> HIDE DEF b1
<1>11. b2 \in Block /\ b2.hash = h /\ b2.txs = txs
  BY <1>5, <1>8, <1>10 DEF Block
<1> HIDE DEF b2, b
<1>12. b \in Block /\ b.hash = h /\ b.txs = txs
  BY <1>1, <1>11
<1>13. LocalAfter(b) \in Local
  <2>1. b.n + 1 \in Int /\ b.hash \in Nat /\ b.tree \in Seq(Nat)
    BY <1>12, BlockFields
  <2>2. QED  BY <2>1 DEF LocalAfter, Local
<1>14. QED  BY <1>12, <1>13 DEF b

LEMMA CutInBlocks ==
  ASSUME NEW S, NEW s \in Seq(S), NEW bs \in Batches(s)
  PROVE  bs \in Seq(Seq(S))
<1>1. CASE bs \in {<<s>>}
  <2> DEFINE X == Seq(S)
  <2>1. s \in X
    OBVIOUS
  <2> HIDE DEF X
  <2>2. <<s>> \in Seq(X)
    BY <2>1
  <2>3. QED  BY <1>1, <2>2 DEF X
<1>2. CASE bs \notin {<<s>>}
  <2>1. PICK cut \in Cuts(Len(s) - 1) :
          bs = [i \in 1..Len(cut) |-> SubSeq(s, IF i = 1 THEN 1 ELSE cut[i - 1] + 1, cut[i])]
    BY <1>2 DEF Batches
  <2>2. PICK k \in 1..Len(s) - 1 : cut \in [1..k -> 1..Len(s) - 1]
    BY DEF Cuts
  <2>3. Len(cut) = k /\ k \in Nat
    BY <2>2
  <2>4. ASSUME NEW i \in 1..k
        PROVE  SubSeq(s, IF i = 1 THEN 1 ELSE cut[i - 1] + 1, cut[i]) \in Seq(S)
    <3>1. cut[i] \in 1..Len(s)
      BY <2>2
    <3>2. i # 1 => cut[i - 1] \in 1..Len(s)
      <4>1. i # 1 => i - 1 \in 1..k
        BY <2>3
      <4>2. QED  BY <2>2, <4>1
    <3> DEFINE lo == IF i = 1 THEN 1 ELSE cut[i - 1] + 1
    <3>3. lo \in Nat \ {0}
      BY <3>2
    <3> HIDE DEF lo
    <3>4. SubSeq(s, lo, cut[i]) \in Seq(S)
      BY <3>1, <3>3
    <3>5. QED  BY <3>4 DEF lo
  <2> DEFINE X == Seq(S)
             f == [i \in 1..k |-> SubSeq(s, IF i = 1 THEN 1 ELSE cut[i - 1] + 1, cut[i])]
  <2>5. \A i \in 1..k : f[i] \in X
    BY <2>4
  <2>6. f = [i \in 1..k |-> f[i]]
    OBVIOUS
  <2>7. bs = f
    BY <2>1, <2>3
  <2> HIDE DEF X, f
  <2>8. f \in Seq(X)
    BY <2>3, <2>5, <2>6
  <2>9. QED  BY <2>7, <2>8 DEF X
<1>3. QED  BY <1>1, <1>2

(* What the assembler reads.                                               *)
LEMMA ReadByAssembler ==
  ASSUME IInv, Writes
  PROVE  LET d == AsRead(db, unlanded) IN
         /\ d.blocks \in Seq(Block) /\ \A n : TreeByNumber(d, n) \in Seq(Nat)
         /\ Mempool(d) \subseteq Known
<1> DEFINE d == AsRead(db, unlanded)
<1>1. IsDB(db) /\ TreesRight(db) /\ DOMAIN db.txs \subseteq Known
  BY DEF IInv, Collections
<1>2. /\ d.blocks \in Seq(Block) /\ d.trees = db.trees /\ Mempool(d) \subseteq DOMAIN db.txs
  BY <1>1, ReadRight DEF Writes
<1> HIDE DEF d
<1>3. \A n : TreeByNumber(d, n) \in Seq(Nat)
  BY <1>1, <1>2, FoundTree DEF TreeByNumber
<1>4. QED  BY <1>1, <1>2, <1>3 DEF d

LEMMA ConditionalMakeBlockRight == IInv /\ Writes /\ ConditionalMakeBlock => IInv'
<1> SUFFICES ASSUME IInv, Writes, ConditionalMakeBlock PROVE IInv'
  OBVIOUS
<1> DEFINE d == AsRead(db, unlanded)
<1>1. UNCHANGED <<chain, log, current, roots, proposals, pool, db, mem, fast, slow, stop,
                  checked, saving, resetting>>
  BY DEF ConditionalMakeBlock
<1>13. /\ count' \in [blocks : 0..MaxBlocks, faults : Nat, rotations : Nat, unsent : Nat, early : Nat]
       /\ count'.blocks = count.blocks
  <2>1. count \in [blocks : 0..MaxBlocks, faults : Nat, rotations : Nat, unsent : Nat, early : Nat]
    BY DEF IInv, Types
  <2>2. count' = count \/ count' = [count EXCEPT !.early = @ + 1]
    BY DEF ConditionalMakeBlock, Count
  <2>3. QED  BY <2>1, <2>2
<1>2. Known' = Known /\ count.blocks \in Nat
  BY <1>1, CountTypes DEF Known, IInv
<1>3. PICK s \in SortedByFee(d) : batches' \in Batches(s)
  BY DEF ConditionalMakeBlock
<1>4. Mempool(d) \subseteq Known /\ IsFiniteSet(Known)
  BY ReadByAssembler DEF IInv, Types
<1> HIDE DEF d
<1>5. Cardinality(Mempool(d)) \in Nat
  BY <1>4, FS_Subset, FS_CardinalityType
<1>6. s \in [1..Cardinality(Mempool(d)) -> Mempool(d)]
  BY DEF SortedByFee, SetToSeqs
<1>7. s \in Seq(Known)
  BY <1>4, <1>5, <1>6
<1>8. batches' \in Seq(Seq(Known))
  BY <1>3, <1>7, CutInBlocks
<1>9. Types'
  BY <1>1, <1>2, <1>8, <1>13 DEF Types, IInv
<1>10. Collections' /\ ProposalsFresh'
  BY <1>1, <1>2, <1>13 DEF Collections, ProposalsFresh, IInv
<1>11. Leads(fast', db'.blocks, chain', count'.blocks, Known')
  BY <1>1, <1>2, <1>13, LeadsKept
<1>12. QED  BY <1>9, <1>10, <1>11 DEF IInv

LEMMA NextBatch ==
  ASSUME IInv, batches # <<>>
  PROVE  /\ Head(batches) \in Seq(Tx) /\ ToSet(Head(batches)) \subseteq Known
         /\ Tail(batches) \in Seq(Seq(Known))
<1> DEFINE X == Seq(Known)
<1>1. batches \in Seq(X) /\ Known \subseteq Tx
  BY DEF IInv, Types
<1> HIDE DEF X
<1>2. Head(batches) \in X /\ Tail(batches) \in Seq(X)
  BY <1>1, TookFirst
<1>3. Head(batches) \in Seq(Known) /\ Tail(batches) \in Seq(Seq(Known))
  BY <1>2 DEF X
<1>4. \A b \in Seq(Known) : b \in Seq(Tx) /\ ToSet(b) \subseteq Known
  BY <1>1, Members
<1>5. QED  BY <1>3, <1>4

LEMMA MakeBlockRight == IInv /\ Writes /\ MakeBlock => IInv'
<1> SUFFICES ASSUME IInv, Writes, MakeBlock PROVE IInv'
  OBVIOUS
<1> DEFINE h == count.blocks + 1
           txs == Head(batches)
           d == AsRead(db, unlanded)
           b == BuildBlock(d, mem.local, txs, h, Me)
<1>1. /\ batches # <<>> /\ count.blocks < MaxBlocks
      /\ proposals' = Append(proposals, b)
      /\ mem' = [mem EXCEPT !.local = LocalAfter(b)]
      /\ db' = RemoveTransactionsFromMemPool(db, ToSet(b.txs))
      /\ batches' = Tail(batches)
      /\ count' = [count EXCEPT !.blocks = @ + 1]
  BY DEF MakeBlock, Count
<1>2. UNCHANGED <<chain, log, current, roots, pool, fast, slow, stop, checked, saving, resetting>>
  BY DEF MakeBlock
<1>3. Known' = Known /\ count.blocks \in 0..MaxBlocks
  BY <1>2, CountTypes DEF Known, IInv
<1>4. count' \in [blocks : 0..MaxBlocks, faults : Nat, rotations : Nat, unsent : Nat, early : Nat]
      /\ count'.blocks = h
  <2>1. count \in [blocks : 0..MaxBlocks, faults : Nat, rotations : Nat, unsent : Nat, early : Nat]
    BY DEF IInv, Types
  <2>2. count.blocks + 1 \in 0..MaxBlocks
    BY <1>1, <1>3, BoundsAssumption
  <2>3. QED  BY <1>1, <2>1, <2>2
<1>5. h \in Nat /\ count'.blocks \in Nat /\ count.blocks <= count'.blocks /\ h \in 1..count'.blocks
      /\ \A x \in 1..count.blocks : x # h /\ x \in 1..count'.blocks
  BY <1>3, <1>4
<1>6. /\ txs \in Seq(Tx) /\ ToSet(txs) \subseteq Known /\ Tail(batches) \in Seq(Seq(Known))
  BY <1>1, NextBatch
<1>7. IsDB(db) /\ TreesRight(db) /\ IsMem(mem) /\ mem.local \in Local
  BY DEF IInv, Collections, IsMem
<1>30. d.blocks \in Seq(Block) /\ \A n : TreeByNumber(d, n) \in Seq(Nat)
  BY ReadByAssembler
<1> HIDE DEF h, txs, d
<1>8. b \in Block /\ b.hash = h /\ b.txs = txs /\ LocalAfter(b) \in Local
  BY <1>5, <1>6, <1>7, <1>30, BuiltRight
<1> HIDE DEF b
<1>9. SameStored(db, db', {}) /\ IsMem(mem')
  BY <1>1, <1>7, <1>8, TakenOut, MemKept
<1>10. Collections'
  <2>1. Collections /\ pool' \in SUBSET Challenge
    BY <1>2 DEF IInv, Collections
  <2>2. QED  BY <1>2, <1>3, <1>9, <2>1, CollectionsKept
<1>11. proposals \in Seq(Block)
  BY DEF IInv, Types
<1>12. /\ proposals' \in Seq(Block) /\ Len(proposals') = Len(proposals) + 1 /\ Len(proposals) \in Nat
       /\ \A i \in 1..Len(proposals) : proposals'[i] = proposals[i]
       /\ proposals'[Len(proposals) + 1] = b
  BY <1>1, <1>8, <1>11, AppendedOne
<1>13. Types'
  BY <1>1, <1>2, <1>3, <1>4, <1>6, <1>12 DEF Types, IInv
<1>14. \A j \in 1..Len(chain) : chain[j].hash \in 1..count.blocks
  BY EndsOfEvents DEF Chains
<1>15. \A i \in 1..Len(proposals') : i \in 1..Len(proposals) \/ i = Len(proposals) + 1
  BY <1>12
<1>16. \A i \in 1..Len(proposals) :
         /\ proposals[i].hash \in 1..count.blocks /\ ToSet(proposals[i].txs) \subseteq Known
         /\ \A j \in 1..Len(chain) : chain[j].hash # proposals[i].hash
  BY DEF IInv, ProposalsFresh
<1>17. \A i \in 1..Len(proposals') :
         /\ proposals'[i].hash \in 1..count'.blocks /\ ToSet(proposals'[i].txs) \subseteq Known
         /\ \A j \in 1..Len(chain) : chain[j].hash # proposals'[i].hash
  BY <1>5, <1>6, <1>8, <1>12, <1>14, <1>15, <1>16
<1>18. ASSUME NEW i \in 1..Len(proposals'), NEW j \in 1..Len(proposals'),
              proposals'[i].hash = proposals'[j].hash
       PROVE  i = j
  <2>1. CASE i \in 1..Len(proposals) /\ j \in 1..Len(proposals)
    BY <1>12, <1>18, <2>1 DEF IInv, ProposalsFresh
  <2>2. CASE i = Len(proposals) + 1 /\ j \in 1..Len(proposals)
    BY <1>5, <1>8, <1>12, <1>16, <1>18, <2>2
  <2>3. CASE i \in 1..Len(proposals) /\ j = Len(proposals) + 1
    BY <1>5, <1>8, <1>12, <1>16, <1>18, <2>3
  <2>4. QED  BY <1>15, <2>1, <2>2, <2>3
<1>19. ProposalsFresh'
  BY <1>2, <1>3, <1>17, <1>18 DEF ProposalsFresh
<1>20. db'.blocks = db.blocks
  BY <1>9 DEF SameStored
<1>21. Leads(fast', db'.blocks, chain', count'.blocks, Known')
  BY <1>2, <1>3, <1>5, <1>20, LeadsKept
<1>22. QED  BY <1>10, <1>13, <1>19, <1>21 DEF IInv

LEMMA BlockNotSentRight == IInv /\ Writes /\ BlockNotSent => IInv'
<1> SUFFICES ASSUME IInv, Writes, BlockNotSent PROVE IInv'
  OBVIOUS
<1> DEFINE h == count.blocks + 1
           txs == Head(batches)
           d == AsRead(db, unlanded)
           b == BuildBlock(d, mem.local, txs, h, Me)
<1>1. /\ batches # <<>> /\ count.blocks < MaxBlocks
      /\ mem' = [mem EXCEPT !.local = LocalAfter(b)]
      /\ batches' = <<>>
      /\ count' = [count EXCEPT !.unsent = @ + 1, !.blocks = @ + 1]
      /\ UNCHANGED <<chain, log, current, roots, proposals, pool, db, fast, slow, stop,
                     checked, saving, resetting>>
  BY DEF BlockNotSent
<1>2. Known' = Known /\ count.blocks \in 0..MaxBlocks /\ count.unsent \in Nat
  BY <1>1, CountTypes DEF Known, IInv
<1>3. count' \in [blocks : 0..MaxBlocks, faults : Nat, rotations : Nat, unsent : Nat, early : Nat]
      /\ count'.blocks = h
  <2>1. count \in [blocks : 0..MaxBlocks, faults : Nat, rotations : Nat, unsent : Nat, early : Nat]
    BY DEF IInv, Types
  <2>2. count.blocks + 1 \in 0..MaxBlocks /\ count.unsent + 1 \in Nat
    BY <1>1, <1>2, BoundsAssumption
  <2>3. QED  BY <1>1, <2>1, <2>2
<1>4. h \in Nat /\ count'.blocks \in Nat /\ count.blocks <= count'.blocks
  BY <1>2, <1>3
<1>5. txs \in Seq(Tx)
  BY <1>1, NextBatch
<1>6. IsDB(db) /\ TreesRight(db) /\ IsMem(mem) /\ mem.local \in Local
  BY DEF IInv, Collections, IsMem
<1>30. d.blocks \in Seq(Block) /\ \A n : TreeByNumber(d, n) \in Seq(Nat)
  BY ReadByAssembler
<1> HIDE DEF h, txs, d
<1>7. LocalAfter(b) \in Local
  BY <1>4, <1>5, <1>6, <1>30, BuiltRight
<1> HIDE DEF b
<1>8. IsMem(mem')
  BY <1>1, <1>6, <1>7, MemKept
<1>9. Collections'
  BY <1>1, <1>2, <1>8, CollectionsSame DEF IInv, Collections
<1>10. <<>> \in Seq(Seq(Known))
  OBVIOUS
<1>11. Types'
  BY <1>1, <1>2, <1>3, <1>10 DEF Types, IInv
<1>12. ProposalsFresh'
  BY <1>1, <1>2, <1>4, FreshKept
<1>13. Leads(fast', db'.blocks, chain', count'.blocks, Known')
  BY <1>1, <1>2, <1>4, LeadsKept
<1>14. QED  BY <1>9, <1>11, <1>12, <1>13 DEF IInv

LEMMA StepRight == IInv /\ Writes /\ [Next]_vars => IInv'
<1>1. IInv /\ UNCHANGED vars => IInv'
  <2> SUFFICES ASSUME IInv, UNCHANGED vars PROVE IInv'
    OBVIOUS
  <2>1. UNCHANGED <<chain, log, current, roots, proposals, pool, count, db, mem,
                    fast, slow, stop, checked, batches, saving>>
    BY DEF vars
  <2>2. Types' /\ ProposalsFresh' /\ Collections' /\ Known' = Known
    BY <2>1 DEF IInv, Types, ProposalsFresh, Collections, Known
  <2>3. Leads(fast', db'.blocks, chain', count'.blocks, Known')
    BY <2>1, <2>2 DEF IInv
  <2>4. QED  BY <2>2, <2>3 DEF IInv
<1>2. QED
  BY <1>1, HandleEventRight, SaveLandsRight, RollbackLandsRight,
     CheckSubmittedRight, SaveSubmittedRight,
     ConditionalMakeBlockRight, MakeBlockRight, BlockNotSentRight, ResetLocalBlockRight,
     MineProposalRight, OtherProposesRight, ChangeCurrentProposerRight,
     SubmitTransactionRight, MineCommitRight, MineRevealRight, OtherChallengesRight
  DEF Next

(***************************************************************************)
(* What follows.                                                           *)
(***************************************************************************)
(* Only a rollback starts writes that are read before they land.           *)
LEMMA CommitWrites ==
  ASSUME NEW x, "unlanded" \in DOMAIN x, NEW c
  PROVE  CommitToChallenge(x, c).unlanded = x.unlanded
BY DEF CommitToChallenge

LEMMA HandledWrites ==
  ASSUME NEW s, IsNode(s), NEW e \in Event, e.type # "Rollback"
  PROVE  Handled(s, e).unlanded = s.unlanded
<1>1. CASE e.type = "BlockProposed"
  <2> DEFINE b == e.block
             s0 == AttemptsChecked(s)
             s1 == [s0 EXCEPT !.db = StoredBlock(s0, b), !.mem.last = b.l1,
                              !.saving = @ \cup {<<t, b.n>> : t \in ToSet(b.txs)}]
             s2 == [s1 EXCEPT !.stop = Append(@, b.hash)]
             r == BlockProposed(s0, b)
  <2>1. s0.unlanded = s.unlanded /\ "unlanded" \in DOMAIN s0
    BY DEF AttemptsChecked, IsNode
  <2>2. r = s1 \/ r = ChallengeInvalid(s1, b)
    BY DEF BlockProposed, StoredBlock
  <2>3. ChallengeInvalid(s1, b) = CommitToChallenge(s2, b.hash)
    BY DEF ChallengeInvalid
  <2> HIDE DEF s0, r
  <2>4. s1.unlanded = s.unlanded /\ "unlanded" \in DOMAIN s1
    BY <2>1
  <2> HIDE DEF s1
  <2>5. s2.unlanded = s.unlanded /\ "unlanded" \in DOMAIN s2
    BY <2>4
  <2> HIDE DEF s2
  <2>6. r.unlanded = s.unlanded
    BY <2>2, <2>3, <2>4, <2>5, CommitWrites
  <2>7. QED  BY <1>1, <2>6 DEF Handled, s0, r
<1>2. CASE e.type = "NewCurrentProposer"
  <2>1. NewCurrentProposer(s, e.p).unlanded = s.unlanded
    BY DEF NewCurrentProposer, IsNode
  <2>2. QED  BY <1>2, <2>1 DEF Handled
<1>3. CASE e.type = "CommittedToChallenge"
  <2>1. CommittedToChallenge(s, e.c).unlanded = s.unlanded
    BY DEF CommittedToChallenge, IsNode
  <2>2. QED  BY <1>3, <2>1 DEF Handled
<1>4. QED  BY <1>1, <1>2, <1>3, EventFields

LEMMA RollbackWrites ==
  ASSUME NEW s, IsNode(s), NEW n
  PROVE  Rollback(s, n).unlanded.blocks \subseteq ToSet(s.db.blocks)
<1>1. \A d, e : Unlanded(d, e).blocks \subseteq ToSet(d.blocks)
  BY DEF Unlanded
<1>2. \A d, f : DeleteTransactions(DeleteTreesFrom(d, n), f).blocks = d.blocks
  BY DEF DeleteTransactions, DeleteTreesFrom
<1>3. QED  BY <1>1, <1>2 DEF Rollback, IsNode

LEMMA StepWrites == IInv /\ Writes /\ [Next]_vars => Writes'
<1> SUFFICES ASSUME IInv, Writes, [Next]_vars PROVE Writes'
  OBVIOUS
<1>1. CASE HandleEvent
  <2> DEFINE e == Head(fast)
             r == Handled(Node, e)
  <2>1. unlanded' = r.unlanded /\ e \in Event
    BY <1>1, TookFirst DEF HandleEvent, Becomes, IInv, Types
  <2>2. IsNode(Node) /\ Node.db = db /\ Node.unlanded = unlanded
    BY DEF IInv, Collections, IsNode, Node
  <2>3. CASE e.type # "Rollback"
    BY <2>1, <2>2, <2>3, HandledWrites DEF Writes
  <2>4. CASE e.type = "Rollback"
    <3>1. r = Rollback(Node, e.n)
      BY <2>4 DEF Handled
    <3>2. unlanded'.blocks \subseteq ToSet(db.blocks)
      BY <2>1, <2>2, <3>1, RollbackWrites
    <3>3. db.blocks \in Seq(Block)
      BY DEF IInv, Collections, IsDB
    <3>4. ToSet(db.blocks) \subseteq Block /\ IsFiniteSet(ToSet(db.blocks))
      BY <3>3, FiniteMembers, Members
    <3>5. QED  BY <3>2, <3>4, FS_Subset DEF Writes
  <2>5. QED  BY <2>3, <2>4
<1>2. CASE RollbackLands
  <2>1. unlanded'.blocks \subseteq unlanded.blocks
    <3>1. \/ \E b \in unlanded.blocks :
               unlanded' = [blocks |-> unlanded.blocks \ {b}, txs |-> unlanded.txs]
          \/ \E ts : unlanded' = [blocks |-> unlanded.blocks, txs |-> ts]
      BY <1>2, Zenon DEF RollbackLands
    <3>2. QED  BY <3>1
  <2>2. QED  BY <2>1, FS_Subset DEF Writes
<1>3. CASE ~ HandleEvent /\ ~ RollbackLands
  <2>1. unlanded' = unlanded
    BY <1>3 DEF Next, vars, SaveLands, CheckSubmitted, SaveSubmitted, ConditionalMakeBlock,
                MakeBlock, BlockNotSent, ResetLocalBlock, MineProposal, OtherProposes,
                ChangeCurrentProposer, SubmitTransaction, MineCommit, MineReveal, OtherChallenges
  <2>2. QED  BY <2>1 DEF Writes
<1>4. QED  BY <1>1, <1>2, <1>3

LEMMA SpecRight == Spec => []IInv
<1>1. Init => Writes
  BY FS_EmptySet DEF Init, Writes, AllLanded
<1>2. IInv /\ Writes /\ [Next]_vars => (IInv /\ Writes)'
  BY StepRight, StepWrites
<1>3. QED  BY InitRight, <1>1, <1>2, PTL DEF Spec

LEMMA SpecWrites == Spec => []Writes
<1>1. Init => Writes
  BY FS_EmptySet DEF Init, Writes, AllLanded
<1>2. QED  BY <1>1, SpecRight, StepWrites, PTL DEF Spec

(* The type invariant: records stored for known transactions only, none    *)
(* both in the mempool and in a block, blocks numbered by their place.     *)
THEOREM OptimistTypes == Spec => []TypeOK
<1>1. ASSUME IInv PROVE TypeOK
  <2>1. DOMAIN roots \subseteq Tx /\ DOMAIN db.txs \subseteq DOMAIN roots
    BY <1>1 DEF IInv, Types, Collections, Known
  <2>2. \A t \in DOMAIN db.txs : db.txs[t].mempool => db.txs[t].n = -1
    BY <1>1 DEF IInv, Collections, IsDB
  <2>3. current \in {Me, Other} /\ count.blocks \in 0..MaxBlocks
    BY <1>1, CountTypes DEF IInv, Types
  <2>4. mem.isMe \in BOOLEAN
    BY <1>1 DEF IInv, Collections, IsMem
  <2>5. Len(checked) <= 1
    <3>1. Len(<<>>) = 0 /\ \A t : Len(<<t>>) = 1
      OBVIOUS
    <3>2. checked = <<>> \/ \E t \in Known : checked = <<t>>
      BY <1>1 DEF IInv, Types, NoTx
    <3>3. Len(checked) = 0 \/ Len(checked) = 1
      BY <3>1, <3>2
    <3> DEFINE l == Len(checked)
    <3>4. l = 0 \/ l = 1
      BY <3>3
    <3> HIDE DEF l
    <3>5. l <= 1
      BY <3>4
    <3>6. QED  BY <3>5 DEF l
  <2>6. \A i \in DOMAIN chain : chain[i].n = i - 1
    BY <1>1, EndsOfEvents DEF Chains
  <2>7. QED  BY <2>1, <2>2, <2>3, <2>4, <2>5, <2>6 DEF TypeOK
<1>2. QED  BY <1>1, SpecRight, PTL

LEMMA TreesOfChain ==
  ASSUME NEW q \in Seq(Block)
  PROVE  LET hashes == [i \in DOMAIN q |-> q[i].hash] IN
         \A n \in 0..Len(q) - 1 : SubSeq(hashes, 1, n + 1) = FirstHashes(q, n + 1)
<1> DEFINE hashes == [i \in DOMAIN q |-> q[i].hash]
<1>1. \A i \in 1..Len(q) : q[i] \in Block
  OBVIOUS
<1>2. \A i \in 1..Len(q) : q[i].hash \in Nat
  BY <1>1, BlockFields
<1>3. hashes \in Seq(Nat) /\ Len(hashes) = Len(q) /\ \A i \in 1..Len(q) : hashes[i] = q[i].hash
  <2>1. hashes = [i \in 1..Len(q) |-> q[i].hash]
    OBVIOUS
  <2> HIDE DEF hashes
  <2>2. QED  BY <1>2, <2>1
<1> HIDE DEF hashes
<1>4. ASSUME NEW n \in 0..Len(q) - 1
      PROVE  SubSeq(hashes, 1, n + 1) = FirstHashes(q, n + 1)
  <2>1. n + 1 \in 0..Len(hashes) /\ \A i \in 1..n + 1 : i \in 1..Len(q)
    BY <1>3
  <2>2. SubSeq(hashes, 1, n + 1) = [i \in 1..n + 1 |-> hashes[i]]
    BY <1>3, <2>1, FirstPart
  <2>3. \A i \in 1..n + 1 : hashes[i] = q[i].hash
    BY <1>3, <2>1
  <2>4. QED  BY <2>2, <2>3 DEF FirstHashes
<1>5. QED  BY <1>4 DEF hashes

LEMMA FirstIsLeast ==
  ASSUME NEW q \in Seq(Block), NEW t, NEW n, IsFirst(q, t, n)
  PROVE  n = Min({i - 1 : i \in {j \in DOMAIN q : t \in ToSet(q[j].txs)}})
<1> DEFINE S == {i - 1 : i \in {j \in DOMAIN q : t \in ToSet(q[j].txs)}}
<1>1. n \in 0..Len(q) - 1 /\ n + 1 \in DOMAIN q /\ (n + 1) - 1 = n /\ t \in ToSet(q[n + 1].txs)
  BY DEF IsFirst
<1>2. n \in S
  BY <1>1
<1>3. S \in SUBSET Nat
  OBVIOUS
<1>4. ASSUME NEW x \in S PROVE n <= x
  <2>1. PICK i \in 1..Len(q) : t \in ToSet(q[i].txs) /\ x = i - 1
    OBVIOUS
  <2>2. ~(i \in 1..n)
    BY <2>1 DEF IsFirst
  <2>3. QED  BY <1>1, <2>1, <2>2
<1> HIDE DEF S
<1>5. Min(S) \in S /\ Min(S) <= n
  BY <1>2, <1>3, LeastIn
<1>6. n <= Min(S) /\ Min(S) \in Nat
  BY <1>3, <1>4, <1>5
<1>7. QED  BY <1>1, <1>5, <1>6 DEF S

(* Whenever no event waits the database holds the blocks and trees of the  *)
(* chain, and each transaction under the first block that holds it.        *)
THEOREM ReflectsChain == Spec => []DatabaseReflectsChain
<1>1. ASSUME IInv, CaughtUp
      PROVE  /\ ToSet(db.blocks) = ToSet(chain) /\ Len(db.blocks) = Len(chain)
             /\ db.trees = [n \in 0..Len(chain) - 1 |-> SubSeq(ChainTree, 1, n + 1)]
             /\ \A t \in TxsOf(ToSet(chain)) :
                  /\ t \in DOMAIN db.txs
                  /\ db.txs[t].n = Min({i - 1 : i \in {j \in DOMAIN chain : t \in ToSet(chain[j].txs)}})
             /\ \A t \in DOMAIN db.txs \ TxsOf(ToSet(chain)) : db.txs[t].n = -1
  <2>1. db.blocks = chain
    <3>1. Leads(<<>>, db.blocks, chain, count.blocks, Known)
      BY <1>1 DEF IInv, CaughtUp
    <3>2. QED  BY <3>1, LeadsNowhere
  <2>2. chain \in Seq(Block)
    BY <1>1, EndsOfEvents
  <2>3. TreesRight(db) /\ StoredRight(db, {})
    BY <1>1 DEF IInv, Collections, CaughtUp, AllWritten
  <2>4. db.trees = [n \in 0..Len(chain) - 1 |-> SubSeq(ChainTree, 1, n + 1)]
    <3>1. \A n \in 0..Len(chain) - 1 : SubSeq(ChainTree, 1, n + 1) = FirstHashes(chain, n + 1)
      BY <2>2, TreesOfChain DEF ChainTree
    <3>2. QED  BY <2>1, <2>3, <3>1 DEF TreesRight
  <2>5. \A t : t \in TxsOf(ToSet(chain)) <=> \E i \in 1..Len(chain) : t \in ToSet(chain[i].txs)
    BY <2>2 DEF TxsOf, ToSet
  <2>6. \A t : Stored(db, t) => IsFirst(chain, t, db.txs[t].n)
    BY <2>1, <2>3 DEF StoredRight, Stored
  <2>7. ASSUME NEW t \in TxsOf(ToSet(chain))
        PROVE  t \in DOMAIN db.txs /\
               db.txs[t].n = Min({i - 1 : i \in {j \in DOMAIN chain : t \in ToSet(chain[j].txs)}})
    <3>1. Stored(db, t)
      BY <2>1, <2>3, <2>5 DEF StoredRight
    <3>2. QED  BY <2>2, <2>6, <3>1, FirstIsLeast DEF Stored
  <2>8. ASSUME NEW t \in DOMAIN db.txs \ TxsOf(ToSet(chain))
        PROVE  db.txs[t].n = -1
    <3>1. ~ Stored(db, t)
      <4>1. SUFFICES ASSUME Stored(db, t) PROVE FALSE
        OBVIOUS
      <4>2. PICK n : IsFirst(chain, t, n)
        BY <2>6, <4>1
      <4>3. n + 1 \in 1..Len(chain) /\ t \in ToSet(chain[n + 1].txs)
        BY <2>2, <4>2 DEF IsFirst
      <4>4. QED  BY <2>5, <2>8, <4>3
    <3>2. QED  BY <2>8, <3>1 DEF Stored
  <2>9. QED  BY <2>1, <2>4, <2>7, <2>8
<1>2. IInv => DatabaseReflectsChain
  BY <1>1 DEF DatabaseReflectsChain
<1>3. QED  BY <1>2, SpecRight, PTL

(* While every event arrives no block is ever ahead of the database: the   *)
(* handler is never sent to resynchronise.                                 *)
NeverAhead == fast # <<>> => ~ OutOfOrder(db, Head(fast))

THEOREM EventsInOrder == Spec => []NeverAhead
<1>1. ASSUME IInv, fast # <<>>, OutOfOrder(db, Head(fast)) PROVE FALSE
  <2>1. fast \in Seq(Event) /\ IsDB(db) /\ TreesRight(db)
    BY <1>1 DEF IInv, Types, Collections
  <2>2. PICK m \in Nat : m = Len(db.blocks)
    BY <2>1 DEF IsDB
  <2> DEFINE b == Head(fast).block
  <2>3. Head(fast).type = "BlockProposed" /\ b.n > Cardinality(DOMAIN db.trees)
    BY <1>1 DEF OutOfOrder, NumberOfL2Blocks
  <2>4. DOMAIN db.trees = 0..m - 1
    BY <2>1, <2>2 DEF TreesRight
  <2>5. Cardinality(0..m - 1) = m
    <3>1. Cardinality(0..m - 1) = IF 0 > m - 1 THEN 0 ELSE (m - 1) - 0 + 1
      BY FS_Interval
    <3>2. QED  BY <3>1
  <2>6. PICK a \in Seq(Block) : Follows(db.blocks, Head(fast), a) /\ Chains(a, count.blocks, Known)
    BY <1>1, <2>1, LeadsFrom DEF IInv
  <2>7. a = Append(db.blocks, b)
    BY <2>3, <2>6 DEF Follows
  <2>8. Head(fast) \in Event
    BY <1>1, <2>1, TookFirst
  <2>9. b \in Block
    BY <2>3, <2>8, EventFields
  <2> HIDE DEF b
  <2>10. Len(a) = m + 1 /\ a[m + 1] = b
    BY <2>1, <2>2, <2>7, <2>9, AppendedOne DEF IsDB
  <2>11. b.n = (m + 1) - 1
    BY <2>6, <2>10 DEF Chains
  <2>12. QED  BY <2>3, <2>4, <2>5, <2>11
<1>2. IInv => NeverAhead
  BY <1>1 DEF NeverAhead
<1>3. QED  BY <1>2, SpecRight, PTL

(***************************************************************************)
(* Our own blocks.                                                         *)
(***************************************************************************)
(* No two transactions make the same commitment or publish the same        *)
(* nullifier.                                                              *)
NoClash == \A t, u \in Tx : t # u => ~ Clash(t, u)

NoRepeats(txs) == \A i, j \in 1..Len(txs) : txs[i] = txs[j] => i = j

TxsTo(q, i) == UNION {ToSet(q[j].txs) : j \in 1..i}

(* What is known of every block built, those that were rolled back or never*)
(* sent too: T[h] is the tree after the block with hash h and all below    *)
(* it, X[h] the transactions in them, and h is in D if one of them was     *)
(* never sent.                                                             *)
History(T, X, D, c) ==
  /\ T \in [0..c -> Seq(Nat)] /\ X \in [0..c -> SUBSET Tx] /\ D \in SUBSET (0..c)
  /\ T[NoHash] = <<>> /\ X[NoHash] = {} /\ NoHash \notin D

Remembered(T, X, D, c, b) ==
  /\ b.prev \in 0..c /\ b.hash \in 1..c
  /\ T[b.hash] = Append(T[b.prev], b.hash)
  /\ X[b.hash] = X[b.prev] \cup ToSet(b.txs)
  /\ b.hash \in D <=> b.prev \in D

(* The blocks of q lie on one another and were all sent.                   *)
Along(T, X, D, q) ==
  \A i \in 1..Len(q) : /\ T[q[i].hash] = FirstHashes(q, i)
                       /\ X[q[i].hash] = TxsTo(q, i)
                       /\ q[i].hash \notin D

Announced(T, X, D, c, es) ==
  \A i \in 1..Len(es) : es[i].type = "BlockProposed" => Remembered(T, X, D, c, es[i].block)

(* On top of a block that was sent, a proposal of ours is right.           *)
Sound(T, X, D, b) ==
  /\ ~ b.fault
  /\ b.prev \notin D => /\ b.tree = T[b.hash] /\ NoRepeats(b.txs)
                        /\ ToSet(b.txs) \cap X[b.prev] = {}

Prepared(T, X, D, c, ps) ==
  \A i \in 1..Len(ps) : Remembered(T, X, D, c, ps[i]) /\ Sound(T, X, D, ps[i])

(* The next block follows the local one, not the last one stored.          *)
Ahead(d, local) == local.n > Len(d.blocks)

(* The local tree is that of the block built last, and while that is ahead *)
(* no transaction up to it waits in the mempool.                           *)
LocalRight(T, X, D, c, d, local) ==
  /\ local.prev \in 0..c /\ local.tree = T[local.prev]
  /\ Ahead(d, local) /\ local.prev \notin D =>
       \A t \in X[local.prev] : t \in DOMAIN d.txs \ Mempool(d)

(* The assembler's list holds no transaction twice, and none of a block    *)
(* below those it makes.                                                   *)
Listed(X, D, d, local, bs) ==
  /\ \A k \in 1..Len(bs) :
       /\ NoRepeats(bs[k])
       /\ \A t \in ToSet(bs[k]) :
            /\ t \in DOMAIN d.txs /\ t \notin TxsTo(d.blocks, Len(d.blocks))
            /\ Ahead(d, local) /\ local.prev \notin D => t \notin X[local.prev]
  /\ \A k, l \in 1..Len(bs) : k # l => ToSet(bs[k]) \cap ToSet(bs[l]) = {}

(* The i-th block of q follows from those below it.                        *)
Upright(q, i) ==
  /\ ~ q[i].fault /\ q[i].tree = FirstHashes(q, i)
  /\ NoRepeats(q[i].txs) /\ ToSet(q[i].txs) \cap TxsTo(q, i - 1) = {}

OwnUpright(q) == \A i \in 1..Len(q) : q[i].by = Me => Upright(q, i)

OwnRight(T, X, D) ==
  /\ History(T, X, D, count.blocks)
  /\ Along(T, X, D, chain) /\ Along(T, X, D, db.blocks)
  /\ Announced(T, X, D, count.blocks, fast) /\ Prepared(T, X, D, count.blocks, proposals)
  /\ LocalRight(T, X, D, count.blocks, db, mem.local)
  /\ batches # <<>> => saving = {} /\ unlanded = AllLanded
  /\ Listed(X, D, db, mem.local, batches)
  /\ OwnUpright(chain)

(***************************************************************************)
(* Blocks on one another.                                                  *)
(***************************************************************************)
LEMMA SameTo ==
  ASSUME NEW q, NEW r, NEW n \in Nat, \A i \in 1..n : r[i] = q[i]
  PROVE  \A i \in 0..n : FirstHashes(r, i) = FirstHashes(q, i) /\ TxsTo(r, i) = TxsTo(q, i)
BY DEF FirstHashes, TxsTo

LEMMA TxsAppended ==
  ASSUME NEW q, NEW m \in Nat
  PROVE  /\ TxsTo(q, 0) = {}
         /\ TxsTo(q, m + 1) = TxsTo(q, m) \cup ToSet(q[m + 1].txs)
<1>1. 1..m + 1 = (1..m) \cup {m + 1} /\ 1..0 = {}
  OBVIOUS
<1>2. QED  BY <1>1 DEF TxsTo

LEMMA NoHashes ==
  ASSUME NEW q
  PROVE  FirstHashes(q, 0) = <<>>
BY DEF FirstHashes

LEMMA AlongBefore ==
  ASSUME NEW q \in Seq(Block), NEW T, NEW X, NEW D, NEW c, History(T, X, D, c),
         Along(T, X, D, q), NEW i \in 1..Len(q) + 1
  PROVE  /\ T[HashBefore(q, i)] = FirstHashes(q, i - 1)
         /\ X[HashBefore(q, i)] = TxsTo(q, i - 1)
         /\ HashBefore(q, i) \notin D
<1>1. CASE i = 1
  <2>1. HashBefore(q, i) = NoHash /\ i - 1 = 0
    BY <1>1 DEF HashBefore
  <2>2. TxsTo(q, 0) = {} /\ FirstHashes(q, 0) = <<>>
    BY TxsAppended, NoHashes
  <2>3. QED  BY <2>1, <2>2 DEF History
<1>2. CASE i # 1
  <2>1. HashBefore(q, i) = q[i - 1].hash
    BY <1>2 DEF HashBefore
  <2>2. i - 1 \in 1..Len(q)
    BY <1>2
  <2>3. QED  BY <2>1, <2>2 DEF Along
<1>3. QED  BY <1>1, <1>2

LEMMA AlongCut ==
  ASSUME NEW q \in Seq(Block), NEW T, NEW X, NEW D, Along(T, X, D, q), NEW n \in 0..Len(q)
  PROVE  Along(T, X, D, SubSeq(q, 1, n))
<1> DEFINE r == SubSeq(q, 1, n)
<1>1. Len(r) = n /\ \A i \in 1..n : r[i] = q[i]
  BY FirstPart
<1> HIDE DEF r
<1>2. \A i \in 0..n : FirstHashes(r, i) = FirstHashes(q, i) /\ TxsTo(r, i) = TxsTo(q, i)
  BY <1>1, SameTo
<1>3. \A i \in 1..n : i \in 1..Len(q) /\ i \in 0..n
  OBVIOUS
<1>4. QED  BY <1>1, <1>2, <1>3 DEF Along, r

LEMMA AlongMore ==
  ASSUME NEW q \in Seq(Block), NEW T, NEW X, NEW D, NEW c, History(T, X, D, c),
         Along(T, X, D, q), NEW b \in Block, Remembered(T, X, D, c, b),
         b.prev = HashBefore(q, Len(q) + 1)
  PROVE  Along(T, X, D, Append(q, b))
<1> DEFINE r == Append(q, b)
<1>0. PICK m \in Nat : m = Len(q)
  OBVIOUS
<1>1. /\ Len(r) = m + 1 /\ r[m + 1] = b
      /\ \A i \in 1..m : r[i] = q[i]
  BY <1>0, AppendedOne
<1>2. /\ \A n \in 0..m : FirstHashes(r, n) = FirstHashes(q, n)
      /\ FirstHashes(r, m + 1) = Append(FirstHashes(q, m), b.hash)
  BY <1>0, HashesAppended
<1> HIDE DEF r
<1>3. \A i \in 0..m : TxsTo(r, i) = TxsTo(q, i)
  BY <1>1, SameTo
<1>4. TxsTo(r, m + 1) = TxsTo(q, m) \cup ToSet(b.txs)
  <2>1. m \in 0..m
    OBVIOUS
  <2>2. QED  BY <1>1, <1>3, <2>1, TxsAppended
<1>5. T[b.prev] = FirstHashes(q, m) /\ X[b.prev] = TxsTo(q, m) /\ b.prev \notin D
  <2>1. m + 1 \in 1..Len(q) + 1 /\ (m + 1) - 1 = m
    BY <1>0
  <2>2. QED  BY <1>0, <2>1, AlongBefore
<1>6. T[b.hash] = FirstHashes(r, m + 1) /\ X[b.hash] = TxsTo(r, m + 1) /\ b.hash \notin D
  BY <1>2, <1>4, <1>5 DEF Remembered
<1>7. ASSUME NEW i \in 1..Len(r)
      PROVE  T[r[i].hash] = FirstHashes(r, i) /\ X[r[i].hash] = TxsTo(r, i) /\ r[i].hash \notin D
  <2>1. CASE i \in 1..m
    <3>1. i \in 1..Len(q) /\ i \in 0..m
      BY <1>0, <2>1
    <3>2. QED  BY <1>1, <1>2, <1>3, <2>1, <3>1 DEF Along
  <2>2. CASE i = m + 1
    BY <1>1, <1>6, <2>2
  <2>3. QED  BY <1>1, <2>1, <2>2
<1>8. QED  BY <1>7 DEF Along, r

LEMMA UprightTo ==
  ASSUME NEW q, NEW r, NEW n \in Nat, \A i \in 1..n : r[i] = q[i], NEW i \in 1..n, Upright(q, i)
  PROVE  Upright(r, i)
<1>1. i \in 0..n /\ i - 1 \in 0..n
  OBVIOUS
<1>2. /\ FirstHashes(r, i) = FirstHashes(q, i)
      /\ TxsTo(r, i - 1) = TxsTo(q, i - 1)
  BY <1>1, SameTo
<1>3. QED  BY <1>2 DEF Upright

(***************************************************************************)
(* Another block is built.                                                 *)
(***************************************************************************)
Agree(T, X, D, T2, X2, D2, c) ==
  \A x \in 0..c : T2[x] = T[x] /\ X2[x] = X[x] /\ (x \in D2 <=> x \in D)

(* A block with hash c + 1 on top of p, with the transactions S, is built; *)
(* it is in D2 if p is in M.                                               *)
Extends(T, X, D, c, p, S, M, T2, X2, D2) ==
  /\ History(T2, X2, D2, c + 1) /\ Agree(T, X, D, T2, X2, D2, c)
  /\ T2[c + 1] = Append(T[p], c + 1) /\ X2[c + 1] = X[p] \cup S
  /\ c + 1 \in D2 <=> p \in M

LEMMA Grown ==
  ASSUME NEW c \in Nat, NEW T, NEW X, NEW D, History(T, X, D, c),
         NEW p \in 0..c, NEW S \in SUBSET Tx, NEW M \in SUBSET (0..c)
  PROVE  \E T2, X2, D2 : Extends(T, X, D, c, p, S, M, T2, X2, D2)
<1> DEFINE h == c + 1
           tree == Append(T[p], h)
           txs == X[p] \cup S
           T2 == [x \in 0..h |-> IF x = h THEN tree ELSE T[x]]
           X2 == [x \in 0..h |-> IF x = h THEN txs ELSE X[x]]
           D2 == D \cup {x \in {h} : p \in M}
<1>1. tree \in Seq(Nat) /\ txs \in SUBSET Tx
  BY DEF History
<1>2. h \in Nat /\ h # 0 /\ h \in 0..h /\ \A x \in 0..c : x \in 0..h /\ x # h
  OBVIOUS
<1>3. \A x \in 0..h : x = h \/ x \in 0..c
  OBVIOUS
<1> HIDE DEF tree, txs, h
<1>4. T2 \in [0..h -> Seq(Nat)] /\ X2 \in [0..h -> SUBSET Tx]
  BY <1>1, <1>3 DEF History
<1>5. T2[h] = tree /\ X2[h] = txs /\ \A x \in 0..c : T2[x] = T[x] /\ X2[x] = X[x]
  BY <1>2
<1>6. D2 \in SUBSET (0..h) /\ (h \in D2 <=> p \in M) /\ \A x \in 0..c : x \in D2 <=> x \in D
  BY <1>2 DEF History
<1> HIDE DEF T2, X2, D2
<1>7. 0 \in 0..c
  OBVIOUS
<1>8. History(T2, X2, D2, h)
  BY <1>4, <1>5, <1>6, <1>7 DEF History, NoHash
<1>9. Agree(T, X, D, T2, X2, D2, c)
  BY <1>5, <1>6 DEF Agree
<1>10. QED  BY <1>5, <1>6, <1>8, <1>9 DEF Extends, h, tree, txs

LEMMA StillRemembered ==
  ASSUME NEW c \in Nat, NEW c2 \in Nat, c <= c2, NEW T, NEW X, NEW D, NEW T2, NEW X2, NEW D2,
         Agree(T, X, D, T2, X2, D2, c)
  PROVE  /\ \A b : Remembered(T, X, D, c, b) => Remembered(T2, X2, D2, c2, b)
         /\ \A b : Remembered(T, X, D, c, b) /\ Sound(T, X, D, b) => Sound(T2, X2, D2, b)
<1>1. \A x \in 0..c : x \in 0..c2
  OBVIOUS
<1>2. \A x \in 1..c : x \in 1..c2 /\ x \in 0..c
  OBVIOUS
<1>3. QED  BY <1>1, <1>2 DEF Agree, Remembered, Sound

LEMMA StillRight ==
  ASSUME NEW c \in Nat, NEW c2 \in Nat, c <= c2, NEW T, NEW X, NEW D, NEW T2, NEW X2, NEW D2,
         Agree(T, X, D, T2, X2, D2, c)
  PROVE  /\ \A q, R : Chains(q, c, R) /\ Along(T, X, D, q) => Along(T2, X2, D2, q)
         /\ \A es : Announced(T, X, D, c, es) => Announced(T2, X2, D2, c2, es)
         /\ \A ps : Prepared(T, X, D, c, ps) => Prepared(T2, X2, D2, c2, ps)
         /\ \A d, local : LocalRight(T, X, D, c, d, local) => LocalRight(T2, X2, D2, c2, d, local)
         /\ \A d, local, bs : LocalRight(T, X, D, c, d, local) /\ Listed(X, D, d, local, bs)
                                => Listed(X2, D2, d, local, bs)
<1>1. \A x \in 1..c : x \in 0..c
  OBVIOUS
<1>2. \A q, R : Chains(q, c, R) /\ Along(T, X, D, q) => Along(T2, X2, D2, q)
  BY <1>1 DEF Agree, Along, Chains
<1>3. \A es : Announced(T, X, D, c, es) => Announced(T2, X2, D2, c2, es)
  <2> SUFFICES ASSUME NEW es, Announced(T, X, D, c, es) PROVE Announced(T2, X2, D2, c2, es)
    OBVIOUS
  <2>1. \A b : Remembered(T, X, D, c, b) => Remembered(T2, X2, D2, c2, b)
    BY StillRemembered
  <2>2. QED  BY <2>1 DEF Announced
<1>4. \A ps : Prepared(T, X, D, c, ps) => Prepared(T2, X2, D2, c2, ps)
  BY StillRemembered DEF Prepared
<1>5. \A x \in 0..c : x \in 0..c2
  OBVIOUS
<1>6. \A d, local : LocalRight(T, X, D, c, d, local) => LocalRight(T2, X2, D2, c2, d, local)
  BY <1>5 DEF Agree, LocalRight
<1>7. \A d, local, bs : LocalRight(T, X, D, c, d, local) /\ Listed(X, D, d, local, bs)
                          => Listed(X2, D2, d, local, bs)
  <2> SUFFICES ASSUME NEW d, NEW local, NEW bs, LocalRight(T, X, D, c, d, local),
                      Listed(X, D, d, local, bs)
               PROVE  Listed(X2, D2, d, local, bs)
    OBVIOUS
  <2>1. X2[local.prev] = X[local.prev] /\ (local.prev \in D2 <=> local.prev \in D)
    BY DEF Agree, LocalRight
  <2>2. QED  BY <2>1 DEF Listed
<1>8. QED  BY <1>2, <1>3, <1>4, <1>6, <1>7

LEMMA SameAgrees ==
  ASSUME NEW T, NEW X, NEW D, NEW c
  PROVE  Agree(T, X, D, T, X, D, c)
BY DEF Agree

(***************************************************************************)
(* What the parts of the invariant keep.                                   *)
(***************************************************************************)
Owns == \E T, X, D : OwnRight(T, X, D)

LEMMA MoreAnnounced ==
  ASSUME NEW es \in Seq(Event), NEW e \in Event, NEW T, NEW X, NEW D, NEW c,
         Announced(T, X, D, c, es),
         e.type = "BlockProposed" => Remembered(T, X, D, c, e.block)
  PROVE  Announced(T, X, D, c, Append(es, e))
<1> DEFINE fs == Append(es, e)
<1>1. /\ Len(fs) = Len(es) + 1 /\ Len(es) \in Nat /\ fs[Len(es) + 1] = e
      /\ \A i \in 1..Len(es) : fs[i] = es[i]
  BY AppendedOne
<1> HIDE DEF fs
<1>2. \A i \in 1..Len(fs) : i \in 1..Len(es) \/ i = Len(es) + 1
  BY <1>1
<1>3. QED  BY <1>1, <1>2 DEF Announced, fs

LEMMA LessAnnounced ==
  ASSUME NEW es \in Seq(Event), es # <<>>, NEW T, NEW X, NEW D, NEW c, Announced(T, X, D, c, es)
  PROVE  Announced(T, X, D, c, Tail(es))
<1>1. /\ Len(Tail(es)) = Len(es) - 1 /\ Len(es) \in Nat \ {0}
      /\ \A i \in 1..Len(es) - 1 : Tail(es)[i] = es[i + 1]
  BY TookFirst
<1>2. \A i \in 1..Len(Tail(es)) : i + 1 \in 1..Len(es) /\ Tail(es)[i] = es[i + 1]
  BY <1>1
<1>3. QED  BY <1>2 DEF Announced

LEMMA LocalQuiet ==
  ASSUME NEW T, NEW X, NEW D, NEW c, NEW d, NEW local \in Local, LocalRight(T, X, D, c, d, local),
         NEW e, Quiet(d, e), Len(d.blocks) \in Nat, Len(e.blocks) \in Nat,
         Len(d.blocks) <= Len(e.blocks)
  PROVE  LocalRight(T, X, D, c, e, local)
<1>1. local.n \in Int
  BY DEF Local
<1>2. Ahead(e, local) => Ahead(d, local)
  BY <1>1 DEF Ahead
<1>3. QED  BY <1>2 DEF LocalRight, Quiet

LEMMA NeverAheadReset ==
  ASSUME NEW d, Len(d.blocks) \in Nat
  PROVE  ~ Ahead(d, ResetLocal)
BY DEF Ahead, ResetLocal

LEMMA LocalForgotten ==
  ASSUME NEW T, NEW X, NEW D, NEW c \in Nat, History(T, X, D, c), NEW d, Len(d.blocks) \in Nat
  PROVE  LocalRight(T, X, D, c, d, ResetLocal)
<1>1. ResetLocal.prev = NoHash /\ ResetLocal.tree = <<>> /\ NoHash \in 0..c
  BY DEF ResetLocal, NoHash
<1>2. QED  BY <1>1, NeverAheadReset DEF LocalRight, History

LEMMA ListedKept ==
  ASSUME NEW X, NEW D, NEW d, NEW local, NEW bs, Listed(X, D, d, local, bs),
         NEW e, DOMAIN d.txs \subseteq DOMAIN e.txs, e.blocks = d.blocks, Len(d.blocks) \in Nat,
         NEW l2, l2 \in {local, ResetLocal}
  PROVE  Listed(X, D, e, l2, bs)
<1>1. ~ Ahead(e, ResetLocal)
  BY NeverAheadReset
<1>2. Ahead(e, l2) => l2 = local /\ Ahead(d, local)
  BY <1>1 DEF Ahead
<1>3. QED  BY <1>2 DEF Listed

LEMMA NothingListed ==
  ASSUME NEW X, NEW D, NEW d, NEW local
  PROVE  Listed(X, D, d, local, <<>>)
BY DEF Listed

LEMMA UprightCut ==
  ASSUME NEW q \in Seq(Block), OwnUpright(q), NEW n \in 0..Len(q)
  PROVE  OwnUpright(SubSeq(q, 1, n))
<1> DEFINE r == SubSeq(q, 1, n)
<1>1. Len(r) = n /\ \A i \in 1..n : r[i] = q[i]
  BY FirstPart
<1> HIDE DEF r
<1>2. \A i \in 1..n : i \in 1..Len(q)
  OBVIOUS
<1>3. \A i \in 1..n : Upright(q, i) => Upright(r, i)
  BY <1>1, UprightTo
<1>4. QED  BY <1>1, <1>2, <1>3 DEF OwnUpright, r

LEMMA UprightMore ==
  ASSUME NEW q \in Seq(Block), OwnUpright(q), NEW b \in Block,
         b.by = Me => Upright(Append(q, b), Len(q) + 1)
  PROVE  OwnUpright(Append(q, b))
<1> DEFINE r == Append(q, b)
<1>0. PICK m \in Nat : m = Len(q)
  OBVIOUS
<1>1. Len(r) = m + 1 /\ r[m + 1] = b /\ \A i \in 1..m : r[i] = q[i]
  BY <1>0, AppendedOne
<1>2. b.by = Me => Upright(r, m + 1)
  BY <1>0
<1> HIDE DEF r
<1>3. \A i \in 1..m : Upright(q, i) => Upright(r, i)
  BY <1>1, UprightTo
<1>4. \A i \in 1..Len(r) : i \in 1..m \/ i = m + 1
  BY <1>1
<1>5. QED  BY <1>0, <1>1, <1>2, <1>3, <1>4 DEF OwnUpright, r

LEMMA Standing ==
  ASSUME IInv
  PROVE  /\ count.blocks \in Nat /\ fast \in Seq(Event) /\ chain \in Seq(Block)
         /\ proposals \in Seq(Block) /\ db.blocks \in Seq(Block)
         /\ Len(chain) \in Nat /\ Len(db.blocks) \in Nat
         /\ IsDB(db) /\ mem.local \in Local /\ Known \subseteq Tx
         /\ Chains(chain, count.blocks, Known) /\ Chains(db.blocks, count.blocks, Known)
<1>1. IsDB(db) /\ IsMem(mem) /\ Types
  BY DEF IInv, Collections
<1>2. db.blocks \in Seq(Block) /\ mem.local \in Local
  BY <1>1 DEF IsDB, IsMem
<1>3. Len(db.blocks) \in Nat
  BY <1>2
<1>4. QED  BY <1>1, <1>2, <1>3, EndsOfEvents, CountTypes DEF Types

(***************************************************************************)
(* The steps.                                                              *)
(***************************************************************************)
LEMMA InitOwns == Init => Owns
<1> SUFFICES ASSUME Init PROVE Owns
  OBVIOUS
<1> DEFINE T == [x \in 0..0 |-> <<>>]
           X == [x \in 0..0 |-> {}]
<1>1. <<>> \in Seq(Nat) /\ Len(<<>>) = 0 /\ 0 \in 0..0
  OBVIOUS
<1>2. T \in [0..0 -> Seq(Nat)] /\ X \in [0..0 -> SUBSET Tx] /\ T[0] = <<>> /\ X[0] = {}
  BY <1>1
<1> HIDE DEF T, X
<1>3. History(T, X, {}, 0)
  BY <1>2 DEF History, NoHash
<1>4. /\ count.blocks = 0 /\ chain = <<>> /\ db.blocks = <<>> /\ fast = <<>>
      /\ proposals = <<>> /\ mem.local = ResetLocal /\ batches = <<>> /\ Len(db.blocks) \in Nat
  BY <1>1 DEF Init, EmptyDB
<1>5. LocalRight(T, X, {}, 0, db, ResetLocal)
  BY <1>3, <1>4, LocalForgotten
<1>6. OwnRight(T, X, {})
  BY <1>1, <1>3, <1>4, <1>5, NothingListed
  DEF OwnRight, Along, Announced, Prepared, OwnUpright
<1>7. QED  BY <1>6 DEF Owns

(* What was known of the blocks built so far stays known.                  *)
Later(T, X, D) ==
  \E T2, X2, D2 : OwnRight(T2, X2, D2)' /\ Agree(T, X, D, T2, X2, D2, count.blocks)

(* A step of the chain that appends no block.                              *)
LEMMA ChainOwns ==
  ASSUME IInv, NEW T, NEW X, NEW D, OwnRight(T, X, D),
         UNCHANGED <<db, mem, batches, saving, unlanded, proposals>>, count'.blocks = count.blocks,
         fast' = fast \/ \E e \in Event : e.type # "BlockProposed" /\ fast' = Append(fast, e),
         chain' = chain \/ \E n \in 0..Len(chain) : chain' = SubSeq(chain, 1, n)
  PROVE  Later(T, X, D)
<1>1. OwnRight(T, X, D)
  OBVIOUS
<1>2. fast \in Seq(Event) /\ chain \in Seq(Block)
  BY Standing
<1>3. Announced(T, X, D, count.blocks, fast')
  BY <1>1, <1>2, MoreAnnounced DEF OwnRight
<1>4. Along(T, X, D, chain') /\ OwnUpright(chain')
  BY <1>1, <1>2, AlongCut, UprightCut DEF OwnRight
<1>5. OwnRight(T, X, D)'
  BY <1>1, <1>3, <1>4 DEF OwnRight
<1>6. QED  BY <1>5, SameAgrees DEF Later

LEMMA SaveLandsOwns ==
  ASSUME IInv, NEW T, NEW X, NEW D, OwnRight(T, X, D), SaveLands
  PROVE  Later(T, X, D)
<1>1. OwnRight(T, X, D)
  OBVIOUS
<1>2. PICK p \in saving : db' = SaveBlockTransaction(db, p[1], p[2])
  BY DEF SaveLands
<1>3. UNCHANGED <<chainVars, mem, fast, batches>>
  BY DEF SaveLands
<1>4. batches = <<>>
  BY <1>1, <1>2 DEF OwnRight
<1>5. IsDB(db) /\ StoredRight(db, saving)
  BY DEF IInv, Collections
<1>6. db'.blocks = db.blocks
  BY <1>2, <1>5, LandedRight
<1>7. Quiet(db, db')
  BY <1>2, <1>5, QuietLands
<1>8. LocalRight(T, X, D, count.blocks, db', mem.local)
  <2>1. LocalRight(T, X, D, count.blocks, db, mem.local)
    BY <1>1 DEF OwnRight
  <2>2. Len(db'.blocks) \in Nat /\ Len(db.blocks) \in Nat /\ Len(db.blocks) <= Len(db'.blocks)
        /\ mem.local \in Local
    BY <1>6, Standing
  <2>3. QED  BY <1>7, <2>1, <2>2, LocalQuiet
<1>9. Listed(X, D, db', mem.local, batches)
  BY <1>4, NothingListed
<1>10. OwnRight(T, X, D)'
  BY <1>1, <1>3, <1>4, <1>6, <1>8, <1>9 DEF OwnRight, chainVars
<1>11. QED  BY <1>10, SameAgrees DEF Later

LEMMA RollbackLandsOwns ==
  ASSUME IInv, NEW T, NEW X, NEW D, OwnRight(T, X, D), RollbackLands
  PROVE  Later(T, X, D)
<1>1. OwnRight(T, X, D)
  OBVIOUS
<1>2. UNCHANGED <<chainVars, db, mem, fast, batches, saving>>
  BY DEF RollbackLands
<1>3. unlanded # AllLanded
  <2>1. unlanded.blocks # {} \/ DOMAIN unlanded.txs # {}
    BY DEF RollbackLands
  <2>2. AllLanded.blocks = {} /\ DOMAIN AllLanded.txs = {}
    BY DEF AllLanded
  <2>3. QED  BY <2>1, <2>2
<1>4. OwnRight(T, X, D)'
  BY <1>1, <1>2, <1>3 DEF OwnRight, chainVars
<1>5. QED  BY <1>4, SameAgrees DEF Later

LEMMA SaveSubmittedOwns ==
  ASSUME NoClash, IInv, NEW T, NEW X, NEW D, OwnRight(T, X, D), SaveSubmitted
  PROVE  Later(T, X, D)
<1>1. OwnRight(T, X, D)
  OBVIOUS
<1>2. UNCHANGED <<chainVars, mem, fast, batches, saving, unlanded>>
  BY DEF SaveSubmitted
<1>3. PICK t \in Known : checked = <<t>>
  BY DEF SaveSubmitted, IInv, Types
<1> DEFINE d1 == DeleteDuplicatesFromMemPool(db, Commitments[t], Nullifiers[t], DOMAIN unlanded.txs)
           d2 == SaveTransaction(d1, t)
<1>4. db' = d2
  BY <1>3 DEF SaveSubmitted
<1>5. IsDB(db) /\ DOMAIN db.txs \subseteq Known /\ Known \subseteq Tx
  BY Standing DEF IInv, Collections
<1>6. /\ Quiet(db, d1)
      /\ \A u \in DOMAIN db.txs : Commitments[u] \cap Commitments[t] = {}
                                    /\ Nullifiers[u] \cap Nullifiers[t] = {} => u \in DOMAIN d1.txs
  BY <1>5, QuietDuplicates
<1>7. SameStored(db, d1, {})
  BY <1>5, DuplicatesGone
<1> HIDE DEF d1
<1>8. SameStored(d1, d2, {t}) /\ Quiet(d1, d2) /\ DOMAIN d2.txs = DOMAIN d1.txs \cup {t}
  BY <1>7, SavedOne, QuietSave DEF SameStored
<1> HIDE DEF d2
<1>9. \A u \in DOMAIN db.txs : u # t => ~ Clash(u, t)
  BY <1>5 DEF NoClash
<1>10. DOMAIN db.txs \subseteq DOMAIN db'.txs
  BY <1>4, <1>6, <1>8, <1>9 DEF Clash
<1>11. db'.blocks = db.blocks /\ Quiet(db, db')
  BY <1>4, <1>6, <1>7, <1>8, QuietTwice DEF SameStored
<1>12. LocalRight(T, X, D, count.blocks, db', mem.local)
  <2>1. LocalRight(T, X, D, count.blocks, db, mem.local)
    BY <1>1 DEF OwnRight
  <2>2. Len(db'.blocks) \in Nat /\ Len(db.blocks) \in Nat /\ Len(db.blocks) <= Len(db'.blocks)
        /\ mem.local \in Local
    BY <1>11, Standing
  <2>3. QED  BY <1>11, <2>1, <2>2, LocalQuiet
<1>13. Listed(X, D, db', mem.local, batches)
  <2>1. Listed(X, D, db, mem.local, batches)
    BY <1>1 DEF OwnRight
  <2>2. Len(db.blocks) \in Nat /\ db'.blocks = db.blocks
    BY <1>11, Standing
  <2>3. QED  BY <1>10, <2>1, <2>2, ListedKept
<1>14. OwnRight(T, X, D)'
  BY <1>1, <1>2, <1>11, <1>12, <1>13 DEF OwnRight, chainVars
<1>15. QED  BY <1>14, SameAgrees DEF Later

LEMMA ResetLocalBlockOwns ==
  ASSUME IInv, NEW T, NEW X, NEW D, OwnRight(T, X, D), ResetLocalBlock
  PROVE  Later(T, X, D)
<1>1. OwnRight(T, X, D)
  OBVIOUS
<1>2. /\ mem' = [mem EXCEPT !.local = ResetLocal] /\ db' = ResetUnsuccessful(db)
      /\ UNCHANGED <<chainVars, fast, batches, saving, unlanded>>
  BY DEF ResetLocalBlock
<1>3. IsDB(db) /\ IsMem(mem)
  BY DEF IInv, Collections
<1>4. mem'.local = ResetLocal
  BY <1>2, <1>3, LocalKept
<1>5. db'.blocks = db.blocks /\ DOMAIN db'.txs = DOMAIN db.txs
  BY <1>2, <1>3 DEF IsDB, ResetUnsuccessful, UpdateTransactions
<1>6. History(T, X, D, count.blocks)
  BY <1>1 DEF OwnRight
<1>7. LocalRight(T, X, D, count.blocks, db', mem'.local)
  BY <1>4, <1>5, <1>6, Standing, LocalForgotten
<1>8. Listed(X, D, db', mem'.local, batches)
  <2>1. Listed(X, D, db, mem.local, batches)
    BY <1>1 DEF OwnRight
  <2>2. Len(db.blocks) \in Nat
    BY Standing
  <2>3. DOMAIN db.txs \subseteq DOMAIN db'.txs
    BY <1>5
  <2>4. QED  BY <1>4, <1>5, <2>1, <2>2, <2>3, ListedKept
<1>9. OwnRight(T, X, D)'
  BY <1>1, <1>2, <1>5, <1>7, <1>8 DEF OwnRight, chainVars
<1>10. QED  BY <1>9, SameAgrees DEF Later

LEMMA AlongAfter ==
  ASSUME NEW q, NEW c, NEW R, Chains(q, c, R), NEW a, Chains(a, c, R), NEW e \in Event,
         Follows(q, e, a), NEW T, NEW X, NEW D, History(T, X, D, c), Along(T, X, D, q),
         e.type = "BlockProposed" => Remembered(T, X, D, c, e.block)
  PROVE  Along(T, X, D, a)
<1>0. q \in Seq(Block) /\ Len(q) \in Nat
  BY DEF Chains
<1>1. CASE e.type = "BlockProposed"
  <2>1. a = Append(q, e.block) /\ e.block \in Block
    BY <1>1, EventFields DEF Follows
  <2>2. /\ Len(a) = Len(q) + 1 /\ a[Len(q) + 1] = e.block
        /\ \A i \in 1..Len(q) : a[i] = q[i]
    BY <1>0, <2>1, AppendedOne
  <2>3. PICK m \in Nat : m = Len(q) + 1
    BY <1>0
  <2>4. m \in 1..Len(a) /\ m # 1 => m - 1 \in 1..Len(q)
    BY <1>0, <2>2, <2>3
  <2>5. a[m].prev = HashBefore(a, m)
    <3>1. m \in 1..Len(a)
      BY <1>0, <2>2, <2>3
    <3>2. QED  BY <3>1 DEF Chains
  <2>6. HashBefore(a, m) = HashBefore(q, m)
    <3>1. m # 1 => m - 1 \in 1..Len(q)
      BY <1>0, <2>3
    <3>2. QED  BY <2>2, <3>1 DEF HashBefore
  <2>7. e.block.prev = HashBefore(q, Len(q) + 1)
    BY <2>2, <2>3, <2>5, <2>6
  <2>8. QED  BY <1>0, <1>1, <2>1, <2>7, AlongMore
<1>2. CASE e.type = "Rollback"
  <2>1. e.n \in 0..Len(q) /\ a = SubSeq(q, 1, e.n)
    BY <1>0, <1>2 DEF Follows
  <2>2. QED  BY <1>0, <2>1, AlongCut
<1>3. CASE e.type \notin {"BlockProposed", "Rollback"}
  BY <1>3 DEF Follows
<1>4. QED  BY <1>1, <1>2, <1>3

LEMMA HandleEventOwns ==
  ASSUME IInv, NEW T, NEW X, NEW D, OwnRight(T, X, D), HandleEvent
  PROVE  Later(T, X, D)
<1>1. OwnRight(T, X, D)
  OBVIOUS
<1>2. /\ fast # <<>> /\ saving = {} /\ fast' = Tail(fast) /\ batches = <<>>
      /\ UNCHANGED <<chain, roots, proposals, count, batches>>
  BY DEF HandleEvent, AllWritten
<1>3. fast \in Seq(Event) /\ Chains(db.blocks, count.blocks, Known)
  BY Standing
<1>4. Head(fast) \in Event /\ Tail(fast) \in Seq(Event) /\ Head(fast) = fast[1] /\ 1 \in 1..Len(fast)
  <2>1. Len(fast) \in Nat \ {0} /\ Tail(fast) \in Seq(Event) /\ Head(fast) = fast[1] /\ fast[1] \in Event
    BY <1>2, <1>3, TookFirst
  <2>2. QED  BY <2>1
<1>5. PICK a \in Seq(Block) : /\ Follows(db.blocks, Head(fast), a)
                              /\ Chains(a, count.blocks, Known)
                              /\ Leads(Tail(fast), a, chain, count.blocks, Known)
  BY <1>2, <1>3, LeadsFrom DEF IInv
<1> DEFINE r == Handled(Node, Head(fast))
<1>6. db' = r.db /\ mem' = r.mem
  BY DEF HandleEvent, Becomes
<1>7. Settled(Node) /\ Node.db = db /\ Node.mem = mem
  BY <1>2 DEF Settled, IInv, Collections, IsNode, Node
<1>8. Outcome(Node, r, a)
  BY <1>3, <1>4, <1>5, <1>7, HandledRight
<1> HIDE DEF r
<1>9. db'.blocks = a /\ Consistent(Node, r)
  BY <1>6, <1>8 DEF Outcome
<1>10. Along(T, X, D, db'.blocks)
  <2>1. History(T, X, D, count.blocks) /\ Along(T, X, D, db.blocks)
    BY <1>1 DEF OwnRight
  <2>2. Head(fast).type = "BlockProposed" => Remembered(T, X, D, count.blocks, Head(fast).block)
    BY <1>1, <1>4 DEF OwnRight, Announced
  <2>3. QED  BY <1>3, <1>4, <1>5, <1>9, <2>1, <2>2, AlongAfter
<1>11. Announced(T, X, D, count.blocks, fast')
  BY <1>1, <1>2, <1>3, LessAnnounced DEF OwnRight
<1>12. LocalRight(T, X, D, count.blocks, db', mem'.local)
  <2>1. Len(a) \in Nat /\ Len(db.blocks) \in Nat /\ mem.local \in Local /\ count.blocks \in Nat
    BY Standing
  <2>2. CASE r.mem.local = ResetLocal
    <3>1. History(T, X, D, count.blocks)
      BY <1>1 DEF OwnRight
    <3>2. QED  BY <1>6, <1>9, <2>1, <2>2, <3>1, LocalForgotten
  <2>3. CASE r.mem.local = mem.local /\ Quiet(db, r.db) /\ Len(db.blocks) <= Len(r.db.blocks)
    <3>1. LocalRight(T, X, D, count.blocks, db, mem.local)
      BY <1>1 DEF OwnRight
    <3>2. QED  BY <1>6, <1>9, <2>1, <2>3, <3>1, LocalQuiet
  <2>4. QED  BY <1>7, <1>9, <2>2, <2>3 DEF Consistent
<1>13. Listed(X, D, db', mem'.local, batches)
  BY <1>2, NothingListed
<1>14. OwnRight(T, X, D)'
  BY <1>1, <1>2, <1>10, <1>11, <1>12, <1>13 DEF OwnRight
<1>15. QED  BY <1>14, SameAgrees DEF Later

(* A list without repeats, cut into blocks: none has repeats, and no two   *)
(* share a transaction.                                                    *)
LEMMA CutApart ==
  ASSUME NEW S, NEW s \in Seq(S), NoRepeats(s), NEW bs \in Batches(s)
  PROVE  /\ \A k \in 1..Len(bs) : NoRepeats(bs[k]) /\ ToSet(bs[k]) \subseteq ToSet(s)
         /\ \A k, l \in 1..Len(bs) : k # l => ToSet(bs[k]) \cap ToSet(bs[l]) = {}
<1>1. CASE bs \in {<<s>>}
  <2>1. bs = <<s>>
    BY <1>1
  <2>2. Len(bs) = 1 /\ bs[1] = s
    BY <2>1
  <2>3. \A k \in 1..Len(bs) : k = 1
    BY <2>2
  <2>4. QED  BY <2>2, <2>3
<1>2. CASE bs \notin {<<s>>}
  <2>1. PICK cut \in Cuts(Len(s) - 1) :
          bs = [i \in 1..Len(cut) |-> SubSeq(s, IF i = 1 THEN 1 ELSE cut[i - 1] + 1, cut[i])]
    BY <1>2 DEF Batches
  <2>2. PICK m \in 1..Len(s) - 1 : cut \in [1..m -> 1..Len(s) - 1]
    BY DEF Cuts
  <2>3. Len(cut) = m /\ m \in Nat /\ DOMAIN cut = 1..m
    BY <2>2
  <2>4. \A i, j \in 1..m : i < j => cut[i] < cut[j]
    BY <2>3 DEF Cuts
  <2> DEFINE lo(i) == IF i = 1 THEN 1 ELSE cut[i - 1] + 1
  <2>5. \A i \in 1..m : /\ cut[i] \in 1..Len(s) /\ lo(i) \in 1..Len(s)
                        /\ \A j \in 1..m : j < i => cut[j] < lo(i)
    <3> SUFFICES ASSUME NEW i \in 1..m
                 PROVE  /\ cut[i] \in 1..Len(s) /\ lo(i) \in 1..Len(s)
                        /\ \A j \in 1..m : j < i => cut[j] < lo(i)
      OBVIOUS
    <3>1. cut[i] \in 1..Len(s)
      BY <2>2
    <3>2. CASE i = 1
      BY <3>1, <3>2
    <3>3. CASE i # 1
      <4>1. i - 1 \in 1..m /\ \A j \in 1..m : j < i => j = i - 1 \/ j < i - 1
        BY <3>3
      <4>2. cut[i - 1] \in 1..Len(s) - 1
        BY <2>2, <4>1
      <4>3. \A j \in 1..m : j < i => cut[j] <= cut[i - 1]
        <5>1. \A j \in 1..m : cut[j] \in 1..Len(s) - 1
          BY <2>2
        <5>2. QED  BY <2>4, <4>1, <4>2, <5>1
      <4>4. \A j \in 1..m : cut[j] \in Int
        BY <2>2
      <4>5. QED  BY <3>1, <3>3, <4>2, <4>3, <4>4
    <3>4. QED  BY <3>2, <3>3
  <2> DEFINE part(i) == SubSeq(s, lo(i), cut[i])
  <2>0. bs = [i \in 1..m |-> part(i)]
    BY <2>1, <2>3
  <2> HIDE DEF part
  <2>6. Len(bs) = m /\ \A i \in 1..m : bs[i] = part(i)
    BY <2>0, <2>3
  <2> HIDE DEF lo
  <2>7. ASSUME NEW i \in 1..m
        PROVE  /\ Len(bs[i]) = (IF lo(i) <= cut[i] THEN cut[i] - lo(i) + 1 ELSE 0)
               /\ \A x \in 1..Len(bs[i]) : /\ bs[i][x] = s[lo(i) + x - 1]
                                           /\ lo(i) + x - 1 \in 1..Len(s)
                                           /\ lo(i) <= lo(i) + x - 1 /\ lo(i) + x - 1 <= cut[i]
               /\ DOMAIN bs[i] = 1..Len(bs[i])
    <3>1. lo(i) \in 1..Len(s) /\ cut[i] \in 1..Len(s)
      BY <2>5
    <3> DEFINE u == lo(i)
               v == cut[i]
    <3>2. bs[i] = SubSeq(s, u, v)
      BY <2>6 DEF part
    <3>3. u \in 1..Len(s) /\ v \in 1..Len(s)
      BY <3>1
    <3> HIDE DEF u, v
    <3>4. /\ Len(SubSeq(s, u, v)) = (IF u <= v THEN v - u + 1 ELSE 0)
          /\ \A x \in 1..Len(SubSeq(s, u, v)) : SubSeq(s, u, v)[x] = s[u + x - 1]
          /\ DOMAIN SubSeq(s, u, v) = 1..Len(SubSeq(s, u, v))
      BY <3>3
    <3>5. \A x \in 1..Len(SubSeq(s, u, v)) :
            u + x - 1 \in 1..Len(s) /\ u <= u + x - 1 /\ u + x - 1 <= v
      BY <3>3, <3>4
    <3>6. QED  BY <3>2, <3>4, <3>5 DEF u, v
  <2>8. DOMAIN s = 1..Len(s)
    OBVIOUS
  <2>9. ASSUME NEW k \in 1..m PROVE NoRepeats(bs[k]) /\ ToSet(bs[k]) \subseteq ToSet(s)
    <3>0. /\ \A x \in 1..Len(bs[k]) : /\ bs[k][x] = s[lo(k) + x - 1]
                                       /\ lo(k) + x - 1 \in 1..Len(s)
          /\ DOMAIN bs[k] = 1..Len(bs[k])
      BY <2>7
    <3>1. ToSet(bs[k]) \subseteq ToSet(s)
      BY <2>8, <3>0 DEF ToSet
    <3>2. ASSUME NEW x \in 1..Len(bs[k]), NEW y \in 1..Len(bs[k]), bs[k][x] = bs[k][y]
          PROVE  x = y
      <4>1. lo(k) + x - 1 = lo(k) + y - 1
        <5>1. bs[k][x] = s[lo(k) + x - 1] /\ lo(k) + x - 1 \in 1..Len(s)
          BY <3>0
        <5>2. bs[k][y] = s[lo(k) + y - 1] /\ lo(k) + y - 1 \in 1..Len(s)
          BY <3>0
        <5>3. QED  BY <3>2, <5>1, <5>2 DEF NoRepeats
      <4>2. lo(k) \in Int /\ Len(bs[k]) \in Int
        BY <2>5, <2>7
      <4>3. QED  BY <4>1, <4>2
    <3>3. QED  BY <3>1, <3>2 DEF NoRepeats
  <2>10. ASSUME NEW k \in 1..m, NEW l \in 1..m, k < l
         PROVE  ToSet(bs[k]) \cap ToSet(bs[l]) = {}
    <3>0. DOMAIN bs[k] = 1..Len(bs[k]) /\ DOMAIN bs[l] = 1..Len(bs[l])
      BY <2>7
    <3> SUFFICES ASSUME NEW x \in 1..Len(bs[k]), NEW y \in 1..Len(bs[l]), bs[k][x] = bs[l][y]
                 PROVE  FALSE
      BY <3>0 DEF ToSet
    <3>1. lo(k) + x - 1 = lo(l) + y - 1
      <4>1. bs[k][x] = s[lo(k) + x - 1] /\ lo(k) + x - 1 \in 1..Len(s)
        BY <2>7
      <4>2. bs[l][y] = s[lo(l) + y - 1] /\ lo(l) + y - 1 \in 1..Len(s)
        BY <2>7
      <4>3. bs[k][x] = bs[l][y]
        OBVIOUS
      <4>4. QED  BY <4>1, <4>2, <4>3 DEF NoRepeats
    <3>2. lo(k) + x - 1 <= cut[k] /\ cut[k] < lo(l) /\ lo(l) <= lo(l) + y - 1
      BY <2>5, <2>7, <2>10
    <3> DEFINE a == lo(k) + x - 1
               b == lo(l) + y - 1
    <3>3. a \in 1..Len(s) /\ b \in 1..Len(s) /\ cut[k] \in 1..Len(s) /\ lo(l) \in 1..Len(s)
      BY <2>5, <2>7
    <3>4. a = b /\ a <= cut[k] /\ cut[k] < lo(l) /\ lo(l) <= b
      BY <3>1, <3>2
    <3> HIDE DEF a, b
    <3>5. QED  BY <3>3, <3>4
  <2>11. ASSUME NEW k \in 1..m, NEW l \in 1..m, k # l
         PROVE  ToSet(bs[k]) \cap ToSet(bs[l]) = {}
    <3>1. k < l \/ l < k
      BY <2>11
    <3>2. QED  BY <2>10, <3>1
  <2>12. QED  BY <2>6, <2>9, <2>11
<1>3. QED  BY <1>1, <1>2

(* What is stored for the blocks is in no mempool.                         *)
LEMMA StoredTaken ==
  ASSUME NEW d, IsDB(d), StoredRight(d, {})
  PROVE  TxsTo(d.blocks, Len(d.blocks)) \subseteq DOMAIN d.txs \ Mempool(d)
<1>1. \A i \in 1..Len(d.blocks) : \A t \in ToSet(d.blocks[i].txs) : Stored(d, t)
  BY DEF StoredRight
<1>2. \A t : Stored(d, t) => t \in DOMAIN d.txs \ Mempool(d)
  BY DEF Stored, IsDB, Mempool
<1>3. QED  BY <1>1, <1>2 DEF TxsTo

LEMMA ConditionalMakeBlockOwns ==
  ASSUME IInv, NEW T, NEW X, NEW D, OwnRight(T, X, D), ConditionalMakeBlock,
         count'.early = 0
  PROVE  Later(T, X, D)
<1>1. OwnRight(T, X, D)
  OBVIOUS
<1>2. UNCHANGED <<chain, log, current, roots, proposals, pool, db, mem, fast, saving, unlanded>>
  BY DEF ConditionalMakeBlock
<1>20. saving = {} /\ unlanded = AllLanded /\ UNCHANGED count
  <2>1. CASE AllWritten
    BY <2>1 DEF ConditionalMakeBlock, AllWritten
  <2>2. CASE ~ AllWritten
    <3>1. count' = [count EXCEPT !["early"] = @ + 1]
      BY <2>2 DEF ConditionalMakeBlock, Count
    <3>2. count.early \in Nat /\ count'.early = count.early + 1
      BY <3>1 DEF IInv, Types
    <3>3. QED  BY <3>2
  <2>3. QED  BY <2>1, <2>2
<1>21. SortedByFee(AsRead(db, unlanded)) = SortedByFee(db)
  BY <1>20, ReadLanded DEF IInv, Collections
<1>3. PICK s \in SortedByFee(db) : batches' \in Batches(s)
  BY <1>21 DEF ConditionalMakeBlock
<1>4. Mempool(db) \subseteq Known /\ IsFiniteSet(Known) /\ IsDB(db) /\ StoredRight(db, {})
  BY <1>20 DEF IInv, Collections, Types, Mempool
<1>5. Cardinality(Mempool(db)) \in Nat
  BY <1>4, FS_Subset, FS_CardinalityType
<1>6. /\ s \in [1..Cardinality(Mempool(db)) -> Mempool(db)]
      /\ \A i, j \in 1..Cardinality(Mempool(db)) : i # j => s[i] # s[j]
  BY DEF SortedByFee, SetToSeqs
<1>7. s \in Seq(Mempool(db)) /\ Len(s) = Cardinality(Mempool(db))
  BY <1>5, <1>6
<1>8. NoRepeats(s) /\ ToSet(s) \subseteq Mempool(db)
  BY <1>6, <1>7 DEF NoRepeats, ToSet
<1>9. /\ \A k \in 1..Len(batches') : NoRepeats(batches'[k]) /\ ToSet(batches'[k]) \subseteq Mempool(db)
      /\ \A k, l \in 1..Len(batches') : k # l => ToSet(batches'[k]) \cap ToSet(batches'[l]) = {}
  <2> DEFINE M == Mempool(db)
  <2>1. s \in Seq(M)
    BY <1>7
  <2> HIDE DEF M
  <2>2. /\ \A k \in 1..Len(batches') : NoRepeats(batches'[k]) /\ ToSet(batches'[k]) \subseteq ToSet(s)
        /\ \A k, l \in 1..Len(batches') : k # l => ToSet(batches'[k]) \cap ToSet(batches'[l]) = {}
    BY <1>3, <1>8, <2>1, CutApart
  <2>3. QED  BY <1>8, <2>2
<1>10. LocalRight(T, X, D, count.blocks, db, mem.local)
  BY <1>1 DEF OwnRight
<1>11. \A t \in Mempool(db) :
         /\ t \in DOMAIN db.txs /\ t \notin TxsTo(db.blocks, Len(db.blocks))
         /\ Ahead(db, mem.local) /\ mem.local.prev \notin D => t \notin X[mem.local.prev]
  <2>1. \A t \in Mempool(db) : t \in DOMAIN db.txs /\ t \notin TxsTo(db.blocks, Len(db.blocks))
    BY <1>4, StoredTaken DEF Mempool
  <2>2. \A t \in Mempool(db) :
          Ahead(db, mem.local) /\ mem.local.prev \notin D => t \notin X[mem.local.prev]
    BY <1>10 DEF LocalRight
  <2>3. QED  BY <2>1, <2>2
<1>12. Listed(X, D, db, mem.local, batches')
  BY <1>9, <1>11 DEF Listed
<1>13. OwnRight(T, X, D)'
  BY <1>1, <1>2, <1>12, <1>20 DEF OwnRight
<1>14. QED  BY <1>13, SameAgrees DEF Later

(* The latest stored block.                                                *)
LEMMA LatestFound ==
  ASSUME NEW d, IsDB(d), NEW c, NEW R, Chains(d.blocks, c, R)
  PROVE  LatestBlockInfo(d) = IF Len(d.blocks) = 0 THEN NoBlock ELSE d.blocks[Len(d.blocks)]
<1> DEFINE q == d.blocks
           I == {q[i].n : i \in 1..Len(q)} \cup {-1}
<1>0. PICK m \in Nat : m = Len(q)
  BY DEF IsDB
<1>1. DOMAIN q = 1..m /\ \A i \in 1..m : q[i].n = i - 1
  BY <1>0 DEF Chains
<1>2. {b.n : b \in ToSet(q)} \cup {-1} = {i - 1 : i \in 1..m} \cup {-1}
  BY <1>1 DEF ToSet
<1>3. {i - 1 : i \in 1..m} \cup {-1} = -1..m - 1
  <2>1. \A x \in -1..m - 1 : x = -1 \/ (x + 1 \in 1..m /\ x = (x + 1) - 1)
    OBVIOUS
  <2>2. QED  BY <2>1
<1>4. Max(-1..m - 1) = m - 1
  <2>1. m - 1 \in -1..m - 1 /\ \A y \in -1..m - 1 : m - 1 >= y
    OBVIOUS
  <2>2. \A x \in -1..m - 1 : x >= m - 1 => x = m - 1
    OBVIOUS
  <2> DEFINE r == -1..m - 1
             u == m - 1
  <2> HIDE DEF r, u
  <2>3. u \in r /\ (\A y \in r : u >= y) /\ \A x \in r : x >= u => x = u
    BY <2>1, <2>2 DEF r, u
  <2>4. (CHOOSE x \in r : \A y \in r : x >= y) = u
    BY <2>3
  <2>5. QED  BY <2>4 DEF Max, r, u
<1>5. LatestBlockInfo(d) = BlockByNumber(d, m - 1)
  BY <1>2, <1>3, <1>4 DEF LatestBlockInfo
<1> DEFINE J == {i \in 1..Len(q) : q[i].n = m - 1}
           i0 == SelectInSeq(q, LAMBDA x : x.n = m - 1)
<1>6. i0 = IF J # {} THEN Min(J) ELSE 0
  BY DEF SelectInSeq
<1>7. J = {i \in 1..m : i = m}
  BY <1>0, <1>1
<1>8. BlockByNumber(d, m - 1) = IF i0 = 0 THEN NoBlock ELSE q[i0]
  BY DEF BlockByNumber
<1>9. CASE m = 0
  <2>1. J = {}
    BY <1>7, <1>9
  <2>2. QED  BY <1>0, <1>5, <1>6, <1>8, <1>9, <2>1
<1>10. CASE m # 0
  <2>1. J = {m}
    BY <1>7, <1>10
  <2>2. Min({m}) = m
    <3>1. {m} \in SUBSET Nat /\ {m} # {}
      OBVIOUS
    <3>2. Min({m}) \in {m}
      BY <3>1, LeastIn
    <3>3. QED  BY <3>2
  <2>3. i0 = m
    BY <1>6, <2>1, <2>2
  <2>4. QED  BY <1>0, <1>5, <1>8, <1>10, <2>3
<1>11. QED  BY <1>9, <1>10

(* What the block built next follows, and its tree.                        *)
Follower(d, local, c, T, b) ==
  /\ ~ b.fault /\ b.prev \in 0..c /\ b.tree = Append(T[b.prev], b.hash)
  /\ b.n + 1 > Len(d.blocks)
  /\ \/ Ahead(d, local) /\ b.prev = local.prev
     \/ ~ Ahead(d, local) /\ b.prev = HashBefore(d.blocks, Len(d.blocks) + 1)

LEMMA BuiltOn ==
  ASSUME NEW d, IsDB(d), TreesRight(d), NEW c \in Nat, NEW R, Chains(d.blocks, c, R),
         NEW T, NEW X, NEW D, History(T, X, D, c), Along(T, X, D, d.blocks),
         NEW local \in Local, LocalRight(T, X, D, c, d, local),
         NEW txs \in Seq(Tx), NEW h \in Nat
  PROVE  Follower(d, local, c, T, BuildBlock(d, local, txs, h, Me))
<1> DEFINE q == d.blocks
           last == LatestBlockInfo(d)
           stored == last.n + 1 >= local.n
           n == IF stored THEN last.n + 1 ELSE local.n
           timber == IF stored THEN TreeByNumber(d, n - 1) ELSE local.tree
           prev == IF stored THEN last.hash ELSE local.prev
           tree == Append(timber, h)
           b1 == [NoBlock EXCEPT !.hash = h, !.n = n, !.txs = txs]
           b2 == [b1 EXCEPT !.by = Me, !.prev = prev, !.tree = tree]
           b == BuildBlock(d, local, txs, h, Me)
<1>1. b = b2
  BY DEF BuildBlock
<1>2. q \in Seq(Block)
  BY DEF IsDB
<1>3. PICK m \in Nat : m = Len(q)
  BY <1>2
<1>4. m # 0 => m \in 1..Len(q) /\ q[m] \in Block /\ q[m].n = m - 1 /\ q[m].hash \in 1..c
  <2>1. m # 0 => m \in 1..Len(q)
    BY <1>3
  <2>2. QED  BY <1>2, <2>1 DEF Chains
<1>5. last.n + 1 = m /\ last.hash = HashBefore(q, m + 1) /\ last.hash \in 0..c
  <2>1. last = IF m = 0 THEN NoBlock ELSE q[m]
    BY <1>3, LatestFound
  <2>2. CASE m = 0
    <3>1. last = NoBlock /\ HashBefore(q, m + 1) = NoHash
      BY <2>1, <2>2 DEF HashBefore
    <3> HIDE DEF last
    <3>2. last.n = -1 /\ last.hash = NoHash
      BY <3>1 DEF NoBlock
    <3>3. QED  BY <2>2, <3>1, <3>2 DEF NoHash
  <2>3. CASE m # 0
    <3>1. last = q[m] /\ HashBefore(q, m + 1) = q[m].hash
      BY <2>1, <2>3 DEF HashBefore
    <3> HIDE DEF last
    <3>2. \A x \in 1..c : x \in 0..c
      OBVIOUS
    <3>3. QED  BY <1>4, <2>3, <3>1, <3>2
  <2>4. QED  BY <2>2, <2>3
<1>6. T[HashBefore(q, m + 1)] = FirstHashes(q, m) /\ FirstHashes(q, 0) = <<>>
  <2>1. PICK k \in 1..Len(q) + 1 : k = m + 1 /\ k - 1 = m
    BY <1>3
  <2>2. Along(T, X, D, q)
    OBVIOUS
  <2> HIDE DEF q
  <2>3. T[HashBefore(q, k)] = FirstHashes(q, k - 1)
    BY <1>2, <2>2, AlongBefore
  <2>4. QED  BY <2>1, <2>3, NoHashes
<1>7. TreeByNumber(d, m - 1) = FirstHashes(q, m)
  <2>1. DOMAIN d.trees = 0..m - 1 /\ \A i \in 0..m - 1 : d.trees[i] = FirstHashes(q, i + 1)
    BY <1>3 DEF TreesRight
  <2>2. CASE m = 0
    <3>1. m - 1 \notin 0..m - 1
      BY <2>2
    <3>2. QED  BY <1>6, <2>1, <2>2, <3>1 DEF TreeByNumber
  <2>3. CASE m # 0
    <3>1. m - 1 \in 0..m - 1 /\ (m - 1) + 1 = m
      BY <2>3
    <3>2. d.trees[m - 1] = FirstHashes(q, (m - 1) + 1)
      BY <2>1, <3>1
    <3>3. QED  BY <2>1, <3>1, <3>2 DEF TreeByNumber
  <2>4. QED  BY <2>2, <2>3
<1>8. local.n \in Int /\ local.prev \in 0..c /\ local.tree = T[local.prev]
  BY DEF Local, LocalRight
<1> HIDE DEF last
<1>9. stored <=> ~ Ahead(d, local)
  BY <1>3, <1>5, <1>8 DEF Ahead
<1>10. CASE stored
  <2>1. n = m /\ prev = HashBefore(q, m + 1) /\ prev \in 0..c /\ timber = T[prev]
    BY <1>5, <1>6, <1>7, <1>10
  <2>2. n + 1 > m
    BY <2>1
  <2> HIDE DEF stored, n, prev, timber, tree
  <2>4. b2.n = n /\ b2.prev = prev /\ b2.tree = tree /\ b2.hash = h /\ b2.fault = FALSE
    BY DEF NoBlock
  <2> HIDE DEF b, b2
  <2>5. tree = Append(T[prev], h)
    BY <2>1 DEF tree
  <2>6. Follower(d, local, c, T, b)
    BY <1>1, <1>3, <1>9, <1>10, <2>1, <2>2, <2>4, <2>5 DEF Follower
  <2>7. QED  BY <2>6 DEF b
<1>11. CASE ~ stored
  <2>1. n = local.n /\ prev = local.prev /\ timber = T[prev]
    BY <1>8, <1>11
  <2>2. n + 1 > m
    BY <1>5, <1>8, <1>11, <2>1
  <2> HIDE DEF stored, n, prev, timber, tree
  <2>4. b2.n = n /\ b2.prev = prev /\ b2.tree = tree /\ b2.hash = h /\ b2.fault = FALSE
    BY DEF NoBlock
  <2> HIDE DEF b, b2
  <2>5. tree = Append(T[prev], h)
    BY <2>1 DEF tree
  <2>6. Follower(d, local, c, T, b)
    BY <1>1, <1>3, <1>8, <1>9, <1>11, <2>1, <2>2, <2>4, <2>5 DEF Follower
  <2>7. QED  BY <2>6 DEF b
<1>12. QED  BY <1>10, <1>11

LEMMA BelowBuilt ==
  ASSUME NEW d, IsDB(d), StoredRight(d, {}), NEW c, NEW R, Chains(d.blocks, c, R),
         NEW T, NEW X, NEW D, History(T, X, D, c), Along(T, X, D, d.blocks),
         NEW local, LocalRight(T, X, D, c, d, local), NEW bs, Listed(X, D, d, local, bs),
         NEW b, Follower(d, local, c, T, b), b.prev \notin D
  PROVE  /\ \A k \in 1..Len(bs) : \A t \in ToSet(bs[k]) : t \notin X[b.prev]
         /\ \A t \in X[b.prev] : t \in DOMAIN d.txs \ Mempool(d)
<1>1. CASE Ahead(d, local)
  <2>1. b.prev = local.prev
    BY <1>1 DEF Follower
  <2>2. QED  BY <1>1, <2>1 DEF LocalRight, Listed
<1>2. CASE ~ Ahead(d, local)
  <2>1. b.prev = HashBefore(d.blocks, Len(d.blocks) + 1)
    BY <1>2 DEF Follower
  <2> DEFINE q == d.blocks
  <2>2. q \in Seq(Block) /\ Along(T, X, D, q)
    BY DEF IsDB
  <2>3. PICK k \in 1..Len(q) + 1 : k = Len(q) + 1 /\ k - 1 = Len(q)
    BY <2>2
  <2>4. X[b.prev] = TxsTo(q, Len(q))
    <3>1. b.prev = HashBefore(q, k)
      BY <2>1, <2>3
    <3> HIDE DEF q
    <3>2. X[HashBefore(q, k)] = TxsTo(q, k - 1)
      BY <2>2, AlongBefore
    <3>3. QED  BY <2>3, <3>1, <3>2
  <2>5. \A k0 \in 1..Len(bs) : \A t \in ToSet(bs[k0]) : t \notin TxsTo(q, Len(q))
    BY DEF Listed
  <2>6. TxsTo(q, Len(q)) \subseteq DOMAIN d.txs \ Mempool(d)
    BY StoredTaken
  <2> HIDE DEF q
  <2>7. QED  BY <2>4, <2>5, <2>6
<1>3. QED  BY <1>1, <1>2

LEMMA MorePrepared ==
  ASSUME NEW ps \in Seq(Block), NEW b \in Block, NEW T, NEW X, NEW D, NEW c,
         Prepared(T, X, D, c, ps), Remembered(T, X, D, c, b), Sound(T, X, D, b)
  PROVE  Prepared(T, X, D, c, Append(ps, b))
<1> DEFINE r == Append(ps, b)
<1>1. /\ Len(r) = Len(ps) + 1 /\ Len(ps) \in Nat /\ r[Len(ps) + 1] = b
      /\ \A i \in 1..Len(ps) : r[i] = ps[i]
  BY AppendedOne
<1> HIDE DEF r
<1>2. \A i \in 1..Len(r) : i \in 1..Len(ps) \/ i = Len(ps) + 1
  BY <1>1
<1>3. QED  BY <1>1, <1>2 DEF Prepared, r

LEMMA BlockNotSentOwns ==
  ASSUME IInv, NEW T, NEW X, NEW D, OwnRight(T, X, D), BlockNotSent
  PROVE  Later(T, X, D)
<1>1. OwnRight(T, X, D)
  OBVIOUS
<1>2. PICK c \in Nat : c = count.blocks
  BY Standing
<1> DEFINE h == c + 1
           txs == Head(batches)
           b == BuildBlock(db, mem.local, txs, h, Me)
<1>33. BuildBlock(AsRead(db, unlanded), mem.local, txs, h, Me) = b
  <2>1. batches # <<>>
    BY DEF BlockNotSent
  <2>2. unlanded = AllLanded /\ IsDB(db)
    BY <1>1, <2>1 DEF OwnRight, IInv, Collections
  <2>3. QED  BY <2>2, ReadLanded
<1>3. /\ batches # <<>> /\ mem' = [mem EXCEPT !.local = LocalAfter(b)] /\ batches' = <<>>
      /\ UNCHANGED <<chain, proposals, db, fast, saving, unlanded>>
  BY <1>2, <1>33 DEF BlockNotSent
<1>4. count'.blocks = h
  <2>1. count \in [blocks : 0..MaxBlocks, faults : Nat, rotations : Nat, unsent : Nat, early : Nat]
    BY DEF IInv, Types
  <2>2. count' = [count EXCEPT !.unsent = @ + 1, !.blocks = @ + 1]
    BY DEF BlockNotSent
  <2>3. QED  BY <1>2, <2>1, <2>2
<1>5. IsDB(db) /\ TreesRight(db) /\ mem.local \in Local /\ IsMem(mem)
  BY Standing DEF IInv, Collections
<1>6. /\ Chains(chain, c, Known) /\ Chains(db.blocks, c, Known)
      /\ History(T, X, D, c) /\ Along(T, X, D, chain) /\ Along(T, X, D, db.blocks)
      /\ Announced(T, X, D, c, fast) /\ Prepared(T, X, D, c, proposals)
      /\ LocalRight(T, X, D, c, db, mem.local) /\ OwnUpright(chain)
  BY <1>1, <1>2, Standing DEF OwnRight
<1>7. txs \in Seq(Tx) /\ h \in Nat /\ c <= h /\ h \in 0..h
  BY <1>3, NextBatch
<1>31. db.blocks \in Seq(Block) /\ \A n : TreeByNumber(db, n) \in Seq(Nat)
  BY <1>5, FoundTree DEF IsDB
<1> HIDE DEF h, txs
<1>8. Follower(db, mem.local, c, T, b) /\ b.hash = h
  <2>1. b.hash = h
    BY <1>5, <1>7, <1>31, BuiltRight
  <2>2. Follower(db, mem.local, c, T, b)
    BY <1>5, <1>6, <1>7, BuiltOn
  <2>3. QED  BY <2>1, <2>2
<1>9. mem'.local = LocalAfter(b)
  BY <1>3, <1>5, LocalKept
<1> HIDE DEF b
<1>10. PICK T2, X2, D2 : /\ History(T2, X2, D2, h) /\ Agree(T, X, D, T2, X2, D2, c)
                         /\ T2[h] = Append(T[b.prev], h) /\ h \in D2
  <2>1. b.prev \in 0..c /\ {} \in SUBSET Tx /\ 0..c \in SUBSET (0..c)
    BY <1>8 DEF Follower
  <2>2. \E T2, X2, D2 : Extends(T, X, D, c, b.prev, {}, 0..c, T2, X2, D2)
    BY <1>6, <2>1, Grown
  <2>3. QED  BY <2>1, <2>2 DEF Extends, h
<1>11. /\ Along(T2, X2, D2, chain) /\ Along(T2, X2, D2, db.blocks)
       /\ Announced(T2, X2, D2, h, fast) /\ Prepared(T2, X2, D2, h, proposals)
  BY <1>6, <1>7, <1>10, StillRight
<1>12. LocalRight(T2, X2, D2, h, db, mem'.local)
  <2>1. mem'.local.prev = h /\ mem'.local.tree = b.tree
    BY <1>8, <1>9 DEF LocalAfter
  <2>2. QED  BY <1>7, <1>8, <1>10, <2>1 DEF LocalRight, Follower
<1>13. Listed(X2, D2, db', mem'.local, batches')
  BY <1>3, NothingListed
<1>14. OwnRight(T2, X2, D2)'
  BY <1>3, <1>4, <1>6, <1>10, <1>11, <1>12, <1>13 DEF OwnRight
<1>15. QED  BY <1>2, <1>10, <1>14 DEF Later

LEMMA MakeBlockOwns ==
  ASSUME IInv, NEW T, NEW X, NEW D, OwnRight(T, X, D), MakeBlock
  PROVE  Later(T, X, D)
<1>1. OwnRight(T, X, D)
  OBVIOUS
<1>2. PICK c \in Nat : c = count.blocks
  BY Standing
<1> DEFINE h == c + 1
           txs == Head(batches)
           b == BuildBlock(db, mem.local, txs, h, Me)
<1>33. BuildBlock(AsRead(db, unlanded), mem.local, txs, h, Me) = b
  <2>1. batches # <<>>
    BY DEF MakeBlock
  <2>2. unlanded = AllLanded /\ IsDB(db)
    BY <1>1, <2>1 DEF OwnRight, IInv, Collections
  <2>3. QED  BY <2>2, ReadLanded
<1>3. /\ batches # <<>> /\ mem' = [mem EXCEPT !.local = LocalAfter(b)] /\ batches' = Tail(batches)
      /\ proposals' = Append(proposals, b)
      /\ db' = RemoveTransactionsFromMemPool(db, ToSet(b.txs))
      /\ UNCHANGED <<chain, fast, saving, unlanded>>
  BY <1>2, <1>33 DEF MakeBlock
<1>4. count'.blocks = h
  <2>1. count \in [blocks : 0..MaxBlocks, faults : Nat, rotations : Nat, unsent : Nat, early : Nat]
    BY DEF IInv, Types
  <2>2. count' = [count EXCEPT !.blocks = @ + 1]
    BY DEF MakeBlock, Count
  <2>3. QED  BY <1>2, <2>1, <2>2
<1>5. IsDB(db) /\ TreesRight(db) /\ mem.local \in Local /\ IsMem(mem)
  BY Standing DEF IInv, Collections
<1>6. /\ Chains(chain, c, Known) /\ Chains(db.blocks, c, Known)
      /\ History(T, X, D, c) /\ Along(T, X, D, chain) /\ Along(T, X, D, db.blocks)
      /\ Announced(T, X, D, c, fast) /\ Prepared(T, X, D, c, proposals)
      /\ LocalRight(T, X, D, c, db, mem.local) /\ OwnUpright(chain)
      /\ Listed(X, D, db, mem.local, batches)
  BY <1>1, <1>2, Standing DEF OwnRight
<1>7. txs \in Seq(Tx) /\ h \in Nat /\ c <= h /\ h \in 0..h /\ h \in 1..h /\ \A x \in 0..c : x \in 0..h
  BY <1>3, NextBatch
<1>8. StoredRight(db, {})
  <2>1. saving = {}
    BY <1>1, <1>3 DEF OwnRight
  <2>2. QED  BY <2>1 DEF IInv, Collections
<1>9. /\ Len(batches') = Len(batches) - 1 /\ Len(batches) \in Nat \ {0} /\ txs = batches[1]
      /\ \A i \in 1..Len(batches) - 1 : batches'[i] = batches[i + 1]
  <2> DEFINE S == Seq(Known)
  <2>1. batches \in Seq(S)
    BY DEF IInv, Types
  <2> HIDE DEF S
  <2>2. QED  BY <1>3, <2>1, TookFirst
<1>10. 1 \in 1..Len(batches) /\ \A k \in 1..Len(batches') :
         k + 1 \in 1..Len(batches) /\ k + 1 # 1 /\ batches'[k] = batches[k + 1]
  BY <1>9
<1>31. db.blocks \in Seq(Block) /\ \A n : TreeByNumber(db, n) \in Seq(Nat)
  BY <1>5, FoundTree DEF IsDB
<1> HIDE DEF h, txs
<1>11. b \in Block /\ b.hash = h /\ b.txs = txs
  BY <1>5, <1>7, <1>31, BuiltRight
<1>12. Follower(db, mem.local, c, T, b)
  BY <1>5, <1>6, <1>7, BuiltOn
<1>13. mem'.local = LocalAfter(b)
  BY <1>3, <1>5, LocalKept
<1> HIDE DEF b
<1> DEFINE p == b.prev
           S == ToSet(txs)
<1>14. p \in 0..c /\ b.tree = Append(T[p], h) /\ ~ b.fault /\ S \in SUBSET Tx
  <2>1. S \subseteq Tx
    BY <1>7, Members
  <2>2. QED  BY <1>11, <1>12, <2>1 DEF Follower
<1>15. p \notin D => /\ \A k \in 1..Len(batches) : \A t \in ToSet(batches[k]) : t \notin X[p]
                     /\ \A t \in X[p] : t \in DOMAIN db.txs \ Mempool(db)
  BY <1>5, <1>6, <1>8, <1>12, BelowBuilt
<1>16. Quiet(db, db') /\ DOMAIN db'.txs = DOMAIN db.txs
       /\ \A t \in S \cap DOMAIN db.txs : t \notin Mempool(db')
  BY <1>3, <1>5, <1>11, QuietRemove
<1>17. db'.blocks = db.blocks
  BY <1>3, <1>5, TakenOut DEF SameStored
<1> HIDE DEF p, S
<1>18. PICK T2, X2, D2 : /\ History(T2, X2, D2, h) /\ Agree(T, X, D, T2, X2, D2, c)
                         /\ T2[h] = Append(T[p], h) /\ X2[h] = X[p] \cup S
                         /\ h \in D2 <=> p \in D
  <2>1. D \in SUBSET (0..c)
    BY <1>6 DEF History
  <2>2. \E T2, X2, D2 : Extends(T, X, D, c, p, S, D, T2, X2, D2)
    BY <1>6, <1>14, <2>1, Grown
  <2>3. QED  BY <2>2 DEF Extends, h
<1>19. /\ Along(T2, X2, D2, chain) /\ Along(T2, X2, D2, db.blocks)
       /\ Announced(T2, X2, D2, h, fast) /\ Prepared(T2, X2, D2, h, proposals)
  BY <1>6, <1>7, <1>18, StillRight
<1>20. T2[p] = T[p] /\ X2[p] = X[p] /\ (p \in D2 <=> p \in D)
  BY <1>14, <1>18 DEF Agree
<1>21. Remembered(T2, X2, D2, h, b)
  BY <1>7, <1>11, <1>14, <1>18, <1>20 DEF Remembered, p, S
<1>22. NoRepeats(txs) /\ \A t \in S : t \in DOMAIN db.txs
  BY <1>6, <1>9, <1>10 DEF Listed, S
<1>23. p \notin D => \A t \in S : t \notin X[p]
  BY <1>9, <1>10, <1>15 DEF S
<1>24. Sound(T2, X2, D2, b)
  BY <1>11, <1>14, <1>18, <1>20, <1>22, <1>23 DEF Sound, p, S
<1>25. Prepared(T2, X2, D2, h, proposals')
  <2>1. proposals \in Seq(Block)
    BY Standing
  <2>2. QED  BY <1>3, <1>11, <1>19, <1>21, <1>24, <2>1, MorePrepared
<1>26. mem'.local.prev = h /\ mem'.local.tree = b.tree
  BY <1>11, <1>13 DEF LocalAfter
<1>27. LocalRight(T2, X2, D2, h, db', mem'.local)
  <2>1. ASSUME p \notin D, NEW t \in X2[h] PROVE t \in DOMAIN db'.txs \ Mempool(db')
    <3>1. CASE t \in X[p]
      BY <1>15, <1>16, <2>1, <3>1 DEF Quiet
    <3>2. CASE t \in S
      BY <1>16, <1>22, <3>2
    <3>3. QED  BY <1>18, <2>1, <3>1, <3>2
  <2>2. QED  BY <1>7, <1>14, <1>18, <1>26, <2>1 DEF LocalRight
<1>28. Listed(X2, D2, db', mem'.local, batches')
  <2>1. ASSUME NEW k \in 1..Len(batches')
        PROVE  /\ NoRepeats(batches'[k])
               /\ \A t \in ToSet(batches'[k]) :
                    /\ t \in DOMAIN db'.txs /\ t \notin TxsTo(db'.blocks, Len(db'.blocks))
                    /\ mem'.local.prev \notin D2 => t \notin X2[mem'.local.prev]
    <3>1. k + 1 \in 1..Len(batches) /\ k + 1 # 1 /\ batches'[k] = batches[k + 1]
      BY <1>10
    <3>2. PICK l \in 1..Len(batches) : l # 1 /\ batches'[k] = batches[l]
      BY <3>1
    <3>3. ToSet(batches[l]) \cap S = {}
      BY <1>6, <1>9, <1>10, <3>2 DEF Listed, S
    <3>4. /\ NoRepeats(batches[l])
          /\ \A t \in ToSet(batches[l]) : t \in DOMAIN db.txs /\ t \notin TxsTo(db.blocks, Len(db.blocks))
      BY <1>6 DEF Listed
    <3>5. p \notin D => \A t \in ToSet(batches[l]) : t \notin X[p]
      BY <1>15
    <3>6. QED  BY <1>16, <1>17, <1>18, <1>26, <3>2, <3>3, <3>4, <3>5
  <2>2. ASSUME NEW k \in 1..Len(batches'), NEW l \in 1..Len(batches'), k # l
        PROVE  ToSet(batches'[k]) \cap ToSet(batches'[l]) = {}
    <3>1. k + 1 \in 1..Len(batches) /\ l + 1 \in 1..Len(batches) /\ k + 1 # l + 1
      BY <1>10, <2>2
    <3>2. batches'[k] = batches[k + 1] /\ batches'[l] = batches[l + 1]
      BY <1>10
    <3>3. ToSet(batches[k + 1]) \cap ToSet(batches[l + 1]) = {}
      BY <1>6, <3>1 DEF Listed
    <3>4. QED  BY <3>2, <3>3
  <2>3. QED  BY <2>1, <2>2 DEF Listed
<1>29. OwnRight(T2, X2, D2)'
  <2>1. batches' # <<>> => saving' = {} /\ unlanded' = AllLanded
    BY <1>1, <1>3 DEF OwnRight
  <2>2. QED  BY <1>3, <1>4, <1>6, <1>17, <1>18, <1>19, <1>25, <1>27, <1>28, <2>1 DEF OwnRight
<1>30. QED  BY <1>2, <1>18, <1>29 DEF Later

LEMMA BlockEmitted ==
  ASSUME IInv, NEW b \in Block, EmitBlock(b)
  PROVE  \E x \in Block, e \in Event :
           /\ chain' = Append(chain, x) /\ fast' = Append(fast, e)
           /\ e.type = "BlockProposed" /\ e.block = x
           /\ x.hash = b.hash /\ x.prev = b.prev /\ x.txs = b.txs /\ x.tree = b.tree
           /\ x.fault = b.fault /\ x.by = b.by
<1> DEFINE l == Len(log) + 1
           x == [b EXCEPT !.l1 = l]
           e == [type |-> "BlockProposed", block |-> x]
<1>1. chain' = Append(chain, x) /\ Emit(e)
  BY DEF EmitBlock
<1>2. l \in Nat
  BY DEF IInv, Types
<1> HIDE DEF l
<1>3. /\ x \in Block /\ x.hash = b.hash /\ x.prev = b.prev /\ x.txs = b.txs /\ x.tree = b.tree
      /\ x.fault = b.fault /\ x.by = b.by
  BY <1>2 DEF Block
<1> HIDE DEF x
<1>4. e \in Event /\ e.type = "BlockProposed" /\ e.block = x
  BY <1>3 DEF Event
<1> HIDE DEF e
<1>5. fast' = Append(fast, e)
  BY <1>1 DEF Emit
<1>6. QED  BY <1>1, <1>3, <1>4, <1>5

(* A block gets on top of the chain.                                       *)
LEMMA ChainGrows ==
  ASSUME IInv, NEW b \in Block, EmitBlock(b), b.prev = TipHash,
         NEW T, NEW X, NEW D, NEW c, History(T, X, D, c), Remembered(T, X, D, c, b),
         b.by = Me => Sound(T, X, D, b),
         Along(T, X, D, chain), Announced(T, X, D, c, fast), OwnUpright(chain)
  PROVE  Along(T, X, D, chain') /\ Announced(T, X, D, c, fast') /\ OwnUpright(chain')
<1>1. PICK x \in Block, e \in Event :
         /\ chain' = Append(chain, x) /\ fast' = Append(fast, e)
         /\ e.type = "BlockProposed" /\ e.block = x
         /\ x.hash = b.hash /\ x.prev = b.prev /\ x.txs = b.txs /\ x.tree = b.tree
         /\ x.fault = b.fault /\ x.by = b.by
  BY BlockEmitted
<1>2. chain \in Seq(Block) /\ fast \in Seq(Event)
  BY Standing
<1>3. Remembered(T, X, D, c, x)
  BY <1>1 DEF Remembered
<1>4. Announced(T, X, D, c, fast')
  BY <1>1, <1>2, <1>3, MoreAnnounced
<1>5. x.prev = HashBefore(chain, Len(chain) + 1)
  BY <1>1, LastBefore
<1>6. Along(T, X, D, Append(chain, x))
  BY <1>2, <1>3, <1>5, AlongMore
<1>7. PICK m \in Nat : m = Len(chain)
  BY <1>2
<1> DEFINE r == Append(chain, x)
<1>8. /\ Len(r) = m + 1 /\ r[m + 1] = x /\ \A i \in 1..m : r[i] = chain[i]
  BY <1>2, <1>7, AppendedOne
<1> HIDE DEF r
<1>9. X[x.prev] = TxsTo(chain, m) /\ x.prev \notin D
  <2>1. PICK k \in 1..Len(chain) + 1 : k = m + 1 /\ k - 1 = m
    BY <1>7
  <2>2. x.prev = HashBefore(chain, k)
    BY <1>5, <1>7, <2>1
  <2>3. X[HashBefore(chain, k)] = TxsTo(chain, k - 1) /\ HashBefore(chain, k) \notin D
    BY <1>2, AlongBefore
  <2>4. QED  BY <2>1, <2>2, <2>3
<1>10. TxsTo(r, m) = TxsTo(chain, m)
  <2>1. m \in 0..m
    OBVIOUS
  <2>2. QED  BY <1>8, <2>1, SameTo
<1>11. T[x.hash] = FirstHashes(r, m + 1)
  <2>1. m + 1 \in 1..Len(r)
    BY <1>8
  <2>2. QED  BY <1>6, <1>8, <2>1 DEF Along, r
<1>12. ASSUME x.by = Me PROVE Upright(r, m + 1)
  <2>1. Sound(T, X, D, b)
    BY <1>1, <1>12
  <2>2. ~ r[m + 1].fault /\ r[m + 1].tree = FirstHashes(r, m + 1) /\ NoRepeats(r[m + 1].txs)
    BY <1>1, <1>8, <1>9, <1>11, <2>1 DEF Sound
  <2>3. ToSet(r[m + 1].txs) \cap TxsTo(r, (m + 1) - 1) = {}
    <3>1. (m + 1) - 1 = m
      OBVIOUS
    <3>2. QED  BY <1>1, <1>8, <1>9, <1>10, <2>1, <3>1 DEF Sound
  <2>4. QED  BY <2>2, <2>3 DEF Upright
<1>13. OwnUpright(Append(chain, x))
  BY <1>2, <1>7, <1>12, UprightMore DEF r
<1>14. QED  BY <1>1, <1>4, <1>6, <1>13

LEMMA MineProposalOwns ==
  ASSUME IInv, NEW T, NEW X, NEW D, OwnRight(T, X, D), MineProposal
  PROVE  Later(T, X, D)
<1>1. OwnRight(T, X, D)
  OBVIOUS
<1>2. /\ proposals # <<>> /\ proposals' = Tail(proposals)
      /\ UNCHANGED <<count, db, mem, batches, saving, unlanded>>
  BY DEF MineProposal
<1>3. proposals \in Seq(Block)
  BY Standing
<1> DEFINE b == Head(proposals)
           c == count.blocks
<1>4. /\ Len(proposals') = Len(proposals) - 1 /\ Len(proposals) \in Nat \ {0}
      /\ \A i \in 1..Len(proposals) - 1 : proposals'[i] = proposals[i + 1]
      /\ b = proposals[1] /\ b \in Block
  BY <1>2, <1>3, TookFirst
<1>5. 1 \in 1..Len(proposals) /\ \A i \in 1..Len(proposals') :
        i + 1 \in 1..Len(proposals) /\ proposals'[i] = proposals[i + 1]
  BY <1>4
<1>6. (b.prev = TipHash /\ EmitBlock(b)) \/ UNCHANGED <<chain, fast>>
  BY DEF MineProposal
<1> HIDE DEF b
<1>7. /\ History(T, X, D, c) /\ Along(T, X, D, chain) /\ OwnUpright(chain)
      /\ Announced(T, X, D, c, fast) /\ Prepared(T, X, D, c, proposals)
  BY <1>1 DEF OwnRight
<1>8. Prepared(T, X, D, c, proposals')
  BY <1>5, <1>7 DEF Prepared
<1>9. Along(T, X, D, chain') /\ Announced(T, X, D, c, fast') /\ OwnUpright(chain')
  <2>1. CASE b.prev = TipHash /\ EmitBlock(b)
    <3>1. Remembered(T, X, D, c, b) /\ Sound(T, X, D, b)
      BY <1>4, <1>5, <1>7 DEF Prepared
    <3> HIDE DEF c
    <3>2. QED  BY <1>4, <1>7, <2>1, <3>1, ChainGrows
  <2>2. CASE UNCHANGED <<chain, fast>>
    BY <1>7, <2>2
  <2>3. QED  BY <1>6, <2>1, <2>2
<1>10. OwnRight(T, X, D)'
  BY <1>1, <1>2, <1>8, <1>9 DEF OwnRight
<1>11. QED  BY <1>10, SameAgrees DEF Later

LEMMA OtherProposesOwns ==
  ASSUME IInv, NEW T, NEW X, NEW D, OwnRight(T, X, D), OtherProposes
  PROVE  Later(T, X, D)
<1>1. OwnRight(T, X, D)
  OBVIOUS
<1>2. PICK c \in Nat : c = count.blocks
  BY Standing
<1>3. PICK t \in Known, fault \in BOOLEAN :
        /\ EmitBlock([NoBlock EXCEPT !.hash = count.blocks + 1, !.n = Len(chain),
                      !.prev = TipHash, !.txs = <<t>>, !.fault = fault, !.by = Other,
                      !.tree = Append(ChainTree, count.blocks + 1)])
        /\ count' = [count EXCEPT !.blocks = @ + 1, !.faults = @ + (IF fault THEN 1 ELSE 0)]
  BY DEF OtherProposes, Known
<1>4. UNCHANGED <<proposals, db, mem, batches, saving, unlanded>>
  BY DEF OtherProposes
<1> DEFINE h == c + 1
           p == TipHash
           n == Len(chain)
           tree == Append(ChainTree, h)
           txs == <<t>>
           b == Made(h, n, p, txs, fault, Other, tree)
<1>5. count'.blocks = h
  <2>1. count \in [blocks : 0..MaxBlocks, faults : Nat, rotations : Nat, unsent : Nat, early : Nat]
    BY DEF IInv, Types
  <2>2. QED  BY <1>2, <1>3, <2>1
<1>6. chain \in Seq(Block) /\ Chains(chain, c, Known) /\ Chains(db.blocks, c, Known) /\ n \in Nat
  BY <1>2, Standing
<1>7. /\ History(T, X, D, c) /\ Along(T, X, D, chain) /\ Along(T, X, D, db.blocks)
      /\ Announced(T, X, D, c, fast) /\ Prepared(T, X, D, c, proposals)
      /\ LocalRight(T, X, D, c, db, mem.local) /\ OwnUpright(chain)
      /\ Listed(X, D, db, mem.local, batches)
  BY <1>1, <1>2 DEF OwnRight
<1>8. p \in 0..c /\ p \notin D
  <2>1. p = HashBefore(chain, n + 1)
    BY LastBefore
  <2>2. CASE n = 0
    BY <1>7, <2>1, <2>2 DEF HashBefore, NoHash, History
  <2>3. CASE n # 0
    <3>1. n \in 1..Len(chain) /\ p = chain[n].hash
      BY <1>6, <2>1, <2>3 DEF HashBefore
    <3>2. p \in 1..c /\ p \notin D
      BY <1>6, <1>7, <3>1 DEF Chains, Along
    <3>3. \A x \in 1..c : x \in 0..c
      OBVIOUS
    <3>4. QED  BY <3>2, <3>3
  <2>4. QED  BY <2>2, <2>3
<1>9. h \in Nat /\ c <= h /\ h \in 1..h /\ \A x \in 0..c : x \in 0..h /\ x \in Nat
  OBVIOUS
<1>10. tree \in Seq(Nat)
  <2>1. \A i \in 1..n : chain[i] \in Block
    BY <1>6
  <2>2. \A i \in 1..n : chain[i].hash \in Nat
    BY <2>1, BlockFields
  <2>3. ChainTree = [i \in 1..n |-> chain[i].hash]
    BY <1>6 DEF ChainTree
  <2>4. ChainTree \in Seq(Nat)
    BY <1>6, <2>2, <2>3
  <2>5. QED  BY <1>9, <2>4
<1>11. txs \in Seq(Tx) /\ n \in Int /\ Other \in {Me, Other} /\ p \in Nat /\ fault \in BOOLEAN
  <2>1. t \in Tx
    BY Standing
  <2>2. QED  BY <1>6, <1>8, <1>9, <2>1
<1>12. EmitBlock(b)
  BY <1>2, <1>3 DEF Made
<1> HIDE DEF h, p, n, tree, txs
<1>13. b \in Block /\ b.hash = h /\ b.prev = p /\ b.by = Other
  <2>1. h \in Nat
    BY <1>9
  <2>2. QED  BY <1>10, <1>11, <2>1, BlockMade
<1> HIDE DEF b
<1> DEFINE S == ToSet(b.txs)
<1>14. S \in SUBSET Tx
  <2>1. b.txs \in Seq(Tx)
    BY <1>13, BlockFields
  <2>2. QED  BY <2>1, Members
<1> HIDE DEF S
<1>15. PICK T2, X2, D2 : /\ History(T2, X2, D2, h) /\ Agree(T, X, D, T2, X2, D2, c)
                         /\ T2[h] = Append(T[p], h) /\ X2[h] = X[p] \cup S
                         /\ h \in D2 <=> p \in D
  <2>1. D \in SUBSET (0..c)
    BY <1>7 DEF History
  <2>2. \E T2, X2, D2 : Extends(T, X, D, c, p, S, D, T2, X2, D2)
    BY <1>7, <1>8, <1>14, <2>1, Grown
  <2>3. QED  BY <2>2 DEF Extends, h
<1>16. /\ Along(T2, X2, D2, chain) /\ Along(T2, X2, D2, db.blocks)
       /\ Announced(T2, X2, D2, h, fast) /\ Prepared(T2, X2, D2, h, proposals)
       /\ LocalRight(T2, X2, D2, h, db, mem.local)
  BY <1>6, <1>7, <1>9, <1>15, StillRight
<1>17. Listed(X2, D2, db, mem.local, batches)
  BY <1>7, <1>9, <1>15, StillRight
<1>18. Remembered(T2, X2, D2, h, b)
  <2>1. T2[p] = T[p] /\ X2[p] = X[p] /\ (p \in D2 <=> p \in D)
    BY <1>8, <1>15 DEF Agree
  <2>2. QED  BY <1>8, <1>9, <1>13, <1>15, <2>1 DEF Remembered, S
<1>19. b.by # Me
  BY <1>13, ProposersAssumption
<1>20. Along(T2, X2, D2, chain') /\ Announced(T2, X2, D2, h, fast') /\ OwnUpright(chain')
  <2>1. b.prev = TipHash
    BY <1>13 DEF p
  <2>2. QED  BY <1>7, <1>12, <1>13, <1>15, <1>16, <1>18, <1>19, <2>1, ChainGrows
<1>21. OwnRight(T2, X2, D2)'
  BY <1>1, <1>4, <1>5, <1>15, <1>16, <1>17, <1>20 DEF OwnRight
<1>22. QED  BY <1>2, <1>15, <1>21 DEF Later

LEMMA StepOwns ==
  ASSUME NoClash, IInv, NEW T, NEW X, NEW D, OwnRight(T, X, D), [Next]_vars,
         count'.early = 0
  PROVE  Later(T, X, D)
<1>1. CASE UNCHANGED vars
  <2>1. OwnRight(T, X, D)
    OBVIOUS
  <2>2. OwnRight(T, X, D)'
    BY <1>1, <2>1 DEF OwnRight, vars
  <2>3. QED  BY <2>2, SameAgrees DEF Later
<1>2. CASE CheckSubmitted
  <2>1. UNCHANGED <<chain, fast, db, mem, batches, saving, unlanded, proposals, count>>
    BY <1>2 DEF CheckSubmitted, chainVars
  <2>2. QED  BY <2>1, ChainOwns
<1>3. CASE SubmitTransaction
  <2>1. UNCHANGED <<chain, fast, db, mem, batches, saving, unlanded, proposals, count>>
    BY <1>3 DEF SubmitTransaction
  <2>2. QED  BY <2>1, ChainOwns
<1>4. CASE ChangeCurrentProposer
  <2>1. UNCHANGED <<chain, db, mem, batches, saving, unlanded, proposals>>
    BY <1>4 DEF ChangeCurrentProposer
  <2>2. count'.blocks = count.blocks
    <3>1. count \in [blocks : 0..MaxBlocks, faults : Nat, rotations : Nat, unsent : Nat, early : Nat]
      BY DEF IInv, Types
    <3>2. count' = [count EXCEPT !["rotations"] = @ + 1]
      BY <1>4 DEF ChangeCurrentProposer, Count
    <3>3. QED  BY <3>1, <3>2
  <2>3. PICK p \in {Me, Other} : fast' = Append(fast, [type |-> "NewCurrentProposer", p |-> p])
    BY <1>4 DEF ChangeCurrentProposer, Emit
  <2>4. [type |-> "NewCurrentProposer", p |-> p] \in Event
    BY DEF Event
  <2>5. QED  BY <2>1, <2>2, <2>3, <2>4, ChainOwns
<1>5. CASE MineCommit
  <2>1. UNCHANGED <<chain, db, mem, batches, saving, unlanded, proposals, count>>
    BY <1>5 DEF MineCommit
  <2>2. PICK tx \in pool : fast' = Append(fast, [type |-> "CommittedToChallenge", c |-> tx.c])
    BY <1>5 DEF MineCommit, Emit
  <2>3. tx.c \in Nat
    BY DEF IInv, Collections, Challenge
  <2>4. [type |-> "CommittedToChallenge", c |-> tx.c] \in Event
    BY <2>3 DEF Event
  <2>5. QED  BY <2>1, <2>2, <2>4, ChainOwns
<1>6. ASSUME NEW i \in DOMAIN chain, RollBackTo(i), UNCHANGED <<count, db, mem, batches, saving, unlanded, proposals>>
      PROVE  Later(T, X, D)
  <2>1. chain \in Seq(Block)
    BY Standing
  <2>2. i - 1 \in 0..Len(chain) /\ i - 1 \in Nat
    BY <2>1
  <2>3. fast' = Append(fast, [type |-> "Rollback", n |-> i - 1]) /\ chain' = SubSeq(chain, 1, i - 1)
    BY <1>6 DEF RollBackTo, Emit
  <2>4. [type |-> "Rollback", n |-> i - 1] \in Event
    BY <2>2 DEF Event
  <2>5. QED  BY <1>6, <2>2, <2>3, <2>4, ChainOwns
<1>7. CASE MineReveal
  <2>1. UNCHANGED <<count, db, mem, batches, saving, unlanded, proposals>>
    BY <1>7 DEF MineReveal
  <2>2. CASE UNCHANGED <<chain, log, fast>>
    BY <2>1, <2>2, ChainOwns
  <2>3. CASE \E i \in DOMAIN chain : RollBackTo(i)
    BY <1>6, <2>1, <2>3
  <2>4. QED  BY <1>7, <2>2, <2>3 DEF MineReveal
<1>8. CASE OtherChallenges
  <2>1. UNCHANGED <<count, db, mem, batches, saving, unlanded, proposals>>
    BY <1>8 DEF OtherChallenges
  <2>2. PICK i \in DOMAIN chain : RollBackTo(i)
    BY <1>8 DEF OtherChallenges
  <2>3. QED  BY <1>6, <2>1, <2>2
<1>9. QED
  BY <1>1, <1>2, <1>3, <1>4, <1>5, <1>7, <1>8, HandleEventOwns, SaveLandsOwns,
     RollbackLandsOwns, SaveSubmittedOwns,
     ConditionalMakeBlockOwns, MakeBlockOwns, BlockNotSentOwns, ResetLocalBlockOwns,
     MineProposalOwns, OtherProposesOwns
  DEF Next

LEMMA UprightValid ==
  ASSUME NoClash, IInv, OwnUpright(chain), NEW i \in DOMAIN chain, chain[i].by = Me, RootsThere(i)
  PROVE  ValidBlock(i)
<1>1. chain \in Seq(Block) /\ i \in 1..Len(chain) /\ chain[i] \in Block
  BY Standing
<1>2. Upright(chain, i)
  BY <1>1 DEF OwnUpright
<1>3. ChainTree = [j \in DOMAIN chain |-> chain[j].hash]
  BY DEF ChainTree
<1>4. SubSeq(ChainTree, 1, i) = FirstHashes(chain, i)
  <2>1. i - 1 \in 0..Len(chain) - 1 /\ (i - 1) + 1 = i
    BY <1>1
  <2>2. SubSeq(ChainTree, 1, (i - 1) + 1) = FirstHashes(chain, (i - 1) + 1)
    BY <1>1, <1>3, <2>1, TreesOfChain
  <2>3. QED  BY <2>1, <2>2
<1>5. \A j \in 1..Len(chain) : ToSet(chain[j].txs) \subseteq Tx
  <2> SUFFICES ASSUME NEW j \in 1..Len(chain) PROVE ToSet(chain[j].txs) \subseteq Tx
    OBVIOUS
  <2>1. chain[j].txs \in Seq(Tx)
    BY <1>1, BlockFields
  <2>2. QED  BY <2>1, Members
<1>6. DOMAIN chain[i].txs = 1..Len(chain[i].txs)
  <2>1. chain[i].txs \in Seq(Tx)
    BY <1>1, BlockFields
  <2>2. QED  BY <2>1
<1>7. ~ DuplicatesWithinBlock(chain[i])
  <2> SUFFICES ASSUME NEW j \in DOMAIN chain[i].txs, NEW k \in DOMAIN chain[i].txs, j # k
               PROVE  ~ Clash(chain[i].txs[j], chain[i].txs[k])
    BY DEF DuplicatesWithinBlock
  <2>1. chain[i].txs[j] # chain[i].txs[k]
    BY <1>2, <1>6 DEF Upright, NoRepeats
  <2>2. chain[i].txs[j] \in Tx /\ chain[i].txs[k] \in Tx
    BY <1>1, <1>5 DEF ToSet
  <2>3. QED  BY <2>1, <2>2 DEF NoClash
<1>8. ASSUME NEW t \in ToSet(chain[i].txs), NEW j \in 1..i - 1, NEW u \in ToSet(chain[j].txs)
      PROVE  ~ Clash(t, u)
  <2>1. j \in 1..Len(chain)
    BY <1>1
  <2>2. u \in TxsTo(chain, i - 1)
    BY DEF TxsTo
  <2>3. t # u
    BY <1>2, <2>2 DEF Upright
  <2>4. QED  BY <1>1, <1>5, <2>1, <2>3 DEF NoClash
<1>9. QED  BY <1>2, <1>4, <1>7, <1>8 DEF ValidBlock, Upright, RootsThere

(* What is known of the blocks is kept as long as no list was read early.  *)
LEMMA FewEarly ==
  ASSUME IInv, [Next]_vars, count'.early = 0
  PROVE  count.early = 0
<1>1. count \in [blocks : 0..MaxBlocks, faults : Nat, rotations : Nat, unsent : Nat, early : Nat]
  BY DEF IInv, Types
<1>2. \/ count' = count
      \/ \E w \in {"blocks", "rotations", "early"} : Count(w)
      \/ BlockNotSent \/ OtherProposes
  BY DEF Next, vars, chainVars, HandleEvent, SaveLands, RollbackLands, CheckSubmitted, SaveSubmitted,
         ConditionalMakeBlock, MakeBlock, ResetLocalBlock, MineProposal,
         ChangeCurrentProposer, SubmitTransaction, MineCommit, MineReveal, OtherChallenges
<1>3. CASE \E w \in {"blocks", "rotations", "early"} : Count(w)
  <2>1. PICK w \in {"blocks", "rotations", "early"} : count' = [count EXCEPT ![w] = @ + 1]
    BY <1>3 DEF Count
  <2>2. CASE w = "early"
    <3>1. count'.early = count.early + 1 /\ count.early \in Nat
      BY <1>1, <2>1, <2>2
    <3>2. QED  BY <3>1
  <2>3. CASE w # "early"
    BY <1>1, <2>1, <2>3
  <2>4. QED  BY <2>2, <2>3
<1>4. CASE BlockNotSent
  <2>1. count' = [count EXCEPT !.unsent = @ + 1, !.blocks = @ + 1]
    BY <1>4 DEF BlockNotSent
  <2>2. QED  BY <1>1, <2>1
<1>5. CASE OtherProposes
  <2>1. PICK x : count' = [count EXCEPT !.blocks = @ + 1, !.faults = x]
    BY <1>5 DEF OtherProposes
  <2>2. QED  BY <1>1, <2>1
<1>6. QED  BY <1>2, <1>3, <1>4, <1>5

(* Whatever was rolled back, reset, rotated or never sent before, a block  *)
(* of ours that is on chain is one nobody can challenge, unless a          *)
(* transaction in it refers to a root that is not below it; this as long   *)
(* as no two transactions clash and no list was read before the writes of  *)
(* a handler landed.                                                       *)
THEOREM OwnBlocks ==
  ASSUME NoClash
  PROVE  Spec => []OwnBlocksFollow
<1> DEFINE J == count.early = 0 => Owns
<1>1. Init => J
  BY InitOwns
<1>2. IInv /\ J /\ [Next]_vars => J'
  <2> SUFFICES ASSUME IInv, J, [Next]_vars, count'.early = 0 PROVE Owns'
    OBVIOUS
  <2>1. PICK T, X, D : OwnRight(T, X, D)
    BY FewEarly DEF Owns
  <2>2. Later(T, X, D)
    BY <2>1, StepOwns
  <2>3. QED  BY <2>2 DEF Later, Owns
<1>3. IInv /\ J => OwnBlocksFollow
  BY UprightValid DEF OwnBlocksFollow, Owns, OwnRight
<1> HIDE DEF J
<1>4. QED  BY <1>1, <1>2, <1>3, SpecRight, PTL DEF Spec

(* No transaction refers to a root.                                        *)
Rootless == \A t \in Known : roots[t] = NoRoot

LEMMA StaysRootless ==
  ASSUME \A t \in Tx : Nullifiers[t] = {}, Rootless, [Next]_vars
  PROVE  Rootless'
<1>1. [Next]_vars => roots' = roots \/ SubmitTransaction
  BY DEF Next, vars, chainVars, HandleEvent, SaveLands, RollbackLands, CheckSubmitted, SaveSubmitted,
         ConditionalMakeBlock, MakeBlock, BlockNotSent, ResetLocalBlock, MineProposal,
         OtherProposes, ChangeCurrentProposer, MineCommit, MineReveal, OtherChallenges
<1>2. CASE SubmitTransaction
  <2>1. PICK t \in Tx : roots' = With(roots, t, NoRoot)
    BY <1>2 DEF SubmitTransaction
  <2>2. Known' = Known \cup {t} /\ \A u \in Known' : roots'[u] = IF u = t THEN NoRoot ELSE roots[u]
    BY <2>1 DEF With, Known
  <2>3. QED  BY <2>2 DEF Rootless
<1>3. CASE roots' = roots
  BY <1>3 DEF Rootless, Known
<1>4. QED  BY <1>1, <1>2, <1>3

(***************************************************************************)
(* One wrong block.                                                        *)
(***************************************************************************)
In(f, q) == \E i \in 1..Len(q) : q[i].hash = f

On(T, f, h) == \E i \in 1..Len(T[h]) : T[h][i] = f

IsBlock(es, k) == k \in 1..Len(es) /\ es[k].type = "BlockProposed"
IsRollback(es, k) == k \in 1..Len(es) /\ es[k].type = "Rollback"

(* The event of block f comes no later than the k-th.                      *)
Preceded(es, k, f) == \E j \in 1..k : IsBlock(es, j) /\ es[j].block.hash = f

(* The only rollback is that of f.                                         *)
RollbackRight(T, f, es, q) ==
  \A j : IsRollback(es, j) =>
    /\ f # NoHash /\ ~ In(f, q) /\ es[j].n = Len(T[f]) - 1 /\ es[j].n <= Len(q)
    /\ \A k : IsRollback(es, k) => k = j

(* A block behind which no rollback waits is on chain.                     *)
Landed(es, q) ==
  \A k : IsBlock(es, k) /\ (\A j : j > k => ~ IsRollback(es, j)) => In(es[k].block.hash, q)

(* While f is not stored, its event is there if f is on chain, and comes   *)
(* before those of the blocks on f.                                        *)
Arrives(f, es, q, p) ==
  In(f, q) /\ ~ In(f, p) => \E k : IsBlock(es, k) /\ es[k].block.hash = f

InOrder(T, f, es, p) ==
  ~ In(f, p) => \A k : IsBlock(es, k) /\ On(T, f, es[k].block.hash) => Preceded(es, k, f)

(* No block behind the rollback is on f, and if f was the first block of   *)
(* all, those before the rollback are.                                     *)
Split(T, f, es) ==
  \A j, k : IsRollback(es, j) /\ IsBlock(es, k) =>
    /\ j < k => ~ On(T, f, es[k].block.hash)
    /\ k < j /\ es[j].n = 0 => On(T, f, es[k].block.hash)

Queued(T, f, es, q, p) ==
  /\ RollbackRight(T, f, es, q) /\ Landed(es, q) /\ Split(T, f, es)
  /\ Arrives(f, es, q, p) /\ (f # NoHash => InOrder(T, f, es, p))

(* A block that is not faulty passes every check.                          *)
Right(T, X, b) ==
  ~ b.fault => /\ b.tree = T[b.hash] /\ ~ DuplicatesWithinBlock(b)
               /\ \A t \in ToSet(b.txs) : \A u \in X[b.prev] : ~ Clash(t, u)

Marked(T, X, f, b) == (b.fault <=> b.hash = f) /\ Right(T, X, b)

(* f is the only faulty block, if there is one.                            *)
Alone(T, X, f, c, q, es, ps) ==
  /\ f \in 0..c
  /\ \A i \in 1..Len(q) : Marked(T, X, f, q[i])
  /\ \A k : IsBlock(es, k) => Marked(T, X, f, es[k].block)
  /\ \A i \in 1..Len(ps) : ps[i].hash # f

(* The stop queue holds one challenge while it is stored.                  *)
Held(f) == Len(stop) = IF In(f, db.blocks) THEN 1 ELSE 0

Halts(T, X, f) ==
  /\ count.faults = 0 => f = NoHash
  /\ Alone(T, X, f, count.blocks, chain, fast, proposals)
  /\ Queued(T, f, fast, chain, db.blocks)
  /\ Held(f)

(***************************************************************************)
(* The queue.                                                              *)
(***************************************************************************)
LEMMA NotEmpty ==
  ASSUME NEW es \in Seq(Event), NEW T, NEW f, NEW p, Queued(T, f, es, <<>>, p),
         IsBlock(es, 1), ~ In(f, p)
  PROVE  es[1].block.hash = f
<1>1. Len(<<>>) = 0 /\ ~ In(es[1].block.hash, <<>>)
  <2>1. Len(<<>>) = 0 /\ 1..0 = {}
    OBVIOUS
  <2>2. QED  BY <2>1 DEF In
<1>2. PICK j : j > 1 /\ IsRollback(es, j)
  BY <1>1 DEF Queued, Landed
<1>3. f # NoHash /\ es[j].n <= Len(<<>>)
  BY <1>2 DEF Queued, RollbackRight
<1>4. es[j] \in Event /\ j \in Nat
  BY <1>2 DEF IsRollback
<1>5. es[j].n \in Nat
  BY <1>2, <1>4, EventFields DEF IsRollback
<1>6. es[j].n = 0 /\ 1 < j
  BY <1>1, <1>2, <1>3, <1>4, <1>5
<1>7. On(T, f, es[1].block.hash)
  BY <1>2, <1>6 DEF Queued, Split
<1>8. Preceded(es, 1, f)
  BY <1>3, <1>7 DEF Queued, InOrder
<1>9. QED  BY <1>8 DEF Preceded

LEMMA InMore ==
  ASSUME NEW q \in Seq(Block), NEW b \in Block, NEW f
  PROVE  In(f, Append(q, b)) <=> In(f, q) \/ b.hash = f
<1> DEFINE r == Append(q, b)
<1>1. /\ Len(r) = Len(q) + 1 /\ Len(q) \in Nat /\ r[Len(q) + 1] = b
      /\ \A i \in 1..Len(q) : r[i] = q[i]
  BY AppendedOne
<1> HIDE DEF r
<1>2. \A i \in 1..Len(r) : i \in 1..Len(q) \/ i = Len(q) + 1
  BY <1>1
<1>3. Len(q) + 1 \in 1..Len(r) /\ \A i \in 1..Len(q) : i \in 1..Len(r)
  BY <1>1
<1>4. QED  BY <1>1, <1>2, <1>3 DEF In, r

LEMMA InLess ==
  ASSUME NEW q \in Seq(Block), NEW n \in 0..Len(q), NEW f
  PROVE  In(f, SubSeq(q, 1, n)) => In(f, q)
<1> DEFINE r == SubSeq(q, 1, n)
<1>1. Len(r) = n /\ \A i \in 1..n : r[i] = q[i]
  BY FirstPart
<1> HIDE DEF r
<1>2. \A i \in 1..n : i \in 1..Len(q)
  OBVIOUS
<1>3. QED  BY <1>1, <1>2 DEF In, r

(* Cut below f, f is gone.                                                 *)
LEMMA CutOut ==
  ASSUME NEW q, NEW c, NEW R, Chains(q, c, R), NEW i \in 1..Len(q)
  PROVE  ~ In(q[i].hash, SubSeq(q, 1, i - 1))
<1>0. q \in Seq(Block) /\ i - 1 \in 0..Len(q)
  BY DEF Chains
<1> DEFINE r == SubSeq(q, 1, i - 1)
<1>1. Len(r) = i - 1 /\ \A k \in 1..i - 1 : r[k] = q[k]
  BY <1>0, FirstPart
<1> HIDE DEF r
<1>2. \A k \in 1..i - 1 : k \in 1..Len(q) /\ k # i
  BY <1>0
<1>3. QED  BY <1>1, <1>2 DEF In, Chains, r

LEMMA Handed ==
  ASSUME NEW es \in Seq(Event), es # <<>>
  PROVE  /\ \A k : IsBlock(Tail(es), k) <=> k \in Nat \ {0} /\ IsBlock(es, k + 1)
         /\ \A k : IsRollback(Tail(es), k) <=> k \in Nat \ {0} /\ IsRollback(es, k + 1)
         /\ \A k \in 1..Len(Tail(es)) : Tail(es)[k] = es[k + 1]
         /\ Head(es) = es[1] /\ es[1] \in Event /\ 1 \in 1..Len(es)
<1>1. /\ Tail(es) \in Seq(Event) /\ Len(Tail(es)) = Len(es) - 1 /\ Len(es) \in Nat \ {0}
      /\ \A i \in 1..Len(es) - 1 : Tail(es)[i] = es[i + 1]
      /\ Head(es) = es[1] /\ es[1] \in Event
  BY TookFirst
<1>2. \A k : k \in 1..Len(Tail(es)) <=> k \in Nat \ {0} /\ k + 1 \in 1..Len(es)
  BY <1>1
<1>3. QED  BY <1>1, <1>2 DEF IsBlock, IsRollback

LEMMA Queues ==
  ASSUME NEW es \in Seq(Event), NEW e \in Event
  PROVE  /\ \A k : IsBlock(Append(es, e), k) <=>
               IsBlock(es, k) \/ (k = Len(es) + 1 /\ e.type = "BlockProposed")
         /\ \A k : IsRollback(Append(es, e), k) <=>
               IsRollback(es, k) \/ (k = Len(es) + 1 /\ e.type = "Rollback")
         /\ \A k : IsBlock(es, k) \/ IsRollback(es, k) => Append(es, e)[k] = es[k] /\ k \in 1..Len(es)
         /\ Append(es, e)[Len(es) + 1] = e /\ Len(es) \in Nat
<1> DEFINE r == Append(es, e)
<1>1. /\ Len(r) = Len(es) + 1 /\ Len(es) \in Nat /\ r[Len(es) + 1] = e
      /\ \A i \in 1..Len(es) : r[i] = es[i]
  BY AppendedOne
<1> HIDE DEF r
<1>2. \A k : k \in 1..Len(r) <=> k \in 1..Len(es) \/ k = Len(es) + 1
  BY <1>1
<1>3. Len(es) + 1 \notin 1..Len(es)
  BY <1>1
<1>4. QED  BY <1>1, <1>2, <1>3 DEF IsBlock, IsRollback, r

(* The event at the head is handled.                                       *)
LEMMA TookEvent ==
  ASSUME NEW es \in Seq(Event), es # <<>>, NEW p \in Seq(Block), NEW a, Follows(p, Head(es), a),
         NEW T, NEW f, NEW q, Queued(T, f, es, q, p)
  PROVE  Queued(T, f, Tail(es), q, a)
<1> DEFINE r == Tail(es)
           e == Head(es)
<1>1. /\ \A k : IsBlock(r, k) <=> k \in Nat \ {0} /\ IsBlock(es, k + 1)
      /\ \A k : IsRollback(r, k) <=> k \in Nat \ {0} /\ IsRollback(es, k + 1)
      /\ e = es[1] /\ e \in Event /\ 1 \in 1..Len(es)
  BY Handed
<1>2. \A k : IsBlock(r, k) \/ IsRollback(r, k) => r[k] = es[k + 1] /\ k \in Nat \ {0}
  <2>1. \A k \in 1..Len(r) : r[k] = es[k + 1]
    BY Handed
  <2>2. \A k : IsBlock(r, k) \/ IsRollback(r, k) => k \in 1..Len(r)
    BY DEF IsBlock, IsRollback
  <2>3. QED  BY <1>1, <2>1, <2>2
<1> HIDE DEF r, e
<1>3. /\ RollbackRight(T, f, es, q) /\ Landed(es, q) /\ Split(T, f, es)
      /\ Arrives(f, es, q, p) /\ (f # NoHash => InOrder(T, f, es, p))
  BY DEF Queued
<1>4. RollbackRight(T, f, r, q)
  <2>1. ASSUME NEW j, IsRollback(r, j) PROVE
          /\ f # NoHash /\ ~ In(f, q) /\ r[j].n = Len(T[f]) - 1 /\ r[j].n <= Len(q)
          /\ \A k : IsRollback(r, k) => k = j
    <3>1. IsRollback(es, j + 1) /\ r[j] = es[j + 1] /\ j \in Nat
      BY <1>1, <1>2, <2>1
    <3>2. ASSUME NEW k, IsRollback(r, k) PROVE k = j
      <4>1. IsRollback(es, k + 1) /\ k \in Nat
        BY <1>1, <3>2
      <4>2. k + 1 = j + 1
        BY <1>3, <3>1, <4>1 DEF RollbackRight
      <4>3. QED  BY <3>1, <4>1, <4>2
    <3>3. QED  BY <1>3, <3>1, <3>2 DEF RollbackRight
  <2>2. QED  BY <2>1 DEF RollbackRight
<1>5. Landed(r, q)
  <2>1. ASSUME NEW k, IsBlock(r, k), \A j : j > k => ~ IsRollback(r, j)
        PROVE  In(r[k].block.hash, q)
    <3>1. IsBlock(es, k + 1) /\ r[k] = es[k + 1] /\ k \in Nat
      BY <1>1, <1>2, <2>1
    <3>2. ASSUME NEW j, j > k + 1, IsRollback(es, j) PROVE FALSE
      <4>1. j \in Nat
        BY <3>2 DEF IsRollback
      <4>2. PICK i \in Nat \ {0} : i + 1 = j /\ i > k
        <5>1. j - 1 \in Nat \ {0} /\ (j - 1) + 1 = j /\ j - 1 > k
          BY <3>1, <3>2, <4>1
        <5>2. QED  BY <5>1
      <4>3. IsRollback(r, i)
        BY <1>1, <3>2, <4>2
      <4>4. QED  BY <2>1, <4>2, <4>3
    <3>3. QED  BY <1>3, <3>1, <3>2 DEF Landed
  <2>2. QED  BY <2>1 DEF Landed
<1>6. Split(T, f, r)
  <2>1. ASSUME NEW j, NEW k, IsRollback(r, j), IsBlock(r, k)
        PROVE  /\ j < k => ~ On(T, f, r[k].block.hash)
               /\ k < j /\ r[j].n = 0 => On(T, f, r[k].block.hash)
    <3>1. /\ IsRollback(es, j + 1) /\ r[j] = es[j + 1] /\ j \in Nat
          /\ IsBlock(es, k + 1) /\ r[k] = es[k + 1] /\ k \in Nat
      BY <1>1, <1>2, <2>1
    <3>2. (j < k => j + 1 < k + 1) /\ (k < j => k + 1 < j + 1)
      BY <3>1
    <3>3. QED  BY <1>3, <3>1, <3>2 DEF Split
  <2>2. QED  BY <2>1 DEF Split
<1>7. e.type = "BlockProposed" => a = Append(p, e.block) /\ e.block \in Block
  BY <1>1, EventFields DEF Follows, e
<1>8. ASSUME ~ In(f, a) PROVE ~ In(f, p) \/ IsRollback(es, 1)
  <2>1. CASE e.type = "BlockProposed"
    BY <1>7, <1>8, <2>1, InMore
  <2>2. CASE e.type \notin {"BlockProposed", "Rollback"}
    BY <1>8, <2>2 DEF Follows, e
  <2>3. CASE e.type = "Rollback"
    BY <1>1, <2>3 DEF IsRollback
  <2>4. QED  BY <2>1, <2>2, <2>3
<1>9. ASSUME ~ In(f, a), IsBlock(es, 1) PROVE es[1].block.hash # f
  BY <1>1, <1>7, <1>9, InMore DEF IsBlock
<1>10. \A k : IsBlock(es, k) /\ k # 1 => \E i \in Nat \ {0} : i + 1 = k /\ IsBlock(r, i)
  <2>1. ASSUME NEW k, IsBlock(es, k), k # 1
        PROVE  k - 1 \in Nat \ {0} /\ (k - 1) + 1 = k
    BY <2>1 DEF IsBlock
  <2>2. QED  BY <1>1, <2>1
<1>11. Arrives(f, r, q, a)
  <2>1. ASSUME In(f, q), ~ In(f, a)
        PROVE  \E k : IsBlock(r, k) /\ r[k].block.hash = f
    <3>1. ~ In(f, p)
      BY <1>3, <1>8, <2>1 DEF RollbackRight
    <3>2. PICK k : IsBlock(es, k) /\ es[k].block.hash = f
      BY <1>3, <2>1, <3>1 DEF Arrives
    <3>3. k # 1
      BY <1>9, <2>1, <3>2
    <3>4. QED  BY <1>2, <1>10, <3>2, <3>3
  <2>2. QED  BY <2>1 DEF Arrives
<1>12. ASSUME f # NoHash PROVE InOrder(T, f, r, a)
  <2>1. ASSUME ~ In(f, a), NEW k, IsBlock(r, k), On(T, f, r[k].block.hash)
        PROVE  Preceded(r, k, f)
    <3>1. IsBlock(es, k + 1) /\ r[k] = es[k + 1] /\ k \in Nat /\ 1 < k + 1
      BY <1>1, <1>2, <2>1
    <3>2. ~ In(f, p)
      BY <1>3, <1>8, <2>1, <3>1 DEF Split
    <3>3. PICK j \in 1..k + 1 : IsBlock(es, j) /\ es[j].block.hash = f
      BY <1>3, <1>12, <2>1, <3>1, <3>2 DEF InOrder, Preceded
    <3>4. j # 1
      BY <1>9, <2>1, <3>3
    <3>5. PICK i \in Nat \ {0} : i + 1 = j /\ IsBlock(r, i)
      BY <1>10, <3>3, <3>4
    <3>6. i \in 1..k
      BY <3>1, <3>3, <3>5
    <3>7. QED  BY <1>2, <3>3, <3>5, <3>6 DEF Preceded
  <2>2. QED  BY <2>1 DEF InOrder
<1>13. QED  BY <1>4, <1>5, <1>6, <1>11, <1>12 DEF Queued, r

(* Neither a block nor a rollback is logged.                               *)
LEMMA OtherQueued ==
  ASSUME NEW es \in Seq(Event), NEW e \in Event, e.type \notin {"BlockProposed", "Rollback"},
         NEW T, NEW f, NEW q, NEW p, Queued(T, f, es, q, p)
  PROVE  Queued(T, f, Append(es, e), q, p)
<1> DEFINE r == Append(es, e)
<1>1. /\ \A k : IsBlock(r, k) <=> IsBlock(es, k)
      /\ \A k : IsRollback(r, k) <=> IsRollback(es, k)
      /\ \A k : IsBlock(es, k) \/ IsRollback(es, k) => r[k] = es[k] /\ k \in 1..Len(es)
  BY Queues
<1> HIDE DEF r
<1>2. \A k : IsBlock(r, k) \/ IsRollback(r, k) => r[k] = es[k]
  BY <1>1
<1>3. \A k : Preceded(es, k, f) => Preceded(r, k, f)
  BY <1>1, <1>2 DEF Preceded
<1>4. RollbackRight(T, f, r, q) /\ Landed(r, q) /\ Split(T, f, r)
  <2>1. RollbackRight(T, f, r, q)
    BY <1>1, <1>2 DEF Queued, RollbackRight
  <2>2. Landed(r, q)
    BY <1>1, <1>2 DEF Queued, Landed
  <2>3. Split(T, f, r)
    BY <1>1, <1>2 DEF Queued, Split
  <2>4. QED  BY <2>1, <2>2, <2>3
<1>5. Arrives(f, r, q, p) /\ (f # NoHash => InOrder(T, f, r, p))
  <2>1. Arrives(f, r, q, p)
    BY <1>1, <1>2 DEF Queued, Arrives
  <2>2. ASSUME f # NoHash PROVE InOrder(T, f, r, p)
    BY <1>1, <1>2, <1>3, <2>2 DEF Queued, InOrder
  <2>3. QED  BY <2>1, <2>2
<1>6. QED  BY <1>4, <1>5 DEF Queued, r

(* The faulty block is rolled back.                                        *)
LEMMA RollbackQueued ==
  ASSUME NEW es \in Seq(Event), NEW q, NEW c \in Nat, NEW R, Chains(q, c, R), NEW i \in 1..Len(q),
         NEW e \in Event, e.type = "Rollback", e.n = i - 1,
         NEW T, NEW X, NEW D, Along(T, X, D, q),
         NEW f, f = q[i].hash, NEW p, Queued(T, f, es, q, p)
  PROVE  Queued(T, f, Append(es, e), SubSeq(q, 1, i - 1), p)
<1> DEFINE r == Append(es, e)
           q2 == SubSeq(q, 1, i - 1)
<1>1. q \in Seq(Block) /\ Len(q) \in Nat /\ i - 1 \in 0..Len(q) /\ i \in Nat
  BY DEF Chains
<1>2. PICK m \in Nat : m = Len(es)
  BY Queues
<1>3. /\ \A k : IsBlock(r, k) <=> IsBlock(es, k)
      /\ \A k : IsRollback(r, k) <=> IsRollback(es, k) \/ k = m + 1
      /\ \A k : IsBlock(es, k) \/ IsRollback(es, k) => r[k] = es[k] /\ k \in 1..m
      /\ r[m + 1] = e
  BY <1>2, Queues
<1>4. Len(q2) = i - 1 /\ ~ In(f, q2)
  BY <1>1, FirstPart, CutOut
<1>5. f # NoHash /\ In(f, q)
  <2>1. f \in 1..c
    BY DEF Chains
  <2>2. QED  BY <2>1 DEF NoHash, In
<1> HIDE DEF r, q2
<1>6. \A k : ~ IsRollback(es, k)
  BY <1>5 DEF Queued, RollbackRight
<1>7. Len(T[f]) = i
  <2>1. T[f] = FirstHashes(q, i)
    BY DEF Along
  <2>2. QED  BY <1>1, <2>1 DEF FirstHashes
<1>8. RollbackRight(T, f, r, q2)
  <2>1. \A j : IsRollback(r, j) => j = m + 1
    BY <1>3, <1>6
  <2>2. r[m + 1].n = Len(T[f]) - 1 /\ r[m + 1].n <= Len(q2)
    BY <1>1, <1>3, <1>4, <1>7
  <2>3. QED  BY <1>4, <1>5, <2>1, <2>2 DEF RollbackRight
<1>9. Landed(r, q2)
  <2>1. \A k : IsBlock(r, k) => m + 1 > k /\ IsRollback(r, m + 1)
    BY <1>3
  <2>2. QED  BY <2>1 DEF Landed
<1>10. Split(T, f, r)
  <2>1. ASSUME NEW j, NEW k, IsRollback(r, j), IsBlock(r, k)
        PROVE  /\ ~ j < k
               /\ r[j].n = 0 => On(T, f, r[k].block.hash)
    <3>1. j = m + 1 /\ IsBlock(es, k) /\ r[k] = es[k] /\ k \in 1..m
      BY <1>3, <1>6, <2>1
    <3>2. ASSUME r[j].n = 0 PROVE On(T, f, r[k].block.hash)
      <4>1. i = 1
        BY <1>1, <1>3, <3>1, <3>2
      <4>2. In(es[k].block.hash, q)
        BY <1>6, <3>1 DEF Queued, Landed
      <4>3. PICK l \in 1..Len(q) : q[l].hash = es[k].block.hash
        BY <4>2 DEF In
      <4>4. T[q[l].hash] = FirstHashes(q, l) /\ l \in Nat /\ 1 \in 1..l
        BY <1>1 DEF Along
      <4>5. Len(FirstHashes(q, l)) = l /\ FirstHashes(q, l)[1] = f
        BY <4>1, <4>4 DEF FirstHashes
      <4>6. QED  BY <3>1, <4>3, <4>4, <4>5 DEF On
    <3>3. ~ j < k
      BY <3>1
    <3>4. QED  BY <3>2, <3>3
  <2>2. QED  BY <2>1 DEF Split
<1>11. Arrives(f, r, q2, p)
  BY <1>4 DEF Arrives
<1>12. InOrder(T, f, r, p)
  <2>1. ASSUME NEW k, Preceded(es, k, f) PROVE Preceded(r, k, f)
    BY <1>3, <2>1 DEF Preceded
  <2>2. InOrder(T, f, es, p)
    BY <1>5 DEF Queued
  <2>3. QED  BY <1>3, <2>1, <2>2 DEF InOrder
<1>13. QED  BY <1>8, <1>9, <1>10, <1>11, <1>12 DEF Queued, r, q2

(* A block on f is appended only where f is on chain.                      *)
LEMMA OnChain ==
  ASSUME NEW q \in Seq(Block), NEW T, NEW X, NEW D, Along(T, X, D, q), NEW f,
         NEW i \in 1..Len(q), On(T, f, q[i].hash)
  PROVE  In(f, q)
<1>1. i \in Nat /\ Len(q) \in Nat
  OBVIOUS
<1>2. T[q[i].hash] = FirstHashes(q, i)
  BY DEF Along
<1>3. PICK j \in 1..Len(FirstHashes(q, i)) : FirstHashes(q, i)[j] = f
  BY <1>2 DEF On
<1>4. j \in 1..i /\ q[j].hash = f
  BY <1>1, <1>3 DEF FirstHashes
<1>5. j \in 1..Len(q)
  BY <1>1, <1>4
<1>6. QED  BY <1>4, <1>5 DEF In

(* A block that is not faulty is appended.                                 *)
LEMMA BlockQueued ==
  ASSUME NEW es \in Seq(Event), NEW q \in Seq(Block),
         NEW e \in Event, e.type = "BlockProposed", NEW x \in Block, e.block = x,
         NEW T, NEW X, NEW D, Along(T, X, D, Append(q, x)),
         NEW f, x.hash # f, NEW p, Queued(T, f, es, q, p)
  PROVE  Queued(T, f, Append(es, e), Append(q, x), p)
<1> DEFINE r == Append(es, e)
           q2 == Append(q, x)
<1>1. PICK m \in Nat : m = Len(es)
  BY Queues
<1>2. /\ \A k : IsBlock(r, k) <=> IsBlock(es, k) \/ k = m + 1
      /\ \A k : IsRollback(r, k) <=> IsRollback(es, k)
      /\ \A k : IsBlock(es, k) \/ IsRollback(es, k) => r[k] = es[k] /\ k \in 1..m
      /\ r[m + 1] = e
  BY <1>1, Queues
<1>3. q2 \in Seq(Block) /\ Len(q2) = Len(q) + 1 /\ Len(q) \in Nat /\ q2[Len(q) + 1] = x
  BY AppendedOne
<1>4. \A g : In(g, q2) <=> In(g, q) \/ x.hash = g
  BY InMore
<1> HIDE DEF r, q2
<1>5. Len(q) + 1 \in 1..Len(q2)
  BY <1>3
<1>6. On(T, f, x.hash) => In(f, q)
  <2>1. On(T, f, x.hash) => In(f, q2)
    BY <1>3, <1>5, OnChain DEF q2
  <2>2. QED  BY <1>4, <2>1
<1>7. RollbackRight(T, f, r, q2)
  <2>1. ASSUME NEW j, IsRollback(r, j)
        PROVE  /\ f # NoHash /\ ~ In(f, q2) /\ r[j].n = Len(T[f]) - 1 /\ r[j].n <= Len(q2)
               /\ \A k : IsRollback(r, k) => k = j
    <3>1. IsRollback(es, j) /\ r[j] = es[j] /\ j \in 1..m
      BY <1>2, <2>1
    <3>2. /\ f # NoHash /\ ~ In(f, q) /\ r[j].n = Len(T[f]) - 1 /\ r[j].n <= Len(q)
          /\ \A k : IsRollback(es, k) => k = j
      BY <3>1 DEF Queued, RollbackRight
    <3>3. es[j] \in Event
      BY <1>1, <3>1
    <3>4. r[j].n \in Nat
      BY <3>1, <3>3, EventFields DEF IsRollback
    <3>5. r[j].n <= Len(q2)
      BY <1>3, <3>2, <3>4
    <3>6. QED  BY <1>2, <1>4, <3>2, <3>5
  <2>2. QED  BY <2>1 DEF RollbackRight
<1>8. Landed(r, q2)
  <2>1. ASSUME NEW k, IsBlock(r, k), \A j : j > k => ~ IsRollback(r, j)
        PROVE  In(r[k].block.hash, q2)
    <3>1. CASE k = m + 1
      BY <1>2, <1>4, <3>1
    <3>2. CASE IsBlock(es, k)
      <4>1. In(es[k].block.hash, q)
        BY <1>2, <2>1, <3>2 DEF Queued, Landed
      <4>2. QED  BY <1>2, <1>4, <3>2, <4>1
    <3>3. QED  BY <1>2, <2>1, <3>1, <3>2
  <2>2. QED  BY <2>1 DEF Landed
<1>9. Split(T, f, r)
  <2>1. ASSUME NEW j, NEW k, IsRollback(r, j), IsBlock(r, k)
        PROVE  /\ j < k => ~ On(T, f, r[k].block.hash)
               /\ k < j /\ r[j].n = 0 => On(T, f, r[k].block.hash)
    <3>1. IsRollback(es, j) /\ r[j] = es[j] /\ j \in 1..m
      BY <1>2, <2>1
    <3>2. CASE k = m + 1
      <4>1. ~ In(f, q)
        BY <3>1 DEF Queued, RollbackRight
      <4>2. ~ On(T, f, r[k].block.hash)
        BY <1>2, <1>6, <3>2, <4>1
      <4>3. ~ k < j
        BY <3>1, <3>2
      <4>4. QED  BY <4>2, <4>3
    <3>3. CASE IsBlock(es, k)
      BY <1>2, <3>1, <3>3 DEF Queued, Split
    <3>4. QED  BY <1>2, <2>1, <3>2, <3>3
  <2>2. QED  BY <2>1 DEF Split
<1>10. Arrives(f, r, q2, p)
  BY <1>2, <1>4 DEF Queued, Arrives
<1>11. ASSUME f # NoHash PROVE InOrder(T, f, r, p)
  <2>1. ASSUME ~ In(f, p), NEW k, IsBlock(r, k), On(T, f, r[k].block.hash)
        PROVE  Preceded(r, k, f)
    <3>1. CASE k = m + 1
      <4>1. In(f, q)
        BY <1>2, <1>6, <2>1, <3>1
      <4>2. PICK j : IsBlock(es, j) /\ es[j].block.hash = f
        BY <2>1, <4>1 DEF Queued, Arrives
      <4>3. j \in 1..k
        BY <1>2, <3>1, <4>2
      <4>4. QED  BY <1>2, <4>2, <4>3 DEF Preceded
    <3>2. CASE IsBlock(es, k)
      <4>1. Preceded(es, k, f)
        BY <1>2, <1>11, <2>1, <3>2 DEF Queued, InOrder
      <4>2. QED  BY <1>2, <4>1 DEF Preceded
    <3>3. QED  BY <1>2, <2>1, <3>1, <3>2
  <2>2. QED  BY <2>1 DEF InOrder
<1>12. QED  BY <1>7, <1>8, <1>9, <1>10, <1>11 DEF Queued, r, q2

(* The faulty block is appended.                                           *)
LEMMA FaultQueued ==
  ASSUME NEW es \in Seq(Event), NEW q, NEW c \in Nat, NEW R, Chains(q, c, R),
         NEW e \in Event, e.type = "BlockProposed", NEW x \in Block, e.block = x,
         NEW T, NEW X, NEW D, Along(T, X, D, q),
         NEW f, x.hash = f, f \notin 0..c, NEW p, Queued(T, NoHash, es, q, p)
  PROVE  Queued(T, f, Append(es, e), Append(q, x), p)
<1> DEFINE r == Append(es, e)
           q2 == Append(q, x)
<1>0. q \in Seq(Block)
  BY DEF Chains
<1>1. PICK m \in Nat : m = Len(es)
  BY Queues
<1>2. /\ \A k : IsBlock(r, k) <=> IsBlock(es, k) \/ k = m + 1
      /\ \A k : IsRollback(r, k) <=> IsRollback(es, k)
      /\ \A k : IsBlock(es, k) \/ IsRollback(es, k) => r[k] = es[k] /\ k \in 1..m
      /\ r[m + 1] = e
  BY <1>1, Queues
<1>3. \A g : In(g, q2) <=> In(g, q) \/ x.hash = g
  BY <1>0, InMore
<1> HIDE DEF r, q2
<1>4. \A k : ~ IsRollback(r, k) /\ ~ IsRollback(es, k)
  BY <1>2 DEF Queued, RollbackRight
<1>5. Landed(r, q2)
  <2>1. ASSUME NEW k, IsBlock(r, k) PROVE In(r[k].block.hash, q2)
    <3>1. CASE k = m + 1
      BY <1>2, <1>3, <3>1
    <3>2. CASE IsBlock(es, k)
      <4>1. In(es[k].block.hash, q)
        BY <1>4, <3>2 DEF Queued, Landed
      <4>2. QED  BY <1>2, <1>3, <3>2, <4>1
    <3>3. QED  BY <1>2, <2>1, <3>1, <3>2
  <2>2. QED  BY <2>1 DEF Landed
<1>6. Arrives(f, r, q2, p)
  BY <1>2 DEF Arrives
<1>7. ~ In(f, q)
  <2>1. \A i \in 1..Len(q) : q[i].hash \in 1..c
    BY DEF Chains
  <2>2. \A h \in 1..c : h \in 0..c
    OBVIOUS
  <2>3. QED  BY <2>1, <2>2 DEF In
<1>8. InOrder(T, f, r, p)
  <2>1. ASSUME NEW k, IsBlock(r, k), On(T, f, r[k].block.hash)
        PROVE  Preceded(r, k, f)
    <3>1. CASE k = m + 1
      <4>1. k \in 1..k
        BY <3>1
      <4>2. QED  BY <1>2, <2>1, <3>1, <4>1 DEF Preceded
    <3>2. CASE IsBlock(es, k)
      <4>1. In(es[k].block.hash, q)
        BY <1>4, <3>2 DEF Queued, Landed
      <4>2. PICK l \in 1..Len(q) : q[l].hash = es[k].block.hash
        BY <4>1 DEF In
      <4>3. On(T, f, q[l].hash)
        BY <1>2, <2>1, <3>2, <4>2
      <4>4. QED  BY <1>0, <1>7, <4>3, OnChain
    <3>3. QED  BY <1>2, <2>1, <3>1, <3>2
  <2>2. QED  BY <2>1 DEF InOrder
<1>9. QED  BY <1>4, <1>5, <1>6, <1>8 DEF Queued, RollbackRight, Split, r, q2

(* What is known of more blocks says the same of those known before.       *)
LEMMA StillQueued ==
  ASSUME NEW c \in Nat, NEW T, NEW X, NEW D, NEW T2, NEW X2, NEW D2,
         Agree(T, X, D, T2, X2, D2, c), NEW f \in 0..c,
         NEW es, Announced(T, X, D, c, es), NEW q, NEW p, Queued(T, f, es, q, p)
  PROVE  Queued(T2, f, es, q, p)
<1>1. \A k : IsBlock(es, k) => es[k].block.hash \in 1..c
  BY DEF IsBlock, Announced, Remembered
<1>2. \A h \in 1..c : h \in 0..c
  OBVIOUS
<1>3. \A h \in 0..c : T2[h] = T[h]
  BY DEF Agree
<1>4. \A k : IsBlock(es, k) => (On(T2, f, es[k].block.hash) <=> On(T, f, es[k].block.hash))
  BY <1>1, <1>2, <1>3 DEF On
<1>5. T2[f] = T[f]
  BY <1>3
<1>6. RollbackRight(T2, f, es, q)
  BY <1>5 DEF Queued, RollbackRight
<1>7. Split(T2, f, es)
  BY <1>4 DEF Queued, Split
<1>8. f # NoHash => InOrder(T2, f, es, p)
  BY <1>4 DEF Queued, InOrder
<1>9. QED  BY <1>6, <1>7, <1>8 DEF Queued

LEMMA PrevKnown ==
  ASSUME NEW c \in Nat, NEW q, NEW R, Chains(q, c, R), NEW i \in 1..Len(q)
  PROVE  q[i].prev \in 0..c
<1>1. q[i].prev = HashBefore(q, i) /\ q \in Seq(Block)
  BY DEF Chains
<1>2. CASE i = 1
  BY <1>1, <1>2 DEF HashBefore, NoHash
<1>3. CASE i # 1
  <2>1. i - 1 \in 1..Len(q)
    BY <1>1, <1>3
  <2>2. q[i - 1].hash \in 1..c
    BY <2>1 DEF Chains
  <2>3. \A h \in 1..c : h \in 0..c
    OBVIOUS
  <2>4. QED  BY <1>1, <1>3, <2>2, <2>3 DEF HashBefore
<1>4. QED  BY <1>2, <1>3

LEMMA StillMarked ==
  ASSUME NEW c \in Nat, NEW T, NEW X, NEW D, NEW T2, NEW X2, NEW D2,
         Agree(T, X, D, T2, X2, D2, c), NEW f,
         NEW b, b.hash \in 1..c, b.prev \in 0..c, Marked(T, X, f, b)
  PROVE  Marked(T2, X2, f, b)
<1>1. \A h \in 1..c : h \in 0..c
  OBVIOUS
<1>2. T2[b.hash] = T[b.hash] /\ X2[b.prev] = X[b.prev]
  BY <1>1 DEF Agree
<1>3. QED  BY <1>2 DEF Marked, Right

LEMMA StillAlone ==
  ASSUME NEW c \in Nat, NEW c2 \in Nat, c <= c2, NEW T, NEW X, NEW D, NEW T2, NEW X2, NEW D2,
         Agree(T, X, D, T2, X2, D2, c), NEW f,
         NEW q, NEW R, Chains(q, c, R), NEW es, Announced(T, X, D, c, es), NEW ps,
         Alone(T, X, f, c, q, es, ps)
  PROVE  Alone(T2, X2, f, c2, q, es, ps)
<1>1. f \in 0..c2
  BY DEF Alone
<1>2. ASSUME NEW i \in 1..Len(q) PROVE Marked(T2, X2, f, q[i])
  <2>1. q[i].hash \in 1..c /\ q[i].prev \in 0..c
    BY PrevKnown DEF Chains
  <2>2. Marked(T, X, f, q[i])
    BY DEF Alone
  <2>3. QED  BY <2>1, <2>2, StillMarked
<1>3. ASSUME NEW k, IsBlock(es, k) PROVE Marked(T2, X2, f, es[k].block)
  <2>1. es[k].block.hash \in 1..c /\ es[k].block.prev \in 0..c
    BY <1>3 DEF IsBlock, Announced, Remembered
  <2>2. Marked(T, X, f, es[k].block)
    BY <1>3 DEF Alone
  <2>3. QED  BY <2>1, <2>2, StillMarked
<1>4. QED  BY <1>1, <1>2, <1>3 DEF Alone

LEMMA AloneTaken ==
  ASSUME NEW es \in Seq(Event), es # <<>>, NEW T, NEW X, NEW f, NEW c, NEW q, NEW ps,
         Alone(T, X, f, c, q, es, ps)
  PROVE  Alone(T, X, f, c, q, Tail(es), ps)
<1> DEFINE r == Tail(es)
<1>1. \A k : IsBlock(r, k) => IsBlock(es, k + 1) /\ r[k] = es[k + 1]
  BY Handed DEF IsBlock
<1> HIDE DEF r
<1>2. \A k : IsBlock(r, k) => Marked(T, X, f, r[k].block)
  BY <1>1 DEF Alone
<1>3. QED  BY <1>2 DEF Alone, r

LEMMA AloneLogged ==
  ASSUME NEW es \in Seq(Event), NEW e \in Event, NEW T, NEW X, NEW f, NEW c, NEW q, NEW ps,
         Alone(T, X, f, c, q, es, ps), e.type = "BlockProposed" => Marked(T, X, f, e.block)
  PROVE  Alone(T, X, f, c, q, Append(es, e), ps)
<1> DEFINE r == Append(es, e)
<1>1. /\ \A k : IsBlock(r, k) <=> IsBlock(es, k) \/ (k = Len(es) + 1 /\ e.type = "BlockProposed")
      /\ \A k : IsBlock(es, k) => r[k] = es[k]
      /\ r[Len(es) + 1] = e
  BY Queues
<1> HIDE DEF r
<1>2. \A k : IsBlock(r, k) => Marked(T, X, f, r[k].block)
  BY <1>1 DEF Alone
<1>3. QED  BY <1>2 DEF Alone, r

LEMMA AloneCut ==
  ASSUME NEW q \in Seq(Block), NEW n \in 0..Len(q), NEW es, NEW T, NEW X, NEW f, NEW c, NEW ps,
         Alone(T, X, f, c, q, es, ps)
  PROVE  Alone(T, X, f, c, SubSeq(q, 1, n), es, ps)
<1> DEFINE r == SubSeq(q, 1, n)
<1>1. Len(r) = n /\ \A i \in 1..n : r[i] = q[i]
  BY FirstPart
<1> HIDE DEF r
<1>2. \A i \in 1..n : i \in 1..Len(q)
  OBVIOUS
<1>3. \A i \in 1..Len(r) : Marked(T, X, f, r[i])
  BY <1>1, <1>2 DEF Alone
<1>4. QED  BY <1>3 DEF Alone, r

LEMMA AloneMore ==
  ASSUME NEW q \in Seq(Block), NEW x \in Block, NEW es, NEW T, NEW X, NEW f, NEW c, NEW ps,
         Alone(T, X, f, c, q, es, ps), Marked(T, X, f, x)
  PROVE  Alone(T, X, f, c, Append(q, x), es, ps)
<1> DEFINE r == Append(q, x)
<1>1. /\ Len(r) = Len(q) + 1 /\ Len(q) \in Nat /\ r[Len(q) + 1] = x
      /\ \A i \in 1..Len(q) : r[i] = q[i]
  BY AppendedOne
<1> HIDE DEF r
<1>2. \A i \in 1..Len(r) : i \in 1..Len(q) \/ i = Len(q) + 1
  BY <1>1
<1>3. \A i \in 1..Len(r) : Marked(T, X, f, r[i])
  BY <1>1, <1>2 DEF Alone
<1>4. QED  BY <1>3 DEF Alone, r

(***************************************************************************)
(* What a handler leaves in the stop queue.                                *)
(***************************************************************************)
(* A right block without roots passes every check.                         *)
LEMMA CheckPasses ==
  ASSUME NEW p \in Seq(Block), NEW b \in Block, b.n = Len(p),
         NEW d, d.blocks = Append(p, b), TreesRight(d), NEW under, StoredRight(d, under),
         NEW T, NEW X, Right(T, X, b), ~ b.fault,
         T[b.hash] = FirstHashes(Append(p, b), Len(p) + 1), X[b.prev] = TxsTo(p, Len(p)),
         NEW root, \A t \in ToSet(b.txs) : root[t] = NoRoot, NEW latest \in Nat
  PROVE  CheckBlock(d, b, root, latest)
<1>1. PICK m \in Nat : m = Len(p)
  OBVIOUS
<1> DEFINE q == Append(p, b)
<1>2. /\ Len(q) = m + 1 /\ q \in Seq(Block) /\ \A i \in 1..m : q[i] = p[i]
  BY <1>1, AppendedOne
<1>3. FirstHashes(q, m + 1) = Append(FirstHashes(p, m), b.hash) /\ FirstHashes(q, m) = FirstHashes(p, m)
  BY <1>1, HashesAppended
<1>4. FirstHashes(p, 0) = <<>>
  BY NoHashes
<1> HIDE DEF q
<1>5. TreeByNumber(d, b.n - 1) = FirstHashes(p, m)
  <2>1. d.trees = [n \in 0..m |-> FirstHashes(q, n + 1)]
    <3>1. Len(d.blocks) - 1 = m
      BY <1>2 DEF q
    <3>2. QED  BY <3>1 DEF TreesRight, q
  <2>2. CASE m = 0
    <3>1. b.n - 1 \notin DOMAIN d.trees
      BY <1>1, <2>1, <2>2
    <3>2. QED  BY <1>4, <2>2, <3>1 DEF TreeByNumber
  <2>3. CASE m # 0
    <3>1. b.n - 1 \in 0..m /\ (b.n - 1) + 1 = m
      BY <1>1, <2>3
    <3>2. d.trees[b.n - 1] = FirstHashes(q, (b.n - 1) + 1)
      BY <2>1, <3>1
    <3>3. QED  BY <1>3, <2>1, <3>1, <3>2 DEF TreeByNumber
  <2>4. QED  BY <2>2, <2>3
<1>6. TreeFollows(d, b)
  <2>1. b.tree = T[b.hash]
    BY DEF Right
  <2>2. T[b.hash] = FirstHashes(q, m + 1)
    BY <1>1 DEF q
  <2>3. QED  BY <1>3, <1>5, <2>1, <2>2 DEF TreeFollows
<1>7. ASSUME NEW t \in ToSet(b.txs), NEW u \in DOMAIN d.txs, d.txs[u].n \notin {-1, b.n}
      PROVE  ~ Clash(t, u)
  <2>1. PICK n : n = d.txs[u].n
    OBVIOUS
  <2>2. IsFirst(q, u, n)
    BY <1>7, <2>1 DEF StoredRight, q
  <2>3. n \in 0..m
    BY <1>2, <2>2 DEF IsFirst
  <2>4. n + 1 \in 1..m
    BY <1>1, <1>7, <2>1, <2>3
  <2>5. u \in ToSet(p[n + 1].txs)
    BY <1>2, <2>2, <2>4 DEF IsFirst
  <2>6. u \in X[b.prev]
    BY <1>1, <2>4, <2>5 DEF TxsTo
  <2>7. QED  BY <2>6 DEF Right
<1>8. ASSUME NEW t \in ToSet(b.txs)
      PROVE  CheckTransaction(d, t, root[t], FALSE, b.n, None, latest)
  <2>1. ~ DuplicateCommitment(d, t, FALSE, b.n)
    BY <1>7 DEF DuplicateCommitment, L2ByCommitment, Clash
  <2>2. ~ DuplicateNullifier(d, t, FALSE, b.n)
    BY <1>7 DEF DuplicateNullifier, L2ByNullifier, Clash
  <2>3. root[t] = NoRoot
    OBVIOUS
  <2>4. HistoricRootKnown(NoRoot, None, latest)
    BY DEF HistoricRootKnown, NoRoot
  <2>5. ProofVerifies(d, NoRoot)
    BY DEF ProofVerifies
  <2>6. QED  BY <2>1, <2>2, <2>3, <2>4, <2>5 DEF CheckTransaction
<1>9. QED  BY <1>6, <1>8 DEF CheckBlock, Right

LEMMA StopKept ==
  ASSUME NEW s, IsNode(s), NEW c
  PROVE  /\ CommitToChallenge(s, c).stop = s.stop /\ AttemptsChecked(s).stop = s.stop
         /\ CommittedToChallenge(s, c).stop = s.stop /\ NewCurrentProposer(s, c).stop = s.stop
<1>1. CommitToChallenge(s, c).stop = s.stop
  BY DEF CommitToChallenge, IsNode
<1>2. AttemptsChecked(s).stop = s.stop
  BY DEF AttemptsChecked, IsNode
<1>3. CommittedToChallenge(s, c).stop = s.stop
  BY DEF CommittedToChallenge, IsNode
<1>4. NewCurrentProposer(s, c).stop = s.stop
  BY DEF NewCurrentProposer, IsNode
<1>5. QED  BY <1>1, <1>2, <1>3, <1>4

LEMMA StopPopped ==
  ASSUME NEW s, IsNode(s), NEW n
  PROVE  Rollback(s, n).stop = IF s.stop = <<>> THEN <<>> ELSE Tail(s.stop)
BY DEF Rollback, Dequeued, IsNode

(* A wrong block is put there if nothing is there yet.                     *)
LEMMA StopPushed ==
  ASSUME NEW s, IsNode(s), s.stop \in Seq(Nat), NEW b \in Block
  PROVE  LET r == BlockProposed(s, b).stop IN
         /\ s.stop # <<>> => r = s.stop
         /\ s.stop = <<>> /\ b.fault => Len(r) = 1
         /\ s.stop = <<>> /\ CheckBlock(StoredBlock(s, b), b, roots, Len(chain) - 1) => r = <<>>
<1> DEFINE d == StoredBlock(s, b)
           s1 == [s EXCEPT !.db = d, !.mem.last = b.l1,
                           !.saving = @ \cup {<<t, b.n>> : t \in ToSet(b.txs)}]
           s2 == [s1 EXCEPT !.stop = Append(@, b.hash)]
           failed == Checked(s) /\ ~ CheckBlock(d, b, roots, Len(chain) - 1)
           r == BlockProposed(s, b).stop
<1>1. BlockProposed(s, b) = IF failed THEN CommitToChallenge(s2, b.hash) ELSE s1
  BY DEF BlockProposed, StoredBlock, ChallengeInvalid
<1>2. s1.stop = s.stop /\ s2.stop = Append(s.stop, b.hash)
  BY DEF IsNode
<1> HIDE DEF s1, d
<1>3. CommitToChallenge(s2, b.hash).stop = s2.stop
  BY DEF CommitToChallenge
<1> HIDE DEF s2
<1>4. r = IF failed THEN Append(s.stop, b.hash) ELSE s.stop
  BY <1>1, <1>2, <1>3
<1>5. s.stop # <<>> => r = s.stop
  BY <1>4 DEF Checked
<1>6. s.stop = <<>> /\ b.fault => Len(r) = 1
  <2>1. b.fault => ~ CheckBlock(d, b, roots, Len(chain) - 1)
    BY DEF CheckBlock
  <2>2. Len(Append(<<>>, b.hash)) = 1
    <3>1. b.hash \in Nat
      BY BlockFields
    <3>2. QED  BY <3>1
  <2>3. QED  BY <1>4, <2>1, <2>2 DEF Checked
<1>7. s.stop = <<>> /\ CheckBlock(d, b, roots, Len(chain) - 1) => r = <<>>
  BY <1>4
<1>8. QED  BY <1>5, <1>6, <1>7 DEF d

LEMMA StopHandled ==
  ASSUME NEW s, Settled(s), NEW c, NEW R, Chains(s.db.blocks, c, R),
         NEW e \in Event, NEW a, Follows(s.db.blocks, e, a), Chains(a, c, R),
         NEW T, NEW X, NEW D, History(T, X, D, c), Along(T, X, D, s.db.blocks), Along(T, X, D, a),
         NEW f,
         e.type = "BlockProposed" =>
           /\ Marked(T, X, f, e.block) /\ \A t \in ToSet(e.block.txs) : roots[t] = NoRoot
           /\ e.block.hash # f /\ ~ In(f, s.db.blocks) => Len(chain) - 1 \in Nat,
         e.type = "Rollback" => e.n = Len(T[f]) - 1,
         Len(s.stop) = IF In(f, s.db.blocks) THEN 1 ELSE 0
  PROVE  Len(Handled(s, e).stop) = IF In(f, a) THEN 1 ELSE 0
<1> DEFINE p == s.db.blocks
<1>1. p \in Seq(Block) /\ s.stop \in Seq(Nat) /\ IsNode(s)
  BY DEF Chains, Settled, IsNode
<1>2. CASE e.type = "BlockProposed"
  <2> DEFINE b == e.block
             s0 == AttemptsChecked(s)
             r == BlockProposed(s0, b).stop
  <2>1. b \in Block /\ a = Append(p, b)
    BY <1>2, EventFields DEF Follows
  <2>2. Handled(s, e).stop = r
    BY <1>2 DEF Handled
  <2>3. IsNode(s0) /\ s0.db = s.db /\ s0.stop = s.stop
    BY <1>1, AttemptsKept, StopKept
  <2>4. PICK m \in Nat : m = Len(p)
    BY <1>1
  <2> HIDE DEF s0
  <2>5. /\ s.stop # <<>> => r = s.stop
        /\ s.stop = <<>> /\ b.fault => Len(r) = 1
        /\ s.stop = <<>> /\ CheckBlock(StoredBlock(s0, b), b, roots, Len(chain) - 1) => r = <<>>
    BY <1>1, <2>1, <2>3, StopPushed
  <2>6. In(f, a) <=> In(f, p) \/ b.hash = f
    BY <1>1, <2>1, InMore
  <2> HIDE DEF b, r
  <2>7. Marked(T, X, f, b) /\ \A t \in ToSet(b.txs) : roots[t] = NoRoot
    BY <1>2 DEF b
  <2>8. CASE In(f, p)
    <3>1. s.stop # <<>>
      BY <2>8
    <3>2. QED  BY <2>2, <2>5, <2>6, <2>8, <3>1
  <2>9. CASE ~ In(f, p) /\ b.hash = f
    <3>1. s.stop = <<>> /\ b.fault
      BY <1>1, <2>7, <2>9 DEF Marked
    <3>2. QED  BY <2>2, <2>5, <2>6, <2>9, <3>1
  <2>10. CASE ~ In(f, p) /\ b.hash # f
    <3>1. s.stop = <<>> /\ ~ b.fault /\ Right(T, X, b)
      BY <1>1, <2>7, <2>10 DEF Marked
    <3>2. /\ Len(a) = m + 1 /\ a[m + 1] = b /\ \A i \in 1..m : a[i] = p[i]
      BY <1>1, <2>1, <2>4, AppendedOne
    <3>3. m + 1 \in 1..Len(a) /\ \A i \in 1..m : i \in 1..Len(a) /\ i # m + 1
      BY <3>2
    <3>4. b.n = (m + 1) - 1 /\ b.prev = HashBefore(a, m + 1)
      BY <3>2, <3>3 DEF Chains
    <3>5. \A i \in 1..m : p[i].hash # b.hash
      BY <3>2, <3>3 DEF Chains
    <3>6. X[b.prev] = TxsTo(p, m)
      <4>1. PICK k \in 1..Len(p) + 1 : k = m + 1 /\ k - 1 = m
        BY <2>4
      <4>2. X[HashBefore(p, k)] = TxsTo(p, k - 1)
        BY <1>1, AlongBefore
      <4>3. HashBefore(a, k) = HashBefore(p, k)
        <5>1. CASE k = 1
          BY <5>1 DEF HashBefore
        <5>2. CASE k # 1
          <6>1. k - 1 \in 1..m
            BY <2>4, <4>1, <5>2
          <6>2. QED  BY <3>2, <5>2, <6>1 DEF HashBefore
        <5>3. QED  BY <5>1, <5>2
      <4>4. QED  BY <3>4, <4>1, <4>2, <4>3
    <3>7. T[b.hash] = FirstHashes(a, m + 1)
      BY <3>2, <3>3 DEF Along
    <3> DEFINE d == StoredBlock(s0, b)
               under == {<<t, b.n>> : t \in ToSet(b.txs)}
    <3>8. IsDB(d) /\ d.blocks = Append(p, b) /\ TreesRight(d) /\ StoredRight(d, under)
      <4>1. StoredRight(s0.db, {}) /\ TreesRight(s0.db)
        BY <2>3 DEF Settled
      <4>2. b \in Block /\ b.n = Len(s0.db.blocks)
        BY <2>1, <2>3, <2>4, <3>4 DEF b
      <4>3. \A i \in 1..Len(s0.db.blocks) : s0.db.blocks[i].hash # b.hash
        BY <2>3, <2>4, <3>5
      <4>4. QED  BY <2>3, <4>1, <4>2, <4>3, BlockStored
    <3> HIDE DEF d, under
    <3>9. Len(chain) - 1 \in Nat
      BY <1>2, <2>10 DEF b
    <3>10. b \in Block /\ b.n = Len(p) /\ a = Append(p, b)
      BY <2>1, <2>4, <3>4 DEF b
    <3>11. CheckBlock(d, b, roots, Len(chain) - 1)
      BY <1>1, <2>4, <2>7, <3>1, <3>6, <3>7, <3>8, <3>9, <3>10, CheckPasses
    <3>12. r = <<>>
      BY <2>5, <3>1, <3>11 DEF d
    <3>13. QED  BY <2>2, <2>6, <2>10, <3>12
  <2>11. QED  BY <2>8, <2>9, <2>10
<1>3. CASE e.type = "Rollback"
  <2>1. e.n \in 0..Len(p) - 1 /\ a = SubSeq(p, 1, e.n) /\ e.n = Len(T[f]) - 1
    BY <1>3 DEF Follows
  <2>2. Handled(s, e).stop = IF s.stop = <<>> THEN <<>> ELSE Tail(s.stop)
    <3>1. Handled(s, e) = Rollback(s, e.n)
      BY <1>3 DEF Handled
    <3>2. QED  BY <1>1, <3>1, StopPopped
  <2>3. ~ In(f, a)
    <3>1. CASE ~ In(f, p)
      <4>1. e.n \in 0..Len(p)
        BY <1>1, <2>1
      <4>2. QED  BY <1>1, <2>1, <3>1, <4>1, InLess
    <3>2. CASE In(f, p)
      <4>1. PICK i \in 1..Len(p) : p[i].hash = f
        BY <3>2 DEF In
      <4>2. T[f] = FirstHashes(p, i)
        BY <4>1 DEF Along
      <4>3. Len(T[f]) = i
        <5>1. i \in Nat
          BY <1>1
        <5>2. QED  BY <4>2, <5>1 DEF FirstHashes
      <4>4. e.n = i - 1
        BY <2>1, <4>3
      <4>5. QED  BY <2>1, <4>1, <4>4, CutOut
    <3>3. QED  BY <3>1, <3>2
  <2>4. Len(Handled(s, e).stop) = 0
    <3>1. CASE s.stop = <<>>
      BY <2>2, <3>1
    <3>2. CASE s.stop # <<>>
      <4>1. Len(s.stop) \in {0, 1}
        OBVIOUS
      <4>2. Len(Tail(s.stop)) = Len(s.stop) - 1 /\ Len(s.stop) \in Nat \ {0}
        BY <1>1, <3>2, TookFirst
      <4>3. Len(s.stop) = 1
        BY <4>1, <4>2
      <4>4. Len(Tail(s.stop)) = 0
        BY <4>2, <4>3
      <4>5. Handled(s, e).stop = Tail(s.stop)
        BY <2>2, <3>2
      <4>6. QED  BY <4>4, <4>5
    <3>3. QED  BY <3>1, <3>2
  <2>5. QED  BY <2>3, <2>4
<1>4. CASE e.type = "NewCurrentProposer"
  <2>1. a = p /\ Handled(s, e) = NewCurrentProposer(s, e.p)
    BY <1>4 DEF Follows, Handled
  <2>2. QED  BY <1>1, <2>1, StopKept
<1>5. CASE e.type = "CommittedToChallenge"
  <2>1. a = p /\ Handled(s, e) = CommittedToChallenge(s, e.c)
    BY <1>5 DEF Follows, Handled
  <2>2. QED  BY <1>1, <2>1, StopKept
<1>6. QED  BY <1>2, <1>3, <1>4, <1>5, EventFields

(***************************************************************************)
(* Every step keeps it.                                                    *)
(***************************************************************************)
(* Halts before a step, in terms of what is known of the blocks after it.  *)
Carried(T, X, D, f, c) ==
  /\ count.faults = 0 => f = NoHash
  /\ f \in 0..count.blocks /\ Held(f)
  /\ Alone(T, X, f, c, chain, fast, proposals) /\ Queued(T, f, fast, chain, db.blocks)
  /\ Along(T, X, D, chain) /\ Along(T, X, D, db.blocks)
  /\ Announced(T, X, D, c, fast) /\ Prepared(T, X, D, c, proposals)

LEMMA HaltsCarried ==
  ASSUME IInv, NEW T, NEW X, NEW D, OwnRight(T, X, D), NEW f, Halts(T, X, f),
         NEW T2, NEW X2, NEW D2, Agree(T, X, D, T2, X2, D2, count.blocks),
         NEW c2 \in Nat, count.blocks <= c2
  PROVE  Carried(T2, X2, D2, f, c2)
<1>1. PICK c \in Nat : c = count.blocks
  BY Standing
<1>2. Chains(chain, c, Known) /\ Chains(db.blocks, c, Known)
  BY <1>1, Standing
<1>3. /\ Along(T, X, D, chain) /\ Along(T, X, D, db.blocks)
      /\ Announced(T, X, D, c, fast) /\ Prepared(T, X, D, c, proposals)
  BY <1>1 DEF OwnRight
<1>4. /\ Along(T2, X2, D2, chain) /\ Along(T2, X2, D2, db.blocks)
      /\ Announced(T2, X2, D2, c2, fast) /\ Prepared(T2, X2, D2, c2, proposals)
  BY <1>1, <1>2, <1>3, StillRight
<1>5. /\ count.faults = 0 => f = NoHash
      /\ Alone(T, X, f, c, chain, fast, proposals) /\ Queued(T, f, fast, chain, db.blocks)
      /\ Held(f) /\ f \in 0..c
  BY <1>1 DEF Halts, Alone
<1>6. Alone(T2, X2, f, c2, chain, fast, proposals)
  BY <1>1, <1>2, <1>3, <1>5, StillAlone
<1>7. Queued(T2, f, fast, chain, db.blocks)
  BY <1>1, <1>3, <1>5, StillQueued
<1>8. QED  BY <1>1, <1>4, <1>5, <1>6, <1>7 DEF Carried

(* The blocks of the chain that are wrong are those that were made so.     *)
LEMMA WrongOnly ==
  ASSUME IInv, Rootless, NEW T, NEW X, NEW D, NEW c, History(T, X, D, c),
         Along(T, X, D, chain), NEW f, NEW i \in DOMAIN chain, Marked(T, X, f, chain[i])
  PROVE  ValidBlock(i) <=> chain[i].hash # f
<1>1. /\ chain \in Seq(Block) /\ i \in 1..Len(chain) /\ i \in Nat
      /\ Chains(chain, count.blocks, Known)
  BY Standing
<1>2. ValidBlock(i) => chain[i].hash # f
  BY DEF ValidBlock, Marked
<1>3. ASSUME chain[i].hash # f PROVE ValidBlock(i)
  <2>1. ~ chain[i].fault /\ Right(T, X, chain[i])
    BY <1>3 DEF Marked
  <2>2. chain[i].tree = SubSeq(ChainTree, 1, i)
    <3>1. i - 1 \in 0..Len(chain) - 1 /\ (i - 1) + 1 = i
      BY <1>1
    <3>2. ChainTree = [j \in DOMAIN chain |-> chain[j].hash]
      BY DEF ChainTree
    <3>3. SubSeq(ChainTree, 1, (i - 1) + 1) = FirstHashes(chain, (i - 1) + 1)
      BY <1>1, <3>1, <3>2, TreesOfChain
    <3>4. T[chain[i].hash] = FirstHashes(chain, i)
      BY <1>1 DEF Along
    <3>5. QED  BY <2>1, <3>1, <3>3, <3>4 DEF Right
  <2>3. ~ DuplicatesWithinBlock(chain[i])
    BY <2>1 DEF Right
  <2>4. ASSUME NEW t \in ToSet(chain[i].txs), NEW j \in 1..i - 1, NEW u \in ToSet(chain[j].txs)
        PROVE  ~ Clash(t, u)
    <3>1. u \in TxsTo(chain, i - 1)
      BY DEF TxsTo
    <3>2. X[HashBefore(chain, i)] = TxsTo(chain, i - 1)
      <4>1. i \in 1..Len(chain) + 1
        BY <1>1
      <4>2. QED  BY <1>1, <4>1, AlongBefore
    <3>3. chain[i].prev = HashBefore(chain, i)
      BY <1>1 DEF Chains
    <3>4. QED  BY <2>1, <3>1, <3>2, <3>3 DEF Right
  <2>5. \A t \in ToSet(chain[i].txs) : roots[t] = NoRoot
    BY <1>1 DEF Chains, Rootless
  <2>6. QED  BY <2>1, <2>2, <2>3, <2>4, <2>5 DEF ValidBlock
<1>4. QED  BY <1>2, <1>3

LEMMA HandleEventHalts ==
  ASSUME IInv, Rootless, HandleEvent, NEW T, NEW X, NEW D, OwnRight(T, X, D)', NEW f,
         Carried(T, X, D, f, count'.blocks)
  PROVE  Halts(T, X, f)'
<1>1. /\ fast # <<>> /\ saving = {} /\ fast' = Tail(fast)
      /\ UNCHANGED <<chain, roots, proposals, count>>
  BY DEF HandleEvent, AllWritten
<1>2. PICK c \in Nat : c = count.blocks
  BY Standing
<1>3. fast \in Seq(Event) /\ Chains(db.blocks, c, Known)
  BY <1>2, Standing
<1> DEFINE e == Head(fast)
           r == Handled(Node, e)
<1>4. e \in Event /\ e = fast[1] /\ 1 \in 1..Len(fast)
  BY <1>1, <1>3, Handed
<1>5. PICK a \in Seq(Block) : /\ Follows(db.blocks, e, a) /\ Chains(a, c, Known)
                              /\ Leads(Tail(fast), a, chain, c, Known)
  BY <1>1, <1>2, <1>3, LeadsFrom DEF IInv
<1>6. db' = r.db /\ stop' = r.stop
  BY DEF HandleEvent, Becomes
<1>7. Settled(Node) /\ Node.db = db /\ Node.stop = stop
  BY <1>1 DEF Settled, IInv, Collections, IsNode, Node
<1> HIDE DEF e
<1>8. Outcome(Node, r, a)
  BY <1>3, <1>4, <1>5, <1>7, HandledRight
<1> HIDE DEF r
<1>9. db'.blocks = a
  BY <1>6, <1>8 DEF Outcome
<1>10. /\ count.faults = 0 => f = NoHash
       /\ Held(f) /\ Alone(T, X, f, c, chain, fast, proposals)
       /\ Queued(T, f, fast, chain, db.blocks) /\ Along(T, X, D, db.blocks)
  BY <1>1, <1>2 DEF Carried
<1>11. History(T, X, D, c) /\ Along(T, X, D, a)
  BY <1>1, <1>2, <1>9 DEF OwnRight
<1>12. Alone(T, X, f, c, chain, fast', proposals)
  BY <1>1, <1>3, <1>10, AloneTaken
<1>13. Queued(T, f, fast', chain, a)
  <2>1. db.blocks \in Seq(Block)
    BY <1>3 DEF Chains
  <2>2. QED  BY <1>1, <1>3, <1>5, <1>10, <2>1, TookEvent DEF e
<1>14. ASSUME e.type = "BlockProposed"
       PROVE  /\ Marked(T, X, f, e.block) /\ \A t \in ToSet(e.block.txs) : roots[t] = NoRoot
              /\ e.block.hash # f /\ ~ In(f, db.blocks) => Len(chain) - 1 \in Nat
  <2>1. IsBlock(fast, 1)
    BY <1>4, <1>14 DEF IsBlock
  <2>2. Marked(T, X, f, e.block)
    BY <1>4, <1>10, <2>1 DEF Alone
  <2>3. ToSet(e.block.txs) \subseteq Known
    <3>1. a = Append(db.blocks, e.block) /\ e.block \in Block /\ db.blocks \in Seq(Block)
      BY <1>3, <1>4, <1>5, <1>14, EventFields DEF Follows, Chains
    <3>2. Len(a) \in 1..Len(a) /\ a[Len(a)] = e.block
      BY <3>1, AppendedOne
    <3>3. QED  BY <1>5, <3>2 DEF Chains
  <2>4. ASSUME e.block.hash # f, ~ In(f, db.blocks) PROVE Len(chain) - 1 \in Nat
    <3>1. chain # <<>>
      BY <1>3, <1>4, <1>10, <2>1, <2>4, NotEmpty
    <3>2. chain \in Seq(Block)
      BY Standing
    <3>3. Len(chain) \in Nat \ {0}
      BY <3>1, <3>2, TookFirst
    <3>4. QED  BY <3>3
  <2>5. QED  BY <2>2, <2>3, <2>4 DEF Rootless
<1>15. ASSUME e.type = "Rollback" PROVE e.n = Len(T[f]) - 1
  <2>1. IsRollback(fast, 1)
    BY <1>4, <1>15 DEF IsRollback
  <2>2. QED  BY <1>4, <1>10, <2>1 DEF Queued, RollbackRight
<1>16. Len(stop) = IF In(f, db.blocks) THEN 1 ELSE 0
  BY <1>10 DEF Held
<1>17. Len(r.stop) = IF In(f, a) THEN 1 ELSE 0
  <2>1. PICK s : s = Node
    OBVIOUS
  <2>2. /\ Settled(s) /\ Chains(s.db.blocks, c, Known) /\ Follows(s.db.blocks, e, a)
        /\ Along(T, X, D, s.db.blocks) /\ Len(s.stop) = IF In(f, s.db.blocks) THEN 1 ELSE 0
    BY <1>3, <1>5, <1>7, <1>10, <1>16, <2>1
  <2>3. e.type = "BlockProposed" =>
          /\ Marked(T, X, f, e.block) /\ \A t \in ToSet(e.block.txs) : roots[t] = NoRoot
          /\ e.block.hash # f /\ ~ In(f, s.db.blocks) => Len(chain) - 1 \in Nat
    BY <1>7, <1>14, <2>1
  <2>4. Len(Handled(s, e).stop) = IF In(f, a) THEN 1 ELSE 0
    BY <1>4, <1>5, <1>11, <1>15, <2>2, <2>3, StopHandled
  <2>5. QED  BY <2>1, <2>4 DEF r
<1>18. Held(f)'
  BY <1>6, <1>9, <1>17 DEF Held
<1>19. QED  BY <1>1, <1>2, <1>9, <1>10, <1>12, <1>13, <1>18 DEF Halts

(* Nothing of it changes but for what is logged of other things.           *)
LEMMA OtherHalts ==
  ASSUME IInv, NEW T, NEW X, NEW D, NEW f, Carried(T, X, D, f, count'.blocks),
         UNCHANGED <<chain, proposals, stop>>, db'.blocks = db.blocks,
         count'.faults = count.faults,
         fast' = fast \/ \E e \in Event : /\ e.type \notin {"BlockProposed", "Rollback"}
                                          /\ fast' = Append(fast, e)
  PROVE  Halts(T, X, f)'
<1>1. PICK c : c = count'.blocks
  OBVIOUS
<1>2. fast \in Seq(Event)
  BY Standing
<1>3. /\ count.faults = 0 => f = NoHash
      /\ Held(f) /\ Alone(T, X, f, c, chain, fast, proposals)
      /\ Queued(T, f, fast, chain, db.blocks)
  BY <1>1 DEF Carried
<1>4. Alone(T, X, f, c, chain, fast', proposals) /\ Queued(T, f, fast', chain, db.blocks)
  <2>1. CASE fast' = fast
    BY <1>3, <2>1
  <2>2. CASE \E e \in Event : e.type \notin {"BlockProposed", "Rollback"} /\ fast' = Append(fast, e)
    <3>1. PICK e \in Event : e.type \notin {"BlockProposed", "Rollback"} /\ fast' = Append(fast, e)
      BY <2>2
    <3>2. Alone(T, X, f, c, chain, Append(fast, e), proposals)
      BY <1>2, <1>3, <3>1, AloneLogged
    <3>3. Queued(T, f, Append(fast, e), chain, db.blocks)
      BY <1>2, <1>3, <3>1, OtherQueued
    <3>4. QED  BY <3>1, <3>2, <3>3
  <2>3. QED  BY <2>1, <2>2
<1>5. Held(f)'
  BY <1>3 DEF Held
<1>6. QED  BY <1>1, <1>3, <1>4, <1>5 DEF Halts

(* A wrong block is rolled back.                                           *)
LEMMA RollbackHalts ==
  ASSUME IInv, Rootless, NEW T, NEW X, NEW D, OwnRight(T, X, D)', NEW f,
         Carried(T, X, D, f, count'.blocks),
         NEW i \in DOMAIN chain, ~ ValidBlock(i), RollBackTo(i),
         UNCHANGED <<db, stop, count, proposals>>
  PROVE  Halts(T, X, f)'
<1>1. PICK c \in Nat : c = count.blocks
  BY Standing
<1>2. chain \in Seq(Block) /\ fast \in Seq(Event) /\ i \in 1..Len(chain) /\ Chains(chain, c, Known)
  BY <1>1, Standing
<1>3. i - 1 \in 0..Len(chain) /\ i - 1 \in Nat
  BY <1>2
<1>4. /\ count.faults = 0 => f = NoHash
      /\ Held(f) /\ Alone(T, X, f, c, chain, fast, proposals)
      /\ Queued(T, f, fast, chain, db.blocks) /\ Along(T, X, D, chain)
  BY <1>1 DEF Carried
<1>5. f = chain[i].hash
  <2>1. History(T, X, D, c)
    BY <1>1 DEF OwnRight
  <2>2. Marked(T, X, f, chain[i])
    BY <1>2, <1>4 DEF Alone
  <2>3. QED  BY <1>4, <2>1, <2>2, WrongOnly
<1>6. PICK e \in Event : /\ e.type = "Rollback" /\ e.n = i - 1
                         /\ fast' = Append(fast, e) /\ chain' = SubSeq(chain, 1, i - 1)
  <2>1. [type |-> "Rollback", n |-> i - 1] \in Event
    BY <1>3 DEF Event
  <2>2. fast' = Append(fast, [type |-> "Rollback", n |-> i - 1]) /\ chain' = SubSeq(chain, 1, i - 1)
    BY DEF RollBackTo, Emit
  <2>3. QED  BY <2>1, <2>2
<1>7. Queued(T, f, fast', chain', db.blocks)
  BY <1>2, <1>4, <1>5, <1>6, RollbackQueued
<1>8. Alone(T, X, f, c, chain', fast', proposals)
  <2>1. Alone(T, X, f, c, chain, fast', proposals)
    BY <1>2, <1>4, <1>6, AloneLogged
  <2>2. QED  BY <1>2, <1>3, <1>6, <2>1, AloneCut
<1>9. Held(f)'
  BY <1>4 DEF Held
<1>10. QED  BY <1>1, <1>4, <1>7, <1>8, <1>9 DEF Halts

(* A block that is not the faulty one comes on chain.                      *)
LEMMA BlockHalts ==
  ASSUME IInv, NEW T, NEW X, NEW D, OwnRight(T, X, D)', NEW f, NEW c,
         c = count'.blocks, Carried(T, X, D, f, c),
         NEW b \in Block, EmitBlock(b), b.hash # f, ~ b.fault, b.tree = T[b.hash],
         ~ DuplicatesWithinBlock(b), \A t \in ToSet(b.txs) : \A u \in X[b.prev] : ~ Clash(t, u),
         UNCHANGED <<db, stop>>, count'.faults = count.faults,
         \A i \in 1..Len(proposals') : proposals'[i].hash # f
  PROVE  Halts(T, X, f)'
<1>1. chain \in Seq(Block) /\ fast \in Seq(Event)
  BY Standing
<1>2. /\ count.faults = 0 => f = NoHash
      /\ Held(f) /\ Alone(T, X, f, c, chain, fast, proposals)
      /\ Queued(T, f, fast, chain, db.blocks)
  BY DEF Carried
<1>3. PICK x \in Block, e \in Event :
         /\ chain' = Append(chain, x) /\ fast' = Append(fast, e)
         /\ e.type = "BlockProposed" /\ e.block = x
         /\ x.hash = b.hash /\ x.prev = b.prev /\ x.txs = b.txs /\ x.tree = b.tree
         /\ x.fault = b.fault /\ x.by = b.by
  BY BlockEmitted
<1>4. Marked(T, X, f, x)
  BY <1>3 DEF Marked, Right, DuplicatesWithinBlock
<1>5. Along(T, X, D, Append(chain, x))
  BY <1>3 DEF OwnRight
<1>6. Queued(T, f, fast', chain', db.blocks)
  BY <1>1, <1>2, <1>3, <1>5, BlockQueued
<1>7. Alone(T, X, f, c, chain', fast', proposals)
  <2>1. Alone(T, X, f, c, chain, Append(fast, e), proposals)
    BY <1>1, <1>2, <1>3, <1>4, AloneLogged
  <2>2. Alone(T, X, f, c, Append(chain, x), Append(fast, e), proposals)
    BY <1>1, <1>3, <1>4, <2>1, AloneMore
  <2>3. QED  BY <1>3, <2>2
<1>8. Alone(T, X, f, c, chain', fast', proposals')
  BY <1>7 DEF Alone
<1>9. Held(f)'
  BY <1>2 DEF Held
<1>10. QED  BY <1>2, <1>6, <1>8, <1>9 DEF Halts

LEMMA MineProposalHalts ==
  ASSUME NoClash, IInv, NEW T, NEW X, NEW D, OwnRight(T, X, D)', NEW f,
         Carried(T, X, D, f, count'.blocks), MineProposal
  PROVE  Halts(T, X, f)'
<1>1. /\ proposals # <<>> /\ proposals' = Tail(proposals)
      /\ UNCHANGED <<count, db, stop>>
  BY DEF MineProposal
<1>2. proposals \in Seq(Block) /\ chain \in Seq(Block)
  BY Standing
<1> DEFINE b == Head(proposals)
<1>3. PICK c \in Nat : c = count.blocks
  BY Standing
<1>4. /\ Len(proposals') = Len(proposals) - 1 /\ Len(proposals) \in Nat \ {0}
      /\ \A i \in 1..Len(proposals) - 1 : proposals'[i] = proposals[i + 1]
      /\ b = proposals[1] /\ b \in Block
  BY <1>1, <1>2, TookFirst
<1>5. 1 \in 1..Len(proposals) /\ \A i \in 1..Len(proposals') :
        i + 1 \in 1..Len(proposals) /\ proposals'[i] = proposals[i + 1]
  BY <1>4
<1>6. (b.prev = TipHash /\ EmitBlock(b)) \/ UNCHANGED <<chain, fast>>
  BY DEF MineProposal
<1> HIDE DEF b
<1>7. /\ count.faults = 0 => f = NoHash
      /\ Held(f) /\ Alone(T, X, f, c, chain, fast, proposals)
      /\ Queued(T, f, fast, chain, db.blocks)
      /\ Along(T, X, D, chain) /\ Prepared(T, X, D, c, proposals)
  BY <1>1, <1>3 DEF Carried
<1>8. \A i \in 1..Len(proposals') : proposals'[i].hash # f
  BY <1>5, <1>7 DEF Alone
<1>9. CASE UNCHANGED <<chain, fast>>
  <2>1. Alone(T, X, f, c, chain, fast, proposals')
    BY <1>7, <1>8 DEF Alone
  <2>2. Held(f)'
    BY <1>1, <1>7 DEF Held
  <2>3. QED  BY <1>1, <1>3, <1>7, <1>9, <2>1, <2>2 DEF Halts
<1>10. CASE b.prev = TipHash /\ EmitBlock(b)
  <2>1. History(T, X, D, c)
    BY <1>1, <1>3 DEF OwnRight
  <2>2. b.prev \notin D /\ b.prev \in 0..c
    <3>1. PICK k \in 1..Len(chain) + 1 : k = Len(chain) + 1
      BY <1>2
    <3>2. TipHash = HashBefore(chain, k)
      BY <3>1, LastBefore
    <3>3. HashBefore(chain, k) \notin D
      BY <1>2, <1>7, <2>1, AlongBefore
    <3>4. b.prev \in 0..c
      BY <1>4, <1>5, <1>7 DEF Prepared, Remembered
    <3>5. QED  BY <1>10, <3>2, <3>3, <3>4
  <2>3. ~ b.fault /\ b.tree = T[b.hash] /\ NoRepeats(b.txs) /\ ToSet(b.txs) \cap X[b.prev] = {}
    BY <1>4, <1>5, <1>7, <2>2 DEF Prepared, Sound
  <2>4. b.hash # f
    BY <1>4, <1>5, <1>7 DEF Alone
  <2>5. b.txs \in Seq(Tx) /\ X[b.prev] \subseteq Tx
    BY <1>4, <2>1, <2>2, BlockFields DEF History
  <2>6. ToSet(b.txs) \subseteq Tx /\ DOMAIN b.txs = 1..Len(b.txs)
    BY <2>5, Members
  <2>7. ~ DuplicatesWithinBlock(b)
    <3> SUFFICES ASSUME NEW j \in DOMAIN b.txs, NEW k \in DOMAIN b.txs, j # k
                 PROVE  ~ Clash(b.txs[j], b.txs[k])
      BY DEF DuplicatesWithinBlock
    <3>1. b.txs[j] # b.txs[k]
      BY <2>3, <2>6 DEF NoRepeats
    <3>2. b.txs[j] \in Tx /\ b.txs[k] \in Tx
      BY <2>5, <2>6
    <3>3. QED  BY <3>1, <3>2 DEF NoClash
  <2>8. ASSUME NEW t \in ToSet(b.txs), NEW u \in X[b.prev] PROVE ~ Clash(t, u)
    BY <2>3, <2>5, <2>6 DEF NoClash
  <2>9. c = count'.blocks /\ count'.faults = count.faults /\ Carried(T, X, D, f, c)
    BY <1>1, <1>3
  <2>10. QED  BY <1>1, <1>4, <1>8, <1>10, <2>3, <2>4, <2>7, <2>8, <2>9, BlockHalts
<1>11. QED  BY <1>6, <1>9, <1>10

(* Without a faulty block, any new hash may be that of the first one.      *)
LEMMA AloneYet ==
  ASSUME NEW c \in Nat, NEW c2, NEW q, NEW R, Chains(q, c, R),
         NEW T, NEW X, NEW es, (\A k : IsBlock(es, k) => es[k].block.hash \in 1..c),
         NEW ps, \A i \in 1..Len(ps) : ps[i].hash \in 1..c,
         Alone(T, X, NoHash, c2, q, es, ps), NEW f \in 0..c2, f \notin 0..c
  PROVE  Alone(T, X, f, c2, q, es, ps)
<1>1. \A h \in 1..c : h # NoHash /\ h # f
  BY DEF NoHash
<1>2. \A i \in 1..Len(q) : Marked(T, X, f, q[i])
  BY <1>1 DEF Alone, Marked, Chains
<1>3. \A k : IsBlock(es, k) => Marked(T, X, f, es[k].block)
  BY <1>1 DEF Alone, Marked
<1>4. QED  BY <1>1, <1>2, <1>3 DEF Alone

LEMMA OtherProposesHalts ==
  ASSUME MaxFaults <= 1, IInv, NEW T, NEW X, NEW D, OwnRight(T, X, D)', NEW f,
         Carried(T, X, D, f, count'.blocks), OtherProposes,
         \A k : IsBlock(fast, k) => fast[k].block.hash \in 1..count.blocks
  PROVE  \E g : Halts(T, X, g)'
<1>1. PICK c \in Nat : c = count.blocks
  BY Standing
<1>2. PICK t \in Known, fault \in BOOLEAN :
        /\ fault => count.faults < MaxFaults
        /\ fault \/ Fits(<<t>>)
        /\ EmitBlock([NoBlock EXCEPT !.hash = count.blocks + 1, !.n = Len(chain),
                      !.prev = TipHash, !.txs = <<t>>, !.fault = fault, !.by = Other,
                      !.tree = Append(ChainTree, count.blocks + 1)])
        /\ count' = [count EXCEPT !.blocks = @ + 1, !.faults = @ + (IF fault THEN 1 ELSE 0)]
  BY DEF OtherProposes, Known
<1>3. UNCHANGED <<proposals, db, stop>>
  BY DEF OtherProposes
<1> DEFINE h == c + 1
           p == TipHash
           n == Len(chain)
           tree == Append(ChainTree, h)
           txs == <<t>>
           b == Made(h, n, p, txs, fault, Other, tree)
<1>4. count.faults \in Nat /\ count'.blocks = h /\ count'.faults = IF fault THEN count.faults + 1 ELSE count.faults
  <2>1. count \in [blocks : 0..MaxBlocks, faults : Nat, rotations : Nat, unsent : Nat, early : Nat]
    BY DEF IInv, Types
  <2>2. QED  BY <1>1, <1>2, <2>1
<1>5. /\ chain \in Seq(Block) /\ fast \in Seq(Event) /\ Chains(chain, c, Known)
      /\ Chains(db.blocks, c, Known) /\ n \in Nat
  BY <1>1, Standing
<1>6. /\ count.faults = 0 => f = NoHash
      /\ f \in 0..c /\ Held(f) /\ Alone(T, X, f, h, chain, fast, proposals)
      /\ Queued(T, f, fast, chain, db.blocks) /\ Along(T, X, D, chain)
  BY <1>1, <1>4 DEF Carried
<1>7. ChainTree = FirstHashes(chain, n) /\ ChainTree \in Seq(Nat)
  <2>1. ChainTree = FirstHashes(chain, n)
    BY <1>5 DEF ChainTree, FirstHashes
  <2>2. FirstHashes(chain, n) \in Seq(Nat)
    <3>1. \A i \in 1..n : chain[i] \in Block
      BY <1>5
    <3>2. \A i \in 1..n : chain[i].hash \in Nat
      BY <3>1, BlockFields
    <3>3. QED  BY <1>5, <3>2 DEF FirstHashes
  <2>3. QED  BY <2>1, <2>2
<1>8. History(T, X, D, h)
  BY <1>4 DEF OwnRight
<1>9. p \in Nat /\ T[p] = FirstHashes(chain, n) /\ X[p] = TxsTo(chain, n)
  <2>1. PICK k \in 1..Len(chain) + 1 : k = n + 1 /\ k - 1 = n
    BY <1>5
  <2>2. p = HashBefore(chain, k)
    BY <2>1, LastBefore
  <2>3. T[p] = FirstHashes(chain, n) /\ X[p] = TxsTo(chain, n)
    BY <1>5, <1>6, <1>8, <2>1, <2>2, AlongBefore
  <2>4. p \in Nat
    <3>1. CASE n = 0
      BY <2>1, <2>2, <3>1 DEF HashBefore, NoHash
    <3>2. CASE n # 0
      <4>1. n \in 1..Len(chain) /\ p = chain[n].hash
        BY <1>5, <2>1, <2>2, <3>2 DEF HashBefore
      <4>2. p \in 1..c
        BY <1>5, <4>1 DEF Chains
      <4>3. QED  BY <4>2
    <3>3. QED  BY <3>1, <3>2
  <2>5. QED  BY <2>3, <2>4
<1>10. h \in Nat /\ h \notin 0..c /\ h \in 0..h /\ f # h
  BY <1>6
<1>11. /\ tree \in Seq(Nat) /\ txs \in Seq(Tx) /\ n \in Int /\ Other \in {Me, Other}
       /\ fault \in BOOLEAN
  <2>1. t \in Tx
    BY Standing
  <2>2. QED  BY <1>5, <1>7, <1>10, <2>1
<1>12. EmitBlock(b)
  BY <1>1, <1>2 DEF Made
<1> HIDE DEF h, p, n, tree, txs
<1>13. /\ b \in Block /\ b.hash = h /\ b.prev = p /\ b.fault = fault /\ b.tree = tree
       /\ b.txs = txs
  BY <1>9, <1>10, <1>11, BlockMade
<1> HIDE DEF b
<1>14. PICK x \in Block, e \in Event :
         /\ chain' = Append(chain, x) /\ fast' = Append(fast, e)
         /\ e.type = "BlockProposed" /\ e.block = x
         /\ x.hash = b.hash /\ x.prev = b.prev /\ x.txs = b.txs /\ x.tree = b.tree
         /\ x.fault = b.fault /\ x.by = b.by
  BY <1>12, <1>13, BlockEmitted
<1>15. \A i \in 1..Len(proposals) : proposals[i].hash \in 1..c
  BY <1>1 DEF IInv, ProposalsFresh
<1>16. CASE fault
  <2>1. f = NoHash
    BY <1>2, <1>4, <1>6, <1>16, BoundsAssumption
  <2>2. Alone(T, X, NoHash, h, chain, fast, proposals) /\ Queued(T, NoHash, fast, chain, db.blocks)
    BY <1>6, <2>1
  <2>3. Alone(T, X, h, h, chain, fast, proposals)
    BY <1>1, <1>5, <1>10, <1>15, <2>2, AloneYet
  <2>4. Marked(T, X, h, x)
    BY <1>13, <1>14, <1>16 DEF Marked, Right
  <2>5. Alone(T, X, h, h, Append(chain, x), Append(fast, e), proposals)
    <3>1. Alone(T, X, h, h, chain, Append(fast, e), proposals)
      BY <1>5, <1>14, <2>3, <2>4, AloneLogged
    <3>2. QED  BY <1>5, <2>4, <3>1, AloneMore
  <2>6. Queued(T, h, Append(fast, e), Append(chain, x), db.blocks)
    BY <1>5, <1>6, <1>10, <1>13, <1>14, <2>2, FaultQueued
  <2>7. Held(h)'
    <3>1. ~ In(h, db.blocks) /\ ~ In(NoHash, db.blocks)
      <4>1. \A i \in 1..Len(db.blocks) : db.blocks[i].hash \in 1..c
        BY <1>5 DEF Chains
      <4>2. \A g \in 1..c : g # h /\ g # NoHash
        BY <1>10 DEF NoHash
      <4>3. QED  BY <4>1, <4>2 DEF In
    <3>2. QED  BY <1>3, <1>6, <2>1, <3>1 DEF Held
  <2>8. count'.faults # 0
    BY <1>4, <1>16
  <2>9. Halts(T, X, h)'
    BY <1>3, <1>4, <1>14, <2>5, <2>6, <2>7, <2>8 DEF Halts
  <2>10. QED  BY <2>9
<1>17. CASE ~ fault
  <2>1. Fits(txs) /\ count'.faults = count.faults
    BY <1>2, <1>4, <1>17 DEF txs
  <2>2. b.tree = T[b.hash]
    <3>1. Remembered(T, X, D, h, x)
      <4>1. Announced(T, X, D, h, fast')
        BY <1>4 DEF OwnRight
      <4>2. Len(fast) + 1 \in 1..Len(fast') /\ fast'[Len(fast) + 1] = e
        BY <1>5, <1>14, AppendedOne
      <4>3. QED  BY <1>14, <4>1, <4>2 DEF Announced
    <3>2. QED  BY <1>7, <1>9, <1>13, <1>14, <3>1 DEF Remembered, tree
  <2>3. ToSet(b.txs) = {t} /\ DOMAIN b.txs = {1}
    BY <1>13 DEF ToSet, txs
  <2>4. ~ DuplicatesWithinBlock(b)
    BY <2>3 DEF DuplicatesWithinBlock
  <2>5. ASSUME NEW u \in X[b.prev] PROVE ~ Clash(t, u)
    <3>1. u \in TxsTo(chain, n)
      BY <1>9, <1>13
    <3>2. PICK j \in 1..n : u \in ToSet(chain[j].txs)
      BY <3>1 DEF TxsTo
    <3>3. u \in TxsOf(ToSet(chain))
      BY <1>5, <3>2 DEF TxsOf, ToSet, n
    <3>4. t \in ToSet(txs)
      BY <1>13, <2>3
    <3>5. QED  BY <2>1, <3>3, <3>4 DEF Fits
  <2>6. \A i \in 1..Len(proposals') : proposals'[i].hash # f
    BY <1>3, <1>6 DEF Alone
  <2>7. h = count'.blocks /\ Carried(T, X, D, f, h) /\ b.hash # f /\ ~ b.fault
    BY <1>4, <1>10, <1>13, <1>17
  <2>8. \A v \in ToSet(b.txs) : \A u \in X[b.prev] : ~ Clash(v, u)
    BY <2>3, <2>5
  <2>9. Halts(T, X, f)'
    BY <1>3, <1>12, <1>13, <2>1, <2>2, <2>4, <2>6, <2>7, <2>8, BlockHalts
  <2>10. QED  BY <2>9
<1>18. QED  BY <1>16, <1>17

(* A block we build has a new hash.                                        *)
LEMMA BuiltHalts ==
  ASSUME IInv, NEW T, NEW X, NEW D, NEW f, Carried(T, X, D, f, count'.blocks),
         UNCHANGED <<chain, fast, stop>>, db'.blocks = db.blocks,
         count'.faults = count.faults,
         proposals' = proposals \/ \E b \in Block : /\ b.hash = count.blocks + 1
                                                    /\ proposals' = Append(proposals, b)
  PROVE  Halts(T, X, f)'
<1>1. PICK c \in Nat : c = count.blocks
  BY Standing
<1>2. /\ count.faults = 0 => f = NoHash
      /\ Held(f) /\ Alone(T, X, f, count'.blocks, chain, fast, proposals)
      /\ Queued(T, f, fast, chain, db.blocks) /\ f \in 0..c
  BY <1>1 DEF Carried
<1>3. \A i \in 1..Len(proposals') : proposals'[i].hash # f
  <2>1. CASE proposals' = proposals
    BY <1>2, <2>1 DEF Alone
  <2>2. CASE \E b \in Block : b.hash = count.blocks + 1 /\ proposals' = Append(proposals, b)
    <3>1. PICK b \in Block : b.hash = c + 1 /\ proposals' = Append(proposals, b)
      BY <1>1, <2>2
    <3>2. proposals \in Seq(Block)
      BY Standing
    <3>3. /\ Len(proposals') = Len(proposals) + 1 /\ Len(proposals) \in Nat
          /\ \A i \in 1..Len(proposals) : proposals'[i] = proposals[i]
          /\ proposals'[Len(proposals) + 1] = b
      BY <3>1, <3>2, AppendedOne
    <3>4. \A i \in 1..Len(proposals') : i \in 1..Len(proposals) \/ i = Len(proposals) + 1
      BY <3>3
    <3>5. b.hash # f
      BY <1>2, <3>1
    <3>6. QED  BY <1>2, <3>3, <3>4, <3>5 DEF Alone
  <2>3. QED  BY <2>1, <2>2
<1>4. Alone(T, X, f, count'.blocks, chain, fast, proposals')
  BY <1>2, <1>3 DEF Alone
<1>5. Held(f)'
  BY <1>2 DEF Held
<1>6. QED  BY <1>2, <1>4, <1>5 DEF Halts

LEMMA MakeBlockHalts ==
  ASSUME IInv, Writes, MakeBlock, NEW T, NEW X, NEW D, NEW f, Carried(T, X, D, f, count'.blocks)
  PROVE  Halts(T, X, f)'
<1> DEFINE h == count.blocks + 1
           txs == Head(batches)
           d == AsRead(db, unlanded)
           b == BuildBlock(d, mem.local, txs, h, Me)
<1>1. /\ batches # <<>> /\ proposals' = Append(proposals, b)
      /\ db' = RemoveTransactionsFromMemPool(db, ToSet(b.txs))
      /\ UNCHANGED <<chain, fast, stop>>
  BY DEF MakeBlock
<1>2. count'.faults = count.faults
  <2>1. count \in [blocks : 0..MaxBlocks, faults : Nat, rotations : Nat, unsent : Nat, early : Nat]
    BY DEF IInv, Types
  <2>2. count' = [count EXCEPT !["blocks"] = @ + 1]
    BY DEF MakeBlock, Count
  <2>3. QED  BY <2>1, <2>2
<1>3. IsDB(db) /\ TreesRight(db) /\ mem.local \in Local
  BY Standing DEF IInv, Collections
<1>4. h \in Nat
  BY Standing
<1>5. txs \in Seq(Tx)
  BY <1>1, NextBatch
<1>9. d.blocks \in Seq(Block) /\ \A n : TreeByNumber(d, n) \in Seq(Nat)
  BY ReadByAssembler
<1> HIDE DEF h, txs, d
<1>6. b \in Block /\ b.hash = h
  BY <1>3, <1>4, <1>5, <1>9, BuiltRight
<1> HIDE DEF b
<1>7. db'.blocks = db.blocks
  BY <1>1, <1>3, TakenOut DEF SameStored
<1>8. QED  BY <1>1, <1>2, <1>6, <1>7, BuiltHalts DEF h

LEMMA BlockNotSentHalts ==
  ASSUME IInv, BlockNotSent, NEW T, NEW X, NEW D, NEW f, Carried(T, X, D, f, count'.blocks)
  PROVE  Halts(T, X, f)'
<1>1. UNCHANGED <<chain, fast, stop, db, proposals>>
  BY DEF BlockNotSent
<1>2. count'.faults = count.faults
  <2>1. count \in [blocks : 0..MaxBlocks, faults : Nat, rotations : Nat, unsent : Nat, early : Nat]
    BY DEF IInv, Types
  <2>2. count' = [count EXCEPT !.unsent = @ + 1, !.blocks = @ + 1]
    BY DEF BlockNotSent
  <2>3. QED  BY <2>1, <2>2
<1>3. QED  BY <1>1, <1>2, BuiltHalts

(* The blocks only grow in number.                                         *)
LEMMA CountGrows ==
  ASSUME IInv, [Next]_vars
  PROVE  count'.blocks \in Nat /\ count.blocks <= count'.blocks
<1>1. count \in [blocks : 0..MaxBlocks, faults : Nat, rotations : Nat, unsent : Nat, early : Nat]
  BY DEF IInv, Types
<1>2. count' = count \/ (\E w \in {"blocks", "rotations", "early"} : Count(w)) \/ BlockNotSent \/ OtherProposes
  BY DEF Next, vars, chainVars, HandleEvent, SaveLands, RollbackLands, CheckSubmitted, SaveSubmitted,
         ConditionalMakeBlock, MakeBlock, ResetLocalBlock, MineProposal,
         ChangeCurrentProposer, SubmitTransaction, MineCommit, MineReveal, OtherChallenges
<1>3. count'.blocks \in {count.blocks, count.blocks + 1}
  <2>1. CASE count' = count
    BY <2>1
  <2>2. CASE \E w \in {"blocks", "rotations", "early"} : Count(w)
    <3>1. PICK w \in {"blocks", "rotations", "early"} : count' = [count EXCEPT ![w] = @ + 1]
      BY <2>2 DEF Count
    <3>2. CASE w = "blocks"
      BY <1>1, <3>1, <3>2
    <3>3. CASE w \in {"rotations", "early"}
      BY <1>1, <3>1, <3>3
    <3>4. QED  BY <3>1, <3>2, <3>3
  <2>3. CASE BlockNotSent
    <3>1. count' = [count EXCEPT !.unsent = @ + 1, !.blocks = @ + 1]
      BY <2>3 DEF BlockNotSent
    <3>2. QED  BY <1>1, <3>1
  <2>4. CASE OtherProposes
    <3>1. PICK x : count' = [count EXCEPT !.blocks = @ + 1, !.faults = x]
      BY <2>4 DEF OtherProposes
    <3>2. QED  BY <1>1, <3>1
  <2>5. QED  BY <1>2, <2>1, <2>2, <2>3, <2>4
<1>4. count.blocks \in Nat
  BY Standing
<1>5. QED  BY <1>3, <1>4

LEMMA StepHalts ==
  ASSUME NoClash, MaxFaults <= 1, IInv, Writes, Rootless, [Next]_vars,
         NEW T, NEW X, NEW D, OwnRight(T, X, D)', NEW f, Carried(T, X, D, f, count'.blocks),
         \A k : IsBlock(fast, k) => fast[k].block.hash \in 1..count.blocks
  PROVE  \E g : Halts(T, X, g)'
<1>1. SUFFICES ASSUME ~ OtherProposes PROVE Halts(T, X, f)'
  BY OtherProposesHalts
<1>2. IsDB(db) /\ StoredRight(db, saving) /\ pool \in SUBSET Challenge
  BY DEF IInv, Collections
<1>3. ASSUME UNCHANGED <<chain, proposals, stop, fast, count>>, db'.blocks = db.blocks
      PROVE  Halts(T, X, f)'
  BY <1>3, OtherHalts
<1>4. CASE UNCHANGED vars \/ CheckSubmitted \/ SubmitTransaction \/ RollbackLands
  <2>1. UNCHANGED <<chain, proposals, stop, fast, count, db>>
    BY <1>4 DEF vars, chainVars, CheckSubmitted, SubmitTransaction, RollbackLands
  <2>2. QED  BY <1>3, <2>1
<1>13. CASE ConditionalMakeBlock
  <2>1. UNCHANGED <<chain, proposals, stop, fast, db>>
    BY <1>13 DEF ConditionalMakeBlock
  <2>2. count' = count \/ count' = [count EXCEPT !["early"] = @ + 1]
    BY <1>13 DEF ConditionalMakeBlock, Count
  <2>3. count'.faults = count.faults
    BY <2>2 DEF IInv, Types
  <2>4. QED  BY <2>1, <2>3, OtherHalts
<1>5. CASE SaveLands
  <2>1. PICK p \in saving : db' = SaveBlockTransaction(db, p[1], p[2])
    BY <1>5 DEF SaveLands
  <2>2. db'.blocks = db.blocks
    BY <1>2, <2>1, LandedRight
  <2>3. QED  BY <1>3, <1>5, <2>2 DEF SaveLands, chainVars
<1>6. CASE SaveSubmitted
  <2>1. PICK t \in Known : checked = <<t>>
    BY <1>6 DEF SaveSubmitted, IInv, Types
  <2> DEFINE d == DeleteDuplicatesFromMemPool(db, Commitments[t], Nullifiers[t], DOMAIN unlanded.txs)
  <2>2. db' = SaveTransaction(d, t)
    BY <1>6, <2>1 DEF SaveSubmitted
  <2>3. SameStored(db, d, {})
    BY <1>2, DuplicatesGone
  <2> HIDE DEF d
  <2>4. db'.blocks = db.blocks
    BY <2>2, <2>3, SavedOne DEF SameStored
  <2>5. QED  BY <1>3, <1>6, <2>4 DEF SaveSubmitted, chainVars
<1>7. CASE ResetLocalBlock
  <2>1. db' = ResetUnsuccessful(db)
    BY <1>7 DEF ResetLocalBlock
  <2>2. db'.blocks = db.blocks
    BY <1>2, <2>1, PutBack DEF SameStored
  <2>3. QED  BY <1>3, <1>7, <2>2 DEF ResetLocalBlock, chainVars
<1>8. CASE ChangeCurrentProposer
  <2>1. UNCHANGED <<chain, db, stop, proposals>>
    BY <1>8 DEF ChangeCurrentProposer
  <2>2. count'.faults = count.faults
    <3>1. count \in [blocks : 0..MaxBlocks, faults : Nat, rotations : Nat, unsent : Nat, early : Nat]
      BY DEF IInv, Types
    <3>2. count' = [count EXCEPT !["rotations"] = @ + 1]
      BY <1>8 DEF ChangeCurrentProposer, Count
    <3>3. QED  BY <3>1, <3>2
  <2>3. PICK p \in {Me, Other} : fast' = Append(fast, [type |-> "NewCurrentProposer", p |-> p])
    BY <1>8 DEF ChangeCurrentProposer, Emit
  <2>4. [type |-> "NewCurrentProposer", p |-> p] \in Event
    BY DEF Event
  <2>5. QED  BY <2>1, <2>2, <2>3, <2>4, OtherHalts
<1>9. CASE MineCommit
  <2>1. UNCHANGED <<chain, db, stop, proposals, count>>
    BY <1>9 DEF MineCommit
  <2>2. PICK tx \in pool : fast' = Append(fast, [type |-> "CommittedToChallenge", c |-> tx.c])
    BY <1>9 DEF MineCommit, Emit
  <2>3. tx.c \in Nat
    BY <1>2 DEF Challenge
  <2>4. [type |-> "CommittedToChallenge", c |-> tx.c] \in Event
    BY <2>3 DEF Event
  <2>5. QED  BY <2>1, <2>2, <2>4, OtherHalts
<1>10. CASE MineReveal
  <2>1. UNCHANGED <<db, stop, count, proposals>>
    BY <1>10 DEF MineReveal
  <2>2. CASE UNCHANGED <<chain, log, fast>>
    BY <1>3, <2>1, <2>2
  <2>3. CASE \E i \in DOMAIN chain : ~ ValidBlock(i) /\ RollBackTo(i)
    BY <2>1, <2>3, RollbackHalts
  <2>4. QED  BY <1>10, <2>2, <2>3 DEF MineReveal
<1>11. CASE OtherChallenges
  <2>1. UNCHANGED <<db, stop, count, proposals>>
    BY <1>11 DEF OtherChallenges
  <2>2. PICK i \in DOMAIN chain : ~ ValidBlock(i) /\ RollBackTo(i)
    BY <1>11 DEF OtherChallenges
  <2>3. QED  BY <2>1, <2>2, RollbackHalts
<1>12. QED
  BY <1>1, <1>4, <1>5, <1>6, <1>7, <1>8, <1>9, <1>10, <1>11, <1>13, HandleEventHalts, MineProposalHalts,
     MakeBlockHalts, BlockNotSentHalts
  DEF Next

LEMMA InitHalts ==
  ASSUME Init, NEW T, NEW X
  PROVE  Halts(T, X, NoHash)
<1>1. /\ count.blocks = 0 /\ chain = <<>> /\ db.blocks = <<>> /\ fast = <<>>
      /\ proposals = <<>> /\ stop = <<>>
  BY DEF Init, EmptyDB
<1>2. Len(<<>>) = 0 /\ 1..0 = {} /\ 0 \in 0..0
  OBVIOUS
<1>3. Alone(T, X, NoHash, 0, <<>>, <<>>, <<>>)
  BY <1>2 DEF Alone, IsBlock, NoHash
<1>4. Queued(T, NoHash, <<>>, <<>>, <<>>)
  BY <1>2 DEF Queued, RollbackRight, Landed, Split, Arrives, IsBlock, IsRollback, In
<1>5. Held(NoHash)
  BY <1>1, <1>2 DEF Held, In
<1>6. QED  BY <1>1, <1>3, <1>4, <1>5 DEF Halts

LEMMA HeldValid ==
  ASSUME IInv, Rootless, NEW T, NEW X, NEW D, OwnRight(T, X, D), NEW f, Halts(T, X, f)
  PROVE  HaltedWhileWrong
<1> SUFFICES ASSUME CaughtUp
             PROVE  Len(stop) = IF \E i \in DOMAIN chain : ~ ValidBlock(i) THEN 1 ELSE 0
  BY DEF HaltedWhileWrong
<1>1. chain \in Seq(Block) /\ DOMAIN chain = 1..Len(chain)
  BY Standing
<1>2. db.blocks = chain
  <2>1. Leads(<<>>, db.blocks, chain, count.blocks, Known)
    BY DEF IInv, CaughtUp
  <2>2. QED  BY <2>1, LeadsNowhere
<1>3. ASSUME NEW i \in DOMAIN chain PROVE ValidBlock(i) <=> chain[i].hash # f
  <2>1. Marked(T, X, f, chain[i])
    BY <1>1 DEF Halts, Alone
  <2>2. History(T, X, D, count.blocks) /\ Along(T, X, D, chain)
    BY DEF OwnRight
  <2>3. QED  BY <2>1, <2>2, WrongOnly
<1>4. In(f, chain) <=> \E i \in DOMAIN chain : ~ ValidBlock(i)
  BY <1>1, <1>3 DEF In
<1>5. QED  BY <1>2, <1>4 DEF Halts, Held

Halting == \E T, X, D, f : OwnRight(T, X, D) /\ Halts(T, X, f)

(* Block production is halted exactly while a wrong block is on chain, as  *)
(* long as one block at most is ever wrong, no two transactions clash, all *)
(* are deposits, and no list was read before the writes of a handler       *)
(* landed.                                                                 *)
THEOREM HaltsWhileWrong ==
  ASSUME NoClash, \A t \in Tx : Nullifiers[t] = {}, MaxFaults <= 1
  PROVE  Spec => []HaltedWhileWrong
<1> DEFINE J == Rootless /\ (count.early = 0 => Halting)
<1>1. Init => J
  <2> SUFFICES ASSUME Init PROVE Rootless /\ Halting
    OBVIOUS
  <2>1. Known = {}
    BY DEF Init, Known
  <2>2. QED  BY <2>1, InitOwns, InitHalts DEF Rootless, Owns, Halting
<1>2. IInv /\ Writes /\ J /\ [Next]_vars => J'
  <2>1. ASSUME IInv, Writes, Rootless, count.early = 0 => Halting, [Next]_vars, count'.early = 0
        PROVE  Halting'
    <3>1. PICK T, X, D, f : OwnRight(T, X, D) /\ Halts(T, X, f)
      BY <2>1, FewEarly DEF Halting
    <3>2. Later(T, X, D)
      BY <2>1, <3>1, StepOwns
    <3>3. PICK T2, X2, D2 : OwnRight(T2, X2, D2)' /\ Agree(T, X, D, T2, X2, D2, count.blocks)
      BY <3>2 DEF Later
    <3>4. Carried(T2, X2, D2, f, count'.blocks)
      BY <2>1, <3>1, <3>3, CountGrows, HaltsCarried
    <3>5. \A k : IsBlock(fast, k) => fast[k].block.hash \in 1..count.blocks
      BY <3>1 DEF OwnRight, Announced, Remembered, IsBlock
    <3>6. \E g : Halts(T2, X2, g)'
      BY <2>1, <3>3, <3>4, <3>5, StepHalts
    <3>7. QED  BY <3>3, <3>6 DEF Halting
  <2>2. QED  BY <2>1, StaysRootless
<1>3. IInv /\ J => HaltedWhileWrong
  <2>1. CASE count.early = 0
    BY <2>1, HeldValid DEF Halting
  <2>2. CASE count.early # 0
    BY <2>2 DEF HaltedWhileWrong
  <2>3. QED  BY <2>1, <2>2
<1> HIDE DEF J
<1>4. QED  BY <1>1, <1>2, <1>3, SpecRight, SpecWrites, PTL DEF Spec
=============================================================================
