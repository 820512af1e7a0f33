-------------------------- MODULE EventQueueProof --------------------------
(***************************************************************************)
(* HandledFollowsChain, for any number of contracts, transactions and      *)
(* reorganisations, where every transaction emits one event; and TypeOK,   *)
(* for any events.                                                         *)
(*                                                                         *)
(* The notifications of one transaction alternate: mined, removed, mined   *)
(* and so on. Going back through them from where the transaction is now    *)
(* tells where its subscriber was last told that it is; and the count of   *)
(* removals tells how many of its jobs are no longer good.                 *)
(***************************************************************************)
EXTENDS EventQueue, TLAPS, SequenceTheorems

EventSet == [tx : Transactions, index : {1}, block : Nat \ {0}]
NoticeSet == [event : EventSet, removed : BOOLEAN, sent : Nat]
Known == {t \in Transactions : Events[t][1] \in eventHandlers}
Q(t) == priority[Events[t][1]]

OneEvent == \A t \in Transactions : DOMAIN Events[t] = {1}

(* Where t is in the notifications w, and in the jobs s.                   *)
Pos(w, t) == {i \in 1..Len(w) : w[i].event.tx = t}
JobPos(s, t) == {i \in 1..Len(s) : s[i].tx = t}

(* h[i] is the block of t as told by the first i notifications, 0 if none. *)
Tells(w, t, h) ==
  /\ h \in [0..Len(w) -> Nat]
  /\ \A i \in 1..Len(w) :
        IF w[i].event.tx # t THEN h[i] = h[i-1]
        ELSE IF w[i].removed THEN h[i-1] = w[i].event.block /\ h[i] = 0
        ELSE h[i-1] = 0 /\ h[i] = w[i].event.block
  /\ \A i \in 0..Len(w) : (\A k \in Pos(w, t) : k <= i) => h[i] = h[Len(w)]
  /\ \A i \in 0..Len(w) :
        \/ h[i] = 0
        \/ \A k \in Pos(w, t) : k <= i
        \/ \E k \in Pos(w, t) : i < k /\ w[k].removed /\ w[k].event.block = h[i]

(* t is in block `at', and in block b as far as was told before w.         *)
Told(w, t, at, b) == \E h \in [0..Len(w) -> Nat] :
                        Tells(w, t, h) /\ h[Len(w)] = at /\ h[0] = b

(* g[i] is the number of jobs of t after the i-th.                         *)
Counts(s, t, g) ==
  /\ g \in [0..Len(s) -> Nat]
  /\ g[Len(s)] = 0
  /\ \A i \in 1..Len(s) : g[i-1] = IF s[i].tx = t THEN g[i] + 1 ELSE g[i]
  /\ \A i, j \in 0..Len(s) : i <= j => g[j] <= g[i]
  /\ \A i \in 0..Len(s) : g[i] = 0 \/ \E k \in JobPos(s, t) : i < k

(* One job for each of r removals, and a last one, of block b, if t is in  *)
(* b as far as was told.                                                   *)
JobsOK(s, t, r, b) == \E g \in [0..Len(s) -> Nat] :
  /\ Counts(s, t, g)
  /\ g[0] = IF b = 0 THEN r ELSE r + 1
  /\ b # 0 => \A i \in JobPos(s, t) : g[i] = 0 => s[i].block = b

-----------------------------------------------------------------------------
(***************************************************************************)
(* Sequences that gain or lose an element.                                 *)
(***************************************************************************)
LEMMA AppendFacts ==
  ASSUME NEW S, NEW s \in Seq(S), NEW e \in S
  PROVE  /\ Append(s, e) \in Seq(S) /\ Len(Append(s, e)) = Len(s) + 1
         /\ Len(s) \in Nat
         /\ \A i \in 1..Len(s) : Append(s, e)[i] = s[i]
         /\ Append(s, e)[Len(s) + 1] = e
OBVIOUS

LEMMA TailFacts ==
  ASSUME NEW S, NEW s \in Seq(S), s # <<>>
  PROVE  /\ Tail(s) \in Seq(S) /\ Len(Tail(s)) = Len(s) - 1 /\ Len(s) \in Nat \ {0}
         /\ \A i \in 1..Len(s) - 1 : Tail(s)[i] = s[i + 1]
         /\ Head(s) = s[1] /\ s[1] \in S
OBVIOUS

LEMMA ToldAppend ==
  ASSUME NEW w \in Seq(NoticeSet), NEW t, NEW n \in NoticeSet,
         NEW at \in Nat, NEW new \in Nat, NEW b \in Nat,
         Told(w, t, at, b),
         IF n.event.tx # t THEN new = at
         ELSE IF n.removed THEN at = n.event.block /\ new = 0
         ELSE at = 0 /\ new = n.event.block
  PROVE  Told(Append(w, n), t, new, b)
<1> DEFINE v == Append(w, n)
           m == Len(w)
<1>1. PICK h \in [0..m -> Nat] : Tells(w, t, h) /\ h[m] = at /\ h[0] = b
  BY DEF Told
<1> DEFINE f == [i \in 0..m + 1 |-> IF i = m + 1 THEN new ELSE h[i]]
<1>2. /\ m \in Nat /\ Len(v) = m + 1 /\ v[m + 1] = n
      /\ \A i \in 1..m : v[i] = w[i]
  BY AppendFacts
<1>3. /\ f \in [0..m + 1 -> Nat] /\ f[m + 1] = new
      /\ \A i \in 0..m : f[i] = h[i]
  BY <1>2
<1> HIDE DEF v, m, f
<1>4. /\ \A i \in Pos(w, t) : i \in Pos(v, t) /\ i \in 1..m
      /\ \A i \in Pos(v, t) : i \in Pos(w, t) \/ (i = m + 1 /\ n.event.tx = t)
      /\ n.event.tx = t => m + 1 \in Pos(v, t)
  BY <1>2 DEF Pos, m
<1>5. ASSUME NEW i \in 1..m + 1
      PROVE  IF v[i].event.tx # t THEN f[i] = f[i-1]
             ELSE IF v[i].removed THEN f[i-1] = v[i].event.block /\ f[i] = 0
             ELSE f[i-1] = 0 /\ f[i] = v[i].event.block
  <2>1. CASE i = m + 1
    <3>1. f[i] = new /\ f[i-1] = at /\ v[i] = n
      BY <1>1, <1>2, <1>3, <2>1
    <3>2. QED  BY <3>1
  <2>2. CASE i # m + 1
    <3>1. i \in 1..m /\ i - 1 \in 0..m /\ i \in 0..m
      BY <1>2, <2>2
    <3>2. f[i] = h[i] /\ f[i-1] = h[i-1] /\ v[i] = w[i]
      BY <1>2, <1>3, <3>1
    <3>3. QED  BY <1>1, <3>1, <3>2 DEF Tells, m
  <2>3. QED  BY <2>1, <2>2
<1>6. ASSUME NEW i \in 0..m + 1, \A k \in Pos(v, t) : k <= i
      PROVE  f[i] = f[m + 1]
  <2>1. CASE i = m + 1
    BY <2>1
  <2>2. CASE i # m + 1
    <3>1. i \in 0..m /\ n.event.tx # t /\ new = at
      BY <1>2, <1>4, <1>6, <2>2
    <3>2. h[i] = h[m]
      BY <1>1, <1>4, <1>6, <3>1 DEF Tells, m
    <3>3. QED  BY <1>1, <1>3, <3>1, <3>2
  <2>3. QED  BY <2>1, <2>2
<1>7. ASSUME NEW i \in 0..m + 1
      PROVE  \/ f[i] = 0
             \/ \A k \in Pos(v, t) : k <= i
             \/ \E k \in Pos(v, t) : i < k /\ v[k].removed /\ v[k].event.block = f[i]
  <2>1. CASE i = m + 1
    BY <1>2, <1>4, <2>1
  <2>2. CASE i # m + 1
    <3>1. i \in 0..m /\ f[i] = h[i]
      BY <1>2, <1>3, <2>2
    <3>2. CASE h[i] = 0
      BY <3>1, <3>2
    <3>3. CASE \E k \in Pos(w, t) : i < k /\ w[k].removed /\ w[k].event.block = h[i]
      BY <1>2, <1>4, <3>1, <3>3
    <3>4. CASE h[i] # 0 /\ \A k \in Pos(w, t) : k <= i
      <4>1. h[i] = at
        BY <1>1, <3>1, <3>4 DEF Tells, m
      <4>2. CASE n.event.tx # t
        BY <1>4, <3>4, <4>2
      <4>3. CASE n.event.tx = t
        <5>1. n.removed /\ at = n.event.block
          BY <3>4, <4>1, <4>3
        <5>2. m + 1 \in Pos(v, t) /\ i < m + 1 /\ v[m + 1] = n
          BY <1>2, <1>4, <3>1, <4>3
        <5>3. QED  BY <3>1, <4>1, <5>1, <5>2
      <4>4. QED  BY <4>2, <4>3
    <3>5. QED  BY <1>1, <3>1, <3>2, <3>3, <3>4 DEF Tells, m
  <2>3. QED  BY <2>1, <2>2
<1>8. Tells(v, t, f)
  BY <1>2, <1>3, <1>5, <1>6, <1>7 DEF Tells
<1>9. 0 \in 0..m
  BY <1>2
<1>10. QED  BY <1>1, <1>2, <1>3, <1>8, <1>9 DEF Told, v

LEMMA ToldTail ==
  ASSUME NEW w \in Seq(NoticeSet), w # <<>>, NEW t, NEW at \in Nat, NEW b \in Nat,
         Told(w, t, at, b)
  PROVE  IF Head(w).event.tx # t THEN Told(Tail(w), t, at, b)
         ELSE IF Head(w).removed THEN b = Head(w).event.block /\ Told(Tail(w), t, at, 0)
         ELSE b = 0 /\ Told(Tail(w), t, at, Head(w).event.block)
<1> DEFINE v == Tail(w)
           m == Len(w)
<1>1. PICK h \in [0..m -> Nat] : Tells(w, t, h) /\ h[m] = at /\ h[0] = b
  BY DEF Told
<1> DEFINE f == [i \in 0..m - 1 |-> h[i + 1]]
<1>2. /\ m \in Nat \ {0} /\ Len(v) = m - 1 /\ Head(w) = w[1]
      /\ \A i \in 1..m - 1 : v[i] = w[i + 1]
  BY TailFacts
<1>3. f \in [0..m - 1 -> Nat] /\ \A i \in 0..m - 1 : f[i] = h[i + 1]
  BY <1>2
<1> HIDE DEF v, m, f
<1>4. /\ \A i \in Pos(v, t) : i + 1 \in Pos(w, t) /\ i \in 1..m - 1
      /\ \A i \in Pos(w, t) : i = 1 \/ (i - 1 \in Pos(v, t) /\ v[i - 1] = w[i])
      /\ Pos(w, t) \subseteq 1..m
  BY <1>2 DEF Pos, m
<1>5. ASSUME NEW i \in 1..m - 1
      PROVE  IF v[i].event.tx # t THEN f[i] = f[i-1]
             ELSE IF v[i].removed THEN f[i-1] = v[i].event.block /\ f[i] = 0
             ELSE f[i-1] = 0 /\ f[i] = v[i].event.block
  <2>1. i + 1 \in 1..m /\ i \in 0..m - 1 /\ i - 1 \in 0..m - 1 /\ (i - 1) + 1 = i /\ (i + 1) - 1 = i
    BY <1>2
  <2>2. f[i] = h[i + 1] /\ f[i-1] = h[i] /\ v[i] = w[i + 1]
    BY <1>2, <1>3, <2>1
  <2>3. IF w[i+1].event.tx # t THEN h[i+1] = h[(i+1)-1]
        ELSE IF w[i+1].removed THEN h[(i+1)-1] = w[i+1].event.block /\ h[i+1] = 0
        ELSE h[(i+1)-1] = 0 /\ h[i+1] = w[i+1].event.block
    BY <1>1, <2>1 DEF Tells, m
  <2>4. QED  BY <2>1, <2>2, <2>3
<1>6. ASSUME NEW i \in 0..m - 1, \A k \in Pos(v, t) : k <= i
      PROVE  f[i] = f[m - 1]
  <2>1. ASSUME NEW k \in Pos(w, t) PROVE k <= i + 1
    <3>1. k \in Int /\ i \in Nat /\ (k = 1 \/ k - 1 <= i)
      BY <1>2, <1>4, <1>6
    <3>2. QED  BY <3>1
  <2>2. i + 1 \in 0..m /\ m - 1 \in 0..m - 1 /\ (m - 1) + 1 = m
    BY <1>2
  <2>3. h[i + 1] = h[m]
    BY <1>1, <2>1, <2>2 DEF Tells, m
  <2>4. QED  BY <1>3, <2>2, <2>3
<1>7. ASSUME NEW i \in 0..m - 1
      PROVE  \/ f[i] = 0
             \/ \A k \in Pos(v, t) : k <= i
             \/ \E k \in Pos(v, t) : i < k /\ v[k].removed /\ v[k].event.block = f[i]
  <2>1. i + 1 \in 0..m /\ f[i] = h[i + 1]
    BY <1>2, <1>3
  <2>2. CASE h[i + 1] = 0
    BY <2>1, <2>2
  <2>3. CASE \A k \in Pos(w, t) : k <= i + 1
    BY <1>2, <1>4, <2>3
  <2>4. ASSUME NEW k \in Pos(w, t), i + 1 < k, w[k].removed, w[k].event.block = h[i + 1]
        PROVE  \E l \in Pos(v, t) : i < l /\ v[l].removed /\ v[l].event.block = f[i]
    <3>1. k \in Int /\ i \in Nat
      BY <1>2, <1>4
    <3>2. k # 1 /\ i < k - 1
      BY <2>4, <3>1
    <3>3. k - 1 \in Pos(v, t) /\ v[k - 1] = w[k]
      BY <1>4, <3>2
    <3>4. QED  BY <2>1, <2>4, <3>2, <3>3
  <2>5. QED  BY <1>1, <2>1, <2>2, <2>3, <2>4 DEF Tells, m
<1>8. Tells(v, t, f)
  BY <1>2, <1>3, <1>5, <1>6, <1>7 DEF Tells
<1>9. f[m - 1] = at /\ f[0] = h[1]
  <2>1. m - 1 \in 0..m - 1 /\ (m - 1) + 1 = m /\ 0 \in 0..m - 1 /\ 0 + 1 = 1
    BY <1>2
  <2>2. QED  BY <1>1, <1>3, <2>1
<1>10. Told(v, t, at, h[1])
  BY <1>2, <1>3, <1>8, <1>9 DEF Told
<1>11. IF w[1].event.tx # t THEN h[1] = b
       ELSE IF w[1].removed THEN b = w[1].event.block /\ h[1] = 0
       ELSE b = 0 /\ h[1] = w[1].event.block
  <2>1. 1 \in 1..m /\ 1 - 1 = 0
    BY <1>2
  <2>2. IF w[1].event.tx # t THEN h[1] = h[1-1]
        ELSE IF w[1].removed THEN h[1-1] = w[1].event.block /\ h[1] = 0
        ELSE h[1-1] = 0 /\ h[1] = w[1].event.block
    BY <1>1, <2>1 DEF Tells, m
  <2>3. QED  BY <1>1, <2>1, <2>2
<1>12. QED  BY <1>2, <1>10, <1>11 DEF v

LEMMA ToldStart ==
  ASSUME NEW t
  PROVE  Told(<<>>, t, 0, 0)
<1> DEFINE h == [i \in 0..0 |-> 0]
<1>1. Len(<<>>) = 0 /\ h \in [0..0 -> Nat] /\ h[0] = 0
  OBVIOUS
<1>2. Tells(<<>>, t, h)
  BY <1>1 DEF Tells, Pos
<1>3. QED  BY <1>1, <1>2 DEF Told

(* Without notifications under way, it is where it was told to be; with    *)
(* some, the first of them takes it from there.                            *)
LEMMA ToldQuiet ==
  ASSUME NEW w \in Seq(NoticeSet), NEW t, NEW at \in Nat, NEW b \in Nat, Told(w, t, at, b)
  PROVE  /\ Pos(w, t) = {} => b = at
         /\ \/ b = 0
            \/ Pos(w, t) = {}
            \/ \E k \in Pos(w, t) : w[k].removed /\ w[k].event.block = b
<1>1. PICK h \in [0..Len(w) -> Nat] : Tells(w, t, h) /\ h[Len(w)] = at /\ h[0] = b
  BY DEF Told
<1>2. 0 \in 0..Len(w) /\ \A k \in Pos(w, t) : k \in 1..Len(w) /\ ~(k <= 0)
  BY DEF Pos
<1>3. QED  BY <1>1, <1>2 DEF Tells

LEMMA JobsStart ==
  ASSUME NEW t
  PROVE  JobsOK(<<>>, t, 0, 0)
<1> DEFINE g == [i \in 0..0 |-> 0]
<1>1. Len(<<>>) = 0 /\ g \in [0..0 -> Nat] /\ g[0] = 0
  OBVIOUS
<1>2. Counts(<<>>, t, g)
  BY <1>1 DEF Counts
<1>3. QED  BY <1>1, <1>2 DEF JobsOK

LEMMA JobsAppend ==
  ASSUME NEW s \in Seq(EventSet), NEW t, NEW e \in EventSet, NEW r \in Nat,
         NEW b \in Nat, JobsOK(s, t, r, b), e.tx = t => b = 0
  PROVE  JobsOK(Append(s, e), t, r, IF e.tx = t THEN e.block ELSE b)
<1> DEFINE v == Append(s, e)
           m == Len(s)
           d == IF e.tx = t THEN 1 ELSE 0
           c == IF e.tx = t THEN e.block ELSE b
<1>1. PICK g \in [0..m -> Nat] :
         /\ Counts(s, t, g)
         /\ g[0] = IF b = 0 THEN r ELSE r + 1
         /\ b # 0 => \A i \in JobPos(s, t) : g[i] = 0 => s[i].block = b
  BY DEF JobsOK
<1> DEFINE f == [i \in 0..m + 1 |-> IF i = m + 1 THEN 0 ELSE g[i] + d]
<1>2. /\ m \in Nat /\ Len(v) = m + 1 /\ v[m + 1] = e
      /\ \A i \in 1..m : v[i] = s[i]
  BY AppendFacts
<1>3. /\ f \in [0..m + 1 -> Nat] /\ f[m + 1] = 0
      /\ \A i \in 0..m : f[i] = g[i] + d /\ g[i] \in Nat
  <2>1. d \in Nat /\ \A i \in 0..m : g[i] \in Nat /\ i # m + 1
    BY <1>2
  <2> HIDE DEF d
  <2>2. QED  BY <1>2, <2>1
<1>4. e.block # 0 /\ d \in {0, 1}
  BY DEF EventSet
<1> HIDE DEF v, m, f
<1>5. /\ \A i \in JobPos(s, t) : i \in JobPos(v, t) /\ i \in 1..m
      /\ \A i \in JobPos(v, t) : i \in JobPos(s, t) \/ (i = m + 1 /\ e.tx = t)
      /\ e.tx = t => m + 1 \in JobPos(v, t)
  BY <1>2 DEF JobPos, m
<1>6. g[m] = 0
  BY <1>1 DEF Counts, m
<1>7. ASSUME NEW i \in 1..m + 1
      PROVE  f[i-1] = IF v[i].tx = t THEN f[i] + 1 ELSE f[i]
  <2>1. CASE i = m + 1
    <3>1. i - 1 = m /\ m \in 0..m
      BY <1>2, <2>1
    <3>2. QED  BY <1>2, <1>3, <1>6, <2>1, <3>1
  <2>2. CASE i # m + 1
    <3>1. i \in 1..m /\ i - 1 \in 0..m /\ i \in 0..m
      BY <1>2, <2>2
    <3>2. g[i-1] = IF s[i].tx = t THEN g[i] + 1 ELSE g[i]
      BY <1>1, <3>1 DEF Counts, m
    <3>3. v[i] = s[i] /\ f[i] = g[i] + d /\ f[i-1] = g[i-1] + d /\ g[i] \in Nat
      BY <1>2, <1>3, <3>1
    <3>4. QED  BY <1>4, <3>2, <3>3
  <2>3. QED  BY <2>1, <2>2
<1>8. ASSUME NEW i \in 0..m + 1, NEW j \in 0..m + 1, i <= j
      PROVE  f[j] <= f[i]
  <2>1. CASE j = m + 1
    BY <1>3, <2>1
  <2>2. CASE j # m + 1
    <3>1. i \in 0..m /\ j \in 0..m
      BY <1>2, <1>8, <2>2
    <3>2. g[j] <= g[i]
      BY <1>1, <1>8, <3>1 DEF Counts, m
    <3>3. QED  BY <1>3, <1>4, <3>1, <3>2
  <2>3. QED  BY <2>1, <2>2
<1>9. ASSUME NEW i \in 0..m + 1, f[i] # 0
      PROVE  \E k \in JobPos(v, t) : i < k
  <2>1. i \in 0..m /\ i < m + 1 /\ f[i] = g[i] + d
    BY <1>2, <1>3, <1>9
  <2>2. CASE e.tx = t
    BY <1>5, <2>1, <2>2
  <2>3. CASE e.tx # t
    <3>1. g[i] # 0
      BY <1>3, <1>9, <2>1, <2>3
    <3>2. QED  BY <1>1, <1>5, <2>1, <3>1 DEF Counts, m
  <2>4. QED  BY <2>2, <2>3
<1>10. Counts(v, t, f)
  BY <1>2, <1>3, <1>7, <1>8, <1>9 DEF Counts
<1>11. f[0] = IF c = 0 THEN r ELSE r + 1
  <2>1. 0 \in 0..m
    BY <1>2
  <2>2. QED  BY <1>1, <1>3, <1>4, <2>1
<1>12. ASSUME c # 0, NEW i \in JobPos(v, t), f[i] = 0
       PROVE  v[i].block = c
  <2>1. CASE i = m + 1 /\ e.tx = t
    BY <1>2, <2>1
  <2>2. CASE i \in JobPos(s, t)
    <3>1. i \in 1..m /\ f[i] = g[i] + d /\ g[i] \in Nat
      BY <1>2, <1>3, <1>5, <2>2
    <3>2. e.tx # t /\ g[i] = 0
      BY <1>12, <3>1
    <3>3. QED  BY <1>1, <1>2, <1>12, <2>2, <3>1, <3>2
  <2>3. QED  BY <1>5, <2>1, <2>2
<1>13. QED  BY <1>2, <1>3, <1>10, <1>11, <1>12 DEF JobsOK, v

LEMMA JobsRemoved ==
  ASSUME NEW s \in Seq(EventSet), NEW t, NEW r \in Nat, NEW b \in Nat \ {0},
         JobsOK(s, t, r, b)
  PROVE  JobsOK(s, t, r + 1, 0)
BY DEF JobsOK

LEMMA JobsTail ==
  ASSUME NEW s \in Seq(EventSet), s # <<>>, NEW t, NEW r \in Nat, NEW b \in Nat,
         JobsOK(s, t, r, b), Head(s).tx = t => r # 0
  PROVE  JobsOK(Tail(s), t, IF Head(s).tx = t THEN r - 1 ELSE r, b)
<1> DEFINE v == Tail(s)
           m == Len(s)
           q == IF Head(s).tx = t THEN r - 1 ELSE r
<1>1. PICK g \in [0..m -> Nat] :
         /\ Counts(s, t, g)
         /\ g[0] = IF b = 0 THEN r ELSE r + 1
         /\ b # 0 => \A i \in JobPos(s, t) : g[i] = 0 => s[i].block = b
  BY DEF JobsOK
<1> DEFINE f == [i \in 0..m - 1 |-> g[i + 1]]
<1>2. /\ m \in Nat \ {0} /\ Len(v) = m - 1 /\ Head(s) = s[1]
      /\ \A i \in 1..m - 1 : v[i] = s[i + 1]
  BY TailFacts
<1>3. f \in [0..m - 1 -> Nat] /\ \A i \in 0..m - 1 : f[i] = g[i + 1] /\ g[i + 1] \in Nat
  BY <1>2
<1> HIDE DEF v, m, f
<1>4. /\ \A i \in JobPos(v, t) : i + 1 \in JobPos(s, t) /\ i \in 1..m - 1 /\ v[i] = s[i + 1]
      /\ \A i \in JobPos(s, t) : i \in 1..m /\ (i = 1 \/ i - 1 \in JobPos(v, t))
  BY <1>2 DEF JobPos, m
<1>5. ASSUME NEW i \in 1..m - 1
      PROVE  f[i-1] = IF v[i].tx = t THEN f[i] + 1 ELSE f[i]
  <2>1. i + 1 \in 1..m /\ i \in 0..m - 1 /\ i - 1 \in 0..m - 1 /\ (i - 1) + 1 = i /\ (i + 1) - 1 = i
    BY <1>2
  <2>2. f[i] = g[i + 1] /\ f[i-1] = g[i] /\ v[i] = s[i + 1]
    BY <1>2, <1>3, <2>1
  <2>3. g[(i+1)-1] = IF s[i+1].tx = t THEN g[i+1] + 1 ELSE g[i+1]
    BY <1>1, <2>1 DEF Counts, m
  <2>4. QED  BY <2>1, <2>2, <2>3
<1>6. ASSUME NEW i \in 0..m - 1, NEW j \in 0..m - 1, i <= j
      PROVE  f[j] <= f[i]
  <2>1. i + 1 \in 0..m /\ j + 1 \in 0..m /\ i + 1 <= j + 1
    BY <1>2, <1>6
  <2>2. QED  BY <1>1, <1>3, <2>1 DEF Counts, m
<1>7. ASSUME NEW i \in 0..m - 1, f[i] # 0
      PROVE  \E k \in JobPos(v, t) : i < k
  <2>1. i + 1 \in 0..m /\ g[i + 1] # 0
    BY <1>2, <1>3, <1>7
  <2>2. PICK k \in JobPos(s, t) : i + 1 < k
    BY <1>1, <2>1 DEF Counts, m
  <2>3. k \in Int /\ i \in Nat
    BY <1>2, <1>4
  <2>4. k # 1 /\ i < k - 1
    BY <2>2, <2>3
  <2>5. QED  BY <1>4, <2>4
<1>8. f[m - 1] = 0 /\ f[0] = g[1]
  <2>1. m - 1 \in 0..m - 1 /\ (m - 1) + 1 = m /\ 0 \in 0..m - 1 /\ 0 + 1 = 1
    BY <1>2
  <2>2. QED  BY <1>1, <1>3, <2>1 DEF Counts, m
<1>9. Counts(v, t, f)
  BY <1>2, <1>3, <1>5, <1>6, <1>7, <1>8 DEF Counts
<1>10. f[0] = IF b = 0 THEN q ELSE q + 1
  <2>1. 1 \in 1..m /\ 1 - 1 = 0 /\ g[1] \in Nat
    BY <1>2
  <2>2. g[1-1] = IF s[1].tx = t THEN g[1] + 1 ELSE g[1]
    BY <1>1, <2>1 DEF Counts, m
  <2>3. g[0] = IF s[1].tx = t THEN g[1] + 1 ELSE g[1]
    BY <2>1, <2>2
  <2>4. CASE s[1].tx = t
    <3>1. q = r - 1 /\ r # 0 /\ g[0] = g[1] + 1
      BY <1>2, <2>3, <2>4
    <3>2. QED  BY <1>1, <1>8, <2>1, <3>1
  <2>5. CASE s[1].tx # t
    <3>1. q = r /\ g[0] = g[1]
      BY <1>2, <2>3, <2>5
    <3>2. QED  BY <1>1, <1>8, <3>1
  <2>6. QED  BY <2>4, <2>5
<1>11. ASSUME b # 0, NEW i \in JobPos(v, t), f[i] = 0
       PROVE  v[i].block = b
  <2>1. i + 1 \in JobPos(s, t) /\ v[i] = s[i + 1] /\ i \in 0..m - 1
    BY <1>2, <1>4
  <2>2. QED  BY <1>1, <1>3, <1>11, <2>1
<1>12. QED  BY <1>2, <1>3, <1>9, <1>10, <1>11 DEF JobsOK, v

(* Without removals the job in front is the only one.                      *)
LEMMA JobsSingle ==
  ASSUME NEW s \in Seq(EventSet), s # <<>>, NEW b \in Nat, JobsOK(s, Head(s).tx, 0, b)
  PROVE  b # 0 /\ Head(s).block = b /\ JobPos(s, Head(s).tx) = {1}
<1> DEFINE t == Head(s).tx
           m == Len(s)
<1>1. PICK g \in [0..m -> Nat] :
         /\ Counts(s, t, g)
         /\ g[0] = IF b = 0 THEN 0 ELSE 0 + 1
         /\ b # 0 => \A i \in JobPos(s, t) : g[i] = 0 => s[i].block = b
  BY DEF JobsOK
<1>2. m \in Nat \ {0} /\ Head(s) = s[1]
  BY TailFacts
<1> HIDE DEF t
<1>3. s[1].tx = t /\ 1 \in JobPos(s, t) /\ 1 \in 1..m /\ 1 - 1 = 0 /\ g[1] \in Nat
  BY <1>2 DEF t, JobPos
<1>4. g[1-1] = IF s[1].tx = t THEN g[1] + 1 ELSE g[1]
  BY <1>1, <1>3 DEF Counts
<1>5. b # 0 /\ g[1] = 0
  BY <1>1, <1>3, <1>4
<1>6. s[1].block = b
  BY <1>1, <1>3, <1>5
<1>7. ASSUME NEW i \in JobPos(s, t) PROVE i = 1
  <2>1. i \in 1..m /\ s[i].tx = t
    BY DEF JobPos
  <2>2. i - 1 \in 0..m /\ 1 \in 0..m /\ i \in 0..m
    BY <1>2, <2>1
  <2>3. g[i-1] = g[i] + 1 /\ g[i] \in Nat
    BY <1>1, <2>1, <2>2 DEF Counts
  <2>4. CASE 1 <= i - 1
    <3>1. g[i-1] <= g[1]
      BY <1>1, <2>2, <2>4 DEF Counts
    <3>2. QED  BY <1>5, <2>3, <3>1
  <2>5. QED  BY <2>1, <2>4
<1>8. QED  BY <1>2, <1>3, <1>5, <1>6, <1>7 DEF t

LEMMA JobsSome ==
  ASSUME NEW s \in Seq(EventSet), NEW t, NEW r \in Nat, NEW b \in Nat \ {0},
         JobsOK(s, t, r, b)
  PROVE  JobPos(s, t) # {}
<1>1. PICK g \in [0..Len(s) -> Nat] : Counts(s, t, g) /\ g[0] = r + 1
  BY DEF JobsOK
<1>2. 0 \in 0..Len(s) /\ g[0] # 0
  BY <1>1
<1>3. QED  BY <1>1, <1>2 DEF Counts

-----------------------------------------------------------------------------
(***************************************************************************)
(* The invariant.                                                          *)
(***************************************************************************)
IsAt(t, b) == IF b = 0 THEN \A i \in 1..Len(chain) : chain[i] # t
              ELSE b \in 1..Len(chain) /\ chain[b] = t

Done(t) == \E j \in 1..Len(handled[Q(t)]) : handled[Q(t)][j].tx = t

EventQueueTypes ==
  /\ chain \in Seq(Transactions \cup {None}) /\ top \in Nat /\ Len(chain) <= top
  /\ \A i, j \in 1..Len(chain) : chain[i] = chain[j] => i = j \/ chain[i] = None
  /\ wire \in [Contracts -> Seq(NoticeSet)]
  /\ \A c \in Contracts : \A i \in 1..Len(wire[c]) : Contract[wire[c][i].event.tx] = c
  /\ removed \in [Transactions -> Nat]
  /\ jobs \in [Queues -> Seq(EventSet)]
  /\ \A p \in Queues : \A i \in 1..Len(jobs[p]) : jobs[p][i].tx \in Known /\ Q(jobs[p][i].tx) = p
  /\ asked \in [Queues -> Nat \cup {NotAsked}]
  /\ handled \in [Queues -> Seq(EventSet)]
  /\ \A p \in Queues : \A i \in 1..Len(handled[p]) :
        handled[p][i].tx \in Known /\ Q(handled[p][i].tx) = p

(* How old notifications and answers may be.                               *)
NoticesTimely ==
  \A c \in Contracts : \A i \in 1..Len(wire[c]) :
    /\ wire[c][i].sent <= top /\ top - wire[c][i].sent <= MaxDelay
    /\ wire[c][i].removed => wire[c][i].sent - wire[c][i].event.block < MaxDepth

AnswersTimely ==
  \A p \in Queues : asked[p] # NotAsked =>
    /\ jobs[p] # <<>> /\ asked[p] <= top /\ top - asked[p] <= MaxDelay
    /\ removed[Head(jobs[p]).tx] # 0 => asked[p] - Head(jobs[p]).block < MaxDepth + MaxDelay

(* Notices and jobs of a transaction agree with where it is; once its      *)
(* event is handled there are none.                                        *)
Followed(t) ==
  \/ Done(t) /\ Pos(wire[Contract[t]], t) = {} /\ JobPos(jobs[Q(t)], t) = {}
  \/ /\ ~Done(t)
     /\ \E at, b \in Nat : /\ IsAt(t, at)
                          /\ Told(wire[Contract[t]], t, at, b)
                          /\ JobsOK(jobs[Q(t)], t, removed[t], b)

AllFollowed == \A t \in Known : Followed(t)

(* Of a set of positions each has a later one in the other set.            *)
Later(S, T) == \A i \in S : \E j \in T : i < j

Ordered(t, u) ==
  Contract[t] = Contract[u] /\ Q(t) = Q(u) =>
    \A a, b \in 1..Len(chain) : chain[a] = t /\ chain[b] = u /\ a < b =>
      /\ Later(Pos(wire[Contract[u]], t), Pos(wire[Contract[u]], u))
      /\ Pos(wire[Contract[u]], u) = {} => Later(JobPos(jobs[Q(u)], t), JobPos(jobs[Q(u)], u))

AllOrdered == \A t, u \in Known : Ordered(t, u)

Settled(p, j) ==
  LET e == handled[p][j]
  IN  /\ IsAt(e.tx, e.block) /\ top - e.block >= CONFIRMATIONS
      /\ \A i \in 1..j - 1 : handled[p][i].tx # e.tx
      /\ \A t \in Known : Contract[t] = Contract[e.tx] /\ Q(t) = p =>
            \A a \in 1..Len(chain) : chain[a] = t /\ a < e.block =>
              \E i \in 1..j - 1 : handled[p][i] = Event(t, 1, a)

AllSettled == \A p \in Queues : \A j \in 1..Len(handled[p]) : Settled(p, j)

IInv == /\ EventQueueTypes
        /\ NoticesTimely
        /\ AnswersTimely
        /\ AllFollowed
        /\ AllOrdered
        /\ AllSettled

-----------------------------------------------------------------------------
(***************************************************************************)
(* The positions of a transaction.                                         *)
(***************************************************************************)
LEMMA PosAppend ==
  ASSUME NEW w \in Seq(NoticeSet), NEW t, NEW n \in NoticeSet
  PROVE  Pos(Append(w, n), t) = Pos(w, t) \cup (IF n.event.tx = t THEN {Len(w) + 1} ELSE {})
<1> DEFINE v == Append(w, n)
<1>1. /\ Len(w) \in Nat /\ Len(v) = Len(w) + 1 /\ v[Len(w) + 1] = n
      /\ \A i \in 1..Len(w) : v[i] = w[i]
  BY AppendFacts
<1> HIDE DEF v
<1>2. QED  BY <1>1 DEF Pos, v

LEMMA JobPosAppend ==
  ASSUME NEW s \in Seq(EventSet), NEW t, NEW e \in EventSet
  PROVE  JobPos(Append(s, e), t) = JobPos(s, t) \cup (IF e.tx = t THEN {Len(s) + 1} ELSE {})
<1> DEFINE v == Append(s, e)
<1>1. /\ Len(s) \in Nat /\ Len(v) = Len(s) + 1 /\ v[Len(s) + 1] = e
      /\ \A i \in 1..Len(s) : v[i] = s[i]
  BY AppendFacts
<1> HIDE DEF v
<1>2. QED  BY <1>1 DEF JobPos, v

LEMMA PosTail ==
  ASSUME NEW w \in Seq(NoticeSet), w # <<>>, NEW t
  PROVE  /\ \A i \in Pos(Tail(w), t) : i \in Nat \ {0} /\ i + 1 \in Pos(w, t)
         /\ \A i \in Pos(w, t) : i \in Nat /\ (i = 1 \/ i - 1 \in Pos(Tail(w), t))
         /\ 1 \in Pos(w, t) <=> Head(w).event.tx = t
<1> DEFINE v == Tail(w)
<1>1. /\ Len(w) \in Nat \ {0} /\ Len(v) = Len(w) - 1 /\ Head(w) = w[1]
      /\ \A i \in 1..Len(w) - 1 : v[i] = w[i + 1]
  BY TailFacts
<1> HIDE DEF v
<1>2. QED  BY <1>1 DEF Pos, v

LEMMA JobPosTail ==
  ASSUME NEW s \in Seq(EventSet), s # <<>>, NEW t
  PROVE  /\ \A i \in JobPos(Tail(s), t) : i \in Nat \ {0} /\ i + 1 \in JobPos(s, t)
         /\ \A i \in JobPos(s, t) : i \in Nat /\ (i = 1 \/ i - 1 \in JobPos(Tail(s), t))
         /\ 1 \in JobPos(s, t) <=> Head(s).tx = t
<1> DEFINE v == Tail(s)
<1>1. /\ Len(s) \in Nat \ {0} /\ Len(v) = Len(s) - 1 /\ Head(s) = s[1]
      /\ \A i \in 1..Len(s) - 1 : v[i] = s[i + 1]
  BY TailFacts
<1> HIDE DEF v
<1>2. QED  BY <1>1 DEF JobPos, v

LEMMA LaterTail ==
  ASSUME NEW w \in Seq(NoticeSet), w # <<>>, NEW t, NEW u, Later(Pos(w, t), Pos(w, u))
  PROVE  Later(Pos(Tail(w), t), Pos(Tail(w), u))
<1> SUFFICES ASSUME NEW i \in Pos(Tail(w), t)
             PROVE  \E j \in Pos(Tail(w), u) : i < j
  BY DEF Later
<1>1. i \in Nat \ {0} /\ i + 1 \in Pos(w, t)
  BY PosTail
<1>2. PICK j \in Pos(w, u) : i + 1 < j
  BY <1>1 DEF Later
<1>3. j \in Nat /\ (j = 1 \/ j - 1 \in Pos(Tail(w), u))
  BY PosTail
<1>4. j # 1 /\ i < j - 1
  BY <1>1, <1>2, <1>3
<1>5. QED  BY <1>3, <1>4

LEMMA LaterJobsTail ==
  ASSUME NEW s \in Seq(EventSet), s # <<>>, NEW t, NEW u, Later(JobPos(s, t), JobPos(s, u))
  PROVE  Later(JobPos(Tail(s), t), JobPos(Tail(s), u))
<1> SUFFICES ASSUME NEW i \in JobPos(Tail(s), t)
             PROVE  \E j \in JobPos(Tail(s), u) : i < j
  BY DEF Later
<1>1. i \in Nat \ {0} /\ i + 1 \in JobPos(s, t)
  BY JobPosTail
<1>2. PICK j \in JobPos(s, u) : i + 1 < j
  BY <1>1 DEF Later
<1>3. j \in Nat /\ (j = 1 \/ j - 1 \in JobPos(Tail(s), u))
  BY JobPosTail
<1>4. j # 1 /\ i < j - 1
  BY <1>1, <1>2, <1>3
<1>5. QED  BY <1>3, <1>4

-----------------------------------------------------------------------------
(***************************************************************************)
(* The chain.                                                              *)
(***************************************************************************)
Notice(t, b, gone, height) == [event |-> Event(t, 1, b), removed |-> gone, sent |-> height]

LEMMA NoticeType ==
  ASSUME NEW t \in Transactions, NEW b \in Nat \ {0}, NEW gone \in BOOLEAN, NEW height \in Nat
  PROVE  /\ Notice(t, b, gone, height) \in NoticeSet
         /\ Notice(t, b, gone, height).event.tx = t
         /\ Notice(t, b, gone, height).event.block = b
         /\ Notice(t, b, gone, height).sent = height
BY DEF Notice, Event, NoticeSet, EventSet

LEMMA EmitOne ==
  ASSUME OneEvent, EventQueueTypes, NEW t \in Transactions \cup {None},
         NEW b \in Nat \ {0}, NEW gone \in BOOLEAN, NEW height \in Nat
  PROVE  /\ t = None => Emit(t, b, gone, height) = wire
         /\ t # None => /\ t \in Transactions /\ Contract[t] \in Contracts
                        /\ Emit(t, b, gone, height) =
                             [wire EXCEPT ![Contract[t]] = Append(@, Notice(t, b, gone, height))]
<1>1. CASE t = None
  BY <1>1 DEF Emit, EventQueueTypes
<1>2. CASE t # None
  <2>1. t \in Transactions /\ Contract[t] \in Contracts /\ DOMAIN Events[t] = {1}
    BY <1>2, TransactionsAssumption DEF OneEvent
  <2> DEFINE n == Notice(t, b, gone, height)
  <2>2. n \in NoticeSet
    BY <2>1, NoticeType
  <2>3. [k \in DOMAIN Events[t] |->
           [event |-> Event(t, k, b), removed |-> gone, sent |-> height]] = <<n>>
    <3>1. [k \in {1} |-> [event |-> Event(t, k, b), removed |-> gone, sent |-> height]]
             = [k \in {1} |-> n]
      BY DEF Notice
    <3> HIDE DEF n
    <3>2. [k \in {1} |-> n] = <<n>>
      BY <2>2
    <3>3. QED  BY <2>1, <3>1, <3>2
  <2> HIDE DEF n
  <2>4. \A c \in Contracts : wire[c] \o <<n>> = Append(wire[c], n)
    BY <2>2 DEF EventQueueTypes
  <2>5. Emit(t, b, gone, height) =
           [c \in Contracts |-> IF Contract[t] # c THEN wire[c] ELSE Append(wire[c], n)]
    BY <1>2, <2>3, <2>4 DEF Emit
  <2>6. QED  BY <1>2, <2>1, <2>5 DEF EventQueueTypes, n
<1>3. QED  BY <1>1, <1>2

LEMMA WireAppended ==
  ASSUME EventQueueTypes, NEW x \in Transactions, NEW n \in NoticeSet, n.event.tx = x,
         wire' = [wire EXCEPT ![Contract[x]] = Append(@, n)]
  PROVE  /\ wire' \in [Contracts -> Seq(NoticeSet)]
         /\ \A c \in Contracts : \A i \in 1..Len(wire'[c]) : Contract[wire'[c][i].event.tx] = c
         /\ \A c \in Contracts : \A i \in 1..Len(wire'[c]) :
              (i \in 1..Len(wire[c]) /\ wire'[c][i] = wire[c][i]) \/ wire'[c][i] = n
         /\ \A c \in Contracts : \A t : t # x => Pos(wire'[c], t) = Pos(wire[c], t)
         /\ \A t \in Transactions : \A at, b \in Nat :
              t # x /\ Told(wire[Contract[t]], t, at, b) => Told(wire'[Contract[t]], t, at, b)
         /\ Len(wire[Contract[x]]) + 1 \in Pos(wire'[Contract[x]], x)
         /\ \A t : \A i \in Pos(wire[Contract[x]], t) : i < Len(wire[Contract[x]]) + 1
<1> DEFINE d == Contract[x]
           w == wire[d]
<1>1. /\ \A t \in Transactions : Contract[t] \in Contracts
      /\ d \in Contracts /\ w \in Seq(NoticeSet) /\ \A c \in Contracts : wire[c] \in Seq(NoticeSet)
  BY TransactionsAssumption DEF EventQueueTypes
<1>2. wire'[d] = Append(w, n) /\ \A c \in Contracts : c # d => wire'[c] = wire[c]
  BY <1>1 DEF EventQueueTypes
<1>3. /\ Append(w, n) \in Seq(NoticeSet) /\ Len(Append(w, n)) = Len(w) + 1 /\ Len(w) \in Nat
      /\ Append(w, n)[Len(w) + 1] = n
      /\ \A i \in 1..Len(w) : Append(w, n)[i] = w[i]
  BY <1>1, AppendFacts
<1>4. wire' \in [Contracts -> Seq(NoticeSet)]
  BY <1>1, <1>3 DEF EventQueueTypes
<1> HIDE DEF d, w
<1>5. ASSUME NEW c \in Contracts, NEW i \in 1..Len(wire'[c])
      PROVE  /\ Contract[wire'[c][i].event.tx] = c
             /\ (i \in 1..Len(wire[c]) /\ wire'[c][i] = wire[c][i]) \/ wire'[c][i] = n
  <2>1. CASE c # d
    BY <1>2, <2>1 DEF EventQueueTypes
  <2>2. CASE c = d /\ i = Len(w) + 1
    BY <1>2, <1>3, <2>2 DEF d
  <2>3. CASE c = d /\ i # Len(w) + 1
    <3>1. i \in 1..Len(w) /\ wire'[c][i] = wire[c][i]
      BY <1>2, <1>3, <2>3 DEF w
    <3>2. QED  BY <2>3, <3>1 DEF EventQueueTypes, w
  <2>4. QED  BY <2>1, <2>2, <2>3
<1>6. ASSUME NEW c \in Contracts, NEW t, t # x
      PROVE  Pos(wire'[c], t) = Pos(wire[c], t)
  <2>1. CASE c # d
    BY <1>2, <2>1
  <2>2. CASE c = d
    <3>1. Pos(Append(w, n), t) = Pos(w, t) \cup {}
      BY <1>1, <1>6, PosAppend
    <3>2. QED  BY <1>2, <2>2, <3>1 DEF w
  <2>3. QED  BY <2>1, <2>2
<1>7. ASSUME NEW t \in Transactions, NEW at \in Nat, NEW b \in Nat, t # x,
             Told(wire[Contract[t]], t, at, b)
      PROVE  Told(wire'[Contract[t]], t, at, b)
  <2>1. CASE Contract[t] # d
    BY <1>1, <1>2, <1>7, <2>1
  <2>2. CASE Contract[t] = d
    <3>1. Told(w, t, at, b)
      BY <1>7, <2>2 DEF w
    <3>2. Told(Append(w, n), t, at, b)
      BY <1>1, <1>7, <3>1, ToldAppend
    <3>3. QED  BY <1>2, <2>2, <3>2
  <2>3. QED  BY <2>1, <2>2
<1>8. Len(w) + 1 \in Pos(wire'[d], x)
  BY <1>2, <1>3 DEF Pos
<1>9. \A t : \A i \in Pos(w, t) : i < Len(w) + 1
  BY <1>3 DEF Pos
<1>10. QED  BY <1>4, <1>5, <1>6, <1>7, <1>8, <1>9 DEF d, w

(* A transaction whose event is handled is on the chain for good.          *)
LEMMA DoneIsDeep ==
  ASSUME EventQueueTypes, AllSettled, NEW t \in Known, Done(t)
  PROVE  \E b \in 1..Len(chain) : chain[b] = t /\ top - b >= CONFIRMATIONS
<1>1. PICK j \in 1..Len(handled[Q(t)]) : handled[Q(t)][j].tx = t
  BY DEF Done
<1>2. Q(t) \in Queues
  BY DEF Q, Known, priority, Queues
<1> DEFINE e == handled[Q(t)][j]
<1>3. e \in EventSet /\ Settled(Q(t), j)
  BY <1>1, <1>2 DEF AllSettled, EventQueueTypes
<1>4. e.block \in Nat \ {0} /\ e.tx = t
  BY <1>1, <1>3 DEF EventSet
<1>5. QED  BY <1>3, <1>4 DEF Settled, IsAt

LEMMA MineStep ==
  ASSUME OneEvent, IInv, NEW t \in Transactions \cup {None}, Mine(t)
  PROVE  IInv'
<1>a. EventQueueTypes /\ NoticesTimely /\ AnswersTimely /\ AllFollowed /\ AllOrdered /\ AllSettled
  BY DEF IInv
<1>b. /\ chain \in Seq(Transactions \cup {None}) /\ top \in Nat /\ Len(chain) <= top
      /\ Len(chain) \in Nat /\ DOMAIN chain = 1..Len(chain)
  BY <1>a DEF EventQueueTypes
<1>c. PICK m \in Nat : m = Len(chain)
  BY <1>b
<1>d. PICK b \in Nat : b = m + 1
  OBVIOUS
<1>e. PICK height \in Nat : height = IF b > top THEN b ELSE top
  BY <1>b
<1> DEFINE n == Notice(t, b, FALSE, height)
<1>1. /\ EventQueueTypes /\ NoticesTimely /\ AnswersTimely /\ AllFollowed /\ AllOrdered /\ AllSettled
      /\ chain \in Seq(Transactions \cup {None}) /\ top \in Nat /\ m <= top /\ m = Len(chain)
  BY <1>a, <1>b, <1>c
<1>2. /\ b = m + 1 /\ b \in Nat \ {0} /\ height \in Nat /\ b <= height /\ top <= height
      /\ MaxDelay \in Nat /\ MaxDepth \in Nat /\ CONFIRMATIONS \in Nat
  BY <1>1, <1>d, <1>e, TimingAssumption
<1>i. Timely(height)
  BY <1>c, <1>d, <1>e DEF Mine
<1>j. t # None => t \notin ToSet(chain)
  BY DEF Mine
<1>3. /\ chain' = Append(chain, t) /\ top' = height
      /\ removed' = removed /\ jobs' = jobs /\ asked' = asked /\ handled' = handled
  BY <1>c, <1>d, <1>e DEF Mine
<1>f. wire' = Emit(t, b, FALSE, height)
  BY <1>c, <1>d, <1>e DEF Mine
<1>4. /\ chain' \in Seq(Transactions \cup {None}) /\ Len(chain') = b /\ chain'[b] = t
      /\ \A i \in 1..m : chain'[i] = chain[i]
  BY <1>1, <1>2, <1>3, AppendFacts
<1>g. b \in Nat \ {0} /\ height \in Nat
  BY <1>2
<1>h. /\ t = None => Emit(t, b, FALSE, height) = wire
      /\ t # None => /\ t \in Transactions /\ Contract[t] \in Contracts
                     /\ Emit(t, b, FALSE, height) = [wire EXCEPT ![Contract[t]] = Append(@, n)]
  BY <1>a, <1>g, EmitOne
<1>5. t = None => wire' = wire
  BY <1>f, <1>h
<1>6. t # None => /\ t \in Transactions /\ Contract[t] \in Contracts
                  /\ wire' = [wire EXCEPT ![Contract[t]] = Append(@, n)]
                  /\ n \in NoticeSet /\ n.event.tx = t /\ n.event.block = b
                  /\ ~n.removed /\ n.sent = height
  <2>1. t # None => /\ t \in Transactions /\ Contract[t] \in Contracts
                    /\ wire' = [wire EXCEPT ![Contract[t]] = Append(@, n)]
    BY <1>f, <1>h
  <2>2. t # None => /\ n \in NoticeSet /\ n.event.tx = t /\ n.event.block = b
                    /\ ~n.removed /\ n.sent = height
    <3>1. CASE t # None
      <4>1. t \in Transactions
        BY <2>1, <3>1
      <4>2. n \in NoticeSet /\ n.event.tx = t /\ n.event.block = b /\ n.sent = height
        BY <1>g, <4>1 DEF Notice, Event, NoticeSet, EventSet
      <4>3. n.removed = FALSE
        BY DEF Notice
      <4>4. QED  BY <4>2, <4>3
    <3>2. QED  BY <3>1
  <2>3. QED  BY <2>1, <2>2
<1>7. t # None => \A i \in 1..m : chain[i] # t
  <2>1. t # None => t \notin {chain[i] : i \in DOMAIN chain}
    BY <1>j DEF ToSet
  <2>2. QED  BY <1>b, <1>c, <2>1
<1> HIDE DEF n
<1>8. t \in Known => t = None \/ ~Done(t)
  <2>1. \A i \in 1..Len(chain) : t # None => chain[i] # t
    BY <1>1, <1>7
  <2>2. QED  BY <1>1, <2>1, DoneIsDeep
<1>9. /\ wire' \in [Contracts -> Seq(NoticeSet)]
      /\ \A c \in Contracts : \A i \in 1..Len(wire'[c]) :
           /\ Contract[wire'[c][i].event.tx] = c
           /\ \/ i \in 1..Len(wire[c]) /\ wire'[c][i] = wire[c][i]
              \/ t # None /\ wire'[c][i] = n
      /\ \A c \in Contracts : \A u : u # t => Pos(wire'[c], u) = Pos(wire[c], u)
      /\ \A u \in Transactions : \A at, a \in Nat :
           u # t /\ Told(wire[Contract[u]], u, at, a) => Told(wire'[Contract[u]], u, at, a)
  <2>1. CASE t = None
    BY <1>1, <1>5, <2>1 DEF EventQueueTypes
  <2>2. CASE t # None
    <3>1. t \in Transactions /\ n \in NoticeSet /\ n.event.tx = t
          /\ wire' = [wire EXCEPT ![Contract[t]] = Append(@, n)]
      BY <1>6, <2>2
    <3>2. wire' \in [Contracts -> Seq(NoticeSet)]
      BY <1>a, <3>1, WireAppended
    <3>3. \A c \in Contracts : \A i \in 1..Len(wire'[c]) : Contract[wire'[c][i].event.tx] = c
      BY <1>a, <3>1, WireAppended
    <3>7. \A c \in Contracts : \A i \in 1..Len(wire'[c]) :
             (i \in 1..Len(wire[c]) /\ wire'[c][i] = wire[c][i]) \/ wire'[c][i] = n
      BY <1>a, <3>1, WireAppended
    <3>4. \A c \in Contracts : \A u : u # t => Pos(wire'[c], u) = Pos(wire[c], u)
      BY <1>a, <3>1, WireAppended
    <3>5. \A u \in Transactions : \A at, a \in Nat :
             u # t /\ Told(wire[Contract[u]], u, at, a) => Told(wire'[Contract[u]], u, at, a)
      BY <1>a, <3>1, WireAppended
    <3>6. QED  BY <2>2, <3>2, <3>3, <3>4, <3>5, <3>7
  <2>3. QED  BY <2>1, <2>2
<1>10. EventQueueTypes'
  <2>1. ASSUME NEW i \in 1..b, NEW j \in 1..b, chain'[i] = chain'[j]
        PROVE  i = j \/ chain'[i] = None
    <3>1. CASE i = b \/ j = b
      BY <1>2, <1>4, <1>7, <2>1, <3>1, <1>2
    <3>2. CASE i # b /\ j # b
      <4>1. i \in 1..m /\ j \in 1..m
        BY <1>1, <3>2, <1>2
      <4>2. QED  BY <1>1, <1>4, <2>1, <4>1 DEF EventQueueTypes
    <3>3. QED  BY <3>1, <3>2
  <2>2. \A i, j \in 1..Len(chain') : chain'[i] = chain'[j] => i = j \/ chain'[i] = None
    BY <1>4, <2>1
  <2>3. top' \in Nat /\ Len(chain') <= top'
    BY <1>2, <1>3, <1>4
  <2>4. QED  BY <1>a, <1>3, <1>4, <1>9, <2>2, <2>3 DEF EventQueueTypes
<1>11. NoticesTimely'
  <2>1. ASSUME NEW c \in Contracts, NEW i \in 1..Len(wire'[c])
        PROVE  /\ wire'[c][i].sent <= top' /\ top' - wire'[c][i].sent <= MaxDelay
               /\ wire'[c][i].removed => wire'[c][i].sent - wire'[c][i].event.block < MaxDepth
    <3>1. CASE t # None /\ wire'[c][i] = n
      BY <1>2, <1>3, <1>6, <3>1
    <3>2. CASE i \in 1..Len(wire[c]) /\ wire'[c][i] = wire[c][i]
      <4>1. wire[c] \in Seq(NoticeSet)
        BY <1>a DEF EventQueueTypes
      <4>2. wire[c][i] \in NoticeSet /\ i \in DOMAIN wire[c]
        BY <3>2, <4>1
      <4>3. wire[c][i].sent \in Nat
        BY <4>2 DEF NoticeSet
      <4>4. /\ wire[c][i].sent <= top
            /\ wire[c][i].removed => wire[c][i].sent - wire[c][i].event.block < MaxDepth
        BY <1>a, <3>2 DEF NoticesTimely
      <4>5. height - wire[c][i].sent <= MaxDelay
        BY <1>i, <4>2 DEF Timely
      <4>6. wire[c][i].sent <= height
        BY <1>1, <1>2, <4>3, <4>4
      <4>7. QED  BY <1>3, <3>2, <4>4, <4>5, <4>6
    <3>3. QED  BY <1>9, <3>1, <3>2
  <2>2. QED  BY <2>1 DEF NoticesTimely
<1>12. AnswersTimely'
  <2>1. ASSUME NEW p \in Queues, asked[p] # NotAsked
        PROVE  asked[p] \in Nat /\ asked[p] <= top' /\ top' - asked[p] <= MaxDelay
    <3>1. asked[p] \in Nat /\ asked[p] <= top
      BY <1>a, <2>1 DEF EventQueueTypes, AnswersTimely
    <3>2. height - asked[p] <= MaxDelay
      BY <1>i, <2>1 DEF Timely
    <3>3. asked[p] <= height
      BY <1>1, <1>2, <3>1
    <3>4. QED  BY <1>3, <3>1, <3>2, <3>3
  <2>2. QED  BY <1>1, <1>3, <2>1 DEF AnswersTimely
<1>13. AllFollowed'
  <2>1. ASSUME NEW u \in Known
        PROVE  Followed(u)'
    <3>1. u \in Transactions /\ Contract[u] \in Contracts /\ Followed(u) /\ u # None
      BY <1>1, TransactionsAssumption DEF AllFollowed, Known, None
    <3>2. Done(u)' <=> Done(u)
      BY <1>3 DEF Done
    <3>3. CASE u # t
      <4>1. \A at \in Nat : IsAt(u, at) => IsAt(u, at)'
        BY <1>1, <1>2, <1>4, <3>3 DEF IsAt
      <4>2. QED  BY <1>3, <1>9, <3>1, <3>2, <3>3, <4>1 DEF Followed
    <3>4. CASE u = t
      <4>1. ~Done(t) /\ t # None
        BY <1>8, <3>1, <3>4
      <4>2. PICK at \in Nat, a \in Nat : /\ IsAt(t, at)
                                        /\ Told(wire[Contract[t]], t, at, a)
                                        /\ JobsOK(jobs[Q(t)], t, removed[t], a)
        BY <3>1, <3>4, <4>1 DEF Followed
      <4>3. at = 0
        BY <1>7, <4>1, <4>2, <1>1 DEF IsAt
      <4>4. wire[Contract[t]] \in Seq(NoticeSet)
        BY <1>1, <3>1, <3>4 DEF EventQueueTypes
      <4>5. Told(Append(wire[Contract[t]], n), t, b, a)
        BY <1>2, <1>6, <4>1, <4>2, <4>3, <4>4, ToldAppend
      <4>6. wire'[Contract[t]] = Append(wire[Contract[t]], n)
        BY <1>1, <1>6, <4>1 DEF EventQueueTypes
      <4>7. IsAt(t, b)'
        BY <1>2, <1>4 DEF IsAt
      <4>8. QED  BY <1>2, <1>3, <3>2, <3>4, <4>1, <4>2, <4>5, <4>6, <4>7 DEF Followed
    <3>5. QED  BY <3>3, <3>4
  <2>2. QED  BY <2>1 DEF AllFollowed
<1>14. AllOrdered'
  <2>1. ASSUME NEW u \in Known, NEW v \in Known, Contract[u] = Contract[v], Q(u) = Q(v),
               NEW i \in 1..b, NEW j \in 1..b, chain'[i] = u, chain'[j] = v, i < j
        PROVE  /\ Later(Pos(wire'[Contract[v]], u), Pos(wire'[Contract[v]], v))
               /\ Pos(wire'[Contract[v]], v) = {} => Later(JobPos(jobs[Q(v)], u), JobPos(jobs[Q(v)], v))
    <3>1. u \in Transactions /\ v \in Transactions /\ Contract[v] \in Contracts
      BY TransactionsAssumption DEF Known
    <3>2. u # None /\ v # None
      BY <3>1, TransactionsAssumption DEF None
    <3>3. i \in 1..m /\ chain[i] = u
      BY <1>1, <1>4, <2>1, <1>2
    <3>4. u # t
      BY <1>7, <3>2, <3>3
    <3>5. CASE j = b
      <4>1. v = t /\ t # None
        BY <1>4, <2>1, <3>2, <3>5
      <4>2. /\ Len(wire[Contract[t]]) + 1 \in Pos(wire'[Contract[t]], t)
            /\ \A k \in Pos(wire[Contract[t]], u) : k < Len(wire[Contract[t]]) + 1
        BY <1>1, <1>6, <4>1, WireAppended
      <4>3. Pos(wire'[Contract[t]], u) = Pos(wire[Contract[t]], u)
        BY <1>9, <3>1, <3>4, <4>1
      <4>4. QED  BY <4>1, <4>2, <4>3 DEF Later
    <3>6. CASE j # b
      <4>1. j \in 1..m /\ chain[j] = v
        BY <1>1, <1>4, <2>1, <3>6, <1>2
      <4>2. v # t
        BY <1>7, <3>2, <4>1
      <4>3. Ordered(u, v)
        BY <1>1 DEF AllOrdered
      <4>4. i \in 1..Len(chain) /\ j \in 1..Len(chain)
        BY <1>1, <3>3, <4>1
      <4>5. /\ Later(Pos(wire[Contract[v]], u), Pos(wire[Contract[v]], v))
            /\ Pos(wire[Contract[v]], v) = {} => Later(JobPos(jobs[Q(v)], u), JobPos(jobs[Q(v)], v))
        BY <2>1, <3>3, <4>1, <4>3, <4>4 DEF Ordered
      <4>6. /\ Pos(wire'[Contract[v]], u) = Pos(wire[Contract[v]], u)
            /\ Pos(wire'[Contract[v]], v) = Pos(wire[Contract[v]], v)
        BY <1>9, <3>1, <3>4, <4>2
      <4>7. QED  BY <4>5, <4>6
    <3>7. QED  BY <3>5, <3>6
  <2>2. QED  BY <1>3, <1>4, <2>1 DEF AllOrdered, Ordered
<1>15. AllSettled'
  <2>1. ASSUME NEW p \in Queues, NEW j \in 1..Len(handled[p])
        PROVE  Settled(p, j)'
    <3> DEFINE e == handled[p][j]
    <3>1. Settled(p, j) /\ e \in EventSet
      BY <1>1 DEF AllSettled, EventQueueTypes
    <3>2. e.block \in Nat \ {0} /\ e.block \in 1..m /\ chain[e.block] = e.tx /\ top - e.block >= CONFIRMATIONS
      <4>1. e.block \in Nat \ {0}
        BY <3>1 DEF EventSet
      <4>2. IsAt(e.tx, e.block) /\ top - e.block >= CONFIRMATIONS
        BY <3>1 DEF Settled
      <4>3. QED  BY <1>1, <4>1, <4>2 DEF IsAt
    <3>3. IsAt(e.tx, e.block)' /\ top' - e.block >= CONFIRMATIONS
      BY <1>1, <1>2, <1>3, <1>4, <3>2 DEF IsAt
    <3>4. ASSUME NEW u \in Known, Contract[u] = Contract[e.tx], Q(u) = p,
                 NEW a \in 1..b, chain'[a] = u, a < e.block
          PROVE  \E i \in 1..j - 1 : handled[p][i] = Event(u, 1, a)
      <4>1. a \in 1..m /\ chain[a] = u
        BY <1>1, <1>4, <3>2, <3>4, <1>2
      <4>2. a \in 1..Len(chain)
        BY <1>1, <4>1
      <4>3. QED  BY <3>1, <3>4, <4>1, <4>2 DEF Settled
    <3> HIDE DEF e
    <3>5. \A i \in 1..j - 1 : handled[p][i].tx # e.tx
      BY <3>1 DEF Settled, e
    <3>6. QED  BY <1>3, <1>4, <3>3, <3>4, <3>5 DEF Settled, e
  <2>2. QED  BY <1>3, <2>1 DEF AllSettled
<1>16. QED  BY <1>10, <1>11, <1>12, <1>13, <1>14, <1>15 DEF IInv

LEMMA ReorganiseStep ==
  ASSUME OneEvent, IInv, Reorganise
  PROVE  IInv'
<1>1. EventQueueTypes /\ NoticesTimely /\ AnswersTimely /\ AllFollowed /\ AllOrdered /\ AllSettled
  BY DEF IInv
<1>2. /\ chain \in Seq(Transactions \cup {None}) /\ top \in Nat /\ Len(chain) <= top
      /\ chain # <<>> /\ Len(chain) \in Nat \ {0}
  BY <1>1 DEF EventQueueTypes, Reorganise
<1>3. PICK m \in Nat \ {0} : m = Len(chain)
  BY <1>2
<1>4. PICK x \in Transactions \cup {None} : x = chain[m]
  BY <1>2, <1>3
<1> DEFINE n == Notice(x, m, TRUE, top)
<1>5. m <= top /\ MaxDelay \in Nat /\ MaxDepth \in Nat /\ CONFIRMATIONS \in Nat
      /\ CONFIRMATIONS >= MaxDepth
  BY <1>2, <1>3, TimingAssumption
<1>6. top - m < MaxDepth
  BY <1>3 DEF Reorganise
<1>7. chain' = Front(chain)
  BY DEF Reorganise
<1>8. top' = top /\ removed' = removed /\ jobs' = jobs /\ asked' = asked /\ handled' = handled
  BY DEF Reorganise
<1>9. wire' = Emit(x, m, TRUE, top)
  BY <1>3, <1>4 DEF Reorganise
<1>10. /\ chain' \in Seq(Transactions \cup {None}) /\ Len(chain') = m - 1
       /\ \A i \in 1..m - 1 : chain'[i] = chain[i]
  BY <1>2, <1>3, <1>7 DEF Front
<1>11. \A i \in 1..m : chain[i] = x => i = m \/ x = None
  BY <1>1, <1>3, <1>4 DEF EventQueueTypes
<1>12. /\ x = None => Emit(x, m, TRUE, top) = wire
       /\ x # None => /\ x \in Transactions /\ Contract[x] \in Contracts
                      /\ Emit(x, m, TRUE, top) = [wire EXCEPT ![Contract[x]] = Append(@, n)]
  BY <1>1, <1>2, EmitOne
<1>13. x # None => /\ n \in NoticeSet /\ n.event.tx = x /\ n.event.block = m
                   /\ n.removed /\ n.sent = top
  <2>1. CASE x # None
    <3>1. n \in NoticeSet /\ n.event.tx = x /\ n.event.block = m /\ n.sent = top
      BY <1>2, <1>12, <2>1 DEF Notice, Event, NoticeSet, EventSet
    <3>2. n.removed = TRUE
      BY DEF Notice
    <3>3. QED  BY <3>1, <3>2
  <2>2. QED  BY <2>1
<1> HIDE DEF n
<1>14. x \in Known => ~Done(x)
  <2>1. ASSUME x \in Known, Done(x) PROVE FALSE
    <3>1. PICK b \in 1..Len(chain) : chain[b] = x /\ top - b >= CONFIRMATIONS
      BY <1>1, <2>1, DoneIsDeep
    <3>2. x # None
      BY <2>1, TransactionsAssumption DEF Known, None
    <3>3. b = m
      BY <1>3, <1>11, <3>1, <3>2
    <3>4. QED  BY <1>2, <1>5, <1>6, <3>1, <3>3
  <2>2. QED  BY <2>1
<1>15. wire' \in [Contracts -> Seq(NoticeSet)]
  <2>1. CASE x = None
    BY <1>1, <1>9, <1>12, <2>1 DEF EventQueueTypes
  <2>2. CASE x # None
    <3>1. wire' = [wire EXCEPT ![Contract[x]] = Append(@, n)] /\ x \in Transactions
      BY <1>9, <1>12, <2>2
    <3>2. n \in NoticeSet /\ n.event.tx = x
      BY <1>13, <2>2
    <3>3. QED  BY <1>1, <3>1, <3>2, WireAppended
  <2>3. QED  BY <2>1, <2>2
<1>16. \A c \in Contracts : \A i \in 1..Len(wire'[c]) : Contract[wire'[c][i].event.tx] = c
  <2>1. CASE x = None
    BY <1>1, <1>9, <1>12, <2>1 DEF EventQueueTypes
  <2>2. CASE x # None
    <3>1. wire' = [wire EXCEPT ![Contract[x]] = Append(@, n)] /\ x \in Transactions
      BY <1>9, <1>12, <2>2
    <3>2. n \in NoticeSet /\ n.event.tx = x
      BY <1>13, <2>2
    <3>3. QED  BY <1>1, <3>1, <3>2, WireAppended
  <2>3. QED  BY <2>1, <2>2
<1>17. \A c \in Contracts : \A i \in 1..Len(wire'[c]) :
          \/ i \in 1..Len(wire[c]) /\ wire'[c][i] = wire[c][i]
          \/ x # None /\ wire'[c][i] = n
  <2>1. CASE x = None
    BY <1>9, <1>12, <2>1
  <2>2. CASE x # None
    <3>1. wire' = [wire EXCEPT ![Contract[x]] = Append(@, n)] /\ x \in Transactions
      BY <1>9, <1>12, <2>2
    <3>2. n \in NoticeSet /\ n.event.tx = x
      BY <1>13, <2>2
    <3>3. \A c \in Contracts : \A i \in 1..Len(wire'[c]) :
             (i \in 1..Len(wire[c]) /\ wire'[c][i] = wire[c][i]) \/ wire'[c][i] = n
      BY <1>1, <3>1, <3>2, WireAppended
    <3>4. QED  BY <2>2, <3>3
  <2>3. QED  BY <2>1, <2>2
<1>18. \A c \in Contracts : \A u : u # x => Pos(wire'[c], u) = Pos(wire[c], u)
  <2>1. CASE x = None
    BY <1>9, <1>12, <2>1
  <2>2. CASE x # None
    <3>1. wire' = [wire EXCEPT ![Contract[x]] = Append(@, n)] /\ x \in Transactions
      BY <1>9, <1>12, <2>2
    <3>2. n \in NoticeSet /\ n.event.tx = x
      BY <1>13, <2>2
    <3>3. QED  BY <1>1, <3>1, <3>2, WireAppended
  <2>3. QED  BY <2>1, <2>2
<1>19. \A u \in Transactions : \A at, a \in Nat :
          u # x /\ Told(wire[Contract[u]], u, at, a) => Told(wire'[Contract[u]], u, at, a)
  <2>1. CASE x = None
    BY <1>9, <1>12, <2>1
  <2>2. CASE x # None
    <3>1. wire' = [wire EXCEPT ![Contract[x]] = Append(@, n)] /\ x \in Transactions
      BY <1>9, <1>12, <2>2
    <3>2. n \in NoticeSet /\ n.event.tx = x
      BY <1>13, <2>2
    <3>3. QED  BY <1>1, <3>1, <3>2, WireAppended
  <2>3. QED  BY <2>1, <2>2
<1>20. EventQueueTypes'
  <2>1. \A i, j \in 1..Len(chain') : chain'[i] = chain'[j] => i = j \/ chain'[i] = None
    BY <1>1, <1>3, <1>10 DEF EventQueueTypes
  <2>2. top' \in Nat /\ Len(chain') <= top'
    BY <1>2, <1>5, <1>8, <1>10
  <2>3. QED  BY <1>1, <1>8, <1>10, <1>15, <1>16, <2>1, <2>2 DEF EventQueueTypes
<1>21. NoticesTimely'
  <2>1. ASSUME NEW c \in Contracts, NEW i \in 1..Len(wire'[c])
        PROVE  /\ wire'[c][i].sent <= top /\ top - wire'[c][i].sent <= MaxDelay
               /\ wire'[c][i].removed => wire'[c][i].sent - wire'[c][i].event.block < MaxDepth
    <3>1. CASE x # None /\ wire'[c][i] = n
      BY <1>2, <1>5, <1>6, <1>13, <3>1
    <3>2. CASE i \in 1..Len(wire[c]) /\ wire'[c][i] = wire[c][i]
      BY <1>1, <3>2 DEF NoticesTimely
    <3>3. QED  BY <1>17, <3>1, <3>2
  <2>2. QED  BY <1>8, <2>1 DEF NoticesTimely
<1>22. AnswersTimely'
  BY <1>1, <1>8 DEF AnswersTimely
<1>23. AllFollowed'
  <2>1. ASSUME NEW u \in Known
        PROVE  Followed(u)'
    <3>1. u \in Transactions /\ Contract[u] \in Contracts /\ Followed(u) /\ u # None
      BY <1>1, TransactionsAssumption DEF AllFollowed, Known, None
    <3>2. Done(u)' <=> Done(u)
      BY <1>8 DEF Done
    <3>3. CASE u # x
      <4>1. ASSUME NEW at \in Nat, IsAt(u, at) PROVE IsAt(u, at)'
        <5>1. CASE at = 0
          BY <1>3, <1>10, <4>1, <5>1 DEF IsAt
        <5>2. CASE at # 0
          <6>1. at \in 1..m /\ chain[at] = u
            BY <1>3, <4>1, <5>2 DEF IsAt
          <6>2. at # m
            BY <1>4, <3>3, <6>1
          <6>3. at \in 1..m - 1
            BY <6>1, <6>2
          <6>4. QED  BY <1>10, <5>2, <6>1, <6>3 DEF IsAt
        <5>3. QED  BY <5>1, <5>2
      <4>2. QED  BY <1>8, <1>18, <1>19, <3>1, <3>2, <3>3, <4>1 DEF Followed
    <3>4. CASE u = x
      <4>1. ~Done(x) /\ x # None
        BY <1>14, <3>1, <3>4
      <4>2. PICK at \in Nat, a \in Nat : /\ IsAt(x, at)
                                        /\ Told(wire[Contract[x]], x, at, a)
                                        /\ JobsOK(jobs[Q(x)], x, removed[x], a)
        BY <3>1, <3>4, <4>1 DEF Followed
      <4>3. at = m
        <5>1. at # 0
          BY <1>3, <1>4, <4>2 DEF IsAt
        <5>2. at \in 1..m /\ chain[at] = x
          BY <1>3, <4>2, <5>1 DEF IsAt
        <5>3. QED  BY <1>11, <4>1, <5>2
      <4>4. wire[Contract[x]] \in Seq(NoticeSet)
        BY <1>1, <3>1, <3>4 DEF EventQueueTypes
      <4>5. Told(Append(wire[Contract[x]], n), x, 0, a)
        BY <1>13, <4>1, <4>2, <4>3, <4>4, ToldAppend
      <4>6. wire'[Contract[x]] = Append(wire[Contract[x]], n)
        BY <1>1, <1>9, <1>12, <4>1 DEF EventQueueTypes
      <4>7. IsAt(x, 0)'
        <5>1. ASSUME NEW i \in 1..m - 1, chain'[i] = x PROVE FALSE
          <6>1. i \in 1..m /\ i # m /\ chain[i] = x
            BY <1>10, <5>1
          <6>2. QED  BY <1>11, <4>1, <6>1
        <5>2. QED  BY <1>10, <5>1 DEF IsAt
      <4>8. QED  BY <1>8, <3>2, <3>4, <4>1, <4>2, <4>5, <4>6, <4>7 DEF Followed
    <3>5. QED  BY <3>3, <3>4
  <2>2. QED  BY <2>1 DEF AllFollowed
<1>24. AllOrdered'
  <2>1. ASSUME NEW u \in Known, NEW v \in Known, Contract[u] = Contract[v], Q(u) = Q(v),
               NEW i \in 1..m - 1, NEW j \in 1..m - 1, chain'[i] = u, chain'[j] = v, i < j
        PROVE  /\ Later(Pos(wire'[Contract[v]], u), Pos(wire'[Contract[v]], v))
               /\ Pos(wire'[Contract[v]], v) = {} => Later(JobPos(jobs[Q(v)], u), JobPos(jobs[Q(v)], v))
    <3>1. u # None /\ v # None /\ Contract[v] \in Contracts
      BY TransactionsAssumption DEF Known, None
    <3>2. /\ i \in 1..Len(chain) /\ j \in 1..Len(chain) /\ chain[i] = u /\ chain[j] = v
          /\ i \in 1..m /\ j \in 1..m /\ i # m /\ j # m
      BY <1>3, <1>10, <2>1
    <3>3. u # x /\ v # x
      BY <1>11, <3>1, <3>2
    <3>4. Ordered(u, v)
      BY <1>1 DEF AllOrdered
    <3>5. /\ Later(Pos(wire[Contract[v]], u), Pos(wire[Contract[v]], v))
          /\ Pos(wire[Contract[v]], v) = {} => Later(JobPos(jobs[Q(v)], u), JobPos(jobs[Q(v)], v))
      BY <2>1, <3>2, <3>4 DEF Ordered
    <3>6. /\ Pos(wire'[Contract[v]], u) = Pos(wire[Contract[v]], u)
          /\ Pos(wire'[Contract[v]], v) = Pos(wire[Contract[v]], v)
      BY <1>18, <3>1, <3>3
    <3>7. QED  BY <3>5, <3>6
  <2>2. QED  BY <1>8, <1>10, <2>1 DEF AllOrdered, Ordered
<1>25. AllSettled'
  <2>1. ASSUME NEW p \in Queues, NEW j \in 1..Len(handled[p])
        PROVE  Settled(p, j)'
    <3> DEFINE e == handled[p][j]
    <3>1. Settled(p, j) /\ e \in EventSet
      BY <1>1 DEF AllSettled, EventQueueTypes
    <3>2. e.block \in Nat \ {0}
      BY <3>1 DEF EventSet
    <3>3. IsAt(e.tx, e.block) /\ top - e.block >= CONFIRMATIONS
      BY <3>1 DEF Settled
    <3>4. e.block \in 1..m /\ chain[e.block] = e.tx
      BY <1>3, <3>2, <3>3 DEF IsAt
    <3>5. e.block \in 1..m - 1
      BY <1>2, <1>5, <1>6, <3>3, <3>4
    <3>6. IsAt(e.tx, e.block)'
      BY <1>8, <1>10, <3>2, <3>4, <3>5 DEF IsAt
    <3>7. ASSUME NEW u \in Known, Contract[u] = Contract[e.tx], Q(u) = p,
                 NEW a \in 1..m - 1, chain'[a] = u, a < e.block
          PROVE  \E i \in 1..j - 1 : handled[p][i] = Event(u, 1, a)
      <4>1. a \in 1..Len(chain) /\ chain[a] = u
        BY <1>3, <1>10, <3>7
      <4>2. QED  BY <3>1, <3>7, <4>1 DEF Settled
    <3>8. \A i \in 1..j - 1 : handled[p][i].tx # e.tx
      BY <3>1 DEF Settled
    <3> HIDE DEF e
    <3>9. QED  BY <1>8, <1>10, <3>3, <3>6, <3>7, <3>8 DEF Settled, e
  <2>2. QED  BY <1>8, <2>1 DEF AllSettled
<1>26. QED  BY <1>20, <1>21, <1>22, <1>23, <1>24, <1>25 DEF IInv

LEMMA KnownFacts ==
  ASSUME NEW t \in Known
  PROVE  t \in Transactions /\ t # None /\ Contract[t] \in Contracts /\ Q(t) \in Queues
BY TransactionsAssumption DEF Known, None, Q, priority, Queues

LEMMA InitStep ==
  ASSUME Init
  PROVE  IInv
<1>1. /\ chain = <<>> /\ Len(chain) = 0 /\ top = 0
      /\ \A c \in Contracts : wire[c] = <<>>
      /\ \A t \in Transactions : removed[t] = 0
      /\ \A p \in Queues : jobs[p] = <<>> /\ handled[p] = <<>> /\ asked[p] = NotAsked
  BY DEF Init
<1>2. EventQueueTypes
  <2>1. <<>> \in Seq(NoticeSet) /\ <<>> \in Seq(EventSet)
        /\ <<>> \in Seq(Transactions \cup {None}) /\ Len(<<>>) = 0
    OBVIOUS
  <2>2. /\ wire \in [Contracts -> Seq(NoticeSet)] /\ removed \in [Transactions -> Nat]
        /\ jobs \in [Queues -> Seq(EventSet)] /\ asked \in [Queues -> Nat \cup {NotAsked}]
        /\ handled \in [Queues -> Seq(EventSet)]
    BY <2>1 DEF Init
  <2>3. QED  BY <1>1, <2>1, <2>2 DEF EventQueueTypes
<1>3. NoticesTimely /\ AnswersTimely /\ AllSettled
  BY <1>1 DEF NoticesTimely, AnswersTimely, AllSettled
<1>4. AllOrdered
  BY <1>1 DEF AllOrdered, Ordered
<1>5. AllFollowed
  <2>1. ASSUME NEW t \in Known
        PROVE  Followed(t)
    <3>1. t \in Transactions /\ Contract[t] \in Contracts /\ Q(t) \in Queues
      BY KnownFacts
    <3>2. ~Done(t) /\ IsAt(t, 0)
      BY <1>1, <3>1 DEF Done, IsAt
    <3>3. Told(<<>>, t, 0, 0) /\ JobsOK(<<>>, t, 0, 0)
      BY ToldStart, JobsStart
    <3>4. QED  BY <1>1, <3>1, <3>2, <3>3 DEF Followed
  <2>2. QED  BY <2>1 DEF AllFollowed
<1>6. QED  BY <1>2, <1>3, <1>4, <1>5 DEF IInv

LEMMA UnpauseStep ==
  ASSUME IInv, unpauseQueue \/ UNCHANGED vars
  PROVE  IInv'
<1>1. /\ chain' = chain /\ top' = top /\ wire' = wire /\ removed' = removed
      /\ jobs' = jobs /\ asked' = asked /\ handled' = handled
  BY DEF unpauseQueue, vars
<1>2. EventQueueTypes' /\ NoticesTimely' /\ AnswersTimely'
  BY <1>1 DEF IInv, EventQueueTypes, NoticesTimely, AnswersTimely
<1>3. AllFollowed'
  BY <1>1 DEF IInv, AllFollowed, Followed, Done, IsAt
<1>4. AllOrdered' /\ AllSettled'
  BY <1>1 DEF IInv, AllOrdered, Ordered, AllSettled, Settled, IsAt
<1>5. QED  BY <1>2, <1>3, <1>4 DEF IInv

-----------------------------------------------------------------------------
(***************************************************************************)
(* The queues.                                                             *)
(***************************************************************************)
LEMMA HeadOfQueue ==
  ASSUME EventQueueTypes, NEW p \in Queues, jobs[p] # <<>>
  PROVE  /\ jobs[p] \in Seq(EventSet) /\ Head(jobs[p]) \in EventSet
         /\ Head(jobs[p]).tx \in Known /\ Q(Head(jobs[p]).tx) = p
         /\ Head(jobs[p]).block \in Nat \ {0}
<1>1. jobs[p] \in Seq(EventSet)
  BY DEF EventQueueTypes
<1>2. Head(jobs[p]) = jobs[p][1] /\ jobs[p][1] \in EventSet /\ 1 \in 1..Len(jobs[p])
  BY <1>1, TailFacts
<1>3. jobs[p][1].tx \in Known /\ Q(jobs[p][1].tx) = p
  BY <1>2 DEF EventQueueTypes
<1>4. Head(jobs[p]).block \in Nat \ {0}
  BY <1>2 DEF EventSet
<1>5. QED  BY <1>1, <1>2, <1>3, <1>4

LEMMA JobFinished ==
  ASSUME EventQueueTypes, NEW p \in Queues, jobs[p] # <<>>, FinishJob(p)
  PROVE  /\ jobs' \in [Queues -> Seq(EventSet)]
         /\ \A q \in Queues : \A i \in 1..Len(jobs'[q]) :
              jobs'[q][i].tx \in Known /\ Q(jobs'[q][i].tx) = q
         /\ jobs'[p] = Tail(jobs[p]) /\ \A q \in Queues : q # p => jobs'[q] = jobs[q]
         /\ asked' \in [Queues -> Nat \cup {NotAsked}]
         /\ asked'[p] = NotAsked /\ \A q \in Queues : q # p => asked'[q] = asked[q]
<1>1. jobs[p] \in Seq(EventSet) /\ jobs \in [Queues -> Seq(EventSet)]
  BY DEF EventQueueTypes
<1> DEFINE v == Tail(jobs[p])
<1>2. /\ v \in Seq(EventSet) /\ Len(v) = Len(jobs[p]) - 1 /\ Len(jobs[p]) \in Nat \ {0}
      /\ \A i \in 1..Len(jobs[p]) - 1 : v[i] = jobs[p][i + 1]
  BY <1>1, TailFacts
<1>3. jobs' = [jobs EXCEPT ![p] = v]
  BY DEF FinishJob
<1> HIDE DEF v
<1>4. jobs'[p] = v /\ \A q \in Queues : q # p => jobs'[q] = jobs[q]
  BY <1>1, <1>3
<1>5. jobs' \in [Queues -> Seq(EventSet)]
  BY <1>1, <1>2, <1>3
<1>6. /\ asked' \in [Queues -> Nat \cup {NotAsked}]
      /\ asked'[p] = NotAsked /\ \A q \in Queues : q # p => asked'[q] = asked[q]
  BY DEF FinishJob, EventQueueTypes
<1>7. ASSUME NEW q \in Queues, NEW i \in 1..Len(jobs'[q])
      PROVE  jobs'[q][i].tx \in Known /\ Q(jobs'[q][i].tx) = q
  <2>1. CASE q # p
    BY <1>4, <2>1 DEF EventQueueTypes
  <2>2. CASE q = p
    <3>1. i \in 1..Len(jobs[p]) - 1
      BY <1>2, <1>4, <2>2
    <3>2. i + 1 \in 1..Len(jobs[p]) /\ jobs'[p][i] = jobs[p][i + 1]
      BY <1>2, <1>4, <3>1
    <3>3. QED  BY <2>2, <3>2 DEF EventQueueTypes
  <2>3. QED  BY <2>1, <2>2
<1>8. QED  BY <1>4, <1>5, <1>6, <1>7 DEF v

LEMMA RejectStep ==
  ASSUME IInv, NEW p \in Queues, Reject(p)
  PROVE  IInv'
<1>1. EventQueueTypes /\ NoticesTimely /\ AnswersTimely /\ AllFollowed /\ AllOrdered /\ AllSettled
  BY DEF IInv
<1>2. jobs[p] # <<>> /\ FinishJob(p) /\ removed[Head(jobs[p]).tx] > 0
  BY DEF Reject, Waiting
<1>3. PICK x \in Known : x = Head(jobs[p]).tx
  BY <1>1, <1>2, HeadOfQueue
<1>4. x \in Transactions /\ Q(x) = p /\ jobs[p] \in Seq(EventSet)
  BY <1>1, <1>2, <1>3, HeadOfQueue, KnownFacts
<1>5. /\ chain' = chain /\ top' = top /\ wire' = wire /\ handled' = handled
      /\ removed' = [removed EXCEPT ![x] = @ - 1]
  BY <1>3 DEF Reject, Counted
<1>6. /\ removed' \in [Transactions -> Nat] /\ removed[x] # 0 /\ removed'[x] = removed[x] - 1
      /\ \A t \in Transactions : t # x => removed'[t] = removed[t]
  BY <1>1, <1>2, <1>3, <1>4, <1>5 DEF EventQueueTypes
<1>7. jobs'[p] = Tail(jobs[p]) /\ \A q \in Queues : q # p => jobs'[q] = jobs[q]
  BY <1>1, <1>2, JobFinished
<1>8. asked'[p] = NotAsked /\ \A q \in Queues : q # p => asked'[q] = asked[q]
  BY <1>1, <1>2, JobFinished
<1>9. EventQueueTypes'
  <2>1. /\ jobs' \in [Queues -> Seq(EventSet)]
        /\ \A q \in Queues : \A i \in 1..Len(jobs'[q]) :
              jobs'[q][i].tx \in Known /\ Q(jobs'[q][i].tx) = q
        /\ asked' \in [Queues -> Nat \cup {NotAsked}]
    BY <1>1, <1>2, JobFinished
  <2>2. QED  BY <1>1, <1>5, <1>6, <2>1 DEF EventQueueTypes
<1>10. NoticesTimely'
  BY <1>1, <1>5 DEF NoticesTimely
<1>11. AnswersTimely'
  <2>1. ASSUME NEW q \in Queues, asked'[q] # NotAsked
        PROVE  /\ jobs'[q] # <<>> /\ asked'[q] <= top /\ top - asked'[q] <= MaxDelay
               /\ removed'[Head(jobs'[q]).tx] # 0
                    => asked'[q] - Head(jobs'[q]).block < MaxDepth + MaxDelay
    <3>1. q # p /\ asked'[q] = asked[q] /\ jobs'[q] = jobs[q]
      BY <1>7, <1>8, <2>1
    <3>2. asked[q] # NotAsked /\ jobs[q] # <<>>
      BY <1>1, <2>1, <3>1 DEF AnswersTimely
    <3>3. Head(jobs[q]).tx \in Transactions /\ Head(jobs[q]).tx # x
      BY <1>1, <1>4, <3>1, <3>2, HeadOfQueue, KnownFacts
    <3>4. QED  BY <1>1, <1>6, <3>1, <3>2, <3>3 DEF AnswersTimely
  <2>2. QED  BY <1>5, <2>1 DEF AnswersTimely
<1>12. AllFollowed'
  <2>1. ASSUME NEW u \in Known
        PROVE  Followed(u)'
    <3>1. u \in Transactions /\ Q(u) \in Queues /\ Followed(u)
      BY <1>1, KnownFacts DEF AllFollowed
    <3>2. Done(u)' <=> Done(u)
      BY <1>5 DEF Done
    <3>3. CASE Q(u) # p
      <4>1. u # x /\ jobs'[Q(u)] = jobs[Q(u)] /\ removed'[u] = removed[u]
        BY <1>4, <1>6, <1>7, <3>1, <3>3
      <4>2. QED  BY <1>5, <3>1, <3>2, <4>1 DEF Followed, IsAt
    <3>4. CASE Q(u) = p /\ Done(u)
      <4>1. JobPos(jobs[p], u) = {} /\ Pos(wire[Contract[u]], u) = {}
        BY <3>1, <3>4 DEF Followed
      <4>2. \A i \in JobPos(Tail(jobs[p]), u) : i + 1 \in JobPos(jobs[p], u)
        BY <1>2, <1>4, JobPosTail
      <4>3. QED  BY <1>5, <1>7, <3>2, <3>4, <4>1, <4>2 DEF Followed
    <3>5. CASE Q(u) = p /\ ~Done(u)
      <4>1. PICK at \in Nat, b \in Nat : /\ IsAt(u, at) /\ Told(wire[Contract[u]], u, at, b)
                                         /\ JobsOK(jobs[p], u, removed[u], b)
        BY <3>1, <3>5 DEF Followed
      <4>2. removed[u] \in Nat
        BY <1>1, <3>1 DEF EventQueueTypes
      <4>3. JobsOK(Tail(jobs[p]), u, IF Head(jobs[p]).tx = u THEN removed[u] - 1 ELSE removed[u], b)
        BY <1>2, <1>3, <1>4, <1>6, <4>1, <4>2, JobsTail
      <4>4. removed'[u] = IF Head(jobs[p]).tx = u THEN removed[u] - 1 ELSE removed[u]
        BY <1>3, <1>6, <3>1
      <4>5. JobsOK(jobs'[Q(u)], u, removed'[u], b)
        BY <1>7, <3>5, <4>3, <4>4
      <4>6. IsAt(u, at)'
        BY <1>5, <4>1 DEF IsAt
      <4>7. QED  BY <1>5, <3>2, <3>5, <4>1, <4>5, <4>6 DEF Followed
    <3>6. QED  BY <3>3, <3>4, <3>5
  <2>2. QED  BY <2>1 DEF AllFollowed
<1>13. AllOrdered'
  <2>1. ASSUME NEW u \in Known, NEW v \in Known, Later(JobPos(jobs[Q(v)], u), JobPos(jobs[Q(v)], v))
        PROVE  Later(JobPos(jobs'[Q(v)], u), JobPos(jobs'[Q(v)], v))
    BY <1>2, <1>4, <1>7, <2>1, LaterJobsTail, KnownFacts
  <2>2. QED  BY <1>1, <1>5, <2>1 DEF AllOrdered, Ordered
<1>14. AllSettled'
  <2>1. \A t, b : IsAt(t, b)' <=> IsAt(t, b)
    BY <1>5 DEF IsAt
  <2>2. chain' = chain /\ top' = top /\ handled' = handled
    BY <1>5
  <2>3. QED  BY <1>1, <2>1, <2>2 DEF AllSettled, Settled
<1>15. QED  BY <1>9, <1>10, <1>11, <1>12, <1>13, <1>14 DEF IInv

LEMMA AskStep ==
  ASSUME IInv, NEW p \in Queues, AskHeight(p)
  PROVE  IInv'
<1>1. EventQueueTypes /\ NoticesTimely /\ AnswersTimely /\ AllFollowed /\ AllOrdered /\ AllSettled
  BY DEF IInv
<1>2. /\ chain' = chain /\ top' = top /\ wire' = wire /\ removed' = removed
      /\ jobs' = jobs /\ handled' = handled /\ asked' = [asked EXCEPT ![p] = top]
      /\ jobs[p] # <<>> /\ removed[Head(jobs[p]).tx] = 0
  BY DEF AskHeight, Waiting
<1>3. /\ asked' \in [Queues -> Nat \cup {NotAsked}] /\ asked'[p] = top /\ top \in Nat
      /\ \A q \in Queues : q # p => asked'[q] = asked[q]
  BY <1>1, <1>2 DEF EventQueueTypes
<1>4. EventQueueTypes' /\ NoticesTimely'
  BY <1>1, <1>2, <1>3 DEF EventQueueTypes, NoticesTimely
<1>5. AnswersTimely'
  <2>1. ASSUME NEW q \in Queues, asked'[q] # NotAsked
        PROVE  /\ jobs[q] # <<>> /\ asked'[q] <= top /\ top - asked'[q] <= MaxDelay
               /\ removed[Head(jobs[q]).tx] # 0
                    => asked'[q] - Head(jobs[q]).block < MaxDepth + MaxDelay
    <3>1. CASE q = p
      BY <1>2, <1>3, <3>1, TimingAssumption
    <3>2. CASE q # p
      BY <1>1, <1>3, <2>1, <3>2 DEF AnswersTimely
    <3>3. QED  BY <3>1, <3>2
  <2>2. QED  BY <1>2, <2>1 DEF AnswersTimely
<1>6. AllFollowed'
  BY <1>1, <1>2 DEF AllFollowed, Followed, Done, IsAt
<1>7. AllOrdered' /\ AllSettled'
  BY <1>1, <1>2 DEF AllOrdered, Ordered, AllSettled, Settled, IsAt
<1>8. QED  BY <1>4, <1>5, <1>6, <1>7 DEF IInv

(* No height within the delays of the top is short of a confirmed block.   *)
LEMMA TooLate ==
  ASSUME NEW height \in Nat, NEW k \in Nat, NEW b \in Nat,
         height - b >= CONFIRMATIONS, height - k <= MaxDelay
  PROVE  ~(k - b < MaxDepth + MaxDelay)
BY TimingAssumption

(* The job whose event is found confirmed is the last one of a transaction *)
(* that is where the job says, of which nothing more is under way; and     *)
(* whatever precedes it on the chain is handled.                           *)
LEMMA Confirmation ==
  ASSUME IInv, NEW p \in Queues, jobs[p] # <<>>, asked[p] # NotAsked,
         NEW e \in EventSet, e = Head(jobs[p]), Confirmed(e)
  PROVE  /\ ~Done(e.tx) /\ IsAt(e.tx, e.block) /\ removed[e.tx] = 0
         /\ Pos(wire[Contract[e.tx]], e.tx) = {} /\ JobPos(jobs[p], e.tx) = {1}
         /\ top - e.block >= CONFIRMATIONS
         /\ \A t \in Known : Contract[t] = Contract[e.tx] /\ Q(t) = p =>
               \A a \in 1..Len(chain) : chain[a] = t /\ a < e.block => Done(t)
<1>1. EventQueueTypes /\ NoticesTimely /\ AnswersTimely /\ AllFollowed /\ AllOrdered /\ AllSettled
  BY DEF IInv
<1>2. PICK x \in Known : x = e.tx
  BY <1>1, HeadOfQueue
<1>3. PICK s \in Seq(EventSet) : s = jobs[p]
  BY <1>1, HeadOfQueue
<1>4. /\ x \in Transactions /\ Contract[x] \in Contracts /\ Q(x) = p
      /\ e.block \in Nat \ {0} /\ Head(s).tx = x /\ s # <<>>
  BY <1>1, <1>2, <1>3, HeadOfQueue, KnownFacts
<1>5. PICK w \in Seq(NoticeSet) : w = wire[Contract[x]]
  BY <1>1, <1>4 DEF EventQueueTypes
<1>6. /\ CONFIRMATIONS \in Nat /\ MaxDepth \in Nat /\ MaxDelay \in Nat
      /\ CONFIRMATIONS >= MaxDepth + 2 * MaxDelay
      /\ top \in Nat /\ Len(chain) \in Nat /\ Len(chain) <= top /\ removed[x] \in Nat
  BY <1>1, <1>4, TimingAssumption DEF EventQueueTypes
<1>7. top - e.block >= CONFIRMATIONS
  BY <1>4, <1>6 DEF Confirmed
<1>8. 1 \in JobPos(s, x) /\ Followed(x)
  BY <1>1, <1>3, <1>4, JobPosTail DEF AllFollowed
<1>9. ~Done(x)
  BY <1>3, <1>4, <1>8 DEF Followed
<1>10. PICK at \in Nat, b \in Nat : IsAt(x, at) /\ Told(w, x, at, b) /\ JobsOK(s, x, removed[x], b)
  BY <1>3, <1>4, <1>5, <1>8, <1>9 DEF Followed
<1>11. removed[x] = 0
  <2>1. ASSUME removed[x] # 0 PROVE FALSE
    <3>1. /\ asked[p] \in Nat /\ top - asked[p] <= MaxDelay
          /\ asked[p] - e.block < MaxDepth + MaxDelay
      BY <1>1, <1>2, <2>1 DEF AnswersTimely, EventQueueTypes
    <3>2. QED  BY <1>4, <1>6, <1>7, <3>1, TooLate
  <2>2. QED  BY <2>1
<1>12. b # 0 /\ e.block = b /\ JobPos(s, x) = {1}
  <2>1. JobsOK(s, Head(s).tx, 0, b)
    BY <1>4, <1>10, <1>11
  <2>2. b # 0 /\ Head(s).block = b /\ JobPos(s, Head(s).tx) = {1}
    BY <1>4, <2>1, JobsSingle
  <2>3. QED  BY <1>3, <1>4, <2>2
<1>13. Pos(w, x) = {}
  <2>1. ASSUME NEW k \in Pos(w, x), w[k].removed, w[k].event.block = b PROVE FALSE
    <3>1. k \in 1..Len(wire[Contract[x]]) /\ w[k] \in NoticeSet
      BY <1>5 DEF Pos
    <3>2. /\ w[k].sent \in Nat /\ top - w[k].sent <= MaxDelay
          /\ w[k].sent - w[k].event.block < MaxDepth
      BY <1>1, <1>4, <1>5, <2>1, <3>1 DEF NoticesTimely, NoticeSet
    <3>3. ~(w[k].sent - b < MaxDepth + MaxDelay)
      BY <1>4, <1>6, <1>7, <1>12, <3>2, TooLate
    <3>4. w[k].sent - b < MaxDepth
      BY <2>1, <3>2
    <3>5. PICK sent \in Nat : sent = w[k].sent
      BY <3>2
    <3>6. QED  BY <1>6, <3>3, <3>4, <3>5
  <2>2. b = 0 \/ Pos(w, x) = {} \/ \E k \in Pos(w, x) : w[k].removed /\ w[k].event.block = b
    BY <1>10, ToldQuiet
  <2>3. QED  BY <1>12, <2>1, <2>2
<1>14. b = at
  BY <1>10, <1>13, ToldQuiet
<1>15. ASSUME NEW t \in Known, Contract[t] = Contract[x], Q(t) = p,
              NEW a \in 1..Len(chain), chain[a] = t, a < e.block, ~Done(t)
       PROVE  FALSE
  <2>1. e.block \in 1..Len(chain) /\ chain[e.block] = x
    BY <1>10, <1>12, <1>14 DEF IsAt
  <2>2. Later(Pos(w, t), Pos(w, x)) /\ Later(JobPos(s, t), JobPos(s, x))
    BY <1>1, <1>3, <1>4, <1>5, <1>13, <1>15, <2>1 DEF AllOrdered, Ordered
  <2>3. Pos(w, t) = {}
    BY <1>13, <2>2 DEF Later
  <2>4. JobPos(s, t) = {}
    BY <1>12, <2>2 DEF Later, JobPos
  <2>5. PICK at2 \in Nat, b2 \in Nat :
          IsAt(t, at2) /\ Told(w, t, at2, b2) /\ JobsOK(s, t, removed[t], b2)
    BY <1>1, <1>3, <1>5, <1>15 DEF AllFollowed, Followed
  <2>6. b2 = at2
    BY <2>3, <2>5, ToldQuiet
  <2>7. at2 # 0
    BY <1>15, <2>5 DEF IsAt
  <2>8. removed[t] \in Nat
    BY <1>1, KnownFacts DEF EventQueueTypes
  <2>9. QED  BY <2>4, <2>5, <2>6, <2>7, <2>8, JobsSome
<1>16. QED  BY <1>2, <1>3, <1>5, <1>7, <1>9, <1>10, <1>11, <1>12, <1>13, <1>14, <1>15

LEMMA HandleStep ==
  ASSUME IInv, NEW p \in Queues, HeightKnown(p), Confirmed(Head(jobs[p]))
  PROVE  IInv'
<1>1. EventQueueTypes /\ NoticesTimely /\ AnswersTimely /\ AllFollowed /\ AllOrdered /\ AllSettled
  BY DEF IInv
<1>2. jobs[p] # <<>> /\ FinishJob(p) /\ asked[p] # NotAsked
  BY DEF HeightKnown, Waiting
<1>3. PICK e \in EventSet : e = Head(jobs[p])
  BY <1>1, <1>2, HeadOfQueue
<1>4. PICK x \in Known : x = e.tx
  BY <1>1, <1>2, <1>3, HeadOfQueue
<1>5. x \in Transactions /\ Q(x) = p /\ jobs[p] \in Seq(EventSet) /\ e.block \in Nat \ {0}
  BY <1>1, <1>2, <1>3, <1>4, HeadOfQueue, KnownFacts
<1>6. /\ chain' = chain /\ top' = top /\ wire' = wire /\ removed' = removed
      /\ handled' = [handled EXCEPT ![p] = Append(@, e)]
  BY <1>3 DEF HeightKnown
<1>7. jobs'[p] = Tail(jobs[p]) /\ \A q \in Queues : q # p => jobs'[q] = jobs[q]
  BY <1>1, <1>2, JobFinished
<1>8. asked'[p] = NotAsked /\ \A q \in Queues : q # p => asked'[q] = asked[q]
  BY <1>1, <1>2, JobFinished
<1>9. PICK s \in Seq(EventSet) : s = handled[p]
  BY <1>1 DEF EventQueueTypes
<1> DEFINE r == Append(s, e)
<1>10. PICK m \in Nat : m = Len(s)
  OBVIOUS
<1>11. /\ r \in Seq(EventSet) /\ Len(r) = m + 1 /\ r[m + 1] = e
       /\ \A i \in 1..m : r[i] = s[i]
  BY <1>10, AppendFacts
<1>12. /\ handled' \in [Queues -> Seq(EventSet)] /\ handled'[p] = r
       /\ \A q \in Queues : q # p => handled'[q] = handled[q]
  BY <1>1, <1>6, <1>9, <1>11 DEF EventQueueTypes
<1> HIDE DEF r
<1>13. ~Done(x) /\ IsAt(x, e.block) /\ removed[x] = 0 /\ top - e.block >= CONFIRMATIONS
  BY <1>2, <1>3, <1>4, Confirmation
<1>14. Pos(wire[Contract[x]], x) = {} /\ JobPos(jobs[p], x) = {1}
  BY <1>2, <1>3, <1>4, Confirmation
<1>15. \A t \in Known : Contract[t] = Contract[x] /\ Q(t) = p =>
          \A a \in 1..Len(chain) : chain[a] = t /\ a < e.block => Done(t)
  BY <1>2, <1>3, <1>4, Confirmation
<1>16. EventQueueTypes'
  <2>1. /\ jobs' \in [Queues -> Seq(EventSet)]
        /\ \A q \in Queues : \A i \in 1..Len(jobs'[q]) :
              jobs'[q][i].tx \in Known /\ Q(jobs'[q][i].tx) = q
        /\ asked' \in [Queues -> Nat \cup {NotAsked}]
    BY <1>1, <1>2, JobFinished
  <2>2. ASSUME NEW q \in Queues, NEW i \in 1..Len(handled'[q])
        PROVE  handled'[q][i].tx \in Known /\ Q(handled'[q][i].tx) = q
    <3>1. CASE q # p
      BY <1>1, <1>12, <3>1 DEF EventQueueTypes
    <3>2. CASE q = p /\ i = m + 1
      BY <1>4, <1>5, <1>11, <1>12, <3>2
    <3>3. CASE q = p /\ i # m + 1
      <4>1. i \in 1..m
        BY <1>11, <1>12, <3>3
      <4>2. handled'[q][i] = handled[q][i] /\ i \in 1..Len(handled[q])
        BY <1>9, <1>10, <1>11, <1>12, <3>3, <4>1
      <4>3. QED  BY <1>1, <4>2 DEF EventQueueTypes
    <3>4. QED  BY <3>1, <3>2, <3>3
  <2>3. QED  BY <1>1, <1>6, <1>12, <2>1, <2>2 DEF EventQueueTypes
<1>17. NoticesTimely'
  BY <1>1, <1>6 DEF NoticesTimely
<1>18. AnswersTimely'
  <2>1. ASSUME NEW q \in Queues, asked'[q] # NotAsked
        PROVE  q # p /\ asked'[q] = asked[q] /\ jobs'[q] = jobs[q]
    BY <1>7, <1>8, <2>1
  <2>2. QED  BY <1>1, <1>6, <2>1 DEF AnswersTimely
<1>19. \A u \in Known : u # x => (Done(u)' <=> Done(u))
  <2>1. ASSUME NEW u \in Known, u # x
        PROVE  Done(u)' <=> Done(u)
    <3>1. Q(u) \in Queues
      BY KnownFacts
    <3>2. CASE Q(u) # p
      BY <1>12, <3>1, <3>2 DEF Done
    <3>3. CASE Q(u) = p
      <4>1. /\ \A i \in 1..m : i \in 1..m + 1
            /\ \A i \in 1..m + 1 : i \in 1..m \/ i = m + 1
        OBVIOUS
      <4>2. QED  BY <1>4, <1>9, <1>10, <1>11, <1>12, <2>1, <3>3, <4>1 DEF Done
    <3>4. QED  BY <3>2, <3>3
  <2>2. QED  BY <2>1
<1>20. AllFollowed'
  <2>1. ASSUME NEW u \in Known
        PROVE  Followed(u)'
    <3>1. u \in Transactions /\ Q(u) \in Queues /\ Followed(u)
      BY <1>1, KnownFacts DEF AllFollowed
    <3>2. CASE Q(u) # p
      <4>1. u # x /\ jobs'[Q(u)] = jobs[Q(u)]
        BY <1>5, <1>7, <3>1, <3>2
      <4>2. QED  BY <1>6, <1>19, <3>1, <4>1 DEF Followed, IsAt
    <3>3. CASE u = x
      <4>1. Done(x)'
        <5>1. m + 1 \in 1..Len(handled'[p]) /\ handled'[p][m + 1].tx = x
          BY <1>4, <1>11, <1>12
        <5>2. QED  BY <1>5, <5>1 DEF Done
      <4>2. ASSUME NEW i \in JobPos(Tail(jobs[p]), x) PROVE FALSE
        <5>1. i \in Nat \ {0} /\ i + 1 \in JobPos(jobs[p], x)
          BY <1>2, <1>5, JobPosTail
        <5>2. QED  BY <1>14, <5>1
      <4>3. QED  BY <1>5, <1>6, <1>7, <1>14, <3>3, <4>1, <4>2 DEF Followed
    <3>4. CASE u # x /\ Q(u) = p /\ Done(u)
      <4>1. JobPos(jobs[p], u) = {} /\ Pos(wire[Contract[u]], u) = {}
        BY <3>1, <3>4 DEF Followed
      <4>2. \A i \in JobPos(Tail(jobs[p]), u) : i + 1 \in JobPos(jobs[p], u)
        BY <1>2, <1>5, JobPosTail
      <4>3. QED  BY <1>6, <1>7, <1>19, <3>4, <4>1, <4>2 DEF Followed
    <3>5. CASE u # x /\ Q(u) = p /\ ~Done(u)
      <4>1. PICK at \in Nat, b \in Nat : /\ IsAt(u, at) /\ Told(wire[Contract[u]], u, at, b)
                                         /\ JobsOK(jobs[p], u, removed[u], b)
        BY <3>1, <3>5 DEF Followed
      <4>2. removed[u] \in Nat /\ Head(jobs[p]).tx # u
        BY <1>1, <1>3, <1>4, <3>1, <3>5 DEF EventQueueTypes
      <4>3. JobsOK(Tail(jobs[p]), u, IF Head(jobs[p]).tx = u THEN removed[u] - 1 ELSE removed[u], b)
        BY <1>2, <1>5, <4>1, <4>2, JobsTail
      <4>4. JobsOK(jobs'[Q(u)], u, removed[u], b)
        BY <1>7, <3>5, <4>2, <4>3
      <4>5. IsAt(u, at)'
        BY <1>6, <4>1 DEF IsAt
      <4>6. QED  BY <1>6, <1>19, <3>5, <4>1, <4>4, <4>5 DEF Followed
    <3>6. QED  BY <3>2, <3>3, <3>4, <3>5
  <2>2. QED  BY <2>1 DEF AllFollowed
<1>21. AllOrdered'
  <2>1. ASSUME NEW u \in Known, NEW v \in Known, Later(JobPos(jobs[Q(v)], u), JobPos(jobs[Q(v)], v))
        PROVE  Later(JobPos(jobs'[Q(v)], u), JobPos(jobs'[Q(v)], v))
    BY <1>2, <1>5, <1>7, <2>1, LaterJobsTail, KnownFacts
  <2>2. QED  BY <1>1, <1>6, <2>1 DEF AllOrdered, Ordered
<1>22. AllSettled'
  <2>1. \A t, b : IsAt(t, b)' <=> IsAt(t, b)
    BY <1>6 DEF IsAt
  <2>2. chain' = chain /\ top' = top
    BY <1>6
  <2>3. ASSUME NEW q \in Queues, NEW j \in 1..Len(handled'[q])
        PROVE  Settled(q, j)'
    <3>1. CASE q # p
      <4>1. handled'[q] = handled[q]
        BY <1>12, <3>1
      <4>2. Settled(q, j)
        BY <1>1, <2>3, <4>1 DEF AllSettled
      <4>3. QED  BY <2>1, <2>2, <4>1, <4>2 DEF Settled
    <3>2. CASE q = p /\ j # m + 1
      <4>1. j \in 1..m /\ j \in 1..Len(handled[p]) /\ \A i \in 1..j - 1 : i \in 1..m
        BY <1>9, <1>10, <1>11, <1>12, <3>2
      <4>2. /\ handled'[p][j] = handled[p][j]
            /\ \A i \in 1..j - 1 : handled'[p][i] = handled[p][i]
        BY <1>9, <1>11, <1>12, <4>1
      <4>3. Settled(p, j)
        BY <1>1, <4>1 DEF AllSettled
      <4>4. QED  BY <2>1, <2>2, <3>2, <4>2, <4>3 DEF Settled
    <3>3. CASE q = p /\ j = m + 1
      <4>1. /\ handled'[p][j] = e
            /\ \A i \in 1..j - 1 : i \in 1..Len(handled[p]) /\ handled'[p][i] = handled[p][i]
        BY <1>9, <1>10, <1>11, <1>12, <3>3
      <4>2. \A i \in 1..j - 1 : handled'[p][i].tx # e.tx
        BY <1>4, <1>5, <1>13, <4>1 DEF Done
      <4>3. ASSUME NEW t \in Known, Contract[t] = Contract[x], Q(t) = p,
                   NEW a \in 1..Len(chain), chain[a] = t, a < e.block
            PROVE  \E i \in 1..j - 1 : handled'[p][i] = Event(t, 1, a)
        <5>1. PICK i \in 1..Len(handled[p]) : handled[p][i].tx = t
          BY <1>15, <4>3 DEF Done
        <5>2. Settled(p, i) /\ handled[p][i] \in EventSet
          BY <1>1, <5>1 DEF AllSettled, EventQueueTypes
        <5>3. /\ handled[p][i].block \in 1..Len(chain)
              /\ chain[handled[p][i].block] = t
          BY <5>1, <5>2 DEF Settled, IsAt, EventSet
        <5>4. handled[p][i].block = a
          BY <1>1, <4>3, <5>3, KnownFacts DEF EventQueueTypes
        <5>5. handled[p][i] = Event(t, 1, a)
          BY <5>1, <5>2, <5>4 DEF Event, EventSet
        <5>6. i \in 1..j - 1
          BY <1>9, <1>10, <3>3, <5>1
        <5>7. QED  BY <4>1, <5>5, <5>6
      <4>4. IsAt(e.tx, e.block)' /\ top' - e.block >= CONFIRMATIONS
        BY <1>4, <1>13, <2>1, <2>2
      <4>5. \A t \in Known : Contract[t] = Contract[e.tx] /\ Q(t) = p =>
              \A a \in 1..Len(chain') : chain'[a] = t /\ a < e.block =>
                 \E i \in 1..j - 1 : handled'[p][i] = Event(t, 1, a)
        BY <1>4, <2>2, <4>3
      <4>6. QED  BY <3>3, <4>1, <4>2, <4>4, <4>5 DEF Settled
    <3>4. QED  BY <3>1, <3>2, <3>3
  <2>4. QED  BY <2>3 DEF AllSettled
<1>23. QED  BY <1>16, <1>17, <1>18, <1>20, <1>21, <1>22 DEF IInv

LEMMA PollAgainStep ==
  ASSUME IInv, NEW p \in Queues, HeightKnown(p), ~Confirmed(Head(jobs[p]))
  PROVE  IInv'
<1>1. EventQueueTypes /\ NoticesTimely /\ AnswersTimely /\ AllFollowed /\ AllOrdered /\ AllSettled
  BY DEF IInv
<1>2. /\ chain' = chain /\ top' = top /\ wire' = wire /\ removed' = removed
      /\ jobs' = jobs /\ handled' = handled /\ asked' = [asked EXCEPT ![p] = NotAsked]
  BY DEF HeightKnown
<1>3. /\ asked' \in [Queues -> Nat \cup {NotAsked}] /\ asked'[p] = NotAsked
      /\ \A q \in Queues : q # p => asked'[q] = asked[q]
  BY <1>1, <1>2 DEF EventQueueTypes
<1>4. EventQueueTypes' /\ NoticesTimely'
  BY <1>1, <1>2, <1>3 DEF EventQueueTypes, NoticesTimely
<1>5. AnswersTimely'
  BY <1>1, <1>2, <1>3 DEF AnswersTimely
<1>6. AllFollowed'
  BY <1>1, <1>2 DEF AllFollowed, Followed, Done, IsAt
<1>7. AllOrdered' /\ AllSettled'
  BY <1>1, <1>2 DEF AllOrdered, Ordered, AllSettled, Settled, IsAt
<1>8. QED  BY <1>4, <1>5, <1>6, <1>7 DEF IInv

-----------------------------------------------------------------------------
(***************************************************************************)
(* Deliveries.                                                             *)
(***************************************************************************)
LEMMA WireDelivered ==
  ASSUME EventQueueTypes, NEW c \in Contracts, wire[c] # <<>>,
         wire' = [wire EXCEPT ![c] = Tail(@)]
  PROVE  /\ wire[c] \in Seq(NoticeSet) /\ Head(wire[c]) \in NoticeSet
         /\ Head(wire[c]) = wire[c][1] /\ 1 \in 1..Len(wire[c])
         /\ Contract[Head(wire[c]).event.tx] = c
         /\ wire' \in [Contracts -> Seq(NoticeSet)]
         /\ wire'[c] = Tail(wire[c]) /\ \A d \in Contracts : d # c => wire'[d] = wire[d]
         /\ \A d \in Contracts : \A i \in 1..Len(wire'[d]) :
              \E k \in 1..Len(wire[d]) : wire'[d][i] = wire[d][k]
<1> DEFINE v == Tail(wire[c])
<1>1. wire[c] \in Seq(NoticeSet) /\ wire \in [Contracts -> Seq(NoticeSet)]
  BY DEF EventQueueTypes
<1>2. /\ v \in Seq(NoticeSet) /\ Len(v) = Len(wire[c]) - 1 /\ Len(wire[c]) \in Nat \ {0}
      /\ \A i \in 1..Len(wire[c]) - 1 : v[i] = wire[c][i + 1]
      /\ Head(wire[c]) = wire[c][1] /\ wire[c][1] \in NoticeSet
  BY <1>1, TailFacts
<1>3. wire' = [wire EXCEPT ![c] = v]
  OBVIOUS
<1> HIDE DEF v
<1>4. /\ wire' \in [Contracts -> Seq(NoticeSet)] /\ wire'[c] = v
      /\ \A d \in Contracts : d # c => wire'[d] = wire[d]
  BY <1>1, <1>2, <1>3
<1>5. 1 \in 1..Len(wire[c]) /\ Contract[wire[c][1].event.tx] = c
  BY <1>2 DEF EventQueueTypes
<1>6. ASSUME NEW d \in Contracts, NEW i \in 1..Len(wire'[d])
      PROVE  \E k \in 1..Len(wire[d]) : wire'[d][i] = wire[d][k]
  <2>1. CASE d # c
    BY <1>4, <2>1
  <2>2. CASE d = c
    <3>1. i \in 1..Len(wire[c]) - 1
      BY <1>2, <1>4, <2>2
    <3>2. i + 1 \in 1..Len(wire[c]) /\ wire'[c][i] = wire[c][i + 1]
      BY <1>2, <1>4, <3>1
    <3>3. QED  BY <2>2, <3>2
  <2>3. QED  BY <2>1, <2>2
<1>7. QED  BY <1>1, <1>2, <1>4, <1>5, <1>6 DEF v

LEMMA InTime ==
  ASSUME NEW height \in Nat, NEW k \in Nat, NEW sent \in Nat, NEW b \in Nat,
         k <= height, height - sent <= MaxDelay, sent - b < MaxDepth
  PROVE  k - b < MaxDepth + MaxDelay
BY TimingAssumption

LEMMA DeliverStep ==
  ASSUME IInv, NEW c \in Contracts, Deliver(c)
  PROVE  IInv'
<1>1. EventQueueTypes /\ NoticesTimely /\ AnswersTimely /\ AllFollowed /\ AllOrdered /\ AllSettled
  BY DEF IInv
<1>2. /\ wire[c] # <<>> /\ wire' = [wire EXCEPT ![c] = Tail(@)]
      /\ chain' = chain /\ top' = top /\ asked' = asked /\ handled' = handled
  BY DEF Deliver
<1>3. PICK w \in Seq(NoticeSet) : w = wire[c]
  BY <1>1 DEF EventQueueTypes
<1>4. PICK n \in NoticeSet : n = Head(w) /\ n = w[1]
  BY <1>1, <1>2, <1>3, WireDelivered
<1>5. PICK e \in EventSet : e = n.event
  BY DEF NoticeSet
<1>6. PICK x \in Transactions : x = e.tx
  BY DEF EventSet
<1>7. /\ e.block \in Nat \ {0} /\ e.index = 1 /\ n.sent \in Nat /\ n.removed \in BOOLEAN
      /\ Contract[x] = c /\ Head(w).event.tx = x /\ w # <<>> /\ 1 \in 1..Len(wire[c])
  BY <1>1, <1>2, <1>3, <1>4, <1>5, <1>6, WireDelivered DEF EventSet, NoticeSet
<1>8. queueManager(e, n.removed)
  BY <1>3, <1>4, <1>5 DEF Deliver
<1>9. /\ n.removed => removed' = [removed EXCEPT ![x] = @ + 1] /\ jobs' = jobs
      /\ ~n.removed => removed' = removed
  BY <1>6, <1>8 DEF queueManager
<1>10. HasHandler(e) <=> x \in Known
  BY <1>6, <1>7 DEF HasHandler, Known
<1>11. QueueOf(e) = Q(x)
  BY <1>6, <1>7 DEF QueueOf, Q
<1>12. ~n.removed => jobs' = IF x \in Known THEN [jobs EXCEPT ![Q(x)] = Append(@, e)] ELSE jobs
  BY <1>8, <1>10, <1>11 DEF queueManager
<1>13. /\ removed' \in [Transactions -> Nat]
       /\ \A u \in Transactions : u # x => removed'[u] = removed[u]
       /\ n.removed => removed'[x] = removed[x] + 1
       /\ ~n.removed => removed'[x] = removed[x]
  <2>1. removed \in [Transactions -> Nat] /\ removed[x] \in Nat
    BY <1>1 DEF EventQueueTypes
  <2>2. CASE n.removed
    BY <1>9, <2>1, <2>2
  <2>3. CASE ~n.removed
    BY <1>9, <2>1, <2>3
  <2>4. QED  BY <2>2, <2>3
<1>14. ASSUME ~n.removed, x \in Known
       PROVE  /\ jobs[Q(x)] \in Seq(EventSet) /\ Append(jobs[Q(x)], e) \in Seq(EventSet)
              /\ jobs' \in [Queues -> Seq(EventSet)] /\ jobs'[Q(x)] = Append(jobs[Q(x)], e)
              /\ \A q \in Queues : q # Q(x) => jobs'[q] = jobs[q]
  <2>1. Q(x) \in Queues /\ jobs \in [Queues -> Seq(EventSet)] /\ jobs[Q(x)] \in Seq(EventSet)
    BY <1>1, <1>14, KnownFacts DEF EventQueueTypes
  <2>2. Append(jobs[Q(x)], e) \in Seq(EventSet)
    BY <2>1, AppendFacts
  <2>3. jobs' = [jobs EXCEPT ![Q(x)] = Append(jobs[Q(x)], e)]
    BY <1>12, <1>14
  <2>4. QED  BY <2>1, <2>2, <2>3
<1>15. \A q \in Queues : \/ jobs'[q] = jobs[q]
                         \/ ~n.removed /\ x \in Known /\ q = Q(x) /\ jobs'[q] = Append(jobs[q], e)
  BY <1>7, <1>9, <1>12, <1>14
<1>16. /\ wire' \in [Contracts -> Seq(NoticeSet)]
       /\ wire'[c] = Tail(w) /\ \A d \in Contracts : d # c => wire'[d] = wire[d]
       /\ \A d \in Contracts : \A i \in 1..Len(wire'[d]) :
            \E k \in 1..Len(wire[d]) : wire'[d][i] = wire[d][k]
  BY <1>1, <1>2, <1>3, WireDelivered
<1>17. ASSUME NEW u \in Known, u # x
       PROVE  /\ JobPos(jobs'[Q(u)], u) = JobPos(jobs[Q(u)], u)
              /\ \A r, b \in Nat : JobsOK(jobs[Q(u)], u, r, b) => JobsOK(jobs'[Q(u)], u, r, b)
  <2>1. Q(u) \in Queues /\ jobs[Q(u)] \in Seq(EventSet)
    BY <1>1, KnownFacts DEF EventQueueTypes
  <2>2. CASE jobs'[Q(u)] = jobs[Q(u)]
    BY <2>2
  <2>3. CASE jobs'[Q(u)] = Append(jobs[Q(u)], e)
    <3>1. JobPos(Append(jobs[Q(u)], e), u) = JobPos(jobs[Q(u)], u) \cup {}
      BY <1>6, <1>17, <2>1, JobPosAppend
    <3>2. ASSUME NEW r \in Nat, NEW b \in Nat, JobsOK(jobs[Q(u)], u, r, b)
          PROVE  JobsOK(Append(jobs[Q(u)], e), u, r, b)
      <4>1. JobsOK(Append(jobs[Q(u)], e), u, r, IF e.tx = u THEN e.block ELSE b)
        BY <1>6, <1>17, <2>1, <3>2, JobsAppend
      <4>2. QED  BY <1>6, <1>17, <4>1
    <3>3. QED  BY <2>3, <3>1, <3>2
  <2>4. QED  BY <1>15, <2>1, <2>2, <2>3
<1>18. ASSUME NEW u, u # x
       PROVE  \A d \in Contracts : Pos(wire'[d], u) = {} <=> Pos(wire[d], u) = {}
  <2>1. ASSUME NEW d \in Contracts
        PROVE  Pos(wire'[d], u) = {} <=> Pos(wire[d], u) = {}
    <3>1. CASE d # c
      BY <1>16, <3>1
    <3>2. CASE d = c
      <4>1. /\ \A i \in Pos(Tail(w), u) : i + 1 \in Pos(w, u)
            /\ \A i \in Pos(w, u) : i = 1 \/ i - 1 \in Pos(Tail(w), u)
            /\ 1 \in Pos(w, u) <=> Head(w).event.tx = u
        BY <1>7, PosTail
      <4>2. 1 \notin Pos(w, u)
        BY <1>7, <1>18, <4>1
      <4>3. QED  BY <1>3, <1>16, <3>2, <4>1, <4>2
    <3>3. QED  BY <3>1, <3>2
  <2>2. QED  BY <2>1
<1>19. ASSUME x \in Known
       PROVE  \E at, a \in Nat :
                /\ ~Done(x) /\ IsAt(x, at) /\ JobsOK(jobs[Q(x)], x, removed[x], a)
                /\ IF n.removed THEN a = e.block /\ Told(Tail(w), x, at, 0)
                   ELSE a = 0 /\ Told(Tail(w), x, at, e.block)
  <2>1. 1 \in Pos(w, x) /\ Followed(x)
    BY <1>1, <1>7, <1>19, PosTail DEF AllFollowed
  <2>2. ~Done(x)
    BY <1>3, <1>7, <2>1 DEF Followed
  <2>3. PICK at \in Nat, a \in Nat :
          IsAt(x, at) /\ Told(w, x, at, a) /\ JobsOK(jobs[Q(x)], x, removed[x], a)
    BY <1>3, <1>7, <2>1, <2>2 DEF Followed
  <2>4. IF Head(w).event.tx # x THEN Told(Tail(w), x, at, a)
        ELSE IF Head(w).removed THEN a = Head(w).event.block /\ Told(Tail(w), x, at, 0)
        ELSE a = 0 /\ Told(Tail(w), x, at, Head(w).event.block)
    <3>1. w # <<>>
      BY <1>7
    <3>2. QED  BY <2>3, <3>1, ToldTail
  <2>5. QED  BY <1>4, <1>5, <1>7, <2>2, <2>3, <2>4
<1>20. EventQueueTypes'
  <2>1. jobs' \in [Queues -> Seq(EventSet)]
    BY <1>1, <1>7, <1>9, <1>12, <1>14 DEF EventQueueTypes
  <2>2. ASSUME NEW q \in Queues, NEW i \in 1..Len(jobs'[q])
        PROVE  jobs'[q][i].tx \in Known /\ Q(jobs'[q][i].tx) = q
    <3>1. CASE jobs'[q] = jobs[q]
      BY <1>1, <3>1 DEF EventQueueTypes
    <3>2. CASE x \in Known /\ q = Q(x) /\ jobs'[q] = Append(jobs[q], e)
      <4>1. /\ Len(Append(jobs[q], e)) = Len(jobs[q]) + 1 /\ Len(jobs[q]) \in Nat
            /\ \A k \in 1..Len(jobs[q]) : Append(jobs[q], e)[k] = jobs[q][k]
            /\ Append(jobs[q], e)[Len(jobs[q]) + 1] = e
        BY <1>1, AppendFacts DEF EventQueueTypes
      <4>2. CASE i = Len(jobs[q]) + 1
        BY <1>6, <3>2, <4>1, <4>2
      <4>3. CASE i # Len(jobs[q]) + 1
        <5>1. i \in 1..Len(jobs[q]) /\ jobs'[q][i] = jobs[q][i]
          BY <3>2, <4>1, <4>3
        <5>2. QED  BY <1>1, <5>1 DEF EventQueueTypes
      <4>4. QED  BY <4>2, <4>3
    <3>3. QED  BY <1>15, <3>1, <3>2
  <2>3. ASSUME NEW d \in Contracts, NEW i \in 1..Len(wire'[d])
        PROVE  Contract[wire'[d][i].event.tx] = d
    <3>1. PICK k \in 1..Len(wire[d]) : wire'[d][i] = wire[d][k]
      BY <1>16
    <3>2. QED  BY <1>1, <3>1 DEF EventQueueTypes
  <2>4. /\ wire' \in [Contracts -> Seq(NoticeSet)] /\ removed' \in [Transactions -> Nat]
    BY <1>13, <1>16
  <2>5. QED  BY <1>1, <1>2, <2>1, <2>2, <2>3, <2>4 DEF EventQueueTypes
<1>21. NoticesTimely'
  <2>1. ASSUME NEW d \in Contracts, NEW i \in 1..Len(wire'[d])
        PROVE  /\ wire'[d][i].sent <= top /\ top - wire'[d][i].sent <= MaxDelay
               /\ wire'[d][i].removed => wire'[d][i].sent - wire'[d][i].event.block < MaxDepth
    <3>1. PICK k \in 1..Len(wire[d]) : wire'[d][i] = wire[d][k]
      BY <1>16
    <3>2. QED  BY <1>1, <3>1 DEF NoticesTimely
  <2>2. QED  BY <1>2, <2>1 DEF NoticesTimely
<1>22. AnswersTimely'
  <2>1. ASSUME NEW q \in Queues, asked[q] # NotAsked
        PROVE  /\ jobs'[q] # <<>> /\ asked[q] <= top /\ top - asked[q] <= MaxDelay
               /\ removed'[Head(jobs'[q]).tx] # 0
                    => asked[q] - Head(jobs'[q]).block < MaxDepth + MaxDelay
    <3>1. jobs[q] # <<>> /\ asked[q] <= top /\ top - asked[q] <= MaxDelay
      BY <1>1, <2>1 DEF AnswersTimely
    <3>2. jobs[q] \in Seq(EventSet) /\ asked[q] \in Nat /\ top \in Nat
      BY <1>1, <2>1 DEF EventQueueTypes
    <3>3. jobs'[q] # <<>> /\ Head(jobs'[q]) = Head(jobs[q])
      BY <1>15, <3>1, <3>2
    <3>4. PICK y \in Known : y = Head(jobs[q]).tx /\ Q(y) = q
      BY <1>1, <3>1, HeadOfQueue
    <3>5. CASE removed[y] # 0
      BY <1>1, <2>1, <3>1, <3>3, <3>4, <3>5 DEF AnswersTimely
    <3>6. CASE removed'[y] = removed[y] /\ removed[y] = 0
      BY <3>1, <3>3, <3>4, <3>6
    <3>7. CASE removed'[y] # removed[y] /\ removed[y] = 0
      <4>1. y = x /\ n.removed
        BY <1>7, <1>13, <3>4, <3>7, KnownFacts
      <4>2. JobsOK(jobs[q], y, 0, e.block)
        BY <1>19, <3>4, <3>7, <4>1
      <4>3. Head(jobs[q]).block = e.block
        BY <1>7, <3>1, <3>2, <3>4, <4>2, JobsSingle
      <4>4. n.sent - e.block < MaxDepth /\ top - n.sent <= MaxDelay
        BY <1>1, <1>3, <1>4, <1>5, <1>7, <4>1 DEF NoticesTimely
      <4>5. PICK k \in Nat, b \in Nat, s \in Nat : k = asked[q] /\ b = e.block /\ s = n.sent
        BY <1>7, <3>2
      <4>6. k - b < MaxDepth + MaxDelay
        BY <3>1, <3>2, <4>4, <4>5, InTime
      <4>7. QED  BY <3>1, <3>3, <4>3, <4>5, <4>6
    <3>8. QED  BY <3>5, <3>6, <3>7
  <2>2. QED  BY <1>2, <2>1 DEF AnswersTimely
<1>23. AllFollowed'
  <2>1. ASSUME NEW u \in Known
        PROVE  Followed(u)'
    <3>1. /\ u \in Transactions /\ Contract[u] \in Contracts /\ Q(u) \in Queues /\ Followed(u)
          /\ removed[u] \in Nat
      BY <1>1, KnownFacts DEF AllFollowed, EventQueueTypes
    <3>2. /\ Done(u)' <=> Done(u)
          /\ \A b : IsAt(u, b)' <=> IsAt(u, b)
      BY <1>2 DEF Done, IsAt
    <3>3. CASE u # x /\ Done(u)
      <4>1. Pos(wire'[Contract[u]], u) = {} /\ JobPos(jobs'[Q(u)], u) = {}
        BY <1>17, <1>18, <3>1, <3>3 DEF Followed
      <4>2. QED  BY <3>2, <3>3, <4>1 DEF Followed
    <3>4. CASE u # x /\ ~Done(u)
      <4>1. PICK at \in Nat, b \in Nat : /\ IsAt(u, at) /\ Told(wire[Contract[u]], u, at, b)
                                         /\ JobsOK(jobs[Q(u)], u, removed[u], b)
        BY <3>1, <3>4 DEF Followed
      <4>2. Told(wire'[Contract[u]], u, at, b)
        <5>1. CASE Contract[u] # c
          BY <1>16, <3>1, <4>1, <5>1
        <5>2. CASE Contract[u] = c
          <6>1. Told(w, u, at, b) /\ Head(w).event.tx # u
            BY <1>3, <1>7, <3>4, <4>1, <5>2
          <6>2. Told(Tail(w), u, at, b)
            BY <1>7, <6>1, ToldTail
          <6>3. QED  BY <1>16, <5>2, <6>2
        <5>3. QED  BY <5>1, <5>2
      <4>3. JobsOK(jobs'[Q(u)], u, removed'[u], b)
        BY <1>13, <1>17, <3>1, <3>4, <4>1
      <4>4. QED  BY <3>2, <3>4, <4>1, <4>2, <4>3 DEF Followed
    <3>5. CASE u = x
      <4>1. PICK at \in Nat, a \in Nat :
              /\ ~Done(x) /\ IsAt(x, at) /\ JobsOK(jobs[Q(x)], x, removed[x], a)
              /\ IF n.removed THEN a = e.block /\ Told(Tail(w), x, at, 0)
                 ELSE a = 0 /\ Told(Tail(w), x, at, e.block)
        BY <1>19, <3>5
      <4>2. CASE n.removed
        <5>1. JobsOK(jobs[Q(x)], x, removed[x] + 1, 0)
          <6>1. jobs[Q(x)] \in Seq(EventSet) /\ removed[x] \in Nat /\ a \in Nat \ {0}
            BY <1>1, <1>7, <3>1, <3>5, <4>1, <4>2 DEF EventQueueTypes
          <6>2. QED  BY <4>1, <6>1, JobsRemoved
        <5>2. JobsOK(jobs'[Q(x)], x, removed'[x], 0) /\ Told(wire'[Contract[x]], x, at, 0)
          BY <1>7, <1>9, <1>13, <1>16, <4>1, <4>2, <5>1
        <5>3. QED  BY <3>2, <3>5, <4>1, <5>2 DEF Followed
      <4>3. CASE ~n.removed
        <5>1. JobsOK(Append(jobs[Q(x)], e), x, removed[x], e.block)
          <6>1. jobs[Q(x)] \in Seq(EventSet) /\ removed[x] \in Nat /\ a = 0
            BY <1>1, <3>1, <3>5, <4>1, <4>3 DEF EventQueueTypes
          <6>2. JobsOK(Append(jobs[Q(x)], e), x, removed[x], IF e.tx = x THEN e.block ELSE a)
            BY <4>1, <6>1, JobsAppend
          <6>3. QED  BY <1>6, <6>2
        <5>2. /\ JobsOK(jobs'[Q(x)], x, removed'[x], e.block)
              /\ Told(wire'[Contract[x]], x, at, e.block)
          BY <1>7, <1>13, <1>14, <1>16, <3>5, <4>1, <4>3, <5>1
        <5>3. QED  BY <1>7, <3>2, <3>5, <4>1, <5>2 DEF Followed
      <4>4. QED  BY <4>2, <4>3
    <3>6. QED  BY <3>3, <3>4, <3>5
  <2>2. QED  BY <2>1 DEF AllFollowed
<1>24. AllOrdered'
  <2>1. ASSUME NEW t \in Known, NEW u \in Known, Contract[t] = Contract[u], Q(t) = Q(u),
               NEW a \in 1..Len(chain), NEW b \in 1..Len(chain),
               chain[a] = t, chain[b] = u, a < b
        PROVE  /\ Later(Pos(wire'[Contract[u]], t), Pos(wire'[Contract[u]], u))
               /\ Pos(wire'[Contract[u]], u) = {}
                    => Later(JobPos(jobs'[Q(u)], t), JobPos(jobs'[Q(u)], u))
    <3>1. /\ Later(Pos(wire[Contract[u]], t), Pos(wire[Contract[u]], u))
          /\ Pos(wire[Contract[u]], u) = {} => Later(JobPos(jobs[Q(u)], t), JobPos(jobs[Q(u)], u))
      BY <1>1, <2>1 DEF AllOrdered, Ordered
    <3>2. Contract[u] \in Contracts /\ u # None /\ t # None /\ Q(u) \in Queues
      BY KnownFacts
    <3>3. Later(Pos(wire'[Contract[u]], t), Pos(wire'[Contract[u]], u))
      <4>1. CASE Contract[u] # c
        BY <1>16, <3>1, <3>2, <4>1
      <4>2. CASE Contract[u] = c
        BY <1>3, <1>7, <1>16, <3>1, <4>2, LaterTail
      <4>3. QED  BY <4>1, <4>2
    <3>4. ASSUME Pos(wire'[Contract[u]], u) = {}
          PROVE  Later(JobPos(jobs'[Q(u)], t), JobPos(jobs'[Q(u)], u))
      <4>1. CASE t # x /\ u # x
        <5>1. Pos(wire[Contract[u]], u) = {}
          BY <1>18, <3>2, <3>4, <4>1
        <5>2. /\ JobPos(jobs'[Q(u)], t) = JobPos(jobs[Q(u)], t)
              /\ JobPos(jobs'[Q(u)], u) = JobPos(jobs[Q(u)], u)
          BY <1>17, <2>1, <4>1
        <5>3. QED  BY <3>1, <5>1, <5>2
      <4>2. CASE t = x /\ u # x
        <5>1. 1 \in Pos(w, t)
          BY <1>7, <4>2, PosTail
        <5>2. Pos(w, u) # {} /\ Contract[u] = c
          BY <1>3, <1>7, <2>1, <3>1, <4>2, <5>1 DEF Later
        <5>3. QED  BY <1>3, <1>18, <3>2, <3>4, <4>2, <5>2
      <4>3. CASE u = x
        <5>1. PICK at \in Nat : /\ IsAt(x, at)
                                /\ IF n.removed THEN Told(Tail(w), x, at, 0)
                                   ELSE Told(Tail(w), x, at, e.block)
          BY <1>19, <4>3
        <5>2. at # 0
          BY <2>1, <4>3, <5>1 DEF IsAt
        <5>3. Tail(w) \in Seq(NoticeSet) /\ Pos(Tail(w), x) = {}
          BY <1>7, <1>16, <3>4, <4>3, TailFacts
        <5>4. ~n.removed
          <6>1. ASSUME Told(Tail(w), x, at, 0) PROVE FALSE
            <7>1. PICK v \in Seq(NoticeSet) : v = Tail(w)
              BY <5>3
            <7>2. Told(v, x, at, 0) /\ Pos(v, x) = {}
              BY <5>3, <6>1, <7>1
            <7>3. 0 = at
              BY <7>2, ToldQuiet
            <7>4. QED  BY <5>2, <7>3
          <6>2. QED  BY <5>1, <6>1
        <5>5. PICK s \in Seq(EventSet) : s = jobs[Q(x)]
          BY <1>14, <4>3, <5>4
        <5>6. jobs'[Q(x)] = Append(s, e)
          BY <1>14, <4>3, <5>4, <5>5
        <5>7. t # x
          BY <1>1, <2>1, <3>2, <4>3 DEF EventQueueTypes
        <5>8. /\ JobPos(Append(s, e), t) = JobPos(s, t) \cup {}
              /\ JobPos(Append(s, e), x) = JobPos(s, x) \cup {Len(s) + 1}
          BY <1>6, <5>7, JobPosAppend
        <5>9. \A i \in JobPos(s, t) : i < Len(s) + 1
          BY DEF JobPos
        <5>10. QED  BY <4>3, <5>6, <5>8, <5>9 DEF Later
      <4>4. QED  BY <4>1, <4>2, <4>3
    <3>5. QED  BY <3>3, <3>4
  <2>2. QED  BY <1>2, <2>1 DEF AllOrdered, Ordered
<1>25. AllSettled'
  <2>1. \A t, b : IsAt(t, b)' <=> IsAt(t, b)
    BY <1>2 DEF IsAt
  <2>2. chain' = chain /\ top' = top /\ handled' = handled
    BY <1>2
  <2>3. QED  BY <1>1, <2>1, <2>2 DEF AllSettled, Settled
<1>26. QED  BY <1>20, <1>21, <1>22, <1>23, <1>24, <1>25 DEF IInv

-----------------------------------------------------------------------------
(***************************************************************************)
(* What the queues promise.                                                *)
(***************************************************************************)
LEMMA NextStep ==
  ASSUME OneEvent, IInv, [Next]_vars
  PROVE  IInv'
<1>1. CASE MineSome
  BY <1>1, MineStep DEF MineSome
<1>2. CASE Reorganise
  BY <1>2, ReorganiseStep
<1>3. CASE DeliverSome
  BY <1>3, DeliverStep DEF DeliverSome
<1>4. CASE unpauseQueue \/ UNCHANGED vars
  BY <1>4, UnpauseStep
<1>5. ASSUME NEW p \in Queues, Poll(p)
      PROVE  IInv'
  <2>1. CASE Reject(p)
    BY <2>1, RejectStep
  <2>2. CASE AskHeight(p)
    BY <2>2, AskStep
  <2>3. CASE HeightKnown(p)
    BY <2>3, HandleStep, PollAgainStep
  <2>4. QED  BY <1>5, <2>1, <2>2, <2>3 DEF Poll
<1>6. QED  BY <1>1, <1>2, <1>3, <1>4, <1>5 DEF Next

(* An event on the chain that has a handler.                               *)
LEMMA EventFacts ==
  ASSUME OneEvent, EventQueueTypes, NEW e \in EventsOnChain
  PROVE  /\ e.block \in 1..Len(chain) /\ chain[e.block] = e.tx
         /\ e.tx \in Known /\ QueueOf(e) = Q(e.tx) /\ e.index = 1
         /\ e = Event(e.tx, 1, e.block)
<1>1. chain \in Seq(Transactions \cup {None}) /\ DOMAIN chain = 1..Len(chain)
  BY DEF EventQueueTypes
<1>2. PICK b \in 1..Len(chain) : chain[b] # None /\ e \in {Event(chain[b], k, b) : k \in DOMAIN Events[chain[b]]}
  BY <1>1 DEF EventsOnChain
<1>3. chain[b] \in Transactions
  BY <1>1, <1>2
<1>4. e = Event(chain[b], 1, b)
  BY <1>2, <1>3 DEF OneEvent
<1>5. e.tx = chain[b] /\ e.index = 1 /\ e.block = b
  BY <1>4 DEF Event
<1>6. HasHandler(e)
  BY DEF EventsOnChain
<1>7. e.tx \in Known /\ QueueOf(e) = Q(e.tx)
  BY <1>3, <1>5, <1>6 DEF HasHandler, Known, QueueOf, Q
<1>8. QED  BY <1>4, <1>5, <1>7

LEMMA Promise ==
  ASSUME OneEvent, IInv
  PROVE  HandledFollowsChain
<1>1. EventQueueTypes /\ AllSettled
  BY DEF IInv
<1>2. ASSUME NEW p \in Queues, NEW j \in 1..Len(handled[p])
      PROVE  /\ handled[p][j] \in EventSet /\ Settled(p, j)
             /\ handled[p][j].tx \in Known /\ handled[p][j].tx # None
             /\ QueueOf(handled[p][j]) = p /\ handled[p][j].index = 1
             /\ handled[p][j].block \in 1..Len(chain)
             /\ chain[handled[p][j].block] = handled[p][j].tx
  <2> DEFINE f == handled[p][j]
  <2>1. f \in EventSet /\ Settled(p, j) /\ f.tx \in Known /\ Q(f.tx) = p
    BY <1>1 DEF EventQueueTypes, AllSettled
  <2>2. f.index = 1 /\ f.block \in Nat \ {0} /\ IsAt(f.tx, f.block)
    BY <2>1 DEF EventSet, Settled
  <2> HIDE DEF f
  <2>3. QueueOf(f) = p /\ f.tx # None /\ f.block \in 1..Len(chain) /\ chain[f.block] = f.tx
    BY <2>1, <2>2, KnownFacts DEF QueueOf, Q, IsAt
  <2>4. QED  BY <2>1, <2>2, <2>3 DEF f
<1>3. ASSUME NEW p \in Queues, NEW j \in 1..Len(handled[p])
      PROVE  /\ OnChain(handled[p][j])
             /\ \A i \in 1..j - 1 :
                  handled[p][i] # handled[p][j] /\ ~Before(handled[p][j], handled[p][i])
             /\ \A e \in EventsOnChain :
                  Before(e, handled[p][j]) => \E i \in 1..j - 1 : handled[p][i] = e
  <2> DEFINE f == handled[p][j]
  <2>1. /\ f \in EventSet /\ Settled(p, j) /\ f.tx \in Known /\ f.tx # None
        /\ QueueOf(f) = p /\ f.index = 1
        /\ f.block \in 1..Len(chain) /\ chain[f.block] = f.tx
    BY <1>2
  <2>2. OnChain(f)
    BY <1>1, <2>1 DEF OnChain, EventQueueTypes
  <2>3. ASSUME NEW i \in 1..j - 1
        PROVE  handled[p][i] # f /\ ~Before(f, handled[p][i])
    <3> DEFINE g == handled[p][i]
    <3>1. i \in 1..Len(handled[p]) /\ j \in Nat
      BY <1>1 DEF EventQueueTypes
    <3>2. /\ g \in EventSet /\ Settled(p, i) /\ g.tx \in Known /\ g.index = 1
          /\ g.block \in 1..Len(chain) /\ chain[g.block] = g.tx
      BY <1>2, <3>1
    <3>3. g.tx # f.tx
      BY <2>1 DEF Settled
    <3>4. ASSUME Before(f, g) PROVE FALSE
      <4>1. Contract[f.tx] = Contract[g.tx] /\ f.block < g.block /\ Q(f.tx) = p
        BY <2>1, <3>2, <3>4 DEF Before, QueueOf, Q
      <4>2. PICK k \in 1..i - 1 : handled[p][k] = Event(f.tx, 1, f.block)
        BY <2>1, <3>2, <4>1 DEF Settled
      <4>3. handled[p][k].tx = f.tx
        BY <4>2 DEF Event
      <4>4. k \in 1..j - 1
        BY <3>1, <4>2
      <4>5. QED  BY <2>1, <4>3, <4>4 DEF Settled
    <3>5. QED  BY <3>3, <3>4
  <2>4. ASSUME NEW e \in EventsOnChain, Before(e, f)
        PROVE  \E i \in 1..j - 1 : handled[p][i] = e
    <3>1. /\ e.block \in 1..Len(chain) /\ chain[e.block] = e.tx
          /\ e.tx \in Known /\ QueueOf(e) = Q(e.tx) /\ e.index = 1
          /\ e = Event(e.tx, 1, e.block)
      BY <1>1, EventFacts
    <3>2. Contract[e.tx] = Contract[f.tx] /\ e.block < f.block /\ Q(e.tx) = p
      BY <2>1, <2>4, <3>1 DEF Before
    <3>3. QED  BY <2>1, <3>1, <3>2 DEF Settled
  <2>5. QED  BY <2>2, <2>3, <2>4
<1>4. \A p \in Queues : DOMAIN handled[p] = 1..Len(handled[p])
  BY <1>1 DEF EventQueueTypes
<1>5. QED  BY <1>3, <1>4 DEF HandledFollowsChain

(* Whatever is reorganised away and however late notifications are, what a *)
(* queue has handled of a contract's events are the first of them on the   *)
(* chain, in order (queueManager, waitForConfirmation), when every         *)
(* transaction emits one event.                                            *)
THEOREM HandledInOrder ==
  ASSUME OneEvent
  PROVE  Spec => []HandledFollowsChain
<1>1. Init => IInv
  BY InitStep
<1>2. IInv /\ [Next]_vars => IInv'
  BY NextStep
<1>3. IInv => HandledFollowsChain
  BY Promise
<1>4. QED  BY <1>1, <1>2, <1>3, PTL DEF Spec

-----------------------------------------------------------------------------

(***************************************************************************)
(* Types, whatever a transaction emits.                                    *)
(***************************************************************************)
AnyEvent == [tx : Transactions, index : Nat, block : Nat]
AnyNotice == [event : AnyEvent, removed : BOOLEAN, sent : Nat]

Types ==
  /\ TypeOK /\ top \in Nat
  /\ wire \in [Contracts -> Seq(AnyNotice)]
  /\ jobs \in [Queues -> Seq(AnyEvent)]

LEMMA EmitTypes ==
  ASSUME Types, NEW t \in Transactions \cup {None}, NEW b \in Nat, NEW gone \in BOOLEAN,
         NEW height \in Nat
  PROVE  Emit(t, b, gone, height) \in [Contracts -> Seq(AnyNotice)]
<1> DEFINE n(k) == [event |-> Event(t, k, b), removed |-> gone, sent |-> height]
<1>1. CASE t = None
  BY <1>1 DEF Emit, Types
<1>2. CASE t # None
  <2>1. t \in Transactions /\ Events[t] \in Seq(STRING)
    BY <1>2, TransactionsAssumption
  <2>2. DOMAIN Events[t] = 1..Len(Events[t]) /\ Len(Events[t]) \in Nat
    BY <2>1
  <2>3. \A k \in DOMAIN Events[t] : n(k) \in AnyNotice
    BY <2>1, <2>2 DEF AnyNotice, AnyEvent, Event
  <2> HIDE DEF n
  <2>4. [k \in DOMAIN Events[t] |-> n(k)] \in Seq(AnyNotice)
    BY <2>2, <2>3
  <2>5. \A c \in Contracts : wire[c] \in Seq(AnyNotice)
    BY DEF Types
  <2>6. \A c \in Contracts : wire[c] \o [k \in DOMAIN Events[t] |-> n(k)] \in Seq(AnyNotice)
    BY <2>4, <2>5
  <2>7. QED  BY <1>2, <2>5, <2>6 DEF Emit, n
<1>3. QED  BY <1>1, <1>2

LEMMA MineTypes ==
  ASSUME Types, NEW t \in Transactions \cup {None}, Mine(t)
  PROVE  Types'
<1> DEFINE S == Transactions \cup {None}
<1>0. PICK b : b = Len(chain) + 1
  OBVIOUS
<1>a. PICK height : height = IF b > top THEN b ELSE top
  OBVIOUS
<1>1. /\ b <= MaxHeight /\ chain' = Append(chain, t) /\ top' = height
      /\ wire' = Emit(t, b, FALSE, height)
      /\ t # None => t \notin ToSet(chain)
      /\ UNCHANGED <<reorgs, removed, jobs, autostart, asked, handled>>
  BY <1>0, <1>a DEF Mine
<1>2. /\ chain \in Seq(S) /\ Len(chain) \in Nat /\ DOMAIN chain = 1..Len(chain)
      /\ top \in Nat /\ Len(chain) <= top /\ top <= MaxHeight /\ MaxHeight \in Nat
  BY TimingAssumption DEF Types, TypeOK
<1>3. /\ b \in Nat /\ height \in Nat /\ b <= height /\ height <= MaxHeight
  BY <1>0, <1>a, <1>1, <1>2
<1>4. wire' \in [Contracts -> Seq(AnyNotice)]
  BY <1>1, <1>3, EmitTypes
<1>5. /\ chain' \in Seq(S) /\ Len(chain') = b /\ DOMAIN chain' = 1..b /\ chain'[b] = t
      /\ \A i \in 1..Len(chain) : chain'[i] = chain[i]
  BY <1>0, <1>1, <1>2
<1>6. \A i, j \in DOMAIN chain' : chain'[i] = chain'[j] => i = j \/ chain'[i] = None
  <2>1. \A i, j \in 1..Len(chain) : chain[i] = chain[j] => i = j \/ chain[i] = None
    BY <1>2 DEF Types, TypeOK
  <2>2. t # None => \A i \in 1..Len(chain) : chain[i] # t
    <3>1. t # None => t \notin ToSet(chain)
      BY <1>1
    <3>2. QED  BY <1>2, <3>1 DEF ToSet
  <2>3. \A i \in 1..b : i \in 1..Len(chain) \/ i = b
    BY <1>0, <1>2
  <2>4. QED  BY <1>5, <2>1, <2>2, <2>3
<1>7. top' <= MaxHeight /\ Len(chain') <= top' /\ top' \in Nat
  BY <1>1, <1>3, <1>5
<1>8. QED  BY <1>1, <1>4, <1>5, <1>6, <1>7 DEF Types, TypeOK, QueueOf

LEMMA ReorganiseTypes ==
  ASSUME Types, Reorganise
  PROVE  Types'
<1> DEFINE b == Len(chain)
           S == Transactions \cup {None}
<1>1. /\ chain # <<>> /\ reorgs < MaxReorgs /\ chain' = Front(chain) /\ reorgs' = reorgs + 1
      /\ wire' = Emit(chain[b], b, TRUE, top)
      /\ UNCHANGED <<top, removed, jobs, autostart, asked, handled>>
  BY DEF Reorganise
<1>2. /\ chain \in Seq(S) /\ b \in Nat \ {0} /\ DOMAIN chain = 1..b
      /\ top \in Nat /\ b <= top
  BY <1>1 DEF Types, TypeOK
<1>3. wire' \in [Contracts -> Seq(AnyNotice)]
  <2>1. chain[b] \in S /\ b \in Nat
    BY <1>2
  <2> HIDE DEF b
  <2>2. QED  BY <1>1, <1>2, <2>1, EmitTypes
<1>4. /\ chain' \in Seq(S) /\ Len(chain') = b - 1 /\ DOMAIN chain' = 1..b - 1
      /\ \A i \in 1..b - 1 : chain'[i] = chain[i]
  BY <1>1, <1>2 DEF Front
<1>5. \A i, j \in DOMAIN chain' : chain'[i] = chain'[j] => i = j \/ chain'[i] = None
  <2>1. \A i \in 1..b - 1 : i \in DOMAIN chain
    BY <1>2
  <2>2. QED  BY <1>4, <2>1 DEF Types, TypeOK
<1>6. Len(chain') <= top' /\ top' <= MaxHeight /\ reorgs' \in 0..MaxReorgs
  BY <1>1, <1>2, <1>4, TimingAssumption DEF Types, TypeOK
<1>7. QED  BY <1>1, <1>2, <1>3, <1>4, <1>5, <1>6 DEF Types, TypeOK, QueueOf

(* The first job of a queue goes.                                          *)
LEMMA FinishTypes ==
  ASSUME Types, NEW p \in Queues, jobs[p] # <<>>, FinishJob(p)
  PROVE  /\ jobs' \in [Queues -> Seq(AnyEvent)]
         /\ \A q \in Queues : \A i \in DOMAIN jobs'[q] :
              jobs'[q][i].tx \in Transactions /\ QueueOf(jobs'[q][i]) = q
<1> DEFINE v == Tail(jobs[p])
<1>1. jobs \in [Queues -> Seq(AnyEvent)] /\ jobs[p] \in Seq(AnyEvent)
  BY DEF Types
<1>2. /\ v \in Seq(AnyEvent) /\ Len(v) = Len(jobs[p]) - 1 /\ Len(jobs[p]) \in Nat \ {0}
      /\ \A i \in 1..Len(jobs[p]) - 1 : v[i] = jobs[p][i + 1]
  BY <1>1, TailFacts
<1>3. DOMAIN v = 1..Len(jobs[p]) - 1 /\ DOMAIN jobs[p] = 1..Len(jobs[p])
  BY <1>1, <1>2
<1>4. jobs' = [jobs EXCEPT ![p] = v]
  BY DEF FinishJob
<1> HIDE DEF v
<1>5. jobs'[p] = v /\ (\A q \in Queues : q # p => jobs'[q] = jobs[q])
      /\ jobs' \in [Queues -> Seq(AnyEvent)]
  BY <1>1, <1>2, <1>4
<1>6. ASSUME NEW q \in Queues, NEW i \in DOMAIN jobs'[q]
      PROVE  jobs'[q][i].tx \in Transactions /\ QueueOf(jobs'[q][i]) = q
  <2>1. CASE q # p
    BY <1>5, <1>6, <2>1 DEF Types, TypeOK
  <2>2. CASE q = p
    <3>1. i \in 1..Len(jobs[p]) - 1
      BY <1>3, <1>5, <1>6, <2>2
    <3>2. i + 1 \in DOMAIN jobs[p] /\ jobs'[q][i] = jobs[p][i + 1]
      BY <1>2, <1>3, <1>5, <2>2, <3>1
    <3>3. QED  BY <2>2, <3>2 DEF Types, TypeOK
  <2>3. QED  BY <2>1, <2>2
<1>7. QED  BY <1>5, <1>6

LEMMA DeliverTypes ==
  ASSUME Types, NEW c \in Contracts, Deliver(c)
  PROVE  Types'
<1>1. PICK n : n = Head(wire[c])
  OBVIOUS
<1>2. PICK e : e = n.event
  OBVIOUS
<1>3. /\ wire[c] # <<>> /\ wire' = [wire EXCEPT ![c] = Tail(@)]
      /\ UNCHANGED <<chain, top, reorgs, autostart, asked, handled>>
  BY DEF Deliver
<1>4. IF n.removed THEN removed' = [removed EXCEPT ![e.tx] = @ + 1] /\ jobs' = jobs
      ELSE /\ jobs' = IF HasHandler(e) THEN [jobs EXCEPT ![QueueOf(e)] = Append(@, e)] ELSE jobs
           /\ removed' = removed
  BY <1>1, <1>2 DEF Deliver, queueManager
<1>5. wire \in [Contracts -> Seq(AnyNotice)] /\ wire[c] \in Seq(AnyNotice)
  BY DEF Types
<1>6. n \in AnyNotice /\ Tail(wire[c]) \in Seq(AnyNotice)
  BY <1>1, <1>3, <1>5, TailFacts
<1>7. e \in AnyEvent /\ e.tx \in Transactions
  BY <1>2, <1>6 DEF AnyNotice, AnyEvent
<1>8. wire' \in [Contracts -> Seq(AnyNotice)]
  BY <1>3, <1>5, <1>6
<1>9. removed \in [Transactions -> Nat] /\ jobs \in [Queues -> Seq(AnyEvent)]
  BY DEF Types, TypeOK
<1>10. removed' \in [Transactions -> Nat]
  <2>1. CASE n.removed
    <3>1. removed' = [removed EXCEPT ![e.tx] = @ + 1] /\ removed[e.tx] \in Nat
      BY <1>4, <1>7, <1>9, <2>1
    <3>2. QED  BY <1>7, <1>9, <3>1
  <2>2. CASE ~ n.removed
    BY <1>4, <1>9, <2>2
  <2>3. QED  BY <2>1, <2>2
<1>11. /\ jobs' \in [Queues -> Seq(AnyEvent)]
       /\ \A q \in Queues : jobs'[q] = jobs[q] \/ (q = QueueOf(e) /\ jobs'[q] = Append(jobs[q], e))
  <2>1. CASE jobs' = jobs
    BY <1>9, <2>1
  <2>2. PICK p : p = QueueOf(e)
    OBVIOUS
  <2>3. CASE jobs' = [jobs EXCEPT ![p] = Append(@, e)]
    <3>1. \A q \in Queues : Append(jobs[q], e) \in Seq(AnyEvent)
      BY <1>7, <1>9
    <3>2. \A q \in Queues : jobs'[q] = IF q = p THEN Append(jobs[q], e) ELSE jobs[q]
      BY <1>9, <2>3
    <3>3. jobs' \in [Queues -> Seq(AnyEvent)]
      BY <1>9, <2>3, <3>1
    <3>4. QED  BY <2>2, <3>2, <3>3
  <2>4. QED  BY <1>4, <2>1, <2>2, <2>3
<1>12. ASSUME NEW q \in Queues, NEW i \in DOMAIN jobs'[q]
       PROVE  jobs'[q][i].tx \in Transactions /\ QueueOf(jobs'[q][i]) = q
  <2>1. CASE jobs'[q] = jobs[q]
    BY <1>12, <2>1 DEF Types, TypeOK
  <2>2. CASE q = QueueOf(e) /\ jobs'[q] = Append(jobs[q], e)
    <3>1. jobs[q] \in Seq(AnyEvent) /\ Len(jobs[q]) \in Nat
      BY <1>9
    <3>2. (i \in DOMAIN jobs[q] /\ jobs'[q][i] = jobs[q][i]) \/ jobs'[q][i] = e
      BY <1>7, <1>12, <2>2, <3>1
    <3>3. QED  BY <1>7, <2>2, <3>2 DEF Types, TypeOK
  <2>3. QED  BY <1>11, <2>1, <2>2
<1>13. QED  BY <1>3, <1>8, <1>10, <1>11, <1>12 DEF Types, TypeOK, QueueOf

LEMMA PollTypes ==
  ASSUME Types, NEW p \in Queues, Poll(p)
  PROVE  Types'
<1>1. jobs[p] # <<>> /\ UNCHANGED <<chain, top, reorgs, wire, autostart>>
  BY DEF Poll, Reject, AskHeight, HeightKnown, Waiting
<1>2. /\ jobs' \in [Queues -> Seq(AnyEvent)]
      /\ \A q \in Queues : \A i \in DOMAIN jobs'[q] :
           jobs'[q][i].tx \in Transactions /\ QueueOf(jobs'[q][i]) = q
  <2>1. jobs' = jobs \/ FinishJob(p)
    BY DEF Poll, Reject, AskHeight, HeightKnown
  <2>2. CASE jobs' = jobs
    BY <2>2 DEF Types, TypeOK, QueueOf
  <2>3. QED  BY <1>1, <2>1, <2>2, FinishTypes
<1>3. removed' \in [Transactions -> Nat]
  <2>1. removed \in [Transactions -> Nat]
    BY DEF Types, TypeOK
  <2>2. CASE removed' = removed
    BY <2>1, <2>2
  <2>3. CASE Reject(p)
    <3>1. PICK t : t = Head(jobs[p]).tx
      OBVIOUS
    <3>2. removed[t] > 0 /\ removed' = [removed EXCEPT ![t] = @ - 1]
      BY <2>3, <3>1 DEF Reject, Counted
    <3>3. \A u \in Transactions : removed'[u] \in Nat
      BY <2>1, <3>2
    <3>4. removed' \in [Transactions -> {removed'[u] : u \in Transactions}]
      BY <2>1, <3>2
    <3>5. QED  BY <3>3, <3>4
  <2>4. QED  BY <2>2, <2>3 DEF Poll, AskHeight, HeightKnown
<1>4. QED  BY <1>1, <1>2, <1>3 DEF Types, TypeOK, QueueOf

LEMMA NextTypes == Types /\ [Next]_vars => Types'
<1> SUFFICES ASSUME Types, [Next]_vars PROVE Types'
  OBVIOUS
<1>1. CASE MineSome
  BY <1>1, MineTypes DEF MineSome
<1>2. CASE Reorganise
  BY <1>2, ReorganiseTypes
<1>3. CASE DeliverSome
  BY <1>3, DeliverTypes DEF DeliverSome
<1>4. CASE unpauseQueue
  BY <1>4 DEF unpauseQueue, Types, TypeOK, QueueOf
<1>5. ASSUME NEW p \in Queues, Poll(p) PROVE Types'
  BY <1>5, PollTypes
<1>6. CASE UNCHANGED vars
  BY <1>6 DEF vars, Types, TypeOK, QueueOf
<1>7. QED  BY <1>1, <1>2, <1>3, <1>4, <1>5, <1>6 DEF Next

(* Also where a transaction emits several events: a job waits in the queue *)
(* of its event, no transaction is twice on the chain, and the removals of *)
(* a transaction never are fewer than the jobs rejected for them           *)
(* (queueManager, waitForConfirmation).                                    *)
THEOREM TypesKept == Spec => []TypeOK
<1>1. Init => Types
  <2> SUFFICES ASSUME Init PROVE Types
    OBVIOUS
  <2>1. /\ chain = <<>> /\ Len(chain) = 0 /\ DOMAIN chain = {} /\ top = 0 /\ reorgs = 0
        /\ \A p \in Queues : jobs[p] = <<>> /\ DOMAIN jobs[p] = {}
    BY DEF Init
  <2>a. <<>> \in Seq(AnyNotice) /\ <<>> \in Seq(AnyEvent)
    OBVIOUS
  <2>2. /\ wire \in [Contracts -> Seq(AnyNotice)] /\ jobs \in [Queues -> Seq(AnyEvent)]
        /\ removed \in [Transactions -> Nat] /\ autostart \in BOOLEAN
    BY <2>a DEF Init
  <2>3. chain \in Seq(Transactions \cup {None}) /\ 0 <= MaxHeight /\ 0 \in 0..MaxReorgs
    BY <2>1, TimingAssumption
  <2>4. QED  BY <2>1, <2>2, <2>3 DEF Types, TypeOK
<1>2. Types => TypeOK
  BY DEF Types
<1>3. QED  BY <1>1, <1>2, NextTypes, PTL DEF Spec
=============================================================================
