----------------------------- MODULE RingProof -----------------------------
(***************************************************************************)
(* The list of proposers, for any number of them, any stakes and any       *)
(* parameters of the rotation: however proposers register, leave, are      *)
(* expelled and take turns, the list stays linked both ways, the copy of   *)
(* the current proposer's entry has the links of the list, and what the    *)
(* contracts store keeps its types.  With that the ledger of stakes is     *)
(* followed from call to call: what is locked for whom, and who owns the   *)
(* ether the contract holds.                                               *)
(***************************************************************************)
EXTENDS RollupProof, FoldLemmas

Addr   == Proposer \cup {NoAddress}
Linked == [thisAddress : Addr, previousAddress : Addr, nextAddress : Addr,
           inProposerSet : BOOLEAN, indexProposerSet : Nat]

Listed(links) == {p \in Proposer : links[p].thisAddress = p}

(* The entries are those of doubly linked circular lists, or empty.        *)
List(links) ==
  /\ links \in [Addr -> Linked]
  /\ \A a \in Addr : /\ links[a].thisAddress \in {a, NoAddress}
                     /\ links[a].thisAddress = NoAddress
                          => /\ links[a].nextAddress = NoAddress
                             /\ links[a].previousAddress = NoAddress
  /\ \A p \in Listed(links) :
       /\ links[p].nextAddress \in Listed(links)
       /\ links[p].previousAddress \in Listed(links)
       /\ links[links[p].nextAddress].previousAddress = p
       /\ links[links[p].previousAddress].nextAddress = p

(* What one entry has in common with another, or with a copy of it.        *)
SameLinks(entry, other) == /\ entry.thisAddress = other.thisAddress
                           /\ entry.nextAddress = other.nextAddress
                           /\ entry.previousAddress = other.previousAddress

AgreesWith(copy, links) ==
  copy \in Linked /\ SameLinks(copy, links[copy.thisAddress])

-----------------------------------------------------------------------------
LEMMA AddrFacts ==
  /\ Proposer \subseteq Addr /\ NoAddress \in Addr /\ NoAddress \notin Proposer
  /\ BootProposer \in Addr
  /\ EmptyAddress \in Linked
  /\ EmptyAddress.thisAddress = NoAddress
  /\ EmptyAddress.nextAddress = NoAddress
  /\ EmptyAddress.previousAddress = NoAddress
BY AddressAssumption DEF Addr, EmptyAddress, Linked

LEMMA LinkedFields ==
  ASSUME NEW e \in Linked
  PROVE  e.thisAddress \in Addr /\ e.nextAddress \in Addr /\ e.previousAddress \in Addr
BY DEF Linked

(* Any entry of the list is a copy that agrees with the list.              *)
LEMMA EntryAgrees ==
  ASSUME NEW links, List(links), NEW a \in Addr
  PROVE  AgreesWith(links[a], links)
<1>1. links[a] \in Linked /\ links[a].thisAddress \in {a, NoAddress}
  BY DEF List
<1>2. CASE links[a].thisAddress = a
  BY <1>1, <1>2 DEF AgreesWith, SameLinks
<1>3. CASE links[a].thisAddress = NoAddress
  BY <1>1, <1>3, AddrFacts DEF AgreesWith, SameLinks, List
<1>4. QED BY <1>1, <1>2, <1>3

(* Lists that differ in their other fields only.                           *)
LEMMA SameLinksList ==
  ASSUME NEW links, List(links), NEW new \in [Addr -> Linked],
         \A a \in Addr : SameLinks(new[a], links[a])
  PROVE  /\ List(new)
         /\ \A copy : AgreesWith(copy, links) => AgreesWith(copy, new)
<1>1. Listed(new) = Listed(links)
  BY AddrFacts DEF Listed, SameLinks
<1>2. List(new)
  <2>1. \A p \in Listed(links) :
           /\ p \in Addr /\ links[p].nextAddress \in Addr
           /\ links[p].previousAddress \in Addr
    BY AddrFacts DEF Listed, List
  <2>2. \A p \in Listed(links) :
           /\ new[p].nextAddress \in Listed(new)
           /\ new[p].previousAddress \in Listed(new)
           /\ new[new[p].nextAddress].previousAddress = p
           /\ new[new[p].previousAddress].nextAddress = p
    BY <1>1, <2>1 DEF List, SameLinks
  <2>3. QED BY <1>1, <2>2 DEF List, SameLinks
<1>3. ASSUME NEW copy, AgreesWith(copy, links) PROVE AgreesWith(copy, new)
  <2>1. copy.thisAddress \in Addr
    BY <1>3, LinkedFields DEF AgreesWith
  <2>2. QED BY <1>3, <2>1 DEF AgreesWith, SameLinks
<1>4. QED BY <1>2, <1>3

-----------------------------------------------------------------------------
(* Taking p out: its neighbours are linked to each other.                  *)
TakenOut(links, p) == Unlinked([links EXCEPT ![p] = EmptyAddress],
                               links[p].previousAddress, links[p].nextAddress)

Emptied(links, p) == [links EXCEPT ![p] = EmptyAddress]

TakenOutIs(new, without, previous, next) ==
  /\ new \in [Addr -> Linked]
  /\ \A a \in Addr :
       /\ new[a].thisAddress = without[a].thisAddress
       /\ new[a].nextAddress =
            IF a = previous THEN without[next].thisAddress ELSE without[a].nextAddress
       /\ new[a].previousAddress =
            IF a = next THEN without[previous].thisAddress ELSE without[a].previousAddress

LEMMA TakenOutFields ==
  ASSUME NEW links \in [Addr -> Linked], NEW p \in Addr
  PROVE  TakenOutIs(TakenOut(links, p), Emptied(links, p),
                    links[p].previousAddress, links[p].nextAddress)
<1> DEFINE previous == links[p].previousAddress
           next     == links[p].nextAddress
           without  == Emptied(links, p)
           forward  == [without EXCEPT ![previous].nextAddress = without[next].thisAddress]
           back     == [forward EXCEPT ![next].previousAddress = forward[previous].thisAddress]
<1>1. without \in [Addr -> Linked] /\ previous \in Addr /\ next \in Addr
  BY AddrFacts, LinkedFields DEF Emptied
<1>2. TakenOut(links, p) = back
  BY DEF TakenOut, Unlinked, Emptied
<1> HIDE DEF without, previous, next
<1>3. /\ forward \in [Addr -> Linked]
      /\ \A a \in Addr :
           /\ forward[a].thisAddress = without[a].thisAddress
           /\ forward[a].previousAddress = without[a].previousAddress
           /\ forward[a].nextAddress =
                   IF a = previous THEN without[next].thisAddress
                                   ELSE without[a].nextAddress
  BY <1>1 DEF Linked
<1> HIDE DEF forward
<1>4. forward \in [Addr -> Linked] /\ previous \in Addr /\ next \in Addr
  BY <1>1, <1>3
<1>5. /\ back \in [Addr -> Linked]
      /\ \A a \in Addr :
           /\ back[a].thisAddress = forward[a].thisAddress
           /\ back[a].nextAddress = forward[a].nextAddress
           /\ back[a].previousAddress =
                   IF a = next THEN forward[previous].thisAddress
                               ELSE forward[a].previousAddress
  BY <1>4 DEF Linked
<1> HIDE DEF back
<1>6. TakenOutIs(back, without, previous, next)
  BY <1>1, <1>3, <1>5 DEF TakenOutIs
<1>7. QED BY <1>2, <1>6 DEF without, previous, next

LEMMA TakingOut ==
  ASSUME NEW links, List(links), NEW p \in Addr
  PROVE  /\ List(TakenOut(links, p))
         /\ \A copy : AgreesWith(copy, links) =>
              \/ AgreesWith(copy, TakenOut(links, p))
              \/ copy.thisAddress \in {p, links[p].previousAddress, links[p].nextAddress}
         /\ \A copy : AgreesWith(copy, links) /\ copy.nextAddress = p =>
              copy.thisAddress \in {links[p].previousAddress, links[p].nextAddress}
<1> DEFINE previous == links[p].previousAddress
           next     == links[p].nextAddress
           without  == Emptied(links, p)
           new      == TakenOut(links, p)
<1>1. links \in [Addr -> Linked] /\ previous \in Addr /\ next \in Addr
  BY LinkedFields DEF List
<1>2. \A a \in Addr : without[a] = IF a = p THEN EmptyAddress ELSE links[a]
  BY <1>1 DEF Emptied
<1>3. /\ new \in [Addr -> Linked]
      /\ \A a \in Addr :
              /\ new[a].thisAddress = without[a].thisAddress
              /\ new[a].nextAddress =
                   IF a = previous THEN without[next].thisAddress
                                   ELSE without[a].nextAddress
              /\ new[a].previousAddress =
                   IF a = next THEN without[previous].thisAddress
                               ELSE without[a].previousAddress
  BY <1>1, TakenOutFields DEF TakenOutIs
<1> HIDE DEF new, without
<1>4. Listed(new) = Listed(links) \ {p}
  BY <1>2, <1>3, AddrFacts DEF Listed
<1>5. CASE links[p].thisAddress = NoAddress
  <2>1. previous = NoAddress /\ next = NoAddress
    BY <1>5 DEF List
  <2>2. \A a \in Addr : SameLinks(new[a], links[a])
    <3>1. /\ links[NoAddress].thisAddress = NoAddress
          /\ links[NoAddress].nextAddress = NoAddress
          /\ links[NoAddress].previousAddress = NoAddress
      BY AddrFacts DEF List
    <3>2. links[p].nextAddress = NoAddress /\ links[p].previousAddress = NoAddress
      BY <2>1
    <3>3. \A a \in Addr : SameLinks(without[a], links[a])
      BY <1>2, <1>5, <3>2, AddrFacts DEF SameLinks
    <3>4. QED BY <1>3, <2>1, <3>1, <3>3, AddrFacts DEF SameLinks
  <2>3. List(new) /\ \A copy : AgreesWith(copy, links) => AgreesWith(copy, new)
    BY <1>3, <2>2, SameLinksList
  <2>4. ASSUME NEW copy, AgreesWith(copy, links), copy.nextAddress = p
        PROVE  copy.thisAddress = NoAddress
    <3> DEFINE c == copy.thisAddress
    <3>1. c \in Addr /\ links[c].thisAddress = c /\ links[c].nextAddress = p
      BY <2>4, LinkedFields DEF AgreesWith, SameLinks
    <3>2. c \in Proposer => p \in Listed(links)
      BY <3>1 DEF List, Listed
    <3>3. p \notin Listed(links)
      BY <1>5, AddrFacts DEF Listed
    <3>4. QED BY <3>1, <3>2, <3>3 DEF Addr
  <2>5. QED BY <2>1, <2>3, <2>4 DEF new
<1>6. CASE links[p].thisAddress # NoAddress
  <2>1. /\ p \in Listed(links) /\ p \in Proposer
        /\ previous \in Listed(links) /\ next \in Listed(links)
        /\ links[previous].nextAddress = p /\ links[next].previousAddress = p
        /\ links[previous].thisAddress = previous /\ links[next].thisAddress = next
        /\ NoAddress \notin {p, previous, next}
    <3>1. p \in Listed(links) /\ p # NoAddress
      BY <1>6, AddrFacts DEF List, Listed, Addr
    <3>2. QED BY <3>1, AddrFacts DEF List, Listed
  <2>2. \A a \in Addr : /\ a \notin {p, previous} => new[a].nextAddress = links[a].nextAddress
                        /\ a \notin {p, next} => new[a].previousAddress = links[a].previousAddress
                        /\ a # p => new[a].thisAddress = links[a].thisAddress
    BY <1>2, <1>3
  <2>3. new[p].thisAddress = NoAddress /\ new[p].nextAddress = NoAddress
        /\ new[p].previousAddress = NoAddress
    <3>1. previous = p <=> next = p
      BY <2>1
    <3>2. without[p] = EmptyAddress
      BY <1>2
    <3>3. previous = p => without[next] = EmptyAddress /\ without[previous] = EmptyAddress
      BY <3>1, <3>2
    <3>4. QED BY <1>3, <3>1, <3>2, <3>3, AddrFacts
  <2>4. previous # p => /\ next # p
                        /\ new[previous].nextAddress = next
                        /\ new[next].previousAddress = previous
    <3>1. previous # p => next # p
      BY <2>1
    <3>2. QED BY <1>1, <1>2, <1>3, <2>1, <3>1
  <2>5. ASSUME NEW a \in Addr, new[a].thisAddress = NoAddress
        PROVE  new[a].nextAddress = NoAddress /\ new[a].previousAddress = NoAddress
    <3>1. CASE a = p
      BY <2>3, <3>1
    <3>2. CASE a # p
      <4>1. links[a].thisAddress = NoAddress
        BY <2>2, <2>5, <3>2
      <4>2. a \notin {previous, next}
        BY <2>1, <4>1
      <4>3. QED BY <2>2, <3>2, <4>1, <4>2 DEF List
    <3>3. QED BY <3>1, <3>2
  <2>6. ASSUME NEW q \in Listed(links), q # p
        PROVE  /\ new[q].nextAddress \in Listed(new)
               /\ new[q].previousAddress \in Listed(new)
               /\ new[new[q].nextAddress].previousAddress = q
               /\ new[new[q].previousAddress].nextAddress = q
    <3>1. /\ q \in Addr /\ links[q].nextAddress \in Listed(links)
          /\ links[q].previousAddress \in Listed(links)
          /\ links[links[q].nextAddress].previousAddress = q
          /\ links[links[q].previousAddress].nextAddress = q
      BY <2>6, AddrFacts DEF List, Listed
    <3>2. Listed(links) \subseteq Addr
      BY AddrFacts DEF Listed
    <3>3. /\ new[q].nextAddress \in Listed(new)
          /\ new[new[q].nextAddress].previousAddress = q
      <4>1. CASE q = previous
        BY <1>4, <2>1, <2>4, <2>6, <4>1
      <4>2. CASE q # previous
        <5>1. new[q].nextAddress = links[q].nextAddress
          BY <2>2, <2>6, <3>1, <4>2
        <5>2. links[q].nextAddress # p /\ links[q].nextAddress # next
          BY <2>1, <2>6, <3>1, <4>2
        <5>3. QED BY <1>4, <2>2, <3>1, <3>2, <5>1, <5>2
      <4>3. QED BY <4>1, <4>2
    <3>4. /\ new[q].previousAddress \in Listed(new)
          /\ new[new[q].previousAddress].nextAddress = q
      <4>1. CASE q = next
        BY <1>4, <2>1, <2>4, <2>6, <4>1
      <4>2. CASE q # next
        <5>1. new[q].previousAddress = links[q].previousAddress
          BY <2>2, <2>6, <3>1, <4>2
        <5>2. links[q].previousAddress # p /\ links[q].previousAddress # previous
          BY <2>1, <2>6, <3>1, <4>2
        <5>3. QED BY <1>4, <2>2, <3>1, <3>2, <5>1, <5>2
      <4>3. QED BY <4>1, <4>2
    <3>5. QED BY <3>3, <3>4
  <2>7. \A a \in Addr : new[a].thisAddress \in {a, NoAddress}
    BY <2>2, <2>3 DEF List
  <2>8. List(new)
    BY <1>3, <1>4, <2>5, <2>6, <2>7 DEF List
  <2>9. ASSUME NEW copy, AgreesWith(copy, links),
               copy.thisAddress \notin {p, previous, next}
        PROVE  AgreesWith(copy, new)
    <3>1. copy.thisAddress \in Addr
      BY <2>9, LinkedFields DEF AgreesWith
    <3>2. QED BY <2>2, <2>9, <3>1 DEF AgreesWith, SameLinks
  <2>10. ASSUME NEW copy, AgreesWith(copy, links), copy.nextAddress = p
        PROVE  copy.thisAddress = previous
    <3> DEFINE c == copy.thisAddress
    <3>1. c \in Addr /\ links[c].thisAddress = c /\ links[c].nextAddress = p
      BY <2>10, LinkedFields DEF AgreesWith, SameLinks
    <3>2. c # NoAddress
      BY <2>1, <3>1 DEF List
    <3>3. c \in Listed(links)
      BY <3>1, <3>2 DEF Listed, Addr
    <3>4. links[p].previousAddress = c
      BY <3>1, <3>3 DEF List
    <3>5. QED BY <3>4
  <2>11. QED BY <2>8, <2>9, <2>10 DEF new
<1>7. QED BY <1>5, <1>6

-----------------------------------------------------------------------------
(* Frames.                                                                 *)
Account == [amount : Nat, challengeLocked : Int, time : Nat]
Member  == [thisAddress : Proposer, weight : Nat, currentWeight : Int,
            effectiveWeight : Nat]
Frames  == [proposers          : [Addr -> Linked],
            currentProposer    : Linked,
            proposerStartBlock : Nat,
            numProposers       : Int,
            proposersSet       : Seq(Member),
            currentSprint      : Nat,
            spanProposersList  : Seq(Proposer),
            stakeAccounts      : [Addr -> Account],
            reverted           : BOOLEAN]

(* A call in which a checked subtraction went wrong has reverted.          *)
Checked(f) == /\ f.numProposers \in Nat
              /\ \A a \in Addr : f.stakeAccounts[a].challengeLocked \in Nat

GoodFrame(f) == /\ f \in Frames
                /\ List(f.proposers)
                /\ ~f.reverted => Checked(f)

RingFrame(f) == GoodFrame(f) /\ AgreesWith(f.currentProposer, f.proposers)

(* g follows f in a call that moves no stake.                              *)
Follows(f, g) ==
  /\ f.reverted => g.reverted
  /\ \A a \in Addr :
       /\ g.stakeAccounts[a].amount = f.stakeAccounts[a].amount
       /\ g.stakeAccounts[a].challengeLocked = f.stakeAccounts[a].challengeLocked

LEMMA FollowsTwice ==
  ASSUME NEW f, NEW g, NEW h, Follows(f, g), Follows(g, h)
  PROVE  Follows(f, h)
BY DEF Follows

LEMMA FrameFields ==
  ASSUME NEW f \in Frames
  PROVE  /\ f.proposers \in [Addr -> Linked] /\ f.currentProposer \in Linked
         /\ f.proposerStartBlock \in Nat /\ f.numProposers \in Int
         /\ f.proposersSet \in Seq(Member) /\ f.currentSprint \in Nat
         /\ f.spanProposersList \in Seq(Proposer)
         /\ f.stakeAccounts \in [Addr -> Account] /\ f.reverted \in BOOLEAN
BY DEF Frames

(* What _removeProposer makes of a frame.                                  *)
Removed(f, p, g) ==
  /\ g \in Frames
  /\ g.proposers = TakenOut(f.proposers, p)
  /\ g.currentProposer = IF f.currentProposer.thisAddress
                              \in {f.proposers[p].previousAddress, f.proposers[p].nextAddress}
                         THEN g.proposers[f.currentProposer.thisAddress]
                         ELSE f.currentProposer
  /\ g.numProposers = f.numProposers - 1
  /\ g.reverted = (f.reverted \/ ~(f.numProposers > 0))
  /\ g.proposersSet = f.proposersSet
  /\ g.proposerStartBlock = f.proposerStartBlock
  /\ g.currentSprint = f.currentSprint
  /\ g.spanProposersList = f.spanProposersList
  /\ g.stakeAccounts = f.stakeAccounts

LEMMA RemovedFields ==
  ASSUME NEW f \in Frames, NEW p \in Addr
  PROVE  Removed(f, p, RemoveFromRing(f, p))
<1> DEFINE previous == f.proposers[p].previousAddress
           next     == f.proposers[p].nextAddress
           links    == TakenOut(f.proposers, p)
           current  == RefreshedCurrent(f, links, previous, next)
           r        == Require(f, f.numProposers > 0)
           g        == [r EXCEPT !.proposers = links, !.numProposers = @ - 1,
                                 !.currentProposer = current]
<1>1. RemoveFromRing(f, p) = g
  BY DEF RemoveFromRing, TakenOut
<1>2. /\ f.proposers \in [Addr -> Linked] /\ f.currentProposer \in Linked
      /\ f.currentProposer.thisAddress \in Addr
  BY FrameFields, LinkedFields
<1>3. links \in [Addr -> Linked]
  BY <1>2, TakenOutFields DEF TakenOutIs
<1>4. current = IF f.currentProposer.thisAddress \in {previous, next}
                THEN links[f.currentProposer.thisAddress] ELSE f.currentProposer
  BY DEF RefreshedCurrent
<1>5. current \in Linked
  BY <1>2, <1>3, <1>4
<1>6. /\ r \in Frames /\ r.reverted = (f.reverted \/ ~(f.numProposers > 0))
      /\ r = [f EXCEPT !.reverted = r.reverted]
  BY DEF Require, Frames
<1> HIDE DEF links, current
<1>7. r \in Frames
  BY <1>6
<1> HIDE DEF r
<1>8. /\ g \in Frames
      /\ g.proposers = links /\ g.currentProposer = current
      /\ g.numProposers = r.numProposers - 1
      /\ g.reverted = r.reverted /\ g.proposersSet = r.proposersSet
      /\ g.proposerStartBlock = r.proposerStartBlock
      /\ g.currentSprint = r.currentSprint
      /\ g.spanProposersList = r.spanProposersList
      /\ g.stakeAccounts = r.stakeAccounts
  <2>1. r.numProposers - 1 \in Int
    BY <1>7, FrameFields
  <2>2. QED BY <1>3, <1>5, <1>7, <2>1 DEF Frames
<1>9. /\ r.numProposers = f.numProposers /\ r.proposersSet = f.proposersSet
      /\ r.proposerStartBlock = f.proposerStartBlock
      /\ r.currentSprint = f.currentSprint
      /\ r.spanProposersList = f.spanProposersList
      /\ r.stakeAccounts = f.stakeAccounts
  BY <1>6 DEF Frames
<1> HIDE DEF g
<1>10. Removed(f, p, g)
  BY <1>4, <1>6, <1>8, <1>9 DEF Removed, links
<1>11. QED BY <1>1, <1>10

(* Nobody but the one removed can be left as a copy of the past.           *)
LEMMA Removal ==
  ASSUME NEW f, RingFrame(f), NEW p \in Addr
  PROVE  /\ GoodFrame(RemoveFromRing(f, p))
         /\ Follows(f, RemoveFromRing(f, p))
         /\ \/ f.currentProposer.nextAddress = p
            \/ RemoveFromRing(f, p).currentProposer.thisAddress # p
            => AgreesWith(RemoveFromRing(f, p).currentProposer,
                          RemoveFromRing(f, p).proposers)
<1>1. PICK g : g = RemoveFromRing(f, p)
  OBVIOUS
<1>2. f \in Frames /\ List(f.proposers) /\ AgreesWith(f.currentProposer, f.proposers)
  BY DEF RingFrame, GoodFrame
<1>3. Removed(f, p, g)
  BY <1>1, <1>2, RemovedFields
<1>4. List(g.proposers)
  BY <1>2, <1>3, TakingOut DEF Removed
<1>5. GoodFrame(g)
  <2>1. ~g.reverted => ~f.reverted /\ f.numProposers > 0
    BY <1>3 DEF Removed
  <2>2. ~g.reverted => Checked(f)
    BY <2>1 DEF RingFrame, GoodFrame
  <2>3. ~g.reverted => Checked(g)
    BY <1>3, <2>1, <2>2 DEF Checked, Removed
  <2>4. QED BY <1>3, <1>4, <2>3 DEF GoodFrame, Removed
<1>6. Follows(f, g)
  BY <1>3 DEF Removed, Follows
<1> DEFINE c == f.currentProposer.thisAddress
           near == {f.proposers[p].previousAddress, f.proposers[p].nextAddress}
<1>7. c \in Addr
  BY <1>2, FrameFields, LinkedFields
<1>8. CASE c \in near
  <2>1. g.currentProposer = g.proposers[c]
    BY <1>3, <1>8 DEF Removed
  <2>2. QED BY <1>1, <1>4, <1>5, <1>6, <1>7, <2>1, EntryAgrees
<1>9. CASE c \notin near
  <2>1. g.currentProposer = f.currentProposer /\ g.proposers = TakenOut(f.proposers, p)
    BY <1>3, <1>9 DEF Removed
  <2>2. c = p \/ AgreesWith(g.currentProposer, g.proposers)
    BY <1>2, <1>9, <2>1, TakingOut
  <2>3. f.currentProposer.nextAddress # p
    BY <1>2, <1>9, TakingOut
  <2>4. QED BY <1>1, <1>5, <1>6, <2>1, <2>2, <2>3
<1>10. QED BY <1>8, <1>9

-----------------------------------------------------------------------------
(* changeCurrentProposer with maxProposers = 1: one is expelled after the  *)
(* other.                                                                  *)
Expelled(g) == [RemoveFromRing(g, g.currentProposer.nextAddress)
                  EXCEPT !.stakeAccounts[g.currentProposer.nextAddress].time = now]

LEMMA Expelling ==
  ASSUME now \in Nat, NEW g, RingFrame(g)
  PROVE  RingFrame(Expelled(g)) /\ Follows(g, Expelled(g))
<1> DEFINE p == g.currentProposer.nextAddress
<1>1. p \in Addr
  BY FrameFields, LinkedFields DEF RingFrame, GoodFrame
<1>2. PICK r : r = RemoveFromRing(g, p)
  OBVIOUS
<1>3. GoodFrame(r) /\ Follows(g, r) /\ AgreesWith(r.currentProposer, r.proposers)
  BY <1>1, <1>2, Removal
<1>4. r \in Frames /\ r.stakeAccounts \in [Addr -> Account]
  BY <1>3, FrameFields DEF GoodFrame
<1> DEFINE accounts == [r.stakeAccounts EXCEPT ![p].time = now]
           f == [r EXCEPT !.stakeAccounts = accounts]
<1>5. Expelled(g) = f
  BY <1>2 DEF Expelled
<1>6. /\ accounts \in [Addr -> Account]
      /\ \A a \in Addr : /\ accounts[a].amount = r.stakeAccounts[a].amount
                         /\ accounts[a].challengeLocked = r.stakeAccounts[a].challengeLocked
  BY <1>1, <1>4 DEF Account
<1> HIDE DEF accounts
<1>7. /\ f \in Frames /\ f.stakeAccounts = accounts
      /\ f.proposers = r.proposers /\ f.currentProposer = r.currentProposer
      /\ f.numProposers = r.numProposers /\ f.reverted = r.reverted
  BY <1>4, <1>6 DEF Frames
<1> HIDE DEF f
<1>8. RingFrame(f)
  BY <1>3, <1>6, <1>7 DEF RingFrame, GoodFrame, Checked
<1>9. Follows(g, f)
  BY <1>3, <1>6, <1>7 DEF Follows
<1>10. QED BY <1>5, <1>8, <1>9

LEMMA ExpellingAll ==
  ASSUME now \in Nat, NEW f, RingFrame(f), f.numProposers > 1
  PROVE  /\ RingFrame(ExpelAllButBootProposer(f))
         /\ Follows(f, ExpelAllButBootProposer(f))
<1> DEFINE n   == f.numProposers - 1
           seq == [i \in 1..n |-> i]
           x   == [f EXCEPT !.currentProposer = f.proposers[BootProposer]]
           Eq(h) == h = [s \in SUBSET (DOMAIN seq) |->
                           IF s = {} THEN x ELSE Expelled(h[s \ {Max(s)}])]
           S   == {g \in Frames : RingFrame(g) /\ Follows(f, g)}
           G   == [k \in 1..n |-> [g \in S |-> Expelled(g)]]
<1>1. ExpelAllButBootProposer(f) = (CHOOSE h : Eq(h))[DOMAIN seq]
  BY DEF ExpelAllButBootProposer, FoldLeft, MapThenFoldSet, Expelled
<1>2. n \in Nat /\ DOMAIN seq = 1..n
  BY FrameFields DEF RingFrame, GoodFrame
<1>3. x \in S
  <2>1. f \in Frames /\ List(f.proposers) /\ f.proposers[BootProposer] \in Linked
    BY AddrFacts, FrameFields DEF RingFrame, GoodFrame
  <2>2. /\ x \in Frames /\ x.currentProposer = f.proposers[BootProposer]
        /\ x.proposers = f.proposers /\ x.stakeAccounts = f.stakeAccounts
        /\ x.numProposers = f.numProposers /\ x.reverted = f.reverted
    BY <2>1 DEF Frames
  <2> HIDE DEF x
  <2>3. AgreesWith(x.currentProposer, x.proposers)
    BY <2>1, <2>2, AddrFacts, EntryAgrees
  <2>4. RingFrame(x) /\ Follows(f, x)
    BY <2>2, <2>3 DEF RingFrame, GoodFrame, Checked, Follows
  <2>5. QED BY <2>2, <2>4
<1>4. ASSUME NEW g \in S PROVE Expelled(g) \in S
  <2>1. RingFrame(Expelled(g)) /\ Follows(f, Expelled(g))
    BY Expelling, FollowsTwice
  <2>2. QED BY <2>1 DEF RingFrame, GoodFrame
<1> HIDE DEF S, x, seq
<1>5. G \in Moves(n, S)
  BY <1>4 DEF Moves
<1>6. \A k \in 1..n : \A g \in S : G[k][g] = Expelled(g)
  OBVIOUS
<1> HIDE DEF G, n
<1>7. \A s \in SUBSET (1..n) : s # {} => Max(s) \in 1..n /\ s \ {Max(s)} \in SUBSET (1..n)
  BY <1>2, MaxIn
<1>8. PICK h \in [SUBSET (1..n) -> S] : IsFold(h, n, x, G)
  BY <1>2, <1>3, <1>5, FoldExists
<1>9. Eq(h)
  <2>1. ASSUME NEW s \in SUBSET (1..n)
        PROVE  h[s] = IF s = {} THEN x ELSE Expelled(h[s \ {Max(s)}])
    <3>1. h[s] = IF s = {} THEN x ELSE G[Max(s)][h[s \ {Max(s)}]]
      BY <1>8 DEF IsFold
    <3>2. s # {} => h[s \ {Max(s)}] \in S /\ Max(s) \in 1..n
      BY <1>7, <1>8
    <3>3. QED BY <1>6, <3>1, <3>2
  <2>2. h = [s \in SUBSET (1..n) |-> h[s]]
    BY <1>8
  <2>3. QED BY <1>2, <2>1, <2>2
<1> DEFINE c == CHOOSE g : Eq(g)
<1>10. Eq(c)
  BY <1>9
<1> HIDE DEF c
<1>11. Folds(c, n, S, x, G)
  <2>1. \A s \in SUBSET (1..n) :
           c[s] = IF s = {} THEN x ELSE Expelled(c[s \ {Max(s)}])
    BY <1>2, <1>10
  <2>2. {} \in SUBSET (1..n)
    OBVIOUS
  <2>3. QED BY <1>6, <1>7, <2>1, <2>2 DEF Folds
<1>12. c[1..n] \in S
  BY <1>2, <1>3, <1>5, <1>11, FoldStays
<1>13. QED BY <1>1, <1>2, <1>12 DEF S, c

-----------------------------------------------------------------------------
(* A span is drawn from proposers: those met on the way round the list.    *)
LEMMA Proposers ==
  /\ IsFiniteSet(Proposer) /\ IsFiniteSet(Challenger)
  /\ Cardinality(Proposer) + 1 \in Nat
<1>1. IsFiniteSet(Proposer) /\ IsFiniteSet(Challenger)
  BY AddressAssumption, FS_Subset
<1>2. QED BY <1>1, FS_CardinalityType

LEMMA RingOfProposers ==
  ASSUME NEW f, RingFrame(f), f.currentProposer.thisAddress # NoAddress
  PROVE  RingFrom(f) \in Seq(Proposer)
<1> DEFINE N == Cardinality(Proposer) + 1
           links == f.proposers
           x     == f.currentProposer
           Eq(v) == v = [k \in 0..N |-> IF k = 0 THEN x ELSE links[v[k - 1].nextAddress]]
           visit == CHOOSE v : Eq(v)
           lasts == {k \in 0..N : visit[k].nextAddress = x.thisAddress}
           S     == {e \in Linked : e.thisAddress \in Proposer /\ e.nextAddress \in Listed(links)}
           G     == [k \in 1..N |-> [e \in S |-> links[e.nextAddress]]]
           T     == [k \in 0..N |-> S]
<1>1. RingFrom(f) = IF lasts = {} THEN <<>>
                    ELSE [i \in 1..Min(lasts) + 1 |-> visit[i - 1].thisAddress]
  BY DEF RingFrom
<1>2. N \in Nat
  BY Proposers
<1>3. List(links) /\ AgreesWith(x, links)
  BY DEF RingFrame, GoodFrame
<1>4. ASSUME NEW p \in Listed(links) PROVE links[p] \in S
  <2>1. p \in Proposer /\ p \in Addr /\ links[p].thisAddress = p
    BY AddrFacts DEF Listed
  <2>2. links[p] \in Linked /\ links[p].nextAddress \in Listed(links)
    BY <1>3, <2>1 DEF List
  <2>3. QED BY <2>1, <2>2
<1>5. x \in S
  <2>1. x \in Linked /\ x.thisAddress \in Proposer
        /\ SameLinks(x, links[x.thisAddress])
    BY <1>3, LinkedFields DEF AgreesWith, Addr
  <2>2. x.thisAddress \in Listed(links)
    BY <2>1 DEF Listed, SameLinks
  <2>3. QED BY <1>4, <2>1, <2>2 DEF SameLinks
<1>6. \A e \in S : links[e.nextAddress] \in S
  BY <1>4
<1>7. \A k \in 1..N : \A e \in S : G[k][e] = links[e.nextAddress]
  OBVIOUS
<1>8. G \in Moves(N, S)
  BY <1>6 DEF Moves
<1>9. \A k \in 0..N : T[k] = S
  OBVIOUS
<1>10. T \in [0..N -> SUBSET S]
  OBVIOUS
<1> HIDE DEF G, T, S, x, links
<1>11. Rounds(N, S, x, G, T)
  <2>1. \A k \in 1..N : \A e \in S : G[k][e] \in S
    BY <1>6, <1>7
  <2>2. \A k \in 1..N : k - 1 \in 0..N /\ k \in 0..N
    BY <1>2
  <2>3. 0 \in 0..N
    BY <1>2
  <2> HIDE DEF N
  <2>4. QED BY <1>2, <1>5, <1>8, <1>9, <1>10, <2>1, <2>2, <2>3 DEF Rounds
<1> HIDE DEF N
<1>12. PICK h \in [0..N -> S] : IsLoop(h, N, x, G)
  BY <1>2, <1>5, <1>8, LoopExists
<1>13. Eq(h)
  <2>1. ASSUME NEW k \in 0..N
        PROVE  h[k] = IF k = 0 THEN x ELSE links[h[k - 1].nextAddress]
    <3>1. h[k] = IF k = 0 THEN x ELSE G[k][h[k - 1]]
      BY <1>12 DEF IsLoop
    <3>2. k # 0 => k \in 1..N /\ h[k - 1] \in S
      BY <1>2, <1>12
    <3>3. QED BY <1>7, <3>1, <3>2
  <2>2. h = [k \in 0..N |-> h[k]]
    BY <1>12
  <2>3. QED BY <2>1, <2>2
<1>14. Eq(visit)
  <2> HIDE DEF Eq
  <2>1. QED BY <1>13
<1> HIDE DEF visit
<1>15. Loops(visit, N, S, x, G)
  BY <1>2, <1>7, <1>14 DEF Loops
<1>16. \A k \in 0..N : visit[k] \in S
  BY <1>9, <1>11, <1>15, LoopReaches
<1>17. CASE lasts # {}
  <2>1. lasts \in SUBSET Nat
    BY <1>2
  <2>2. PICK m \in lasts : \A k \in lasts : m <= k
    BY <1>17, <2>1, LeastOf
  <2> HIDE DEF lasts
  <2>3. Min(lasts) \in lasts
    BY <2>2 DEF Min
  <2>4. Min(lasts) \in 0..N
    BY <2>3 DEF lasts
  <2>5. \A i \in 1..Min(lasts) + 1 : i - 1 \in 0..N
    BY <1>2, <2>4
  <2>6. \A i \in 1..Min(lasts) + 1 : visit[i - 1].thisAddress \in Proposer
    BY <1>16, <2>5 DEF S
  <2>7. [i \in 1..Min(lasts) + 1 |-> visit[i - 1].thisAddress] \in Seq(Proposer)
    BY <1>2, <2>4, <2>6
  <2>8. QED BY <1>1, <1>17, <2>7
<1>18. CASE lasts = {}
  BY <1>1, <1>18
<1>19. QED BY <1>17, <1>18

LEMMA SlotValueTypes ==
  ASSUME NEW f \in Frames, NEW ring \in Seq(Proposer), ring # <<>>
  PROVE  SlotValue(f, ring) \in Nat
<1> DEFINE Weigh(a) == f.stakeAccounts[a].amount \div MaximumSlots
           Stakes == {Weigh(a) : a \in ToSet(ring)}
<1>1. Len(ring) \in Nat /\ DOMAIN ring = 1..Len(ring) /\ Len(ring) # 0
  OBVIOUS
<1>2. ToSet(ring) \subseteq Proposer /\ ToSet(ring) # {}
  BY <1>1 DEF ToSet
<1>4. IsFiniteSet(ToSet(ring))
  BY Proposers, <1>2, FS_Subset
<1>5. IsFiniteSet(Stakes)
  <2> DEFINE g == [a \in ToSet(ring) |-> Weigh(a)]
  <2>1. g \in Surjection(ToSet(ring), Stakes)
    BY DEF Surjection
  <2>2. QED BY <1>4, <2>1, FS_Surjection
<1>6. MaximumSlots \in Nat \ {0}
  BY RotationAssumption
<1>7. \A a \in Addr : f.stakeAccounts[a].amount \in Nat
  BY FrameFields DEF Account
<1>8. \A a \in ToSet(ring) : Weigh(a) \in Nat
  <2>1. \A a \in ToSet(ring) : f.stakeAccounts[a].amount \in Nat
    BY <1>2, <1>7, AddrFacts
  <2>2. QED BY <1>6, <2>1
<1> HIDE DEF Weigh
<1>9. Stakes \subseteq Nat /\ Stakes \subseteq Int /\ Stakes # {}
  BY <1>2, <1>8
<1> HIDE DEF Stakes
<1>10. Max(Stakes) \in Nat
  BY <1>5, <1>9, MaxOfFinite
<1>11. QED BY <1>10 DEF SlotValue, Stakes, Weigh

LEMMA FilledSlotsTypes ==
  ASSUME NEW f \in Frames, NEW ring \in Seq(Proposer), SlotValue(f, ring) \in Nat \ {0}
  PROVE  FilledSlots(f, ring) \in Seq(Proposer)
<1> DEFINE Slots(i) == [j \in 1..SlotWeight(f, ring[i], SlotValue(f, ring)) |-> ring[i]]
           seqs == [i \in DOMAIN ring |-> Slots(i)]
<1>1. Len(ring) \in Nat /\ DOMAIN ring = 1..Len(ring)
  OBVIOUS
<1>2. ASSUME NEW i \in DOMAIN ring PROVE Slots(i) \in Seq(Proposer)
  <2> DEFINE a == f.stakeAccounts[ring[i]].amount
             v == SlotValue(f, ring)
             w == SlotWeight(f, ring[i], v)
  <2>1. ring[i] \in Proposer /\ ring[i] \in Addr
    BY <1>1, AddrFacts
  <2>2. a \in Nat /\ v \in Nat \ {0}
    BY <2>1, FrameFields DEF Account
  <2>3. w = IF a \div v = 0 THEN 1 ELSE a \div v
    BY DEF SlotWeight
  <2> HIDE DEF a, v, w
  <2>4. w \in Nat
    BY <2>2, <2>3
  <2>5. [j \in 1..w |-> ring[i]] \in Seq(Proposer)
    BY <2>1, <2>4
  <2>6. QED BY <2>5 DEF w, v
<1> HIDE DEF Slots
<1>3. seqs \in Seq(Seq(Proposer))
  BY <1>1, <1>2
<1> HIDE DEF seqs
<1>4. FlattenSeq(seqs) \in Seq(Proposer)
  BY <1>3, Flattened
<1>5. QED BY <1>4 DEF FilledSlots, seqs, Slots

(* The shuffle swaps slots.                                                *)
Partner(n, seed, i) == i + (seed % (n - i + 1))
Swapped(s, i, j) == [s EXCEPT ![j] = s[i], ![i] = s[j]]

LEMMA ShuffledTypes ==
  ASSUME NEW slots \in Seq(Proposer), NEW seed \in Nat
  PROVE  /\ ShuffledSlots(slots, seed) \in Seq(Proposer)
         /\ Len(ShuffledSlots(slots, seed)) = Len(slots)
<1> DEFINE n == Len(slots)
           seq == [i \in DOMAIN slots |-> i]
           S == [1..n -> Proposer]
           Op(s, i) == Swapped(s, i, Partner(n, seed, i))
           Eq(h) == h = [s \in SUBSET (DOMAIN seq) |->
                           IF s = {} THEN slots ELSE Op(h[s \ {Max(s)}], seq[Max(s)])]
           G == [k \in 1..n |-> [s \in S |-> Op(s, k)]]
<1>1. ShuffledSlots(slots, seed) = (CHOOSE h : Eq(h))[DOMAIN seq]
  BY DEF ShuffledSlots, FoldLeftDomain, FoldLeft, MapThenFoldSet, Swapped, Partner
<1>2. n \in Nat /\ DOMAIN seq = 1..n /\ slots \in S /\ \A i \in 1..n : seq[i] = i
  OBVIOUS
<1>3. ASSUME NEW s \in S, NEW k \in 1..n PROVE Op(s, k) \in S
  <2> DEFINE j == Partner(n, seed, k)
  <2>1. j \in 1..n
    <3>1. n - k + 1 \in Nat \ {0} /\ n \in Nat
      BY <1>2
    <3>2. seed % (n - k + 1) \in 0..n - k
      BY <3>1
    <3>3. QED BY <1>2, <3>2 DEF Partner
  <2> HIDE DEF j, n
  <2>2. s[j] \in Proposer /\ s[k] \in Proposer
    BY <2>1
  <2>3. [s EXCEPT ![j] = s[k], ![k] = s[j]] \in S
    BY <2>1, <2>2
  <2>4. QED BY <2>3 DEF Swapped, j
<1> HIDE DEF seq, Op, S
<1>5. G \in Moves(n, S)
  BY <1>3 DEF Moves
<1>6. \A k \in 1..n : \A s \in S : G[k][s] = Op(s, seq[k])
  BY <1>2
<1> HIDE DEF G, n
<1>7. \A s \in SUBSET (1..n) : s # {} => Max(s) \in 1..n /\ s \ {Max(s)} \in SUBSET (1..n)
  BY <1>2, MaxIn
<1>8. PICK h \in [SUBSET (1..n) -> S] : IsFold(h, n, slots, G)
  BY <1>2, <1>5, FoldExists
<1>9. Eq(h)
  <2>1. ASSUME NEW s \in SUBSET (1..n)
        PROVE  h[s] = IF s = {} THEN slots ELSE Op(h[s \ {Max(s)}], seq[Max(s)])
    <3>1. h[s] = IF s = {} THEN slots ELSE G[Max(s)][h[s \ {Max(s)}]]
      BY <1>8 DEF IsFold
    <3>2. s # {} => h[s \ {Max(s)}] \in S /\ Max(s) \in 1..n
      BY <1>7, <1>8
    <3>3. QED BY <1>6, <3>1, <3>2
  <2>2. h = [s \in SUBSET (1..n) |-> h[s]]
    BY <1>8
  <2>3. QED BY <1>2, <2>1, <2>2
<1> DEFINE c == CHOOSE g : Eq(g)
<1>10. Eq(c)
  BY <1>9
<1> HIDE DEF c
<1>11. Folds(c, n, S, slots, G)
  <2>1. \A s \in SUBSET (1..n) :
           c[s] = IF s = {} THEN slots ELSE Op(c[s \ {Max(s)}], seq[Max(s)])
    BY <1>2, <1>10
  <2>2. {} \in SUBSET (1..n)
    OBVIOUS
  <2>3. QED BY <1>6, <1>7, <2>1, <2>2 DEF Folds
<1>12. c[1..n] \in S
  BY <1>2, <1>5, <1>11, FoldStays
<1>13. c[1..n] \in Seq(Proposer) /\ Len(c[1..n]) = n
  BY <1>2, <1>12 DEF S
<1>14. QED BY <1>1, <1>2, <1>13 DEF c, n

(* The members of the set, each once.                                      *)
LEMMA FirstAppearances ==
  ASSUME NEW s \in Seq(Proposer), s # <<>>
  PROVE  InOrderOfFirstAppearance(s) \in Seq(Proposer) \ {<<>>}
<1> DEFINE n == Len(s)
           S == Seq(Proposer)
           Op(seen, a) == IF Contains(seen, a) THEN seen ELSE Append(seen, a)
           Eq(h) == h = [u \in SUBSET (DOMAIN s) |->
                           IF u = {} THEN <<>> ELSE Op(h[u \ {Max(u)}], s[Max(u)])]
           G == [k \in 1..n |-> [seen \in S |-> Op(seen, s[k])]]
           T == [k \in 0..n |-> IF k = 0 THEN {<<>>} ELSE S \ {<<>>}]
<1>1. InOrderOfFirstAppearance(s) = (CHOOSE h : Eq(h))[DOMAIN s]
  BY DEF InOrderOfFirstAppearance, FoldLeft, MapThenFoldSet
<1>2. n \in Nat /\ DOMAIN s = 1..n /\ n # 0 /\ <<>> \in S
  OBVIOUS
<1>3. ASSUME NEW seen \in S, NEW a \in Proposer PROVE Op(seen, a) \in S \ {<<>>}
  <2>1. CASE Contains(seen, a)
    <3>1. seen # <<>>
      BY <2>1 DEF Contains
    <3>2. QED BY <2>1, <3>1
  <2>2. CASE ~Contains(seen, a)
    <3>1. Append(seen, a) \in S /\ Append(seen, a) # <<>>
      OBVIOUS
    <3>2. QED BY <2>2, <3>1
  <2>3. QED BY <2>1, <2>2
<1>4. \A k \in 1..n : s[k] \in Proposer
  OBVIOUS
<1> HIDE DEF S, Op
<1>5. G \in Moves(n, S)
  BY <1>3, <1>4 DEF Moves
<1>6. \A k \in 1..n : \A seen \in S : G[k][seen] = Op(seen, s[k])
  OBVIOUS
<1> HIDE DEF G, n
<1>7. \A u \in SUBSET (1..n) : u # {} => Max(u) \in 1..n /\ u \ {Max(u)} \in SUBSET (1..n)
  BY <1>2, MaxIn
<1>8. PICK h \in [SUBSET (1..n) -> S] : IsFold(h, n, <<>>, G)
  BY <1>2, <1>5, FoldExists
<1>9. Eq(h)
  <2>1. ASSUME NEW u \in SUBSET (1..n)
        PROVE  h[u] = IF u = {} THEN <<>> ELSE Op(h[u \ {Max(u)}], s[Max(u)])
    <3>1. h[u] = IF u = {} THEN <<>> ELSE G[Max(u)][h[u \ {Max(u)}]]
      BY <1>8 DEF IsFold
    <3>2. u # {} => h[u \ {Max(u)}] \in S /\ Max(u) \in 1..n
      BY <1>7, <1>8
    <3>3. QED BY <1>6, <3>1, <3>2
  <2>2. h = [u \in SUBSET (1..n) |-> h[u]]
    BY <1>8
  <2>3. QED BY <1>2, <2>1, <2>2
<1> DEFINE c == CHOOSE g : Eq(g)
<1>10. Eq(c)
  BY <1>9
<1> HIDE DEF c
<1>11. Folds(c, n, S, <<>>, G)
  <2>1. \A u \in SUBSET (1..n) :
           c[u] = IF u = {} THEN <<>> ELSE Op(c[u \ {Max(u)}], s[Max(u)])
    BY <1>2, <1>10
  <2>2. {} \in SUBSET (1..n)
    OBVIOUS
  <2>3. QED BY <1>6, <1>7, <2>1, <2>2 DEF Folds
<1>12. Rounds(n, S, <<>>, G, T)
  <2>1. T \in [0..n -> SUBSET S] /\ <<>> \in T[0]
    BY <1>2
  <2>2. ASSUME NEW k \in 1..n, NEW y \in T[k - 1] PROVE G[k][y] \in T[k]
    <3>1. k - 1 \in 0..n /\ k \in 0..n /\ k # 0
      BY <1>2
    <3>2. y \in S /\ T[k] = S \ {<<>>}
      BY <1>2, <2>1, <3>1
    <3> HIDE DEF T
    <3>3. QED BY <1>3, <1>4, <1>6, <3>2
  <2> HIDE DEF T
  <2>3. QED BY <1>2, <1>5, <2>1, <2>2 DEF Rounds
<1>13. T[n] = S \ {<<>>}
  BY <1>2
<1> HIDE DEF T
<1>14. c[1..n] \in S \ {<<>>}
  BY <1>11, <1>12, <1>13, FoldReaches
<1>15. QED BY <1>1, <1>2, <1>14 DEF c, S

(* A span's set is drawn: links and stakes stay.                           *)
Spanned(f, g) ==
  /\ RingFrame(g) /\ Follows(f, g)
  /\ g.spanProposersList = f.spanProposersList
  /\ ~g.reverted => g.proposersSet # <<>>

LEMMA SpanSetTypes ==
  ASSUME NEW f, RingFrame(f), NEW slots \in Seq(Proposer), Len(slots) >= ProposerSetCount
  PROVE  Spanned(f, SpanProposerSet(f, slots))
<1> DEFINE drawn    == SubSeq(slots, 1, ProposerSetCount)
           members  == InOrderOfFirstAppearance(drawn)
           Count(a) == Cardinality({i \in DOMAIN drawn : drawn[i] = a})
           previous == {f.proposersSet[i].thisAddress : i \in DOMAIN f.proposersSet}
           Place(a) == (CHOOSE i \in DOMAIN members : members[i] = a) - 1
           set      == [i \in DOMAIN members |->
                         [thisAddress     |-> members[i],
                          weight          |-> Count(members[i]),
                          currentWeight   |-> Count(members[i]),
                          effectiveWeight |-> Count(members[i])]]
           links    == [a \in DOMAIN f.proposers |->
                         IF Contains(members, a)
                         THEN [f.proposers[a] EXCEPT !.inProposerSet = TRUE,
                                                     !.indexProposerSet = Place(a)]
                         ELSE IF a \in previous
                         THEN [f.proposers[a] EXCEPT !.inProposerSet = FALSE,
                                                     !.indexProposerSet = 0]
                         ELSE f.proposers[a]]
           g        == [f EXCEPT !.proposersSet = set, !.proposers = links]
<1>1. SpanProposerSet(f, slots) = g
  BY DEF SpanProposerSet
<1>2. ProposerSetCount \in Nat \ {0}
  BY RotationAssumption
<1>3. drawn \in Seq(Proposer) /\ Len(drawn) = ProposerSetCount
  BY <1>2
<1>4. drawn # <<>> /\ DOMAIN drawn = 1..ProposerSetCount
  BY <1>2, <1>3
<1> HIDE DEF drawn
<1>5. members \in Seq(Proposer) \ {<<>>}
  BY <1>3, <1>4, FirstAppearances
<1>6. \A a : Count(a) \in Nat
  <2>1. IsFiniteSet(1..ProposerSetCount)
    BY <1>2, FS_Interval
  <2>2. \A a : IsFiniteSet({i \in DOMAIN drawn : drawn[i] = a})
    BY <1>4, <2>1, FS_Subset
  <2>3. QED BY <2>2, FS_CardinalityType
<1> HIDE DEF members, Count
<1>7. /\ Len(members) \in Nat /\ DOMAIN members = 1..Len(members) /\ Len(members) # 0
      /\ \A i \in DOMAIN members : members[i] \in Proposer
  BY <1>5
<1>8. set \in Seq(Member) /\ set # <<>>
  <2>1. \A i \in 1..Len(members) : [thisAddress     |-> members[i],
                          weight          |-> Count(members[i]),
                          currentWeight   |-> Count(members[i]),
                          effectiveWeight |-> Count(members[i])] \in Member
    BY <1>6, <1>7 DEF Member
  <2>2. QED BY <1>7, <2>1
<1>9. \A a : Contains(members, a) => Place(a) \in Nat
  BY <1>7 DEF Contains
<1> HIDE DEF Place, previous, set
<1>10. f.proposers \in [Addr -> Linked] /\ f \in Frames /\ List(f.proposers)
       /\ AgreesWith(f.currentProposer, f.proposers)
  BY FrameFields DEF RingFrame, GoodFrame
<1>11. /\ links \in [Addr -> Linked]
       /\ \A a \in Addr : SameLinks(links[a], f.proposers[a])
  <2>1. ASSUME NEW e \in Linked, NEW b \in BOOLEAN, NEW i \in Nat
        PROVE  /\ [e EXCEPT !.inProposerSet = b, !.indexProposerSet = i] \in Linked
               /\ SameLinks([e EXCEPT !.inProposerSet = b, !.indexProposerSet = i], e)
    BY DEF Linked, SameLinks
  <2>2. \A a \in Addr : links[a] \in Linked /\ SameLinks(links[a], f.proposers[a])
    BY <1>9, <1>10, <2>1 DEF SameLinks
  <2>3. links = [a \in Addr |-> links[a]]
    BY <1>10
  <2> HIDE DEF links
  <2>4. QED BY <2>2, <2>3
<1> HIDE DEF links
<1>12. List(links) /\ AgreesWith(f.currentProposer, links)
  BY <1>10, <1>11, SameLinksList
<1>13. /\ g \in Frames /\ g.proposersSet = set /\ g.proposers = links
       /\ g.currentProposer = f.currentProposer /\ g.numProposers = f.numProposers
       /\ g.stakeAccounts = f.stakeAccounts /\ g.reverted = f.reverted
       /\ g.spanProposersList = f.spanProposersList
  BY <1>8, <1>10, <1>11 DEF Frames
<1> HIDE DEF g
<1>14. QED
  BY <1>1, <1>8, <1>12, <1>13
     DEF RingFrame, GoodFrame, Checked, Spanned, Follows

LEMMA Refused ==
  ASSUME NEW f, RingFrame(f)
  PROVE  /\ RingFrame(Require(f, FALSE)) /\ Follows(f, Require(f, FALSE))
         /\ Require(f, FALSE).reverted
         /\ Require(f, FALSE).spanProposersList = f.spanProposersList
<1> DEFINE g == [f EXCEPT !.reverted = TRUE]
<1>1. f \in Frames
  BY DEF RingFrame, GoodFrame
<1>2. Require(f, FALSE) = g
  BY <1>1 DEF Require, Frames
<1>3. /\ g \in Frames /\ g.proposers = f.proposers /\ g.reverted
      /\ g.currentProposer = f.currentProposer /\ g.numProposers = f.numProposers
      /\ g.stakeAccounts = f.stakeAccounts
      /\ g.spanProposersList = f.spanProposersList
  BY <1>1 DEF Frames
<1> HIDE DEF g
<1>4. QED BY <1>2, <1>3 DEF RingFrame, GoodFrame, Follows

LEMMA Initializing ==
  ASSUME NEW f, RingFrame(f), NEW seed \in Nat
  PROVE  Spanned(f, InitializeSpan(f, seed))
<1> DEFINE ring  == RingFrom(f)
           slots == FilledSlots(f, ring)
           refused == \/ f.currentProposer.thisAddress = NoAddress
                      \/ ring = <<>>
                      \/ SlotValue(f, ring) = 0
                      \/ Len(slots) < ProposerSetCount
<1>1. InitializeSpan(f, seed) = IF refused THEN Require(f, FALSE)
                                ELSE SpanProposerSet(f, ShuffledSlots(slots, seed))
  BY DEF InitializeSpan
<1>2. CASE refused
  BY <1>1, <1>2, Refused DEF Spanned
<1>3. CASE ~refused
  <2>1. f \in Frames /\ ring \in Seq(Proposer)
    BY <1>3, RingOfProposers DEF RingFrame, GoodFrame
  <2>2. SlotValue(f, ring) \in Nat \ {0}
    BY <1>3, <2>1, SlotValueTypes
  <2>3. slots \in Seq(Proposer)
    BY <2>1, <2>2, FilledSlotsTypes
  <2>4. /\ ShuffledSlots(slots, seed) \in Seq(Proposer)
        /\ Len(ShuffledSlots(slots, seed)) = Len(slots)
    BY <2>3, ShuffledTypes
  <2>5. Len(slots) >= ProposerSetCount
    <3>1. Len(slots) \in Nat /\ ProposerSetCount \in Nat
      BY <2>3, RotationAssumption
    <3>2. QED BY <1>3, <3>1
  <2>6. QED BY <1>1, <1>3, <2>4, <2>5, SpanSetTypes
<1>4. QED BY <1>2, <1>3

-----------------------------------------------------------------------------
(* The rounds of the weighted round robin.                                 *)
IndexIn(f, a) == f.proposers[a].indexProposerSet + 1
Better(f, set, best, peer) ==
  IF \/ best = NoAddress
     \/ set[IndexIn(f, best)].currentWeight < peer.currentWeight + peer.effectiveWeight
  THEN peer.thisAddress ELSE best
BestOf(f, set, best) == FoldLeft(LAMBDA b, peer : Better(f, set, b, peer), best, set)
TotalOf(set) == FoldLeft(LAMBDA t, peer : t + peer.effectiveWeight, 0, set)
RoundOf(f, acc) ==
  LET best  == BestOf(f, acc.set, acc.best)
      total == acc.total + TotalOf(acc.set)
  IN [set   |-> IF acc.set[IndexIn(f, best)].weight = 0 THEN acc.set
                ELSE [acc.set EXCEPT ![IndexIn(f, best)].currentWeight = @ - total],
      best  |-> best,
      total |-> total,
      list  |-> Append(acc.list, best)]

LEMMA BestTypes ==
  ASSUME NEW f, NEW set \in Seq(Member), set # <<>>, NEW best \in Addr
  PROVE  BestOf(f, set, best) \in Proposer
<1> DEFINE n == Len(set)
           Eq(h) == h = [u \in SUBSET (DOMAIN set) |->
                           IF u = {} THEN best ELSE Better(f, set, h[u \ {Max(u)}], set[Max(u)])]
           G == [k \in 1..n |-> [b \in Addr |-> Better(f, set, b, set[k])]]
           T == [k \in 0..n |-> IF k = 0 THEN Addr ELSE Proposer]
<1>1. BestOf(f, set, best) = (CHOOSE h : Eq(h))[DOMAIN set]
  BY DEF BestOf, FoldLeft, MapThenFoldSet
<1>2. n \in Nat /\ DOMAIN set = 1..n /\ n # 0
  OBVIOUS
<1>3. ASSUME NEW b \in Addr, NEW k \in 1..n PROVE Better(f, set, b, set[k]) \in Proposer
  <2>1. set[k].thisAddress \in Proposer
    <3>1. set[k] \in Member
      OBVIOUS
    <3>2. QED BY <3>1 DEF Member
  <2>2. QED BY <2>1 DEF Better, Addr
<1>4. Proposer \subseteq Addr
  BY AddrFacts
<1>5. G \in Moves(n, Addr)
  BY <1>3, <1>4 DEF Moves
<1>6. \A k \in 1..n : \A b \in Addr : G[k][b] = Better(f, set, b, set[k])
  OBVIOUS
<1> HIDE DEF G, n
<1>7. \A u \in SUBSET (1..n) : u # {} => Max(u) \in 1..n /\ u \ {Max(u)} \in SUBSET (1..n)
  BY <1>2, MaxIn
<1>8. PICK h \in [SUBSET (1..n) -> Addr] : IsFold(h, n, best, G)
  BY <1>2, <1>5, FoldExists
<1>9. Eq(h)
  <2>1. ASSUME NEW u \in SUBSET (1..n)
        PROVE  h[u] = IF u = {} THEN best ELSE Better(f, set, h[u \ {Max(u)}], set[Max(u)])
    <3>1. h[u] = IF u = {} THEN best ELSE G[Max(u)][h[u \ {Max(u)}]]
      BY <1>8 DEF IsFold
    <3>2. u # {} => h[u \ {Max(u)}] \in Addr /\ Max(u) \in 1..n
      BY <1>7, <1>8
    <3>3. QED BY <1>6, <3>1, <3>2
  <2>2. h = [u \in SUBSET (1..n) |-> h[u]]
    BY <1>8
  <2>3. QED BY <1>2, <2>1, <2>2
<1> DEFINE c == CHOOSE g : Eq(g)
<1>10. Eq(c)
  BY <1>9
<1> HIDE DEF c
<1>11. Folds(c, n, Addr, best, G)
  <2>1. \A u \in SUBSET (1..n) :
           c[u] = IF u = {} THEN best ELSE Better(f, set, c[u \ {Max(u)}], set[Max(u)])
    BY <1>2, <1>10
  <2>2. {} \in SUBSET (1..n)
    OBVIOUS
  <2>3. QED BY <1>6, <1>7, <2>1, <2>2 DEF Folds
<1>12. Rounds(n, Addr, best, G, T)
  <2>1. T \in [0..n -> SUBSET Addr] /\ best \in T[0]
    BY <1>2, <1>4
  <2>2. ASSUME NEW k \in 1..n, NEW y \in T[k - 1] PROVE G[k][y] \in T[k]
    <3>1. k - 1 \in 0..n /\ k \in 0..n /\ k # 0
      BY <1>2
    <3>2. y \in Addr /\ T[k] = Proposer
      BY <1>2, <2>1, <3>1
    <3> HIDE DEF T
    <3>3. QED BY <1>3, <1>6, <3>2
  <2> HIDE DEF T
  <2>3. QED BY <1>2, <1>5, <2>1, <2>2 DEF Rounds
<1>13. T[n] = Proposer
  BY <1>2
<1> HIDE DEF T
<1>14. c[1..n] \in Proposer
  BY <1>11, <1>12, <1>13, FoldReaches
<1>15. QED BY <1>1, <1>2, <1>14 DEF c

LEMMA TotalTypes ==
  ASSUME NEW set \in Seq(Member)
  PROVE  TotalOf(set) \in Int
<1> DEFINE n == Len(set)
           Op(t, peer) == t + peer.effectiveWeight
           Eq(h) == h = [u \in SUBSET (DOMAIN set) |->
                           IF u = {} THEN 0 ELSE Op(h[u \ {Max(u)}], set[Max(u)])]
           G == [k \in 1..n |-> [t \in Int |-> Op(t, set[k])]]
<1>1. TotalOf(set) = (CHOOSE h : Eq(h))[DOMAIN set]
  BY DEF TotalOf, FoldLeft, MapThenFoldSet
<1>2. n \in Nat /\ DOMAIN set = 1..n /\ 0 \in Int
  OBVIOUS
<1>3. ASSUME NEW t \in Int, NEW k \in 1..n PROVE Op(t, set[k]) \in Int
  <2>1. set[k].effectiveWeight \in Nat
    <3>1. set[k] \in Member
      OBVIOUS
    <3>2. QED BY <3>1 DEF Member
  <2>2. QED BY <2>1
<1> HIDE DEF Op
<1>5. G \in Moves(n, Int)
  BY <1>3 DEF Moves
<1>6. \A k \in 1..n : \A t \in Int : G[k][t] = Op(t, set[k])
  OBVIOUS
<1> HIDE DEF G, n
<1>7. \A u \in SUBSET (1..n) : u # {} => Max(u) \in 1..n /\ u \ {Max(u)} \in SUBSET (1..n)
  BY <1>2, MaxIn
<1>8. PICK h \in [SUBSET (1..n) -> Int] : IsFold(h, n, 0, G)
  BY <1>2, <1>5, FoldExists
<1>9. Eq(h)
  <2>1. ASSUME NEW u \in SUBSET (1..n)
        PROVE  h[u] = IF u = {} THEN 0 ELSE Op(h[u \ {Max(u)}], set[Max(u)])
    <3>1. h[u] = IF u = {} THEN 0 ELSE G[Max(u)][h[u \ {Max(u)}]]
      BY <1>8 DEF IsFold
    <3>2. u # {} => h[u \ {Max(u)}] \in Int /\ Max(u) \in 1..n
      BY <1>7, <1>8
    <3>3. QED BY <1>6, <3>1, <3>2
  <2>2. h = [u \in SUBSET (1..n) |-> h[u]]
    BY <1>8
  <2>3. QED BY <1>2, <2>1, <2>2
<1> DEFINE c == CHOOSE g : Eq(g)
<1>10. Eq(c)
  BY <1>9
<1> HIDE DEF c
<1>11. Folds(c, n, Int, 0, G)
  <2>1. \A u \in SUBSET (1..n) :
           c[u] = IF u = {} THEN 0 ELSE Op(c[u \ {Max(u)}], set[Max(u)])
    BY <1>2, <1>10
  <2>2. {} \in SUBSET (1..n)
    OBVIOUS
  <2>3. QED BY <1>6, <1>7, <2>1, <2>2 DEF Folds
<1>12. c[1..n] \in Int
  BY <1>2, <1>5, <1>11, FoldStays
<1>13. QED BY <1>1, <1>2, <1>12 DEF c

Accs == [set : Seq(Member) \ {<<>>}, best : Addr, total : Int, list : Seq(Proposer)]

LEMMA RoundTypes ==
  ASSUME NEW f, NEW acc \in Accs
  PROVE  RoundOf(f, acc) \in Accs
<1> DEFINE best  == BestOf(f, acc.set, acc.best)
           total == acc.total + TotalOf(acc.set)
           index == IndexIn(f, best)
           set   == IF acc.set[index].weight = 0 THEN acc.set
                    ELSE [acc.set EXCEPT ![index].currentWeight = @ - total]
<1>1. /\ acc.set \in Seq(Member) /\ acc.set # <<>> /\ acc.best \in Addr
      /\ acc.total \in Int /\ acc.list \in Seq(Proposer)
  BY DEF Accs
<1>2. best \in Proposer /\ best \in Addr
  BY <1>1, BestTypes, AddrFacts
<1>3. total \in Int
  BY <1>1, TotalTypes
<1> HIDE DEF total, index
<1>4. [acc.set EXCEPT ![index].currentWeight = @ - total] \in Seq(Member) \ {<<>>}
  <2> DEFINE s == acc.set
             n == Len(s)
  <2>1. n \in Nat /\ s \in [1..n -> Member] /\ n # 0
    BY <1>1
  <2> HIDE DEF s, n
  <2>2. [s EXCEPT ![index].currentWeight = @ - total] \in [1..n -> Member]
    <3>1. CASE index \in 1..n
      <4>1. s[index] \in Member
        BY <2>1, <3>1
      <4>2. s[index].currentWeight - total \in Int
        BY <1>3, <4>1 DEF Member
      <4>3. [s[index] EXCEPT !.currentWeight = @ - total] \in Member
        BY <4>1, <4>2 DEF Member
      <4>4. QED BY <2>1, <3>1, <4>3
    <3>2. CASE index \notin 1..n
      BY <2>1, <3>2
    <3>3. QED BY <3>1, <3>2
  <2>3. [1..n -> Member] \subseteq Seq(Member) \ {<<>>}
    BY <2>1
  <2>4. QED BY <2>2, <2>3 DEF s
<1>5. set \in Seq(Member) \ {<<>>}
  BY <1>1, <1>4
<1>6. Append(acc.list, best) \in Seq(Proposer)
  BY <1>1, <1>2
<1> HIDE DEF set, best
<1>7. [set |-> set, best |-> best, total |-> total, list |-> Append(acc.list, best)] \in Accs
  BY <1>2, <1>3, <1>5, <1>6 DEF Accs
<1>8. QED BY <1>7 DEF RoundOf, set, best, total, index

(* calculateNextProposers draws proposers, and moves no link and no stake. *)
LEMMA Calculating ==
  ASSUME NEW f, RingFrame(f), ~f.reverted => f.proposersSet # <<>>, NEW best \in Addr
  PROVE  /\ RingFrame(CalculateNextProposers(f, best))
         /\ Follows(f, CalculateNextProposers(f, best))
         /\ CalculateNextProposers(f, best).reverted = f.reverted
<1> DEFINE n   == ProposerSetCount
           seq == [j \in 1..n |-> j]
           x   == [set |-> f.proposersSet, best |-> best, total |-> 0, list |-> <<>>]
           Eq(h) == h = [u \in SUBSET (DOMAIN seq) |->
                           IF u = {} THEN x ELSE RoundOf(f, h[u \ {Max(u)}])]
           G   == [k \in 1..n |-> [acc \in Accs |-> RoundOf(f, acc)]]
           c   == CHOOSE h : Eq(h)
           final == c[DOMAIN seq]
           g   == [f EXCEPT !.proposersSet = final.set, !.spanProposersList = final.list]
<1>1. CalculateNextProposers(f, best) = IF f.reverted THEN f ELSE g
  BY DEF CalculateNextProposers, FoldLeft, MapThenFoldSet, RoundOf, BestOf, TotalOf,
         Better, IndexIn
<1>2. CASE f.reverted
  BY <1>1, <1>2 DEF Follows
<1>3. CASE ~f.reverted
  <2>1. f \in Frames /\ f.proposersSet \in Seq(Member) \ {<<>>}
    BY <1>3, FrameFields DEF RingFrame, GoodFrame
  <2>2. x \in Accs
    BY <2>1 DEF Accs
  <2>3. n \in Nat /\ DOMAIN seq = 1..n
    BY RotationAssumption
  <2>4. \A acc \in Accs : RoundOf(f, acc) \in Accs
    BY RoundTypes
  <2>5. G \in Moves(n, Accs)
    BY <2>4 DEF Moves
  <2>6. \A k \in 1..n : \A acc \in Accs : G[k][acc] = RoundOf(f, acc)
    OBVIOUS
  <2> HIDE DEF G, n, x, seq
  <2>7. \A u \in SUBSET (1..n) : u # {} => Max(u) \in 1..n /\ u \ {Max(u)} \in SUBSET (1..n)
    BY <2>3, MaxIn
  <2>8. PICK h \in [SUBSET (1..n) -> Accs] : IsFold(h, n, x, G)
    BY <2>2, <2>3, <2>5, FoldExists
  <2>9. Eq(h)
    <3>1. ASSUME NEW u \in SUBSET (1..n)
          PROVE  h[u] = IF u = {} THEN x ELSE RoundOf(f, h[u \ {Max(u)}])
      <4>1. h[u] = IF u = {} THEN x ELSE G[Max(u)][h[u \ {Max(u)}]]
        BY <2>8 DEF IsFold
      <4>2. u # {} => h[u \ {Max(u)}] \in Accs /\ Max(u) \in 1..n
        BY <2>7, <2>8
      <4>3. QED BY <2>6, <4>1, <4>2
    <3>2. h = [u \in SUBSET (1..n) |-> h[u]]
      BY <2>8
    <3>3. QED BY <2>3, <3>1, <3>2
  <2>10. Eq(c)
    <3> HIDE DEF Eq
    <3>1. QED BY <2>9
  <2> HIDE DEF c
  <2>11. Folds(c, n, Accs, x, G)
    <3>1. \A u \in SUBSET (1..n) :
             c[u] = IF u = {} THEN x ELSE RoundOf(f, c[u \ {Max(u)}])
      BY <2>3, <2>10
    <3>2. {} \in SUBSET (1..n)
      OBVIOUS
    <3>3. QED BY <2>6, <2>7, <3>1, <3>2 DEF Folds
  <2>12. c[1..n] \in Accs
    BY <2>2, <2>3, <2>5, <2>11, FoldStays
  <2>13. final \in Accs
    BY <2>3, <2>12
  <2> HIDE DEF final
  <2>14. final.set \in Seq(Member) /\ final.list \in Seq(Proposer)
    BY <2>13 DEF Accs
  <2>15. /\ g \in Frames /\ g.proposers = f.proposers
         /\ g.currentProposer = f.currentProposer /\ g.numProposers = f.numProposers
         /\ g.stakeAccounts = f.stakeAccounts /\ g.reverted = f.reverted
    BY <2>1, <2>14 DEF Frames
  <2> HIDE DEF g
  <2>16. QED BY <1>1, <1>3, <2>15 DEF RingFrame, GoodFrame, Checked, Follows
<1>4. QED BY <1>2, <1>3

-----------------------------------------------------------------------------
(* The turn passes to an entry of the list.                                *)
LEMMA TurnPasses ==
  ASSUME NEW f, GoodFrame(f), NEW a \in Addr
  PROVE  /\ RingFrame([f EXCEPT !.currentProposer = f.proposers[a]])
         /\ Follows(f, [f EXCEPT !.currentProposer = f.proposers[a]])
<1> DEFINE g == [f EXCEPT !.currentProposer = f.proposers[a]]
<1>1. f \in Frames /\ List(f.proposers) /\ f.proposers[a] \in Linked
  BY FrameFields DEF GoodFrame
<1>2. AgreesWith(f.proposers[a], f.proposers)
  BY <1>1, EntryAgrees
<1>3. /\ g \in Frames /\ g.currentProposer = f.proposers[a]
      /\ g.proposers = f.proposers /\ g.stakeAccounts = f.stakeAccounts
      /\ g.numProposers = f.numProposers /\ g.reverted = f.reverted
  BY <1>1 DEF Frames
<1> HIDE DEF g
<1>4. RingFrame(g) /\ Follows(f, g)
  BY <1>2, <1>3 DEF RingFrame, GoodFrame, Checked, Follows
<1>5. QED BY <1>4 DEF g

(* Neither a counter nor the start of a sprint is a link or a stake.       *)
LEMMA CountersAside ==
  ASSUME NEW f, RingFrame(f), NEW start \in Nat, NEW sprint \in Nat, NEW n \in Nat
  PROVE  /\ RingFrame([f EXCEPT !.proposerStartBlock = start])
         /\ Follows(f, [f EXCEPT !.proposerStartBlock = start])
         /\ RingFrame([f EXCEPT !.currentSprint = sprint])
         /\ Follows(f, [f EXCEPT !.currentSprint = sprint])
         /\ RingFrame([f EXCEPT !.numProposers = n])
         /\ Follows(f, [f EXCEPT !.numProposers = n])
<1>1. f \in Frames
  BY DEF RingFrame, GoodFrame
<1> DEFINE g == [f EXCEPT !.proposerStartBlock = start]
           h == [f EXCEPT !.currentSprint = sprint]
           k == [f EXCEPT !.numProposers = n]
<1>2. /\ g \in Frames /\ g.currentProposer = f.currentProposer
      /\ g.proposers = f.proposers /\ g.stakeAccounts = f.stakeAccounts
      /\ g.numProposers = f.numProposers /\ g.reverted = f.reverted
  BY <1>1 DEF Frames
<1>3. /\ h \in Frames /\ h.currentProposer = f.currentProposer
      /\ h.proposers = f.proposers /\ h.stakeAccounts = f.stakeAccounts
      /\ h.numProposers = f.numProposers /\ h.reverted = f.reverted
  BY <1>1 DEF Frames
<1>4. /\ k \in Frames /\ k.currentProposer = f.currentProposer
      /\ k.proposers = f.proposers /\ k.stakeAccounts = f.stakeAccounts
      /\ k.numProposers = n /\ k.reverted = f.reverted
  <2>1. n \in Int
    OBVIOUS
  <2>2. QED BY <1>1, <2>1 DEF Frames
<1> HIDE DEF g, h, k
<1>5. RingFrame(g) /\ Follows(f, g)
  BY <1>2 DEF RingFrame, GoodFrame, Checked, Follows
<1>6. RingFrame(h) /\ Follows(f, h)
  BY <1>3 DEF RingFrame, GoodFrame, Checked, Follows
<1>7. RingFrame(k) /\ Follows(f, k)
  BY <1>4 DEF RingFrame, GoodFrame, Checked, Follows
<1>8. QED BY <1>5, <1>6, <1>7 DEF g, h, k

LEMMA Sprinting ==
  ASSUME NEW f, RingFrame(f), NEW seed \in Nat
  PROVE  RingFrame(NextSprint(f, seed)) /\ Follows(f, NextSprint(f, seed))
<1> DEFINE best   == f.spanProposersList[f.currentSprint + 1]
           sprint == IF f.currentSprint + 1 = SprintsInSpan THEN 0 ELSE f.currentSprint + 1
           g      == [f EXCEPT !.currentSprint = sprint]
           span   == InitializeSpan(g, seed)
           h      == IF sprint = 0 THEN CalculateNextProposers(span, best) ELSE g
<1>1. NextSprint(f, seed) = IF f.currentSprint >= Len(f.spanProposersList)
                            THEN Require(f, FALSE)
                            ELSE [h EXCEPT !.currentProposer = h.proposers[best]]
  BY DEF NextSprint
<1>2. f.currentSprint \in Nat /\ f.spanProposersList \in Seq(Proposer)
  BY FrameFields DEF RingFrame, GoodFrame
<1>3. CASE f.currentSprint >= Len(f.spanProposersList)
  BY <1>1, <1>3, Refused
<1>4. CASE ~(f.currentSprint >= Len(f.spanProposersList))
  <2>1. best \in Addr
    <3>1. f.currentSprint + 1 \in 1..Len(f.spanProposersList)
      BY <1>2, <1>4
    <3>2. QED BY <1>2, <3>1, AddrFacts
  <2>2. sprint \in Nat
    BY <1>2
  <2> HIDE DEF best, sprint
  <2>3. RingFrame(g) /\ Follows(f, g)
    BY <2>2, CountersAside
  <2> HIDE DEF g
  <2>4. Spanned(g, span)
    BY <2>3, Initializing
  <2> HIDE DEF span
  <2>5. RingFrame(h) /\ Follows(g, h)
    <3>1. /\ RingFrame(CalculateNextProposers(span, best))
          /\ Follows(span, CalculateNextProposers(span, best))
      BY <2>1, <2>4, Calculating DEF Spanned
    <3>2. Follows(g, CalculateNextProposers(span, best))
      BY <2>4, <3>1, FollowsTwice DEF Spanned
    <3>3. Follows(g, g)
      BY DEF Follows
    <3>4. QED BY <2>3, <3>1, <3>2, <3>3
  <2> HIDE DEF h
  <2>6. Follows(f, h) /\ GoodFrame(h)
    BY <2>3, <2>5, FollowsTwice DEF RingFrame
  <2>7. /\ RingFrame([h EXCEPT !.currentProposer = h.proposers[best]])
        /\ Follows(h, [h EXCEPT !.currentProposer = h.proposers[best]])
    BY <2>1, <2>6, TurnPasses
  <2>8. QED BY <1>1, <1>4, <2>6, <2>7, FollowsTwice
<1>5. QED BY <1>3, <1>4

LEMMA Requiring ==
  ASSUME NEW f, RingFrame(f), NEW b \in BOOLEAN
  PROVE  RingFrame(Require(f, b)) /\ Follows(f, Require(f, b))
<1> DEFINE r == f.reverted \/ ~b
           g == [f EXCEPT !.reverted = r]
<1>1. f \in Frames /\ r \in BOOLEAN
  BY DEF RingFrame, GoodFrame
<1>2. Require(f, b) = g
  BY <1>1 DEF Require, Frames
<1>3. f.reverted => r
  OBVIOUS
<1> HIDE DEF r
<1>4. /\ g \in Frames /\ g.proposers = f.proposers /\ g.reverted = r
      /\ g.currentProposer = f.currentProposer /\ g.numProposers = f.numProposers
      /\ g.stakeAccounts = f.stakeAccounts
  BY <1>1 DEF Frames
<1> HIDE DEF g
<1>5. QED BY <1>2, <1>3, <1>4 DEF RingFrame, GoodFrame, Checked, Follows

(* changeCurrentProposer.                                                  *)
LEMMA Rotating ==
  ASSUME now \in Nat, NEW f, RingFrame(f), NEW seed \in Nat
  PROVE  /\ RingFrame(ChangeCurrentProposer(f, seed))
         /\ Follows(f, ChangeCurrentProposer(f, seed))
<1> DEFINE b == (\/ now - f.proposerStartBlock > RotateProposerBlocks
                 \/ f.proposerStartBlock = 0
                 \/ maxProposers["State"] = 1)
           g == Require(f, b)
           h == IF maxProposers["State"] = 1 /\ g.numProposers > 1
                THEN ExpelAllButBootProposer(g) ELSE g
           s == [h EXCEPT !.currentSprint = 0]
           a == h.currentProposer.thisAddress
           k == IF h.numProposers <= 1
                THEN [h EXCEPT !.currentSprint = 0,
                               !.currentProposer = h.proposers[@.thisAddress]]
                ELSE NextSprint(h, seed)
           e == [k EXCEPT !.proposerStartBlock = now]
<1>1. ChangeCurrentProposer(f, seed) = e
  BY DEF ChangeCurrentProposer
<1>2. RingFrame(g) /\ Follows(f, g)
  <2>1. b \in BOOLEAN
    OBVIOUS
  <2> HIDE DEF b
  <2>2. QED BY <2>1, Requiring
<1> HIDE DEF g
<1>3. RingFrame(h) /\ Follows(g, h)
  BY <1>2, ExpellingAll DEF Follows
<1> HIDE DEF h
<1>4. RingFrame(k) /\ Follows(h, k)
  <2>1. CASE h.numProposers <= 1
    <3>1. RingFrame(s) /\ Follows(h, s)
      BY <1>3, CountersAside
    <3>2. h \in Frames /\ a \in Addr
      BY <1>3, FrameFields, LinkedFields DEF RingFrame, GoodFrame
    <3>3. s.proposers = h.proposers /\ s.currentProposer = h.currentProposer
      BY <3>2 DEF Frames
    <3>4. k = [s EXCEPT !.currentProposer = s.proposers[a]]
      BY <2>1, <3>2, <3>3 DEF Frames
    <3> HIDE DEF k, s, a
    <3>5. RingFrame(k) /\ Follows(s, k)
      BY <3>1, <3>2, <3>4, TurnPasses DEF RingFrame
    <3>6. QED BY <3>1, <3>5, FollowsTwice
  <2>2. CASE ~(h.numProposers <= 1)
    BY <1>3, <2>2, Sprinting
  <2>3. QED BY <2>1, <2>2
<1> HIDE DEF k
<1>5. RingFrame(e) /\ Follows(k, e)
  BY <1>4, CountersAside
<1> HIDE DEF e
<1>6. Follows(f, e)
  BY <1>2, <1>3, <1>4, <1>5, FollowsTwice
<1>7. QED BY <1>1, <1>5, <1>6

(* removeProposer.                                                         *)
LEMMA Removing ==
  ASSUME now \in Nat, NEW f, RingFrame(f), NEW p \in Addr, NEW seed \in Nat
  PROVE  /\ RingFrame(RemoveProposer(f, p, seed))
         /\ Follows(f, RemoveProposer(f, p, seed))
<1> DEFINE g == RemoveFromRing(f, p)
           t == [g EXCEPT !.currentProposer = g.proposers[@.nextAddress]]
           z == [g EXCEPT !.currentProposer    = g.proposers[@.nextAddress],
                          !.proposerStartBlock = 0]
<1>1. RemoveProposer(f, p, seed) = IF g.currentProposer.thisAddress \in {p, NoAddress}
                                   THEN ChangeCurrentProposer(z, seed) ELSE g
  BY DEF RemoveProposer
<1>2. /\ GoodFrame(g) /\ Follows(f, g)
      /\ g.currentProposer.thisAddress # p => RingFrame(g)
  BY Removal DEF RingFrame
<1> HIDE DEF g
<1>3. CASE g.currentProposer.thisAddress \in {p, NoAddress}
  <2> DEFINE a == g.currentProposer.nextAddress
  <2>1. g \in Frames /\ a \in Addr
    BY <1>2, FrameFields, LinkedFields DEF GoodFrame
  <2>2. t = [g EXCEPT !.currentProposer = g.proposers[a]]
    BY <2>1 DEF Frames
  <2>3. z = [t EXCEPT !.proposerStartBlock = 0]
    BY <2>1 DEF Frames
  <2> HIDE DEF t, z, a
  <2>4. RingFrame(t) /\ Follows(g, t)
    BY <1>2, <2>1, <2>2, TurnPasses
  <2>5. RingFrame(z) /\ Follows(t, z)
    BY <2>3, <2>4, CountersAside
  <2>6. /\ RingFrame(ChangeCurrentProposer(z, seed))
        /\ Follows(z, ChangeCurrentProposer(z, seed))
    BY <2>5, Rotating
  <2>7. Follows(f, ChangeCurrentProposer(z, seed))
    BY <1>2, <2>4, <2>5, <2>6, FollowsTwice
  <2>8. QED BY <1>1, <1>3, <2>6, <2>7
<1>4. CASE g.currentProposer.thisAddress \notin {p, NoAddress}
  BY <1>1, <1>2, <1>4
<1>5. QED BY <1>3, <1>4

(* setNumProposers.                                                        *)
LEMMA Numbering ==
  ASSUME NEW f, RingFrame(f), NEW n \in Nat, NEW seed \in Nat
  PROVE  /\ RingFrame(SetNumProposers(f, n, seed))
         /\ Follows(f, SetNumProposers(f, n, seed))
<1> DEFINE g == [f EXCEPT !.numProposers = n]
           span == InitializeSpan(g, seed)
           drawn == CalculateNextProposers(span, NoAddress)
<1>1. SetNumProposers(f, n, seed) = IF n = 2 /\ f.numProposers = 1 THEN drawn ELSE g
  BY DEF SetNumProposers
<1>2. RingFrame(g) /\ Follows(f, g)
  BY CountersAside
<1> HIDE DEF g
<1>3. Spanned(g, span)
  BY <1>2, Initializing
<1> HIDE DEF span
<1>4. RingFrame(drawn) /\ Follows(span, drawn)
  BY <1>3, Calculating, AddrFacts DEF Spanned
<1> HIDE DEF drawn
<1>5. Follows(f, drawn)
  BY <1>2, <1>3, <1>4, FollowsTwice DEF Spanned
<1>6. QED BY <1>1, <1>2, <1>4, <1>5

-----------------------------------------------------------------------------
(* Registering: p comes between c and whoever is before it, or is alone.   *)
JoinedIs(new, links, p, c, q) ==
  /\ new \in [Addr -> Linked]
  /\ \A a \in Addr :
       /\ new[a].thisAddress = IF a = p THEN p ELSE links[a].thisAddress
       /\ new[a].nextAddress = IF a = p THEN c ELSE IF a = q THEN p
                               ELSE links[a].nextAddress
       /\ new[a].previousAddress = IF a = p THEN q ELSE IF a = c THEN p
                                   ELSE links[a].previousAddress

LEMMA Joining ==
  ASSUME NEW links, List(links), NEW p \in Proposer, links[p].thisAddress = NoAddress,
         NEW c, NEW q,
         \/ c = p /\ q = p
         \/ c \in Listed(links) /\ q = links[c].previousAddress,
         NEW new, JoinedIs(new, links, p, c, q)
  PROVE  List(new)
<1>1. /\ p \in Addr /\ p # NoAddress /\ p \notin Listed(links)
      /\ Listed(links) \subseteq Proposer /\ Listed(links) \subseteq Addr
      /\ NoAddress \notin Listed(links)
  BY AddrFacts DEF Listed
<1>2. Listed(new) = Listed(links) \cup {p}
  BY <1>1, AddrFacts DEF JoinedIs, Listed
<1>3. c \in Listed(new) /\ q \in Listed(new)
  BY <1>2 DEF List
<1>4. \/ c = p /\ q = p
      \/ /\ c # p /\ q # p /\ c \in Listed(links) /\ q \in Listed(links)
         /\ links[q].nextAddress = c /\ links[c].previousAddress = q
  BY <1>1 DEF List
<1>5. ASSUME NEW a \in Addr
      PROVE  /\ new[a].thisAddress \in {a, NoAddress}
             /\ new[a].thisAddress = NoAddress
                  => new[a].nextAddress = NoAddress /\ new[a].previousAddress = NoAddress
  <2>1. new[a].thisAddress = NoAddress => a \notin {p, c, q}
    BY <1>1, <1>4 DEF JoinedIs, Listed
  <2>2. QED BY <2>1 DEF JoinedIs, List
<1>6. /\ new[p].nextAddress = c /\ new[p].previousAddress = q
      /\ new[c].previousAddress = IF c = p THEN q ELSE p
      /\ new[q].nextAddress = IF q = p THEN c ELSE p
  BY <1>1, <1>4 DEF JoinedIs
<1>7. ASSUME NEW a \in Listed(links)
      PROVE  /\ new[a].nextAddress \in Listed(new)
             /\ new[a].previousAddress \in Listed(new)
             /\ new[new[a].nextAddress].previousAddress = a
             /\ new[new[a].previousAddress].nextAddress = a
  <2> DEFINE n == links[a].nextAddress
             m == links[a].previousAddress
  <2>1. /\ n \in Listed(links) /\ m \in Listed(links)
        /\ links[n].previousAddress = a /\ links[m].nextAddress = a
        /\ a # p /\ n # p /\ m # p
    BY <1>1, <1>7 DEF List
  <2>2. new[a].nextAddress = IF a = q THEN p ELSE n
    BY <1>1, <2>1 DEF JoinedIs
  <2>3. new[a].previousAddress = IF a = c THEN p ELSE m
    BY <1>1, <2>1 DEF JoinedIs
  <2>4. a # q => n # c
    BY <1>4, <2>1
  <2>5. a # c => m # q
    BY <1>4, <2>1
  <2>6. a # q => new[n].previousAddress = a
    BY <1>1, <2>1, <2>4 DEF JoinedIs
  <2>7. a # c => new[m].nextAddress = a
    BY <1>1, <2>1, <2>5 DEF JoinedIs
  <2> HIDE DEF n, m
  <2>8. QED BY <1>2, <1>6, <2>1, <2>2, <2>3, <2>6, <2>7
<1>8. /\ new[p].nextAddress \in Listed(new) /\ new[p].previousAddress \in Listed(new)
      /\ new[new[p].nextAddress].previousAddress = p
      /\ new[new[p].previousAddress].nextAddress = p
  BY <1>3, <1>6, <1>4
<1>9. QED BY <1>2, <1>5, <1>7, <1>8 DEF List, JoinedIs

(* A frame with another list in it.                                        *)
LEMMA Relinked ==
  ASSUME NEW f, GoodFrame(f), NEW links, List(links)
  PROVE  /\ GoodFrame([f EXCEPT !.proposers = links])
         /\ [f EXCEPT !.proposers = links].proposers = links
         /\ [f EXCEPT !.proposers = links].currentProposer = f.currentProposer
         /\ Follows(f, [f EXCEPT !.proposers = links])
<1> DEFINE g == [f EXCEPT !.proposers = links]
<1>1. /\ g \in Frames /\ g.proposers = links /\ g.currentProposer = f.currentProposer
      /\ g.stakeAccounts = f.stakeAccounts
      /\ g.numProposers = f.numProposers /\ g.reverted = f.reverted
  BY DEF GoodFrame, Frames, List
<1> HIDE DEF g
<1>2. GoodFrame(g) /\ Follows(f, g)
  BY <1>1 DEF GoodFrame, Checked, Follows
<1>3. QED BY <1>1, <1>2 DEF g

LEMMA JoiningFirst ==
  ASSUME now \in Nat, NEW f, RingFrame(f), NEW p \in Proposer,
         f.proposers[p].thisAddress = NoAddress
  PROVE  GoodFrame(LinkFirst(f, p)) /\ Follows(f, LinkFirst(f, p))
<1> DEFINE entry == [EmptyAddress EXCEPT !.thisAddress = p, !.previousAddress = p,
                                         !.nextAddress = p]
           links == [f.proposers EXCEPT ![p] = entry]
           g     == [f EXCEPT !.proposers = links]
<1>1. LinkFirst(f, p) = [g EXCEPT !.proposerStartBlock = now]
  BY DEF LinkFirst, RingFrame, GoodFrame, Frames
<1>2. /\ entry \in Linked /\ entry.thisAddress = p
      /\ entry.nextAddress = p /\ entry.previousAddress = p
  BY AddrFacts DEF Linked, EmptyAddress
<1>3. f.proposers \in [Addr -> Linked] /\ List(f.proposers)
  BY FrameFields DEF RingFrame, GoodFrame
<1> HIDE DEF entry
<1>4. JoinedIs(links, f.proposers, p, p, p)
  BY <1>2, <1>3, AddrFacts DEF JoinedIs
<1>5. List(links)
  <2> HIDE DEF links
  <2>1. QED BY <1>3, <1>4, Joining
<1> HIDE DEF links
<1>6. GoodFrame(g) /\ Follows(f, g) /\ g \in Frames
  BY <1>5, Relinked DEF RingFrame, GoodFrame
<1> DEFINE h == [g EXCEPT !.proposerStartBlock = now]
<1> HIDE DEF g
<1>7. /\ h \in Frames /\ h.proposers = g.proposers
      /\ h.stakeAccounts = g.stakeAccounts
      /\ h.numProposers = g.numProposers /\ h.reverted = g.reverted
  BY <1>6 DEF Frames
<1> HIDE DEF h
<1>8. GoodFrame(h) /\ Follows(f, h)
  BY <1>6, <1>7 DEF GoodFrame, Checked, Follows
<1>9. QED BY <1>1, <1>8 DEF h

LEMMA JoiningBehind ==
  ASSUME NEW f, RingFrame(f), NEW p \in Proposer,
         f.proposers[p].thisAddress = NoAddress,
         f.currentProposer.thisAddress # NoAddress
  PROVE  GoodFrame(SpliceBehindCurrent(f, p)) /\ Follows(f, SpliceBehindCurrent(f, p))
<1> DEFINE links    == f.proposers
           c        == f.currentProposer.thisAddress
           q        == f.currentProposer.previousAddress
           second   == links[q].thisAddress = links[c].thisAddress
           newcomer == [EmptyAddress EXCEPT !.thisAddress = p, !.nextAddress = c,
                                            !.previousAddress = q]
           before   == [links[q] EXCEPT !.nextAddress = p]
           after    == [links[c] EXCEPT !.previousAddress = p,
                                        !.nextAddress = IF second THEN p ELSE @]
           linked   == IF second THEN links
                       ELSE [links EXCEPT ![before.thisAddress] = before]
           new      == [linked EXCEPT ![after.thisAddress] = after, ![p] = newcomer]
<1>1. SpliceBehindCurrent(f, p) = [f EXCEPT !.proposers = new]
  BY DEF SpliceBehindCurrent
<1>2. /\ links \in [Addr -> Linked] /\ List(links) /\ f.currentProposer \in Linked
      /\ c \in Addr /\ SameLinks(f.currentProposer, links[c])
  BY FrameFields, LinkedFields DEF RingFrame, GoodFrame, AgreesWith
<1>3. c \in Listed(links) /\ links[c].thisAddress = c /\ links[c].previousAddress = q
  BY <1>2 DEF SameLinks, Listed, Addr
<1>4. /\ q \in Listed(links) /\ q \in Addr /\ links[q].thisAddress = q
      /\ links[q].nextAddress = c /\ p # c /\ p # q /\ p \in Addr
  BY <1>2, <1>3, AddrFacts DEF List, Listed
<1> HIDE DEF links, c, q
<1>5. /\ newcomer \in Linked /\ newcomer.thisAddress = p
      /\ newcomer.nextAddress = c /\ newcomer.previousAddress = q
  BY <1>2, <1>4, AddrFacts DEF Linked, EmptyAddress
<1>6. /\ before \in Linked /\ before.thisAddress = q
      /\ before.nextAddress = p /\ before.previousAddress = links[q].previousAddress
  BY <1>2, <1>4 DEF Linked
<1>7. /\ after \in Linked /\ after.thisAddress = c /\ after.previousAddress = p
      /\ after.nextAddress = IF q = c THEN p ELSE links[c].nextAddress
  BY <1>2, <1>3, <1>4 DEF Linked
<1>8. second <=> q = c
  BY <1>3, <1>4
<1> HIDE DEF newcomer, before, after, second
<1>9. /\ linked \in [Addr -> Linked]
      /\ \A a \in Addr : linked[a] = IF q # c /\ a = q THEN before ELSE links[a]
  BY <1>2, <1>4, <1>6, <1>8
<1> HIDE DEF linked
<1>10. /\ new \in [Addr -> Linked]
       /\ \A a \in Addr : new[a] = IF a = p THEN newcomer ELSE IF a = c THEN after
                                   ELSE linked[a]
  BY <1>2, <1>4, <1>5, <1>7, <1>9
<1> HIDE DEF new
<1>11. JoinedIs(new, links, p, c, q)
  BY <1>3, <1>4, <1>5, <1>6, <1>7, <1>9, <1>10 DEF JoinedIs
<1>12. List(new)
  <2>1. links[p].thisAddress = NoAddress
    BY DEF links
  <2>2. QED BY <1>2, <1>3, <1>11, <2>1, Joining
<1>13. QED BY <1>1, <1>12, Relinked DEF RingFrame

(* Writing an account; what it holds is the caller's affair.               *)
Funds(f, a, amount, locked, g) ==
  /\ RingFrame(f) /\ a \in Addr /\ amount \in Nat /\ locked \in Int
  /\ ~f.reverted => locked \in Nat
  /\ g = SetStakeAccount(f, a, amount, locked)

LEMMA Funding ==
  ASSUME NEW f, NEW a, NEW amount, NEW locked, NEW g, Funds(f, a, amount, locked, g)
  PROVE  /\ RingFrame(g)
         /\ g.proposers = f.proposers /\ g.currentProposer = f.currentProposer
         /\ g.numProposers = f.numProposers /\ g.reverted = f.reverted
         /\ g.stakeAccounts[a].amount = amount
         /\ g.stakeAccounts[a].challengeLocked = locked
         /\ \A b \in Addr \ {a} : g.stakeAccounts[b] = f.stakeAccounts[b]
<1> USE DEF Funds
<1> DEFINE account  == [amount |-> amount, challengeLocked |-> locked, time |-> 0]
           accounts == [f.stakeAccounts EXCEPT ![a] = account]
<1>1. f \in Frames /\ f.stakeAccounts \in [Addr -> Account]
  BY FrameFields DEF RingFrame, GoodFrame
<1>2. g = [f EXCEPT !.stakeAccounts = accounts]
  BY DEF SetStakeAccount
<1>3. account \in Account /\ account.amount = amount /\ account.challengeLocked = locked
  BY DEF Account
<1> HIDE DEF account
<1>4. /\ accounts \in [Addr -> Account] /\ accounts[a] = account
      /\ \A b \in Addr \ {a} : accounts[b] = f.stakeAccounts[b]
  BY <1>1, <1>3
<1> HIDE DEF accounts
<1>5. /\ g \in Frames /\ g.proposers = f.proposers
      /\ g.currentProposer = f.currentProposer
      /\ g.stakeAccounts = accounts
      /\ g.numProposers = f.numProposers /\ g.reverted = f.reverted
  BY <1>1, <1>2, <1>4 DEF Frames
<1>6. RingFrame(g)
  BY <1>3, <1>4, <1>5 DEF RingFrame, GoodFrame, Checked
<1>7. QED BY <1>3, <1>4, <1>5, <1>6

(* Starting a time lock.                                                   *)
LEMMA Locking ==
  ASSUME now \in Nat, NEW f, RingFrame(f), NEW p \in Addr
  PROVE  /\ RingFrame([f EXCEPT !.stakeAccounts[p].time = now])
         /\ Follows(f, [f EXCEPT !.stakeAccounts[p].time = now])
<1> DEFINE accounts == [f.stakeAccounts EXCEPT ![p].time = now]
           g == [f EXCEPT !.stakeAccounts = accounts]
<1>1. f \in Frames /\ f.stakeAccounts \in [Addr -> Account]
  BY FrameFields DEF RingFrame, GoodFrame
<1>2. /\ accounts \in [Addr -> Account]
      /\ \A a \in Addr : /\ accounts[a].amount = f.stakeAccounts[a].amount
                         /\ accounts[a].challengeLocked = f.stakeAccounts[a].challengeLocked
  BY <1>1 DEF Account
<1> HIDE DEF accounts
<1>3. /\ g \in Frames /\ g.stakeAccounts = accounts
      /\ g.proposers = f.proposers /\ g.currentProposer = f.currentProposer
      /\ g.numProposers = f.numProposers /\ g.reverted = f.reverted
  BY <1>1, <1>2 DEF Frames
<1> HIDE DEF g
<1>4. RingFrame(g) /\ Follows(f, g)
  BY <1>2, <1>3 DEF RingFrame, GoodFrame, Checked, Follows
<1>5. [f EXCEPT !.stakeAccounts[p].time = now] = g
  BY DEF g, accounts
<1>6. QED BY <1>4, <1>5

(* Writing off the stake of a bad block.                                   *)
TakenFrom(g, p, bad) ==
  LET stake == g.stakeAccounts[bad.proposer]
  IN SetStakeAccount(Require(g, stake.challengeLocked >= bad.blockStake),
                     p, stake.amount, stake.challengeLocked - bad.blockStake)

LEMMA Taking ==
  ASSUME NEW f, RingFrame(f), NEW p \in Proposer,
         NEW bad, bad.proposer \in Proposer, bad.blockStake \in Nat,
         NEW g, g = TakenFrom(f, p, bad)
  PROVE  /\ RingFrame(g)
         /\ g.stakeAccounts[p].amount = f.stakeAccounts[bad.proposer].amount
         /\ g.stakeAccounts[p].challengeLocked
              = f.stakeAccounts[bad.proposer].challengeLocked - bad.blockStake
         /\ \A b \in Addr \ {p} : g.stakeAccounts[b] = f.stakeAccounts[b]
<1> DEFINE stake  == f.stakeAccounts[bad.proposer]
           enough == stake.challengeLocked >= bad.blockStake
           r      == Require(f, enough)
           locked == stake.challengeLocked - bad.blockStake
<1>1. f \in Frames /\ f.stakeAccounts \in [Addr -> Account]
  BY FrameFields DEF RingFrame, GoodFrame
<1>2. stake \in Account
  BY <1>1, AddrFacts
<1>3. stake.amount \in Nat /\ stake.challengeLocked \in Int /\ locked \in Int
  BY <1>2 DEF Account
<1>4. enough => locked \in Nat
  BY <1>3
<1>5. r.stakeAccounts = f.stakeAccounts /\ (~r.reverted => enough)
  BY <1>1 DEF Require, Frames
<1>6. enough \in BOOLEAN
  OBVIOUS
<1>7. g = SetStakeAccount(r, p, stake.amount, locked)
  BY DEF TakenFrom
<1> HIDE DEF stake, enough, locked
<1>8. RingFrame(r)
  BY <1>6, Requiring
<1> HIDE DEF r
<1>9. p \in Addr
  BY AddrFacts
<1>10. /\ RingFrame(g)
       /\ g.stakeAccounts[p].amount = stake.amount
       /\ g.stakeAccounts[p].challengeLocked = locked
       /\ \A b \in Addr \ {p} : g.stakeAccounts[b] = r.stakeAccounts[b]
  <2>1. ~r.reverted => locked \in Nat
    BY <1>4, <1>5
  <2>2. Funds(r, p, stake.amount, locked, g)
    BY <1>3, <1>7, <1>8, <1>9, <2>1 DEF Funds
  <2>3. QED BY <2>2, Funding
<1>11. QED BY <1>5, <1>10 DEF stake, locked

RingFrames == {g \in Frames : RingFrame(g)}

BadBlocks(s) == \A k \in 1..Len(s) : s[k].proposer \in Proposer /\ s[k].blockStake \in Nat

Takings(s, p) == [k \in 1..Len(s) |-> [g \in RingFrames |-> TakenFrom(g, p, s[k])]]

(* rewardChallenger's loop, over the bad blocks from the last one back.    *)
LEMMA TakingAll ==
  ASSUME NEW f, RingFrame(f), NEW p \in Proposer, NEW bad \in Seq(BlockData),
         NEW s, s = Reverse(bad), BadBlocks(s)
  PROVE  /\ Takings(s, p) \in Moves(Len(s), RingFrames) /\ f \in RingFrames
         /\ Len(s) \in Nat
         /\ \E c : /\ Folds(c, Len(s), RingFrames, f, Takings(s, p))
                   /\ TakeBlockStakes(f, p, bad) = c[1..Len(s)]
<1> DEFINE n == Len(s)
           Eq(h) == h = [u \in SUBSET (DOMAIN s) |->
                           IF u = {} THEN f ELSE TakenFrom(h[u \ {Max(u)}], p, s[Max(u)])]
           G == Takings(s, p)
<1>1. TakeBlockStakes(f, p, bad) = (CHOOSE h : Eq(h))[DOMAIN s]
  BY DEF TakeBlockStakes, FoldLeft, MapThenFoldSet, TakenFrom
<1>2. n \in Nat /\ DOMAIN s = 1..n
  <2>1. s = [k \in 1..Len(bad) |-> bad[(Len(bad) - k) + 1]] /\ Len(bad) \in Nat
    BY DEF Reverse
  <2>2. QED BY <2>1
<1>3. f \in RingFrames
  BY DEF RingFrames, RingFrame, GoodFrame
<1>4. ASSUME NEW k \in 1..n, NEW g \in RingFrames PROVE TakenFrom(g, p, s[k]) \in RingFrames
  <2>1. RingFrame(g) /\ s[k].proposer \in Proposer /\ s[k].blockStake \in Nat
    BY <1>4 DEF RingFrames, BadBlocks
  <2>2. RingFrame(TakenFrom(g, p, s[k]))
    BY <2>1, Taking
  <2>3. QED BY <2>2 DEF RingFrames, RingFrame, GoodFrame
<1>5. G \in Moves(n, RingFrames)
  BY <1>4 DEF Moves, Takings
<1>6. \A k \in 1..n : \A g \in RingFrames : G[k][g] = TakenFrom(g, p, s[k])
  BY DEF Takings
<1> HIDE DEF G, n
<1>7. \A u \in SUBSET (1..n) : u # {} => Max(u) \in 1..n /\ u \ {Max(u)} \in SUBSET (1..n)
  BY <1>2, MaxIn
<1>8. PICK h \in [SUBSET (1..n) -> RingFrames] : IsFold(h, n, f, G)
  BY <1>2, <1>3, <1>5, FoldExists
<1>9. Eq(h)
  <2>1. ASSUME NEW u \in SUBSET (1..n)
        PROVE  h[u] = IF u = {} THEN f ELSE TakenFrom(h[u \ {Max(u)}], p, s[Max(u)])
    <3>1. h[u] = IF u = {} THEN f ELSE G[Max(u)][h[u \ {Max(u)}]]
      BY <1>8 DEF IsFold
    <3>2. u # {} => h[u \ {Max(u)}] \in RingFrames /\ Max(u) \in 1..n
      BY <1>7, <1>8
    <3>3. QED BY <1>6, <3>1, <3>2
  <2>2. h = [u \in SUBSET (1..n) |-> h[u]]
    BY <1>8
  <2>3. QED BY <1>2, <2>1, <2>2
<1> DEFINE c == CHOOSE g : Eq(g)
<1>10. Eq(c)
  BY <1>9
<1> HIDE DEF c
<1>11. Folds(c, n, RingFrames, f, G)
  <2>1. \A u \in SUBSET (1..n) :
           c[u] = IF u = {} THEN f ELSE TakenFrom(c[u \ {Max(u)}], p, s[Max(u)])
    BY <1>2, <1>10
  <2>2. {} \in SUBSET (1..n)
    OBVIOUS
  <2>3. QED BY <1>6, <1>7, <2>1, <2>2 DEF Folds
<1>12. TakeBlockStakes(f, p, bad) = c[1..n]
  BY <1>1, <1>2 DEF c
<1>13. QED BY <1>2, <1>3, <1>5, <1>11, <1>12 DEF n, G

LEMMA TakingTypes ==
  ASSUME NEW f, RingFrame(f), NEW p \in Proposer, NEW bad \in Seq(BlockData),
         BadBlocks(Reverse(bad))
  PROVE  RingFrame(TakeBlockStakes(f, p, bad))
<1>1. PICK s : s = Reverse(bad)
  OBVIOUS
<1>2. /\ Takings(s, p) \in Moves(Len(s), RingFrames) /\ f \in RingFrames
      /\ Len(s) \in Nat
  BY <1>1, TakingAll
<1>3. PICK c : /\ Folds(c, Len(s), RingFrames, f, Takings(s, p))
               /\ TakeBlockStakes(f, p, bad) = c[1..Len(s)]
  BY <1>1, TakingAll
<1>4. c[1..Len(s)] \in RingFrames
  BY <1>2, <1>3, FoldStays
<1>5. QED BY <1>3, <1>4 DEF RingFrames

-----------------------------------------------------------------------------
(***************************************************************************)
(* The state between two calls.  RingInv is a frame, the one a call starts *)
(* from; StorageInv is what the frames leave out.                          *)
(***************************************************************************)
Settled == [amount : Nat, challengeLocked : Nat, time : Nat]

RingInv == RingFrame(Frame)

StorageInv ==
  /\ paused \in [Contract -> BOOLEAN]
  /\ \A h \in DOMAIN blockInfo : blockInfo[h] \in [feesL2 : Nat, stakeClaimed : BOOLEAN]
  /\ isCommitmentEscrowed \subseteq Nat
  /\ pendingWithdrawalsFees \in [Address -> [feesL1 : Nat, feesL2 : Nat]]
  /\ ethBalance \in Nat
  /\ maxProposers \in [Contract -> Nat \ {0}]
  /\ \A k \in DOMAIN committers : committers[k] \in Challenger

LEMMA StateTypes ==
  ASSUME RingInv
  PROVE  /\ List(proposers) /\ AgreesWith(currentProposer, proposers)
         /\ proposerStartBlock \in Nat /\ numProposers \in Nat
         /\ proposersSet \in Seq(Member) /\ currentSprint \in Nat
         /\ spanProposersList \in Seq(Proposer)
         /\ stakeAccounts \in [Addr -> Settled]
<1>1. /\ Frame.proposers = proposers /\ Frame.currentProposer = currentProposer
      /\ Frame.proposerStartBlock = proposerStartBlock
      /\ Frame.numProposers = numProposers /\ Frame.proposersSet = proposersSet
      /\ Frame.currentSprint = currentSprint
      /\ Frame.spanProposersList = spanProposersList
      /\ Frame.stakeAccounts = stakeAccounts /\ Frame.reverted = FALSE
  BY DEF Frame
<1>2. Frame \in Frames /\ List(proposers) /\ AgreesWith(currentProposer, proposers)
  BY <1>1 DEF RingInv, RingFrame, GoodFrame
<1>3. numProposers \in Nat /\ \A a \in Addr : stakeAccounts[a].challengeLocked \in Nat
  BY <1>1 DEF RingInv, RingFrame, GoodFrame, Checked
<1>4. /\ proposerStartBlock \in Nat /\ proposersSet \in Seq(Member)
      /\ currentSprint \in Nat /\ spanProposersList \in Seq(Proposer)
      /\ stakeAccounts \in [Addr -> Account]
  BY <1>1, <1>2, FrameFields
<1>5. stakeAccounts \in [Addr -> Settled]
  BY <1>3, <1>4 DEF Account, Settled
<1>6. QED BY <1>2, <1>3, <1>4, <1>5

(* The other way round.                                                    *)
RingTypes == /\ List(proposers) /\ AgreesWith(currentProposer, proposers)
             /\ proposerStartBlock \in Nat /\ numProposers \in Nat
             /\ proposersSet \in Seq(Member) /\ currentSprint \in Nat
             /\ spanProposersList \in Seq(Proposer)
             /\ stakeAccounts \in [Addr -> Settled]

LEMMA TypesOfState == RingTypes => RingInv
<1> SUFFICES ASSUME RingTypes PROVE RingInv
  OBVIOUS
<1>1. /\ stakeAccounts \in [Addr -> Account]
      /\ \A a \in Addr : stakeAccounts[a].challengeLocked \in Nat
  BY DEF RingTypes, Account, Settled
<1>2. Frame \in Frames
  BY <1>1 DEF RingTypes, Frame, Frames, List, AgreesWith
<1>3. /\ Frame.proposers = proposers /\ Frame.currentProposer = currentProposer
      /\ Frame.numProposers = numProposers /\ Frame.stakeAccounts = stakeAccounts
  BY DEF Frame
<1>4. QED BY <1>1, <1>2, <1>3 DEF RingTypes, RingInv, RingFrame, GoodFrame, Checked

LEMMA TypesOfStateNext == RingTypes' => RingInv'
BY TypesOfState, PTL

(* What a call leaves behind is the frame it ended with.                   *)
LEMMA Committed ==
  ASSUME NEW f, RingFrame(f), Commit(f)
  PROVE  RingInv' /\ ~f.reverted
<1>1. f \in Frames /\ ~f.reverted /\ Checked(f)
  BY DEF RingFrame, GoodFrame, Commit
<1>2. /\ proposers' \in [Addr -> Linked] /\ currentProposer' \in Linked
      /\ proposerStartBlock' \in Nat /\ numProposers' \in Nat
      /\ proposersSet' \in Seq(Member) /\ currentSprint' \in Nat
      /\ spanProposersList' \in Seq(Proposer)
      /\ stakeAccounts' \in [Addr -> Account]
      /\ \A a \in Addr : stakeAccounts'[a].challengeLocked \in Nat
  BY <1>1, FrameFields DEF Commit, Checked
<1>3. stakeAccounts' \in [Addr -> Settled]
  BY <1>2 DEF Account, Settled
<1>4. List(proposers') /\ AgreesWith(currentProposer', proposers')
  BY DEF RingFrame, GoodFrame, Commit
<1>5. RingTypes'
  BY <1>2, <1>3, <1>4 DEF RingTypes
<1>6. QED BY <1>1, <1>5, TypesOfStateNext

(* A call that moves money only.                                           *)
LEMMA StakesMoved ==
  ASSUME RingInv, UNCHANGED ringVars, stakeAccounts' \in [Addr -> Settled]
  PROVE  RingInv'
<1>1. RingTypes'
  BY StateTypes DEF ringVars, RingTypes
<1>2. QED BY <1>1, TypesOfStateNext

LEMMA InitRing == Init => RingInv /\ StorageInv
<1> SUFFICES ASSUME Init PROVE RingInv /\ StorageInv
  OBVIOUS
<1> USE DEF Init, StateInit
<1>1. List(proposers) /\ AgreesWith(currentProposer, proposers)
  <2>1. /\ proposers \in [Addr -> Linked] /\ \A a \in Addr : proposers[a] = EmptyAddress
        /\ currentProposer = EmptyAddress
    BY AddrFacts DEF Addr
  <2>2. Listed(proposers) = {}
    BY <2>1, AddrFacts DEF Listed
  <2>3. List(proposers)
    BY <2>1, <2>2, AddrFacts DEF List
  <2>4. QED BY <2>1, <2>3, AddrFacts DEF AgreesWith, SameLinks
<1>2. stakeAccounts \in [Addr -> Settled]
  BY DEF Settled, EmptyStake, Addr
<1>3. RingTypes
  BY <1>1, <1>2 DEF RingTypes
<1>4. StorageInv
  BY RotationAssumption DEF StorageInv, EmptyFees
<1>5. QED BY <1>3, <1>4, TypesOfState

-----------------------------------------------------------------------------
(* The calls.                                                              *)
RegisteredFrame(f, p) ==
  LET first   == f.currentProposer.thisAddress = NoAddress
      linked  == IF first THEN LinkFirst(f, p) ELSE SpliceBehindCurrent(f, p)
      current == IF first THEN p ELSE f.currentProposer.thisAddress
  IN [linked EXCEPT !.currentProposer = linked.proposers[current]]

LEMMA Joined ==
  ASSUME now \in Nat, NEW f, RingFrame(f), NEW p \in Proposer,
         f.proposers[p].thisAddress = NoAddress
  PROVE  RingFrame(RegisteredFrame(f, p)) /\ Follows(f, RegisteredFrame(f, p))
<1> DEFINE first   == f.currentProposer.thisAddress = NoAddress
           linked  == IF first THEN LinkFirst(f, p) ELSE SpliceBehindCurrent(f, p)
           current == IF first THEN p ELSE f.currentProposer.thisAddress
<1>1. GoodFrame(linked) /\ Follows(f, linked)
  BY JoiningFirst, JoiningBehind
<1>2. current \in Addr
  BY FrameFields, LinkedFields, AddrFacts DEF RingFrame, GoodFrame
<1>3. RegisteredFrame(f, p) = [linked EXCEPT !.currentProposer = linked.proposers[current]]
  BY DEF RegisteredFrame
<1> HIDE DEF linked, current
<1>4. QED BY <1>1, <1>2, <1>3, TurnPasses, FollowsTwice

LEMMA FrameIs ==
  ASSUME RingInv
  PROVE  /\ Frame \in Frames /\ RingFrame(Frame) /\ ~Frame.reverted
         /\ Frame.proposers = proposers /\ Frame.currentProposer = currentProposer
         /\ Frame.numProposers = numProposers /\ Frame.stakeAccounts = stakeAccounts
<1>1. RingFrame(Frame)
  BY DEF RingInv
<1>2. /\ Frame.proposers = proposers /\ Frame.currentProposer = currentProposer
      /\ Frame.numProposers = numProposers /\ Frame.stakeAccounts = stakeAccounts
      /\ Frame.reverted = FALSE
  BY DEF Frame
<1>3. QED BY <1>1, <1>2 DEF RingFrame, GoodFrame

(* The accounts after registerProposer.                                    *)
LEMMA Registering ==
  ASSUME RingInv, now \in Nat, NEW p \in Proposer, NEW value \in Nat, NEW seed \in Nat,
         RegisterProposer(p, value, seed)
  PROVE  /\ RingInv'
         /\ stakeAccounts'[p].amount = stakeAccounts[p].amount + value
         /\ stakeAccounts'[p].challengeLocked = stakeAccounts[p].challengeLocked
         /\ \A a \in Addr \ {p} :
              /\ stakeAccounts'[a].amount = stakeAccounts[a].amount
              /\ stakeAccounts'[a].challengeLocked = stakeAccounts[a].challengeLocked
<1> DEFINE amount == stakeAccounts[p].amount + value
           locked == stakeAccounts[p].challengeLocked
           f == SetStakeAccount(Frame, p, amount, locked)
           r == RegisteredFrame(f, p)
           g == SetNumProposers(r, numProposers + 1, seed)
<1>1. p \in Addr /\ amount \in Nat /\ locked \in Nat /\ numProposers + 1 \in Nat
  <2>1. p \in Addr /\ stakeAccounts \in [Addr -> Settled] /\ numProposers \in Nat
    BY AddrFacts, StateTypes
  <2>2. stakeAccounts[p] \in Settled
    BY <2>1
  <2>3. QED BY <2>1, <2>2 DEF Settled
<1>2. proposers[p].thisAddress = NoAddress
  BY DEF RegisterProposer
<1> HIDE DEF amount, locked
<1>3. Funds(Frame, p, amount, locked, f)
  BY <1>1, FrameIs DEF Funds
<1>4. /\ RingFrame(f) /\ f.proposers = proposers /\ f.currentProposer = currentProposer
      /\ f.stakeAccounts[p].amount = amount
      /\ f.stakeAccounts[p].challengeLocked = locked
      /\ \A a \in Addr \ {p} : f.stakeAccounts[a] = stakeAccounts[a]
  BY <1>3, FrameIs, Funding
<1>5. Commit(g)
  <2>1. f.currentProposer = currentProposer
    BY <1>4
  <2>2. QED BY <2>1 DEF RegisterProposer, RegisteredFrame, amount, locked
<1> HIDE DEF f
<1>6. RingFrame(r) /\ Follows(f, r)
  BY <1>2, <1>4, Joined
<1> HIDE DEF r
<1>7. RingFrame(g) /\ Follows(r, g)
  BY <1>1, <1>6, Numbering
<1> HIDE DEF g
<1>8. Follows(f, g)
  BY <1>6, <1>7, FollowsTwice
<1>9. RingInv' /\ stakeAccounts' = g.stakeAccounts
  BY <1>5, <1>7, Committed DEF Commit
<1>10. QED BY <1>1, <1>4, <1>8, <1>9 DEF Follows, amount, locked

(* No stake moves when the ring turns or loses a proposer.                 *)
StakesStay == \A a \in Addr :
                /\ stakeAccounts'[a].amount = stakeAccounts[a].amount
                /\ stakeAccounts'[a].challengeLocked = stakeAccounts[a].challengeLocked

LEMMA Turning ==
  ASSUME RingInv, NEW f, RingFrame(f), Follows(Frame, f), Commit(f)
  PROVE  RingInv' /\ StakesStay
<1>1. RingInv' /\ stakeAccounts' = f.stakeAccounts
  BY Committed DEF Commit
<1>2. QED BY <1>1, FrameIs DEF Follows, StakesStay

LEMMA Leaving ==
  ASSUME RingInv, now \in Nat, NEW p \in Proposer, NEW seed \in Nat,
         DeRegisterProposer(p, seed)
  PROVE  RingInv' /\ StakesStay
<1> DEFINE f == RemoveProposer(Frame, p, seed)
           g == [f EXCEPT !.stakeAccounts[p].time = now]
<1>1. p \in Addr
  BY AddrFacts
<1>2. RingFrame(f) /\ Follows(Frame, f)
  BY <1>1, FrameIs, Removing
<1>3. Commit(g)
  BY DEF DeRegisterProposer
<1> HIDE DEF f
<1>4. RingFrame(g) /\ Follows(Frame, g)
  BY <1>1, <1>2, Locking, FollowsTwice
<1> HIDE DEF g
<1>5. QED BY <1>3, <1>4, Turning

LEMMA TakingTurns ==
  ASSUME RingInv, now \in Nat, NEW seed \in Nat, RotateProposer(seed)
  PROVE  RingInv' /\ StakesStay
<1> DEFINE g == ChangeCurrentProposer(Frame, seed)
<1>1. RingFrame(g) /\ Follows(Frame, g)
  BY FrameIs, Rotating
<1>2. Commit(g)
  BY DEF RotateProposer
<1> HIDE DEF g
<1>3. QED BY <1>1, <1>2, Turning

(* The frame a challenge ends with, before and after the stakes are taken. *)
LEMMA Expulsion ==
  ASSUME RingInv, now \in Nat, ChainTypeOK, NEW i \in DOMAIN blockHashes, NEW seed \in Nat
  PROVE  /\ RingFrame(RemoveProposer(Frame, blockHashes[i].proposer, seed))
         /\ Follows(Frame, RemoveProposer(Frame, blockHashes[i].proposer, seed))
         /\ blockHashes[i].proposer \in Proposer
         /\ SubSeq(blockHashes, i, Len(blockHashes)) \in Seq(BlockData)
         /\ BadBlocks(Reverse(SubSeq(blockHashes, i, Len(blockHashes))))
         /\ RingFrame(RewardChallenger(i, seed))
<1> DEFINE n == Len(blockHashes)
           p == blockHashes[i].proposer
           bad == SubSeq(blockHashes, i, n)
           m == (n - i) + 1
<1>1. /\ n \in Nat /\ i \in 1..n /\ blockHashes \in Seq(BlockData)
      /\ \A j \in 1..n : blockHashes[j] \in BlockData
  BY QueueTypes DEF ChainTypeOK
<1>2. p \in Proposer /\ p \in Addr
  BY <1>1, AddrFacts DEF BlockData
<1>3. /\ bad \in Seq(BlockData) /\ Len(bad) = m /\ m \in Nat
      /\ \A k \in 1..m : bad[k] = blockHashes[(i + k) - 1] /\ (i + k) - 1 \in 1..n
  BY <1>1
<1>4. BadBlocks(Reverse(bad))
  <2> HIDE DEF bad, m
  <2>1. Reverse(bad) = [k \in 1..m |-> bad[(m - k) + 1]]
    BY <1>3 DEF Reverse
  <2>2. \A k \in 1..m : (m - k) + 1 \in 1..m
    BY <1>3
  <2>3. Len(Reverse(bad)) = m
    BY <1>3, <2>1
  <2>4. ASSUME NEW k \in 1..m
        PROVE  Reverse(bad)[k].proposer \in Proposer /\ Reverse(bad)[k].blockStake \in Nat
    <3>1. Reverse(bad)[k] \in BlockData
      BY <1>1, <1>3, <2>1, <2>2
    <3>2. QED BY <3>1 DEF BlockData
  <2>5. QED BY <2>3, <2>4 DEF BadBlocks
<1> DEFINE f == RemoveProposer(Frame, p, seed)
<1>5. RingFrame(f) /\ Follows(Frame, f)
  BY <1>2, FrameIs, Removing
<1>6. RewardChallenger(i, seed) = TakeBlockStakes(f, p, bad)
  BY DEF RewardChallenger
<1> HIDE DEF f, bad, p
<1>7. RingFrame(TakeBlockStakes(f, p, bad))
  BY <1>2, <1>3, <1>4, <1>5, TakingTypes
<1>8. QED BY <1>2, <1>3, <1>4, <1>5, <1>6, <1>7 DEF f, bad, p

-----------------------------------------------------------------------------
(* What is paid for a block, and what for a challenge.                     *)
LEMMA RewardIsSum ==
  ASSUME NEW bad \in Seq(BlockData)
  PROVE  Reward(bad) = SumFunctionOnSet([k \in 1..Len(bad) |-> bad[k].blockStake],
                                        1..Len(bad))
<1> DEFINE n == Len(bad)
           w == [k \in 1..n |-> bad[k].blockStake]
           Eq(h) == h = [u \in SUBSET (DOMAIN bad) |->
                           IF u = {} THEN 0 ELSE h[u \ {Max(u)}] + bad[Max(u)].blockStake]
           c == CHOOSE h : Eq(h)
<1>1. Reward(bad) = c[DOMAIN bad]
  BY DEF Reward, FoldLeft, MapThenFoldSet
<1>2. n \in Nat /\ DOMAIN bad = 1..n /\ \A k \in 1..n : w[k] \in Int
  <2>1. \A k \in 1..n : bad[k] \in BlockData
    OBVIOUS
  <2>2. QED BY <2>1 DEF BlockData
<1>3. \A k \in 1..n : w[k] = bad[k].blockStake
  OBVIOUS
<1> HIDE DEF w, n
<1>4. \A u \in SUBSET (1..n) : u # {} => Max(u) \in 1..n
  BY <1>2, MaxIn
<1>5. PICK h \in [SUBSET (1..n) -> Int] : AddsUp(h, n, w)
  BY <1>2, SumLoopExists
<1>6. Eq(h)
  <2>1. h = [u \in SUBSET (1..n) |-> h[u]]
    BY <1>5
  <2>2. QED BY <1>2, <1>3, <1>4, <1>5, <2>1 DEF AddsUp
<1>7. Eq(c)
  <2> HIDE DEF Eq
  <2>1. QED BY <1>6
<1> HIDE DEF c
<1>8. AddsUp(c, n, w)
  BY <1>2, <1>3, <1>4, <1>7 DEF AddsUp
<1>9. c[1..n] = SumFunctionOnSet(w, 1..n)
  BY <1>2, <1>8, SumLoop
<1>10. QED BY <1>1, <1>2, <1>9 DEF w, n

LEMMA RewardTypes ==
  ASSUME NEW bad \in Seq(BlockData)
  PROVE  Reward(bad) \in Nat
<1> DEFINE n == Len(bad)
           w == [k \in 1..n |-> bad[k].blockStake]
<1>1. n \in Nat /\ \A k \in 1..n : bad[k] \in BlockData
  OBVIOUS
<1>2. \A k \in 1..n : w[k] \in Nat
  BY <1>1 DEF BlockData
<1> HIDE DEF w, n
<1>3. IsFiniteSet(1..n)
  BY <1>1, FS_Interval
<1>4. SumFunctionOnSet(w, 1..n) \in Nat
  BY <1>2, <1>3, SumNat
<1>5. QED BY <1>4, RewardIsSum DEF w, n

LEMMA FeesTypes ==
  ASSUME NEW txs \in Body
  PROVE  FeesL2(txs) \in Nat
<1> DEFINE n == Len(txs)
           w == [k \in 1..n |-> txs[k].fee]
           Eq(h) == h = [u \in SUBSET (DOMAIN txs) |->
                           IF u = {} THEN 0 ELSE h[u \ {Max(u)}] + txs[Max(u)].fee]
           c == CHOOSE h : Eq(h)
<1>1. FeesL2(txs) = c[DOMAIN txs]
  BY DEF FeesL2, FoldLeft, MapThenFoldSet
<1>2. /\ n \in Nat /\ DOMAIN txs = 1..n
      /\ \A k \in 1..n : w[k] \in Int /\ w[k] \in Nat
  <2>1. txs \in Seq([commitment : Nat, isEscrowRequired : BOOLEAN, fee : Nat])
    BY BodyAssumption
  <2> DEFINE Tx == [commitment : Nat, isEscrowRequired : BOOLEAN, fee : Nat]
  <2>2. \A k \in 1..n : txs[k] \in Tx
    <3> HIDE DEF Tx
    <3>1. txs \in Seq(Tx)
      BY <2>1 DEF Tx
    <3>2. QED BY <3>1
  <2>3. \A k \in 1..n : txs[k].fee \in Nat
    BY <2>2
  <2>4. QED BY <2>1, <2>3
<1>3. \A k \in 1..n : w[k] = txs[k].fee
  OBVIOUS
<1> HIDE DEF w, n
<1>4. \A u \in SUBSET (1..n) : u # {} => Max(u) \in 1..n
  BY <1>2, MaxIn
<1>5. PICK h \in [SUBSET (1..n) -> Int] : AddsUp(h, n, w)
  BY <1>2, SumLoopExists
<1>6. Eq(h)
  <2>1. h = [u \in SUBSET (1..n) |-> h[u]]
    BY <1>5
  <2>2. QED BY <1>2, <1>3, <1>4, <1>5, <2>1 DEF AddsUp
<1>7. Eq(c)
  <2> HIDE DEF Eq
  <2>1. QED BY <1>6
<1> HIDE DEF c
<1>8. AddsUp(c, n, w)
  BY <1>2, <1>3, <1>4, <1>7 DEF AddsUp
<1>9. c[1..n] = SumFunctionOnSet(w, 1..n)
  BY <1>2, <1>8, SumLoop
<1>10. IsFiniteSet(1..n)
  BY <1>2, FS_Interval
<1>11. SumFunctionOnSet(w, 1..n) \in Nat
  BY <1>2, <1>10, SumNat
<1>12. QED BY <1>1, <1>2, <1>9, <1>11

Fees == [feesL1 : Nat, feesL2 : Nat]

LEMMA PendingTypes ==
  ASSUME NEW fees \in [Address -> Fees], NEW a \in Address, NEW l1 \in Nat, NEW l2 \in Nat
  PROVE  /\ AddPendingWithdrawal(fees, a, l1, l2) \in [Address -> Fees]
         /\ AddPendingWithdrawal(fees, a, l1, l2)[a].feesL1 = fees[a].feesL1 + l1
         /\ \A b \in Address \ {a} : AddPendingWithdrawal(fees, a, l1, l2)[b] = fees[b]
<1> DEFINE entry == [fees[a] EXCEPT !.feesL1 = @ + l1, !.feesL2 = @ + l2]
<1>1. fees[a] \in Fees
  OBVIOUS
<1>2. entry \in Fees /\ entry.feesL1 = fees[a].feesL1 + l1
  <2>1. PICK e : e = fees[a]
    OBVIOUS
  <2>2. e \in Fees /\ entry = [e EXCEPT !.feesL1 = @ + l1, !.feesL2 = @ + l2]
    BY <1>1, <2>1
  <2> DEFINE d == [e EXCEPT !.feesL1 = @ + l1]
             x == [d EXCEPT !.feesL2 = @ + l2]
  <2>3. e.feesL1 + l1 \in Nat /\ e.feesL2 + l2 \in Nat
    BY <2>2 DEF Fees
  <2>4. d \in Fees /\ d.feesL1 = e.feesL1 + l1 /\ d.feesL2 = e.feesL2
    BY <2>2, <2>3 DEF Fees
  <2>5. entry = x
    BY <2>2
  <2> HIDE DEF d, entry
  <2>6. x \in Fees /\ x.feesL1 = d.feesL1
    BY <2>3, <2>4 DEF Fees
  <2>7. QED BY <2>1, <2>4, <2>5, <2>6
<1>3. AddPendingWithdrawal(fees, a, l1, l2) = [fees EXCEPT ![a] = entry]
  BY DEF AddPendingWithdrawal
<1> HIDE DEF entry
<1>4. QED BY <1>2, <1>3

TypeInv == RingInv /\ StorageInv /\ ChainTypeOK

LEMMA Accounts ==
  ASSUME TypeInv, NEW p \in Proposer
  PROVE  /\ p \in Addr /\ p \in Address /\ stakeAccounts \in [Addr -> Settled]
         /\ stakeAccounts[p].amount \in Nat /\ stakeAccounts[p].challengeLocked \in Nat
         /\ pendingWithdrawalsFees \in [Address -> Fees] /\ ethBalance \in Nat
<1>1. stakeAccounts \in [Addr -> Settled] /\ p \in Addr
  BY StateTypes, AddrFacts DEF TypeInv
<1>2. stakeAccounts[p] \in Settled
  BY <1>1
<1>3. QED BY <1>1, <1>2 DEF Settled, TypeInv, StorageInv, Address, Fees

LEMMA Proposing ==
  ASSUME TypeInv, NEW p \in Proposer, NEW txs \in Body, NEW valid, NEW value \in Nat,
         Propose(p, txs, valid, value)
  PROVE  /\ RingInv' /\ StorageInv'
         /\ stakeAccounts'[p].amount = stakeAccounts[p].amount + value - blockStake
         /\ stakeAccounts'[p].challengeLocked = stakeAccounts[p].challengeLocked + blockStake
         /\ \A a \in Addr \ {p} : stakeAccounts'[a] = stakeAccounts[a]
<1> DEFINE account == [amount          |-> stakeAccounts[p].amount + value - blockStake,
                       challengeLocked |-> stakeAccounts[p].challengeLocked + blockStake,
                       time            |-> 0]
           hash == HashBlock(NextBlock(p, txs, valid))
           info == [feesL2 |-> FeesL2(txs), stakeClaimed |-> IsClaimed(hash)]
<1>1. blockStake \in Nat /\ stakeAccounts[p].amount + value >= blockStake
  BY DEF TypeInv, ChainTypeOK, Propose, ProposeBlock, HasBlockStake
<1>2. account \in Settled
  BY <1>1, Accounts DEF Settled
<1>3. stakeAccounts' = [stakeAccounts EXCEPT ![p] = account]
  BY DEF Propose, ProposeBlock
<1> HIDE DEF account
<1>4. /\ stakeAccounts' \in [Addr -> Settled] /\ stakeAccounts'[p] = account
      /\ \A a \in Addr \ {p} : stakeAccounts'[a] = stakeAccounts[a]
  BY <1>2, <1>3, Accounts
<1>5. RingInv'
  <2>1. UNCHANGED ringVars
    BY DEF Propose, ProposeBlock
  <2>2. QED BY <1>4, <2>1, StakesMoved DEF TypeInv
<1>6. info \in [feesL2 : Nat, stakeClaimed : BOOLEAN]
  <2>1. IsClaimed(hash) \in BOOLEAN
    BY DEF TypeInv, StorageInv, IsClaimed
  <2>2. QED BY <2>1, FeesTypes
<1>7. blockInfo' = SetBlockInfo(hash, info) /\ ethBalance' = ethBalance + value
  BY DEF Propose, ProposeBlock
<1>8. UNCHANGED <<isCommitmentEscrowed, pendingWithdrawalsFees, ownerVars, committers>>
  BY DEF Propose, ProposeBlock
<1> HIDE DEF info, hash
<1>9. \A h \in DOMAIN blockInfo' : blockInfo'[h] \in [feesL2 : Nat, stakeClaimed : BOOLEAN]
  BY <1>6, <1>7 DEF SetBlockInfo, TypeInv, StorageInv
<1>10. ethBalance' \in Nat
  BY <1>7, Accounts
<1>11. StorageInv'
  BY <1>8, <1>9, <1>10 DEF TypeInv, StorageInv, ownerVars
<1>12. QED BY <1>4, <1>5, <1>11 DEF account

LEMMA Paying ==
  ASSUME TypeInv, NEW p \in Proposer, NEW i \in DOMAIN blockHashes, PayBlock(p, i)
  PROVE  /\ RingInv' /\ StorageInv'
         /\ stakeAccounts'[p].amount = stakeAccounts[p].amount + blockHashes[i].blockStake
         /\ stakeAccounts'[p].challengeLocked
              = stakeAccounts[p].challengeLocked - blockHashes[i].blockStake
         /\ \A a \in Addr \ {p} : stakeAccounts'[a] = stakeAccounts[a]
         /\ \A a \in Address :
              pendingWithdrawalsFees'[a].feesL1 = pendingWithdrawalsFees[a].feesL1
<1> DEFINE s == blockHashes[i].blockStake
           hash == blockHashes[i].blockHash
           account == [amount          |-> stakeAccounts[p].amount + s,
                       challengeLocked |-> stakeAccounts[p].challengeLocked - s,
                       time            |-> 0]
           paid == [feesL2 |-> 0, stakeClaimed |-> TRUE]
<1>1. s \in Nat /\ stakeAccounts[p].challengeLocked >= s
  BY QueueTypes DEF TypeInv, BlockData, PayBlock, RequestBlockPayment
<1>2. account \in Settled
  BY <1>1, Accounts DEF Settled
<1>3. stakeAccounts' = [stakeAccounts EXCEPT ![p] = account]
  BY DEF PayBlock, RequestBlockPayment
<1> HIDE DEF account
<1>4. /\ stakeAccounts' \in [Addr -> Settled] /\ stakeAccounts'[p] = account
      /\ \A a \in Addr \ {p} : stakeAccounts'[a] = stakeAccounts[a]
  BY <1>2, <1>3, Accounts
<1>5. RingInv'
  <2>1. UNCHANGED ringVars
    BY DEF PayBlock, RequestBlockPayment
  <2>2. QED BY <1>4, <2>1, StakesMoved DEF TypeInv
<1>6. hash \in DOMAIN blockInfo /\ blockInfo[hash] \in [feesL2 : Nat, stakeClaimed : BOOLEAN]
  BY QueueTypes DEF TypeInv, StorageInv
<1>7. blockInfo' = [blockInfo EXCEPT ![hash] = paid]
  BY DEF PayBlock, RequestBlockPayment
<1>8. paid \in [feesL2 : Nat, stakeClaimed : BOOLEAN]
  OBVIOUS
<1>9. PICK fee : fee = blockInfo[hash].feesL2 /\ fee \in Nat
  BY <1>6
<1>10. pendingWithdrawalsFees' = AddPendingWithdrawal(pendingWithdrawalsFees, p, 0, fee)
  BY <1>9 DEF PayBlock, RequestBlockPayment
<1>11. UNCHANGED <<isCommitmentEscrowed, ethBalance, ownerVars, committers>>
  BY DEF PayBlock, RequestBlockPayment
<1> HIDE DEF hash, paid
<1>12. \A h \in DOMAIN blockInfo' : blockInfo'[h] \in [feesL2 : Nat, stakeClaimed : BOOLEAN]
  BY <1>6, <1>7, <1>8 DEF TypeInv, StorageInv
<1>13. /\ pendingWithdrawalsFees' \in [Address -> Fees]
       /\ pendingWithdrawalsFees'[p].feesL1 = pendingWithdrawalsFees[p].feesL1 + 0
       /\ \A a \in Address \ {p} : pendingWithdrawalsFees'[a] = pendingWithdrawalsFees[a]
  <2>1. 0 \in Nat
    OBVIOUS
  <2>2. QED BY <1>9, <1>10, <2>1, Accounts, PendingTypes
<1>14. pendingWithdrawalsFees'[p].feesL1 = pendingWithdrawalsFees[p].feesL1
  <2>1. pendingWithdrawalsFees[p] \in Fees
    BY Accounts
  <2>2. QED BY <1>13, <2>1 DEF Fees
<1>15. StorageInv'
  BY <1>11, <1>12, <1>13 DEF TypeInv, StorageInv, ownerVars, Fees
<1>16. QED BY <1>4, <1>5, <1>13, <1>14, <1>15 DEF account

(* A bad block's stake and those behind it are the challenger's.           *)
LEMMA Challenged ==
  ASSUME TypeInv, NEW c \in Challenger, NEW i \in DOMAIN blockHashes, NEW salt,
         NEW seed \in Nat, ChallengeBlock(c, i, salt, seed)
  PROVE  /\ RingInv' /\ StorageInv'
         /\ pendingWithdrawalsFees'[c].feesL1
              = pendingWithdrawalsFees[c].feesL1
                  + Reward(SubSeq(blockHashes, i, Len(blockHashes)))
         /\ \A a \in Address \ {c} :
              pendingWithdrawalsFees'[a].feesL1 = pendingWithdrawalsFees[a].feesL1
         /\ stakeAccounts' = RewardChallenger(i, seed).stakeAccounts
<1> DEFINE bad == SubSeq(blockHashes, i, Len(blockHashes))
           removed == {bad[k].blockHash : k \in DOMAIN bad}
<1>1. now \in Nat
  BY DEF TypeInv, ChainTypeOK
<1>2. bad \in Seq(BlockData) /\ RingFrame(RewardChallenger(i, seed))
  BY <1>1, Expulsion DEF TypeInv
<1>3. Commit(RewardChallenger(i, seed))
  BY DEF ChallengeBlock
<1>4. RingInv' /\ stakeAccounts' = RewardChallenger(i, seed).stakeAccounts
  BY <1>2, <1>3, Committed DEF Commit
<1>5. blockInfo' = StakesWithdrawn(removed)
  BY DEF ChallengeBlock
<1>6. \A h \in DOMAIN blockInfo' : blockInfo'[h] \in [feesL2 : Nat, stakeClaimed : BOOLEAN]
  BY <1>5 DEF StakesWithdrawn, TypeInv, StorageInv
<1>7. PICK reward : reward = Reward(bad) /\ reward \in Nat
  BY <1>2, RewardTypes
<1>8. pendingWithdrawalsFees' = AddPendingWithdrawal(pendingWithdrawalsFees, c, reward, 0)
  BY <1>7 DEF ChallengeBlock
<1>9. c \in Address /\ pendingWithdrawalsFees \in [Address -> Fees] /\ 0 \in Nat
  BY DEF Address, TypeInv, StorageInv, Fees
<1>10. /\ pendingWithdrawalsFees' \in [Address -> Fees]
       /\ pendingWithdrawalsFees'[c].feesL1 = pendingWithdrawalsFees[c].feesL1 + reward
       /\ \A a \in Address \ {c} : pendingWithdrawalsFees'[a] = pendingWithdrawalsFees[a]
  BY <1>7, <1>8, <1>9, PendingTypes
<1>11. UNCHANGED <<isCommitmentEscrowed, ethBalance, ownerVars>>
  BY DEF ChallengeBlock
<1>12. \A k \in DOMAIN committers' : committers'[k] \in Challenger
  <2>1. PICK k0 : committers' = Restrict(committers, DOMAIN committers \ {k0})
    BY DEF ChallengeBlock, CheckCommit
  <2>2. QED BY <2>1 DEF Restrict, TypeInv, StorageInv
<1>13. StorageInv'
  BY <1>6, <1>10, <1>11, <1>12 DEF TypeInv, StorageInv, ownerVars, Fees
<1>14. QED BY <1>4, <1>7, <1>10, <1>13

LEMMA StakeTaken ==
  ASSUME TypeInv, NEW p \in Proposer, WithdrawStake(p)
  PROVE  /\ RingInv' /\ StorageInv'
         /\ stakeAccounts'[p].amount = 0 /\ stakeAccounts'[p].challengeLocked = 0
         /\ \A a \in Addr \ {p} : stakeAccounts'[a] = stakeAccounts[a]
         /\ pendingWithdrawalsFees'[p].feesL1
              = pendingWithdrawalsFees[p].feesL1
                  + (stakeAccounts[p].amount + stakeAccounts[p].challengeLocked)
         /\ \A a \in Address \ {p} :
              pendingWithdrawalsFees'[a].feesL1 = pendingWithdrawalsFees[a].feesL1
<1>1. /\ EmptyStake \in Settled /\ EmptyStake.amount = 0 /\ EmptyStake.challengeLocked = 0
  BY DEF EmptyStake, Settled
<1>2. stakeAccounts' = [stakeAccounts EXCEPT ![p] = EmptyStake]
  BY DEF WithdrawStake
<1>3. /\ stakeAccounts' \in [Addr -> Settled] /\ stakeAccounts'[p] = EmptyStake
      /\ \A a \in Addr \ {p} : stakeAccounts'[a] = stakeAccounts[a]
  BY <1>1, <1>2, Accounts
<1>4. RingInv'
  <2>1. UNCHANGED ringVars
    BY DEF WithdrawStake
  <2>2. QED BY <1>3, <2>1, StakesMoved DEF TypeInv
<1>5. PICK stake : stake = stakeAccounts[p].amount + stakeAccounts[p].challengeLocked
                   /\ stake \in Nat
  BY Accounts
<1>6. pendingWithdrawalsFees' = AddPendingWithdrawal(pendingWithdrawalsFees, p, stake, 0)
  BY <1>5 DEF WithdrawStake
<1>7. 0 \in Nat
  OBVIOUS
<1>8. /\ pendingWithdrawalsFees' \in [Address -> Fees]
      /\ pendingWithdrawalsFees'[p].feesL1 = pendingWithdrawalsFees[p].feesL1 + stake
      /\ \A a \in Address \ {p} : pendingWithdrawalsFees'[a] = pendingWithdrawalsFees[a]
  BY <1>5, <1>6, <1>7, Accounts, PendingTypes
<1>9. UNCHANGED <<chainVars, isCommitmentEscrowed, ethBalance, ownerVars, committers>>
  BY DEF WithdrawStake
<1>10. StorageInv'
  BY <1>8, <1>9 DEF TypeInv, StorageInv, ownerVars, chainVars, Fees
<1>11. QED BY <1>1, <1>3, <1>4, <1>5, <1>8, <1>10

LEMMA StakeAdded ==
  ASSUME TypeInv, NEW p \in Proposer, NEW value \in Nat, UpdateProposer(p, value)
  PROVE  /\ RingInv' /\ StorageInv'
         /\ stakeAccounts'[p].amount = stakeAccounts[p].amount + value
         /\ stakeAccounts'[p].challengeLocked = stakeAccounts[p].challengeLocked
         /\ \A a \in Addr \ {p} : stakeAccounts'[a] = stakeAccounts[a]
<1> DEFINE new == [amount          |-> stakeAccounts[p].amount + value,
                   challengeLocked |-> stakeAccounts[p].challengeLocked,
                   time            |-> 0]
<1>1. new \in Settled
  BY Accounts DEF Settled
<1>2. /\ stakeAccounts' \in [Addr -> Settled] /\ stakeAccounts'[p] = new
      /\ \A a \in Addr \ {p} : stakeAccounts'[a] = stakeAccounts[a]
  <2>1. stakeAccounts' = [stakeAccounts EXCEPT ![p] = new]
    BY DEF UpdateProposer
  <2> HIDE DEF new
  <2>2. QED BY <1>1, <2>1, Accounts
<1>3. RingInv'
  <2>1. UNCHANGED ringVars
    BY DEF UpdateProposer
  <2>2. QED BY <1>2, <2>1, StakesMoved DEF TypeInv
<1>4. /\ ethBalance' = ethBalance + value
      /\ UNCHANGED <<chainVars, isCommitmentEscrowed, pendingWithdrawalsFees,
                     ownerVars, committers>>
  BY DEF UpdateProposer
<1>5. StorageInv'
  BY <1>4 DEF TypeInv, StorageInv, ownerVars, chainVars
<1>6. QED BY <1>2, <1>3, <1>5 DEF new

LEMMA Collected ==
  ASSUME TypeInv, NEW a \in Address, Withdraw(a)
  PROVE  /\ RingInv' /\ StorageInv'
         /\ ethBalance' = ethBalance - pendingWithdrawalsFees[a].feesL1
         /\ pendingWithdrawalsFees'[a].feesL1 = 0
         /\ \A b \in Address \ {a} : pendingWithdrawalsFees'[b] = pendingWithdrawalsFees[b]
<1>1. /\ pendingWithdrawalsFees \in [Address -> Fees] /\ ethBalance \in Nat
      /\ stakeAccounts \in [Addr -> Settled]
  BY StateTypes DEF TypeInv, StorageInv, Fees
<1>2. pendingWithdrawalsFees[a].feesL1 \in Nat
  <2>1. pendingWithdrawalsFees[a] \in Fees
    BY <1>1
  <2>2. QED BY <2>1 DEF Fees
<1>3. /\ ethBalance' = ethBalance - pendingWithdrawalsFees[a].feesL1
      /\ pendingWithdrawalsFees[a].feesL1 <= ethBalance
      /\ pendingWithdrawalsFees' = [pendingWithdrawalsFees EXCEPT ![a] = EmptyFees]
      /\ UNCHANGED <<now, chainVars, isCommitmentEscrowed, stakeAccounts, ringVars,
                     ownerVars, committers>>
  BY DEF Withdraw
<1>4. ethBalance' \in Nat
  BY <1>1, <1>2, <1>3
<1>5. EmptyFees \in Fees /\ EmptyFees.feesL1 = 0
  BY DEF EmptyFees, Fees
<1>6. /\ pendingWithdrawalsFees' \in [Address -> Fees]
      /\ pendingWithdrawalsFees'[a] = EmptyFees
      /\ \A b \in Address \ {a} : pendingWithdrawalsFees'[b] = pendingWithdrawalsFees[b]
  BY <1>1, <1>3, <1>5
<1>7. RingInv'
  BY <1>1, <1>3, StakesMoved DEF TypeInv
<1>8. StorageInv'
  BY <1>3, <1>4, <1>6 DEF TypeInv, StorageInv, ownerVars, chainVars, Fees
<1>9. QED BY <1>3, <1>5, <1>6, <1>7, <1>8

(* Steps that leave the stakes and the list alone.                         *)
LEMMA Elsewhere ==
  ASSUME TypeInv, UNCHANGED <<ringVars, stakeAccounts>>
  PROVE  RingInv'
BY StateTypes, StakesMoved DEF TypeInv

LEMMA TypeStep == TypeInv /\ [Next]_vars => RingInv' /\ StorageInv'
<1> SUFFICES ASSUME TypeInv, [Next]_vars PROVE RingInv' /\ StorageInv'
  OBVIOUS
<1>1. now \in Nat /\ RingInv /\ StorageInv /\ ethBalance \in Nat
  BY DEF TypeInv, ChainTypeOK, StorageInv
<1>2. \A seed \in Seed : seed \in Nat
  BY InputAssumption
<1>3. \A value \in Value : value \in Nat
  BY InputAssumption
<1>4. CASE Tick
  BY <1>1, <1>4, Elsewhere
     DEF Tick, StorageInv, moneyVars, ownerVars, chainVars
<1>5. ASSUME NEW c \in Contract, SetPaused(c) PROVE RingInv' /\ StorageInv'
  BY <1>1, <1>5, Elsewhere DEF SetPaused, StorageInv, moneyVars, chainVars
<1>6. ASSUME NEW c \in Contract, NEW n \in NewMaxProposers, SetMaxProposers(c, n)
      PROVE  RingInv' /\ StorageInv'
  BY <1>1, <1>6, Elsewhere, InputAssumption
     DEF SetMaxProposers, StorageInv, moneyVars, chainVars
<1>7. ASSUME NEW n \in NewBlockStake, SetBlockStake(n) PROVE RingInv' /\ StorageInv'
  BY <1>1, <1>7, Elsewhere DEF SetBlockStake, StorageInv, moneyVars, chainVars
<1>8. ASSUME NEW p \in Proposer, TakeStake(p) PROVE RingInv' /\ StorageInv'
  BY <1>8, StakeTaken DEF TakeStake
<1>9. ASSUME NEW p \in Proposer, NEW seed \in Seed, DeRegister(p, seed)
      PROVE  RingInv' /\ StorageInv'
  <2>1. DeRegisterProposer(p, seed)
    BY <1>9 DEF DeRegister
  <2>2. StorageInv'
    BY <1>1, <2>1 DEF DeRegisterProposer, StorageInv, ownerVars, chainVars
  <2>3. QED BY <1>1, <1>2, <2>1, <2>2, Leaving
<1>10. ASSUME NEW p \in Proposer, NEW value \in Value, AddStake(p, value)
       PROVE  RingInv' /\ StorageInv'
  BY <1>3, <1>10, StakeAdded DEF AddStake
<1>11. ASSUME NEW p \in Proposer, NEW value \in Value, NEW seed \in Seed,
              Register(p, value, seed)
       PROVE  RingInv' /\ StorageInv'
  <2>1. RegisterProposer(p, value, seed) /\ value \in Nat
    BY <1>3, <1>11 DEF Register
  <2>2. StorageInv'
    BY <1>1, <2>1 DEF RegisterProposer, StorageInv, ownerVars, chainVars
  <2>3. QED BY <1>1, <1>2, <2>1, <2>2, Registering
<1>12. ASSUME NEW seed \in Seed, Rotate(seed) PROVE RingInv' /\ StorageInv'
  <2>1. RotateProposer(seed)
    BY <1>12 DEF Rotate
  <2>2. StorageInv'
    BY <1>1, <2>1 DEF RotateProposer, StorageInv, ownerVars, chainVars
  <2>3. QED BY <1>1, <1>2, <2>1, <2>2, TakingTurns
<1>13. ASSUME NEW p \in Proposer, NEW transactions \in Body, NEW valid \in BOOLEAN,
              NEW value \in Value, Propose(p, transactions, valid, value)
       PROVE  RingInv' /\ StorageInv'
  BY <1>3, <1>13, Proposing
<1>14. ASSUME NEW c \in Challenger, NEW i \in DOMAIN blockHashes, NEW salt \in Salt,
              CommitChallenge(c, i, salt)
       PROVE  RingInv' /\ StorageInv'
  <2>1. CommitToChallenge(c, blockHashes[i].blockHash, salt)
    BY <1>14 DEF CommitChallenge
  <2>2. /\ UNCHANGED <<now, chainVars, isCommitmentEscrowed, moneyVars, ringVars, ownerVars>>
        /\ \A k \in DOMAIN committers' : committers'[k] \in Challenger
    BY <1>1, <2>1 DEF CommitToChallenge, StorageInv
  <2>3. QED BY <1>1, <2>2, Elsewhere DEF StorageInv, moneyVars, ownerVars, chainVars
<1>15. ASSUME NEW c \in Challenger, NEW i \in DOMAIN blockHashes, NEW salt \in Salt,
              NEW seed \in Seed, Challenge(c, i, salt, seed)
       PROVE  RingInv' /\ StorageInv'
  BY <1>2, <1>15, Challenged DEF Challenge
<1>16. ASSUME NEW p \in Proposer, NEW i \in DOMAIN blockHashes, PayBlock(p, i)
       PROVE  RingInv' /\ StorageInv'
  BY <1>16, Paying
<1>17. CASE Deposit
  <2>1. PICK txs \in Body : \E k \in DOMAIN txs : SubmitDeposit(txs[k].commitment)
    BY <1>17 DEF Deposit
  <2>2. PICK k \in DOMAIN txs : SubmitDeposit(txs[k].commitment)
    BY <2>1
  <2>3. txs[k].commitment \in Nat
    <3> DEFINE Tx == [commitment : Nat, isEscrowRequired : BOOLEAN, fee : Nat]
    <3>1. txs \in Seq(Tx)
      BY BodyAssumption
    <3>2. txs[k] \in Tx
      <4> HIDE DEF Tx
      <4>1. QED BY <2>2, <3>1
    <3>3. QED BY <3>2
  <2>4. QED BY <1>1, <2>2, <2>3, Elsewhere
           DEF SubmitDeposit, StorageInv, moneyVars, ownerVars, chainVars
<1>18. ASSUME NEW a \in Address, Collect(a) PROVE RingInv' /\ StorageInv'
  BY <1>18, Collected DEF Collect
<1>19. CASE UNCHANGED vars
  <2>1. UNCHANGED <<ringVars, stakeAccounts>>
    BY <1>19 DEF vars, ringVars
  <2>2. QED BY <1>1, <1>19, <2>1, Elsewhere DEF vars, StorageInv
<1>20. QED
  BY <1>4, <1>5, <1>6, <1>7, <1>8, <1>9, <1>10, <1>11, <1>12, <1>13, <1>14, <1>15,
     <1>16, <1>17, <1>18, <1>19 DEF Next, Owner, Staking, Challenging

(* What the runs check follows.                                            *)
LEMMA TypesFollow == TypeInv => TypeOK /\ RingLinked /\ CurrentCopyFresh
<1> SUFFICES ASSUME TypeInv PROVE TypeOK /\ RingLinked /\ CurrentCopyFresh
  OBVIOUS
<1>1. /\ List(proposers) /\ AgreesWith(currentProposer, proposers)
      /\ proposerStartBlock \in Nat /\ numProposers \in Nat /\ currentSprint \in Nat
      /\ spanProposersList \in Seq(Proposer) /\ stakeAccounts \in [Addr -> Settled]
  BY StateTypes DEF TypeInv
<1>2. proposers \in [Addr -> Linked]
      /\ \A a \in Addr : proposers[a].thisAddress \in {a, NoAddress}
  BY <1>1 DEF List
<1>3. \A i \in DOMAIN spanProposersList : spanProposersList[i] \in Proposer
  BY <1>1
<1>4. TypeOK
  BY <1>1, <1>2, <1>3 DEF TypeInv, StorageInv, TypeOK, Addr, Linked, Settled
<1>5. Registered = Listed(proposers)
  BY DEF Registered, Listed
<1>6. RingLinked
  BY <1>1, <1>5 DEF RingLinked, List
<1>7. CurrentCopyFresh
  <2> DEFINE c == currentProposer.thisAddress
  <2>1. c \in Addr /\ SameLinks(currentProposer, proposers[c])
    BY <1>1, LinkedFields DEF AgreesWith
  <2>2. QED BY <2>1 DEF CurrentCopyFresh, SameLinks
<1>8. QED BY <1>4, <1>6, <1>7

(***************************************************************************)
(* The inductive invariant: the list and the copy, the types of what is    *)
(* stored, and those of the queue (shown in RollupProof).                  *)
(***************************************************************************)
THEOREM RingInvariance == Spec => []TypeInv
<1>1. Init => RingInv /\ StorageInv
  BY InitRing
<1>2. IInv => ChainTypeOK
  BY DEF IInv
<1>3. TypeInv /\ [Next]_vars => RingInv' /\ StorageInv'
  BY TypeStep
<1>4. RingInv /\ StorageInv /\ ChainTypeOK => TypeInv
  BY DEF TypeInv
<1>5. QED BY <1>1, <1>2, <1>3, <1>4, Invariance, PTL DEF Spec

(***************************************************************************)
(* No sequence of calls stores a value of another type: no stake, lock or  *)
(* balance falls below zero, and the span names proposers only.            *)
(***************************************************************************)
THEOREM TypesKept == Spec => []TypeOK
<1>1. TypeInv => TypeOK
  BY TypesFollow
<1>2. QED BY <1>1, RingInvariance, PTL

(***************************************************************************)
(* However proposers come, go and are expelled, the list stays linked in   *)
(* both directions and names registered proposers only (registerProposer,  *)
(* State.removeProposer).                                                  *)
(***************************************************************************)
THEOREM RingStaysLinked == Spec => []RingLinked
<1>1. TypeInv => RingLinked
  BY TypesFollow
<1>2. QED BY <1>1, RingInvariance, PTL

(***************************************************************************)
(* The copy of the entry of the current proposer, which every registration *)
(* and removal reads links from, never lags behind the list.               *)
(***************************************************************************)
THEOREM CopyStaysFresh == Spec => []CurrentCopyFresh
<1>1. TypeInv => CurrentCopyFresh
  BY TypesFollow
<1>2. QED BY <1>1, RingInvariance, PTL

-----------------------------------------------------------------------------
(***************************************************************************)
(* Who has a claim to what: the sums of stakes and fees, before and after. *)
(***************************************************************************)
StakesOf(accounts) == [p \in Proposer |-> accounts[p].amount + accounts[p].challengeLocked]
FeesIn(fees)       == [a \in Address |-> fees[a].feesL1]

AllStakes(accounts) == SumFunctionOnSet(StakesOf(accounts), Proposer)
AllFees(fees)       == SumFunctionOnSet(FeesIn(fees), Address)

LEMMA SurplusIs ==
  /\ Surplus = ethBalance - AllStakes(stakeAccounts) - AllFees(pendingWithdrawalsFees)
  /\ Surplus' = ethBalance' - AllStakes(stakeAccounts') - AllFees(pendingWithdrawalsFees')
BY DEF Surplus, StakeOf, FeesOf, AllStakes, AllFees, StakesOf, FeesIn

SameAccount(old, new, a) == /\ new[a].amount = old[a].amount
                            /\ new[a].challengeLocked = old[a].challengeLocked

Ledgers == [Addr -> Account]

LEMMA StakesChange ==
  ASSUME NEW old \in Ledgers, NEW new \in Ledgers, NEW p \in Proposer,
         \A a \in Addr \ {p} : SameAccount(old, new, a)
  PROVE  /\ AllStakes(old) \in Int
         /\ AllStakes(new) = AllStakes(old)
              - (old[p].amount + old[p].challengeLocked)
              + (new[p].amount + new[p].challengeLocked)
<1>1. ASSUME NEW q \in Proposer
      PROVE  /\ StakesOf(old)[q] = old[q].amount + old[q].challengeLocked
             /\ StakesOf(new)[q] = new[q].amount + new[q].challengeLocked
             /\ StakesOf(old)[q] \in Int /\ StakesOf(new)[q] \in Int
  <2>1. old[q] \in Account /\ new[q] \in Account
    BY AddrFacts DEF Ledgers
  <2>2. QED BY <2>1 DEF StakesOf, Account
<1>2. \A q \in Proposer \ {p} : StakesOf(new)[q] = StakesOf(old)[q]
  BY <1>1, AddrFacts DEF SameAccount
<1>3. IsFiniteSet(Proposer)
  BY Proposers
<1>4. SumFunctionOnSet(StakesOf(new), Proposer)
        = SumFunctionOnSet(StakesOf(old), Proposer) - StakesOf(old)[p] + StakesOf(new)[p]
  BY <1>1, <1>2, <1>3, SumChange
<1>5. SumFunctionOnSet(StakesOf(old), Proposer) \in Int
  BY <1>1, <1>3, SumInt
<1>6. QED BY <1>1, <1>4, <1>5 DEF AllStakes

LEMMA StakesSame ==
  ASSUME NEW old \in Ledgers, NEW new \in Ledgers, \A a \in Addr : SameAccount(old, new, a)
  PROVE  AllStakes(new) = AllStakes(old)
<1>1. \A q \in Proposer : StakesOf(new)[q] = StakesOf(old)[q]
  BY AddrFacts DEF SameAccount, StakesOf
<1>2. QED BY <1>1, Proposers, SumSame DEF AllStakes

LEMMA FeesChange ==
  ASSUME NEW old \in [Address -> Fees], NEW new \in [Address -> Fees], NEW a \in Address,
         \A b \in Address \ {a} : new[b].feesL1 = old[b].feesL1
  PROVE  /\ AllFees(old) \in Int
         /\ AllFees(new) = AllFees(old) - old[a].feesL1 + new[a].feesL1
         /\ old[a].feesL1 \in Nat /\ new[a].feesL1 \in Nat
<1>1. ASSUME NEW b \in Address
      PROVE  /\ FeesIn(old)[b] = old[b].feesL1 /\ FeesIn(new)[b] = new[b].feesL1
             /\ FeesIn(old)[b] \in Nat /\ FeesIn(new)[b] \in Nat
  <2>1. old[b] \in Fees /\ new[b] \in Fees
    OBVIOUS
  <2>2. QED BY <2>1 DEF FeesIn, Fees
<1>2. \A b \in Address \ {a} : FeesIn(new)[b] = FeesIn(old)[b]
  BY <1>1
<1>3. IsFiniteSet(Address)
  BY AddressAssumption DEF Address
<1>4. SumFunctionOnSet(FeesIn(new), Address)
        = SumFunctionOnSet(FeesIn(old), Address) - FeesIn(old)[a] + FeesIn(new)[a]
  <2>1. \A b \in Address : FeesIn(old)[b] \in Int /\ FeesIn(new)[b] \in Int
    BY <1>1
  <2>2. QED BY <1>2, <1>3, <2>1, SumChange
<1>5. SumFunctionOnSet(FeesIn(old), Address) \in Int
  <2>1. \A b \in Address : FeesIn(old)[b] \in Int
    BY <1>1
  <2>2. QED BY <1>3, <2>1, SumInt
<1>6. QED BY <1>1, <1>4, <1>5 DEF AllFees

LEMMA FeesSame ==
  ASSUME NEW old, NEW new, \A a \in Address : new[a].feesL1 = old[a].feesL1
  PROVE  AllFees(new) = AllFees(old)
<1>1. \A b \in Address : FeesIn(new)[b] = FeesIn(old)[b]
  BY DEF FeesIn
<1>2. IsFiniteSet(Address)
  BY AddressAssumption DEF Address
<1>3. QED BY <1>1, <1>2, SumSame DEF AllFees

(* The loop over the blocks of one proposer takes what their stakes sum to. *)
LEMMA TakingSame ==
  ASSUME NEW f, RingFrame(f), NEW p \in Proposer, NEW bad \in Seq(BlockData),
         \A k \in 1..Len(bad) : bad[k].proposer = p
  PROVE  LET g == TakeBlockStakes(f, p, bad)
         IN /\ g \in Frames
            /\ g.stakeAccounts[p].amount = f.stakeAccounts[p].amount
            /\ g.stakeAccounts[p].challengeLocked
                 = f.stakeAccounts[p].challengeLocked - Reward(bad)
            /\ \A a \in Addr \ {p} : g.stakeAccounts[a] = f.stakeAccounts[a]
<1> DEFINE m == Len(bad)
           w == [k \in 1..m |-> bad[k].blockStake]
           v == [k \in 1..m |-> bad[(m - k) + 1].blockStake]
           b == [k \in 1..m |-> (m - k) + 1]
<1>1. m \in Nat /\ \A k \in 1..m : bad[k] \in BlockData /\ (m - k) + 1 \in 1..m
  OBVIOUS
<1>2. PICK s : s = Reverse(bad)
  OBVIOUS
<1>3. /\ Len(s) = m
      /\ \A k \in 1..m : s[k] = bad[(m - k) + 1]
  BY <1>1, <1>2 DEF Reverse
<1>4. \A k \in 1..m : /\ s[k] \in BlockData /\ s[k].proposer = p
                      /\ s[k].blockStake = v[k]
  BY <1>1, <1>3
<1>5. \A k \in 1..m : v[k] \in Nat /\ v[k] \in Int /\ w[k] \in Int
  BY <1>1, <1>4 DEF BlockData
<1>6. BadBlocks(s)
  BY <1>3, <1>4, <1>5 DEF BadBlocks
<1>7. /\ Takings(s, p) \in Moves(m, RingFrames) /\ f \in RingFrames
  BY <1>2, <1>3, <1>6, TakingAll
<1>8. PICK c : /\ Folds(c, m, RingFrames, f, Takings(s, p))
               /\ TakeBlockStakes(f, p, bad) = c[1..m]
  BY <1>2, <1>3, <1>6, TakingAll
<1> DEFINE amount == f.stakeAccounts[p].amount
           locked == f.stakeAccounts[p].challengeLocked
           Taken(g, k) == /\ g.stakeAccounts[p].amount = amount
                          /\ g.stakeAccounts[p].challengeLocked
                               = locked - SumFunctionOnSet(v, 1..k)
                          /\ \A a \in Addr \ {p} : g.stakeAccounts[a] = f.stakeAccounts[a]
           T == [k \in 0..m |-> {g \in RingFrames : Taken(g, k)}]
<1>9. locked \in Int
  <2>1. f.stakeAccounts[p] \in Account
    BY AddrFacts, FrameFields DEF RingFrame, GoodFrame
  <2>2. QED BY <2>1 DEF Account
<1> HIDE DEF v, w, m, locked, amount
<1>10. Rounds(m, RingFrames, f, Takings(s, p), T)
  <2>1. f \in T[0]
    <3>1. 1..0 = {}
      OBVIOUS
    <3>2. locked - SumFunctionOnSet(v, 1..0) = locked
      BY <1>9, <3>1, SumEmpty
    <3>3. Taken(f, 0)
      BY <3>2 DEF amount, locked
    <3>4. QED BY <1>1, <1>7, <3>3
  <2>2. ASSUME NEW k \in 1..m, NEW g \in T[k - 1] PROVE Takings(s, p)[k][g] \in T[k]
    <3>1. k \in 0..m /\ k - 1 \in 0..m
      BY <1>1
    <3>2. g \in RingFrames /\ RingFrame(g) /\ Taken(g, k - 1)
      BY <3>1 DEF RingFrames
    <3>3. PICK h : h = TakenFrom(g, p, s[k])
      OBVIOUS
    <3>4. Takings(s, p)[k][g] = h
      BY <1>3, <3>2, <3>3 DEF Takings
    <3>5. s[k].proposer = p /\ s[k].proposer \in Proposer /\ s[k].blockStake \in Nat
          /\ s[k].blockStake = v[k]
      BY <1>4, <1>5
    <3>6. /\ RingFrame(h)
          /\ h.stakeAccounts[p].amount = g.stakeAccounts[p].amount
          /\ h.stakeAccounts[p].challengeLocked = g.stakeAccounts[p].challengeLocked - v[k]
          /\ \A a \in Addr \ {p} : h.stakeAccounts[a] = g.stakeAccounts[a]
      BY <3>2, <3>3, <3>5, Taking
    <3>7. SumFunctionOnSet(v, 1..k) = v[k] + SumFunctionOnSet(v, 1..k - 1)
          /\ SumFunctionOnSet(v, 1..k - 1) \in Int
      <4>1. k - 1 \in Int /\ 1 \in Int
        BY <1>1
      <4>2. IsFiniteSet(1..k - 1)
        BY <4>1, FS_Interval
      <4>3. /\ k \notin 1..k - 1 /\ (1..k - 1) \cup {k} = 1..k
            /\ \A y \in (1..k - 1) \cup {k} : v[y] \in Int
        BY <1>1, <1>5
      <4>4. SumFunctionOnSet(v, (1..k - 1) \cup {k}) = v[k] + SumFunctionOnSet(v, 1..k - 1)
        BY <4>2, <4>3, SumAdd
      <4>5. \A y \in 1..k - 1 : v[y] \in Int
        BY <4>3
      <4>6. SumFunctionOnSet(v, 1..k - 1) \in Int
        BY <4>2, <4>5, SumInt
      <4>7. (1..k - 1) \cup {k} = 1..k
        BY <4>3
      <4>8. QED BY <4>4, <4>6, <4>7
    <3>8. PICK x : x = SumFunctionOnSet(v, 1..k - 1) /\ x \in Int
      BY <3>7
    <3>9. v[k] \in Int
      BY <1>5
    <3>10. (locked - x) - v[k] = locked - (v[k] + x)
      BY <1>9, <3>8, <3>9
    <3>11. Taken(h, k)
      BY <3>2, <3>6, <3>7, <3>8, <3>10
    <3>12. h \in RingFrames
      BY <3>6 DEF RingFrames, RingFrame, GoodFrame
    <3>13. QED BY <3>1, <3>4, <3>11, <3>12
  <2>3. T \in [0..m -> SUBSET RingFrames]
    OBVIOUS
  <2> HIDE DEF T
  <2>4. QED BY <1>1, <1>7, <2>1, <2>2, <2>3 DEF Rounds
<1>11. c[1..m] \in T[m]
  <2> HIDE DEF T
  <2>1. QED BY <1>8, <1>10, FoldReaches
<1>12. Taken(c[1..m], m) /\ c[1..m] \in Frames
  <2>1. m \in 0..m
    BY <1>1
  <2>2. QED BY <1>11, <2>1 DEF RingFrames
<1>13. SumFunctionOnSet(v, 1..m) = SumFunctionOnSet(w, 1..m)
  <2>1. {b[x] : x \in 1..m} = 1..m
    <3>1. \A y \in 1..m : /\ b[y] \in 1..m /\ (m - y) + 1 \in 1..m
                          /\ b[(m - y) + 1] = y
      BY <1>1
    <3>2. QED BY <3>1
  <2>2. \A x \in 1..m : \A y \in 1..m : b[x] = b[y] => x = y
    BY <1>1
  <2>3. \A x \in 1..m : v[x] \in Int /\ w[b[x]] = v[x]
    BY <1>1, <1>5 DEF v, w
  <2>4. IsFiniteSet(1..m)
    BY <1>1, FS_Interval
  <2> HIDE DEF b
  <2>5. SumFunctionOnSet(w, {b[x] : x \in 1..m}) = SumFunctionOnSet(v, 1..m)
    <3>1. Renames(b, 1..m, v, w)
      BY <2>2, <2>3 DEF Renames
    <3>2. QED BY <2>4, <3>1, SumRenamed
  <2>6. QED BY <2>1, <2>5
<1>14. Reward(bad) = SumFunctionOnSet(w, 1..m)
  BY RewardIsSum DEF w, m
<1> DEFINE g == TakeBlockStakes(f, p, bad)
<1>15. Taken(g, m) /\ g \in Frames
  <2> HIDE DEF Taken
  <2>1. QED BY <1>8, <1>12
<1> HIDE DEF g
<1>16. g.stakeAccounts[p].challengeLocked = locked - Reward(bad)
  BY <1>13, <1>14, <1>15
<1>17. QED BY <1>15, <1>16 DEF amount, locked, g

-----------------------------------------------------------------------------
(* What the ledger is made of, before a step and after it.                 *)
LedgerTypes == /\ stakeAccounts \in Ledgers /\ pendingWithdrawalsFees \in [Address -> Fees]
               /\ ethBalance \in Int

LEMMA LedgerIs == TypeInv => LedgerTypes
<1> SUFFICES ASSUME TypeInv PROVE LedgerTypes
  OBVIOUS
<1>1. stakeAccounts \in [Addr -> Settled]
  BY StateTypes DEF TypeInv
<1>2. stakeAccounts \in Ledgers
  BY <1>1 DEF Ledgers, Settled, Account
<1>3. QED BY <1>2 DEF LedgerTypes, TypeInv, StorageInv, Fees

LEMMA LedgerIsNext == TypeInv' => LedgerTypes'
BY LedgerIs, PTL

(* The blocks a challenge removes are those from the bad one on.           *)
LEMMA RemovedFrom ==
  ASSUME IInv, NEW c, NEW i \in DOMAIN blockHashes, NEW salt, NEW seed,
         ChallengeBlock(c, i, salt, seed)
  PROVE  /\ Len(blockHashes) \in Nat /\ i \in 1..Len(blockHashes)
         /\ RemovedBlocks = i..Len(blockHashes)
<1>1. DOMAIN blockHashes' = 1..i - 1 /\ blockHashes' \in Seq(BlockData)
  BY ChallengeEffect
<1>2. Len(blockHashes) \in Nat /\ DOMAIN blockHashes = 1..Len(blockHashes)
  BY QueueTypes DEF IInv
<1>3. Len(blockHashes') = i - 1
  BY <1>1, <1>2
<1>4. QED BY <1>2, <1>3 DEF RemovedBlocks

(* A rollback that hits one proposer: it pays what the challenger gets.    *)
LEMMA OnePays ==
  ASSUME TypeInv, IInv, NEW c \in Challenger, NEW i \in DOMAIN blockHashes, NEW salt,
         NEW seed \in Nat, ChallengeBlock(c, i, salt, seed), ~MixedRollback
  PROVE  LET p   == blockHashes[i].proposer
             bad == SubSeq(blockHashes, i, Len(blockHashes))
         IN /\ p \in Proposer /\ Reward(bad) \in Nat
            /\ \A j \in i..Len(blockHashes) : blockHashes[j].proposer = p
            /\ stakeAccounts'[p].amount = stakeAccounts[p].amount
            /\ stakeAccounts'[p].challengeLocked
                 = stakeAccounts[p].challengeLocked - Reward(bad)
            /\ \A a \in Addr \ {p} : SameAccount(stakeAccounts, stakeAccounts', a)
<1> DEFINE n == Len(blockHashes)
           p == blockHashes[i].proposer
           bad == SubSeq(blockHashes, i, n)
           f == RemoveProposer(Frame, p, seed)
           g == TakeBlockStakes(f, p, bad)
<1>1. n \in Nat /\ i \in 1..n /\ RemovedBlocks = i..n
  BY RemovedFrom
<1>2. \A j \in i..n : blockHashes[j].proposer = p
  BY <1>1 DEF MixedRollback
<1>3. now \in Nat /\ RingInv /\ ChainTypeOK
  BY DEF TypeInv, ChainTypeOK
<1>4. /\ RingFrame(f) /\ Follows(Frame, f) /\ p \in Proposer /\ bad \in Seq(BlockData)
  BY <1>3, Expulsion
<1>5. \A k \in 1..Len(bad) : bad[k].proposer = p
  <2>1. /\ Len(bad) = (n - i) + 1
        /\ \A k \in 1..(n - i) + 1 : bad[k] = blockHashes[(i + k) - 1] /\ (i + k) - 1 \in i..n
    BY <1>1, <1>3 DEF ChainTypeOK
  <2>2. QED BY <1>2, <2>1
<1>6. stakeAccounts' = g.stakeAccounts
  BY Challenged DEF RewardChallenger
<1>7. Reward(bad) \in Nat
  BY <1>4, RewardTypes
<1> HIDE DEF p, bad, f
<1>8. /\ g.stakeAccounts[p].amount = f.stakeAccounts[p].amount
      /\ g.stakeAccounts[p].challengeLocked = f.stakeAccounts[p].challengeLocked - Reward(bad)
      /\ \A a \in Addr \ {p} : g.stakeAccounts[a] = f.stakeAccounts[a]
  BY <1>4, <1>5, TakingSame
<1> HIDE DEF g
<1>9. \A a \in Addr : SameAccount(stakeAccounts, f.stakeAccounts, a)
  BY <1>3, <1>4, FrameIs DEF Follows, SameAccount
<1>10. p \in Addr
  BY <1>4, AddrFacts
<1>11. QED BY <1>2, <1>4, <1>6, <1>7, <1>8, <1>9, <1>10 DEF SameAccount, p, bad

(* Money that stays where it is.                                           *)
LEMMA MoneyStays ==
  ASSUME TypeInv, TypeInv', UNCHANGED <<ethBalance, pendingWithdrawalsFees>>,
         \A a \in Addr : SameAccount(stakeAccounts, stakeAccounts', a)
  PROVE  Surplus' = Surplus
<1>1. stakeAccounts \in Ledgers /\ stakeAccounts' \in Ledgers
  BY LedgerIs, LedgerIsNext DEF LedgerTypes
<1>2. AllStakes(stakeAccounts') = AllStakes(stakeAccounts)
  BY <1>1, StakesSame
<1>3. QED BY <1>2, SurplusIs

(* Money that comes from or goes to the account of p and the fees of a.    *)
Worth(account) == account.amount + account.challengeLocked

Settles(p, a) ==
  /\ \A b \in Addr \ {p} : SameAccount(stakeAccounts, stakeAccounts', b)
  /\ \A b \in Address \ {a} : pendingWithdrawalsFees'[b].feesL1 = pendingWithdrawalsFees[b].feesL1
  /\ ethBalance' = ethBalance
       + (Worth(stakeAccounts'[p]) - Worth(stakeAccounts[p]))
       + (pendingWithdrawalsFees'[a].feesL1 - pendingWithdrawalsFees[a].feesL1)

LEMMA MoneyMoves ==
  ASSUME TypeInv, TypeInv', NEW p \in Proposer, NEW a \in Address, Settles(p, a)
  PROVE  Surplus' = Surplus
<1>1. /\ stakeAccounts \in Ledgers /\ stakeAccounts' \in Ledgers
      /\ pendingWithdrawalsFees \in [Address -> Fees]
      /\ pendingWithdrawalsFees' \in [Address -> Fees]
      /\ ethBalance \in Int /\ ethBalance' \in Int
  BY LedgerIs, LedgerIsNext DEF LedgerTypes
<1>2. /\ AllStakes(stakeAccounts) \in Int
      /\ AllStakes(stakeAccounts') = AllStakes(stakeAccounts)
           - Worth(stakeAccounts[p]) + Worth(stakeAccounts'[p])
  BY <1>1, StakesChange DEF Settles, Worth
<1>3. /\ AllFees(pendingWithdrawalsFees) \in Int
      /\ AllFees(pendingWithdrawalsFees') = AllFees(pendingWithdrawalsFees)
           - pendingWithdrawalsFees[a].feesL1 + pendingWithdrawalsFees'[a].feesL1
      /\ pendingWithdrawalsFees[a].feesL1 \in Nat
      /\ pendingWithdrawalsFees'[a].feesL1 \in Nat
  BY <1>1, FeesChange DEF Settles
<1>4. Worth(stakeAccounts[p]) \in Int /\ Worth(stakeAccounts'[p]) \in Int
  <2>1. stakeAccounts[p] \in Account /\ stakeAccounts'[p] \in Account
    BY <1>1, AddrFacts DEF Ledgers
  <2>2. QED BY <2>1 DEF Account, Worth
<1>5. PICK w, x, y, z : /\ w = AllStakes(stakeAccounts) /\ x = AllFees(pendingWithdrawalsFees)
                        /\ y = Worth(stakeAccounts[p]) /\ z = Worth(stakeAccounts'[p])
  OBVIOUS
<1>6. PICK q, r : /\ q = pendingWithdrawalsFees[a].feesL1
                  /\ r = pendingWithdrawalsFees'[a].feesL1
  OBVIOUS
<1>7. /\ w \in Int /\ x \in Int /\ y \in Int /\ z \in Int /\ q \in Int /\ r \in Int
      /\ Surplus = ethBalance - w - x
      /\ Surplus' = ethBalance' - ((w - y) + z) - ((x - q) + r)
      /\ ethBalance' = ethBalance + (z - y) + (r - q)
  BY <1>2, <1>3, <1>4, <1>5, <1>6, SurplusIs DEF Settles
<1>8. QED BY <1>1, <1>7

LEMMA MoneyCollected ==
  ASSUME TypeInv, TypeInv', NEW a \in Address, Withdraw(a)
  PROVE  Surplus' = Surplus
<1>1. /\ ethBalance' = ethBalance - pendingWithdrawalsFees[a].feesL1
      /\ pendingWithdrawalsFees'[a].feesL1 = 0
      /\ \A b \in Address \ {a} :
           pendingWithdrawalsFees'[b].feesL1 = pendingWithdrawalsFees[b].feesL1
  BY Collected
<1>2. stakeAccounts' = stakeAccounts
  BY DEF Withdraw
<1>3. /\ pendingWithdrawalsFees \in [Address -> Fees]
      /\ pendingWithdrawalsFees' \in [Address -> Fees] /\ ethBalance \in Int
  BY LedgerIs, LedgerIsNext DEF LedgerTypes
<1>4. /\ AllFees(pendingWithdrawalsFees) \in Int
      /\ AllFees(pendingWithdrawalsFees') = AllFees(pendingWithdrawalsFees)
           - pendingWithdrawalsFees[a].feesL1 + pendingWithdrawalsFees'[a].feesL1
      /\ pendingWithdrawalsFees[a].feesL1 \in Nat
  BY <1>1, <1>3, FeesChange
<1>5. PICK x, q : x = AllFees(pendingWithdrawalsFees) /\ q = pendingWithdrawalsFees[a].feesL1
  OBVIOUS
<1>6. x \in Int /\ q \in Int /\ AllFees(pendingWithdrawalsFees') = (x - q) + 0
  BY <1>1, <1>4, <1>5
<1>7. PICK w : w = AllStakes(stakeAccounts)
  OBVIOUS
<1>8. w \in Int
  <2>1. IsFiniteSet(Proposer)
    BY Proposers
  <2>2. \A q1 \in Proposer : StakesOf(stakeAccounts)[q1] \in Int
    <3>1. \A q1 \in Proposer : stakeAccounts[q1] \in Account
      BY LedgerIs, AddrFacts DEF LedgerTypes, Ledgers
    <3>2. QED BY <3>1 DEF StakesOf, Account
  <2>3. QED BY <1>7, <2>1, <2>2, SumInt DEF AllStakes
<1>9. Surplus = ethBalance - w - x /\ Surplus' = (ethBalance - q) - w - ((x - q) + 0)
  BY <1>1, <1>2, <1>5, <1>6, <1>7, SurplusIs
<1>10. QED BY <1>3, <1>6, <1>8, <1>9

LEMMA SameAccounts ==
  /\ StakesStay => \A a \in Addr : SameAccount(stakeAccounts, stakeAccounts', a)
  /\ stakeAccounts' = stakeAccounts =>
       \A a \in Addr : SameAccount(stakeAccounts, stakeAccounts', a)
  /\ \A p : (\A a \in Addr \ {p} : stakeAccounts'[a] = stakeAccounts[a])
              => \A a \in Addr \ {p} : SameAccount(stakeAccounts, stakeAccounts', a)
BY DEF StakesStay, SameAccount

LEMMA WorthTypes ==
  ASSUME TypeInv, NEW p \in Proposer
  PROVE  /\ stakeAccounts[p].amount \in Nat /\ stakeAccounts[p].challengeLocked \in Nat
         /\ pendingWithdrawalsFees[p].feesL1 \in Nat /\ ethBalance \in Nat
         /\ p \in Address /\ p \in Addr
<1>1. pendingWithdrawalsFees[p] \in Fees
  BY Accounts
<1>2. QED BY <1>1, Accounts DEF Fees

LEMMA ConservedByProposer ==
  ASSUME TypeInv, TypeInv', NEW p \in Proposer, NEW value \in Nat,
         \A a \in Addr \ {p} : SameAccount(stakeAccounts, stakeAccounts', a),
         UNCHANGED pendingWithdrawalsFees, ethBalance' = ethBalance + value,
         stakeAccounts'[p].amount + stakeAccounts'[p].challengeLocked
           = (stakeAccounts[p].amount + stakeAccounts[p].challengeLocked) + value
  PROVE  Surplus' = Surplus
<1>1. PICK y : y = stakeAccounts[p].amount + stakeAccounts[p].challengeLocked /\ y \in Int
  BY WorthTypes
<1>2. PICK q : q = pendingWithdrawalsFees[p].feesL1 /\ q \in Int
  BY WorthTypes
<1>3. ethBalance + value = ethBalance + ((y + value) - y) + (q - q)
  BY <1>1, <1>2, WorthTypes
<1>4. Settles(p, p)
  BY <1>1, <1>2, <1>3 DEF Settles, Worth
<1>5. QED BY <1>4, MoneyMoves, WorthTypes

LEMMA ConservedProposing ==
  ASSUME TypeInv, TypeInv', NEW p \in Proposer, NEW txs \in Body, NEW valid,
         NEW value \in Nat, Propose(p, txs, valid, value)
  PROVE  Surplus' = Surplus
<1>1. /\ stakeAccounts'[p].amount = stakeAccounts[p].amount + value - blockStake
      /\ stakeAccounts'[p].challengeLocked = stakeAccounts[p].challengeLocked + blockStake
      /\ \A a \in Addr \ {p} : stakeAccounts'[a] = stakeAccounts[a]
  BY Proposing
<1>2. UNCHANGED pendingWithdrawalsFees /\ ethBalance' = ethBalance + value
  BY DEF Propose, ProposeBlock
<1>3. blockStake \in Int
  BY DEF TypeInv, ChainTypeOK
<1>4. stakeAccounts'[p].amount + stakeAccounts'[p].challengeLocked
        = (stakeAccounts[p].amount + stakeAccounts[p].challengeLocked) + value
  BY <1>1, <1>3, WorthTypes
<1>5. QED BY <1>1, <1>2, <1>4, SameAccounts, ConservedByProposer

LEMMA ConservedChallenging ==
  ASSUME TypeInv, TypeInv', IInv, NEW c \in Challenger, NEW i \in DOMAIN blockHashes,
         NEW salt, NEW seed \in Nat, ChallengeBlock(c, i, salt, seed), ~MixedRollback
  PROVE  Surplus' = Surplus
<1>1. PICK p, r : /\ p = blockHashes[i].proposer
                  /\ r = Reward(SubSeq(blockHashes, i, Len(blockHashes)))
  OBVIOUS
<1>2. /\ p \in Proposer /\ r \in Nat
      /\ stakeAccounts'[p].amount = stakeAccounts[p].amount
      /\ stakeAccounts'[p].challengeLocked = stakeAccounts[p].challengeLocked - r
      /\ \A a \in Addr \ {p} : SameAccount(stakeAccounts, stakeAccounts', a)
  BY <1>1, OnePays
<1>3. /\ pendingWithdrawalsFees'[c].feesL1 = pendingWithdrawalsFees[c].feesL1 + r
      /\ \A a \in Address \ {c} :
           pendingWithdrawalsFees'[a].feesL1 = pendingWithdrawalsFees[a].feesL1
  BY <1>1, Challenged
<1>4. ethBalance' = ethBalance /\ c \in Address
  BY DEF ChallengeBlock, Address
<1>5. PICK x, y, q : /\ x = stakeAccounts[p].amount /\ y = stakeAccounts[p].challengeLocked
                     /\ q = pendingWithdrawalsFees[c].feesL1
  OBVIOUS
<1>6. x \in Int /\ y \in Int /\ q \in Int
  <2>1. pendingWithdrawalsFees[c] \in Fees
    BY <1>4, LedgerIs DEF LedgerTypes
  <2>2. q \in Nat
    BY <1>5, <2>1 DEF Fees
  <2>3. QED BY <1>2, <1>5, <2>2, WorthTypes
<1>7. ethBalance = ethBalance + ((x + (y - r)) - (x + y)) + ((q + r) - q)
  BY <1>2, <1>6, WorthTypes
<1>8. Settles(p, c)
  BY <1>2, <1>3, <1>4, <1>5, <1>7 DEF Settles, Worth
<1>9. QED BY <1>2, <1>4, <1>8, MoneyMoves

LEMMA ConservedPaying ==
  ASSUME TypeInv, TypeInv', NEW p \in Proposer, NEW i \in DOMAIN blockHashes, PayBlock(p, i)
  PROVE  Surplus' = Surplus
<1>1. PICK s : s = blockHashes[i].blockStake /\ s \in Int
  BY QueueTypes DEF TypeInv, BlockData
<1>2. /\ stakeAccounts'[p].amount = stakeAccounts[p].amount + s
      /\ stakeAccounts'[p].challengeLocked = stakeAccounts[p].challengeLocked - s
      /\ \A a \in Addr \ {p} : SameAccount(stakeAccounts, stakeAccounts', a)
      /\ \A a \in Address :
           pendingWithdrawalsFees'[a].feesL1 = pendingWithdrawalsFees[a].feesL1
  BY <1>1, Paying, SameAccounts
<1>3. ethBalance' = ethBalance
  BY DEF PayBlock, RequestBlockPayment
<1>4. PICK x, y, q : /\ x = stakeAccounts[p].amount /\ y = stakeAccounts[p].challengeLocked
                     /\ q = pendingWithdrawalsFees[p].feesL1
                     /\ x \in Int /\ y \in Int /\ q \in Int
  BY WorthTypes
<1>5. ethBalance = ethBalance + (((x + s) + (y - s)) - (x + y)) + (q - q)
  BY <1>1, <1>4, WorthTypes
<1>6. Settles(p, p)
  BY <1>2, <1>3, <1>4, <1>5, WorthTypes DEF Settles, Worth
<1>7. QED BY <1>6, MoneyMoves, WorthTypes

LEMMA ConservedTaking ==
  ASSUME TypeInv, TypeInv', NEW p \in Proposer, WithdrawStake(p)
  PROVE  Surplus' = Surplus
<1>1. PICK x, y, q : /\ x = stakeAccounts[p].amount /\ y = stakeAccounts[p].challengeLocked
                     /\ q = pendingWithdrawalsFees[p].feesL1
                     /\ x \in Int /\ y \in Int /\ q \in Int
  BY WorthTypes
<1>2. /\ stakeAccounts'[p].amount = 0 /\ stakeAccounts'[p].challengeLocked = 0
      /\ pendingWithdrawalsFees'[p].feesL1 = q + (x + y)
      /\ \A a \in Addr \ {p} : SameAccount(stakeAccounts, stakeAccounts', a)
      /\ \A a \in Address \ {p} :
           pendingWithdrawalsFees'[a].feesL1 = pendingWithdrawalsFees[a].feesL1
  BY <1>1, StakeTaken, SameAccounts
<1>3. ethBalance' = ethBalance
  BY DEF WithdrawStake
<1>4. ethBalance = ethBalance + ((0 + 0) - (x + y)) + ((q + (x + y)) - q)
  BY <1>1, WorthTypes
<1>5. Settles(p, p)
  BY <1>1, <1>2, <1>3, <1>4 DEF Settles, Worth
<1>6. QED BY <1>5, MoneyMoves, WorthTypes

(* Calls that neither move stake nor touch the ether.                      *)
LEMMA Still ==
  ASSUME TypeInv, UNCHANGED <<ethBalance, pendingWithdrawalsFees, stakeAccounts>>, TypeInv'
  PROVE  Surplus' = Surplus
BY SameAccounts, MoneyStays

LEMMA StepConserves ==
  TypeInv /\ TypeInv' /\ IInv /\ [Next]_vars /\ ~MixedRollback => Surplus' = Surplus
<1> SUFFICES ASSUME TypeInv, TypeInv', IInv, [Next]_vars, ~MixedRollback
             PROVE  Surplus' = Surplus
  OBVIOUS
<1>1. /\ now \in Nat /\ RingInv
      /\ \A seed \in Seed : seed \in Nat
      /\ \A value \in Value : value \in Nat
  BY InputAssumption DEF TypeInv, ChainTypeOK
<1>2. CASE Tick \/ Owner \/ Deposit \/ UNCHANGED vars
  <2>1. UNCHANGED <<ethBalance, pendingWithdrawalsFees, stakeAccounts>>
    BY <1>2 DEF Tick, Owner, SetPaused, SetMaxProposers, SetBlockStake, Deposit,
                SubmitDeposit, moneyVars, vars
  <2>2. QED BY <2>1, Still
<1>3. ASSUME NEW p \in Proposer, TakeStake(p) PROVE Surplus' = Surplus
  BY <1>3, ConservedTaking DEF TakeStake
<1>4. ASSUME NEW p \in Proposer, NEW seed \in Seed, DeRegister(p, seed)
      PROVE  Surplus' = Surplus
  <2>1. DeRegisterProposer(p, seed)
    BY <1>4 DEF DeRegister
  <2>2. StakesStay
    BY <1>1, <2>1, Leaving
  <2>3. UNCHANGED <<ethBalance, pendingWithdrawalsFees>>
    BY <2>1 DEF DeRegisterProposer
  <2>4. QED BY <2>2, <2>3, SameAccounts, MoneyStays
<1>5. ASSUME NEW seed \in Seed, Rotate(seed) PROVE Surplus' = Surplus
  <2>1. RotateProposer(seed)
    BY <1>5 DEF Rotate
  <2>2. StakesStay
    BY <1>1, <2>1, TakingTurns
  <2>3. UNCHANGED <<ethBalance, pendingWithdrawalsFees>>
    BY <2>1 DEF RotateProposer
  <2>4. QED BY <2>2, <2>3, SameAccounts, MoneyStays
<1>6. ASSUME NEW p \in Proposer, NEW value \in Value, AddStake(p, value)
      PROVE  Surplus' = Surplus
  <2>1. UpdateProposer(p, value) /\ value \in Nat
    BY <1>1, <1>6 DEF AddStake
  <2>2. /\ stakeAccounts'[p].amount = stakeAccounts[p].amount + value
        /\ stakeAccounts'[p].challengeLocked = stakeAccounts[p].challengeLocked
        /\ \A a \in Addr \ {p} : SameAccount(stakeAccounts, stakeAccounts', a)
    BY <2>1, StakeAdded, SameAccounts
  <2>3. UNCHANGED pendingWithdrawalsFees /\ ethBalance' = ethBalance + value
    BY <2>1 DEF UpdateProposer
  <2>4. (stakeAccounts[p].amount + value) + stakeAccounts[p].challengeLocked
          = (stakeAccounts[p].amount + stakeAccounts[p].challengeLocked) + value
    BY <2>1, WorthTypes
  <2>5. QED BY <2>1, <2>2, <2>3, <2>4, ConservedByProposer
<1>7. ASSUME NEW p \in Proposer, NEW value \in Value, NEW seed \in Seed,
             Register(p, value, seed)
      PROVE  Surplus' = Surplus
  <2>1. RegisterProposer(p, value, seed) /\ value \in Nat /\ seed \in Nat
    BY <1>1, <1>7 DEF Register
  <2>2. /\ stakeAccounts'[p].amount = stakeAccounts[p].amount + value
        /\ stakeAccounts'[p].challengeLocked = stakeAccounts[p].challengeLocked
        /\ \A a \in Addr \ {p} : SameAccount(stakeAccounts, stakeAccounts', a)
    BY <1>1, <2>1, Registering DEF SameAccount
  <2>3. UNCHANGED pendingWithdrawalsFees /\ ethBalance' = ethBalance + value
    BY <2>1 DEF RegisterProposer
  <2>4. (stakeAccounts[p].amount + value) + stakeAccounts[p].challengeLocked
          = (stakeAccounts[p].amount + stakeAccounts[p].challengeLocked) + value
    BY <2>1, WorthTypes
  <2>5. QED BY <2>1, <2>2, <2>3, <2>4, ConservedByProposer
<1>8. ASSUME NEW p \in Proposer, NEW txs \in Body, NEW valid \in BOOLEAN,
             NEW value \in Value, Propose(p, txs, valid, value)
      PROVE  Surplus' = Surplus
  BY <1>1, <1>8, ConservedProposing
<1>9. ASSUME NEW c \in Challenger, NEW i \in DOMAIN blockHashes, NEW salt \in Salt,
             CommitChallenge(c, i, salt)
      PROVE  Surplus' = Surplus
  <2>1. CommitToChallenge(c, blockHashes[i].blockHash, salt)
    BY <1>9 DEF CommitChallenge
  <2>2. UNCHANGED <<ethBalance, pendingWithdrawalsFees, stakeAccounts>>
    BY <2>1 DEF CommitToChallenge, moneyVars
  <2>3. QED BY <2>2, Still
<1>10. ASSUME NEW c \in Challenger, NEW i \in DOMAIN blockHashes, NEW salt \in Salt,
              NEW seed \in Seed, Challenge(c, i, salt, seed)
       PROVE  Surplus' = Surplus
  BY <1>1, <1>10, ConservedChallenging DEF Challenge
<1>11. ASSUME NEW p \in Proposer, NEW i \in DOMAIN blockHashes, PayBlock(p, i)
       PROVE  Surplus' = Surplus
  BY <1>11, ConservedPaying
<1>12. ASSUME NEW a \in Address, Collect(a) PROVE Surplus' = Surplus
  BY <1>12, MoneyCollected DEF Collect
<1>13. QED
  BY <1>2, <1>3, <1>4, <1>5, <1>6, <1>7, <1>8, <1>9, <1>10, <1>11, <1>12
     DEF Next, Staking, Challenging

(***************************************************************************)
(* No call creates a claim on the ether State holds or loses one: what is  *)
(* staked, paid, slashed, withdrawn or taken over by a challenger moves    *)
(* between accounts, unless one rollback hits several proposers.           *)
(***************************************************************************)
THEOREM Conservation == Spec => ClaimsConserved
<1>1. TypeInv /\ TypeInv' /\ IInv /\ [Next]_vars => [~MixedRollback => Surplus' = Surplus]_vars
  BY StepConserves
<1>2. QED BY <1>1, RingInvariance, Invariance, PTL DEF Spec, ClaimsConserved

-----------------------------------------------------------------------------
(***************************************************************************)
(* The stake behind the blocks of a proposer, before a step and after it.  *)
(***************************************************************************)
Stakes(chain) == [i \in DOMAIN chain |-> chain[i].blockStake]

LEMMA OpenStakeIs ==
  /\ \A q : OpenStake(q) = SumFunctionOnSet(Stakes(blockHashes), OpenBlocks(q))
  /\ \A q : OpenStake(q)' = SumFunctionOnSet(Stakes(blockHashes'), OpenBlocks(q)')
  /\ \A q : OpenBlocks(q)' = {i \in DOMAIN blockHashes' :
                                /\ blockHashes'[i].proposer = q
                                /\ blockHashes'[i].blockHash \notin returned'}
BY DEF OpenStake, Stakes, OpenBlocks

LEMMA OpenTypes ==
  ASSUME ChainTypeOK, NEW q
  PROVE  /\ OpenBlocks(q) \subseteq DOMAIN blockHashes
         /\ IsFiniteSet(DOMAIN blockHashes) /\ IsFiniteSet(OpenBlocks(q))
         /\ \A i \in DOMAIN blockHashes :
              /\ Stakes(blockHashes)[i] = blockHashes[i].blockStake
              /\ Stakes(blockHashes)[i] \in Nat /\ Stakes(blockHashes)[i] \in Int
         /\ OpenStake(q) \in Nat
<1>1. OpenBlocks(q) \subseteq DOMAIN blockHashes
  BY DEF OpenBlocks
<1>2. DOMAIN blockHashes = 1..Len(blockHashes) /\ Len(blockHashes) \in Nat
  BY QueueTypes
<1>3. IsFiniteSet(DOMAIN blockHashes)
  <2>1. 1 \in Int /\ Len(blockHashes) \in Int
    BY <1>2
  <2>2. QED BY <1>2, <2>1, FS_Interval
<1>4. IsFiniteSet(OpenBlocks(q))
  BY <1>1, <1>3, FS_Subset
<1>5. \A i \in DOMAIN blockHashes :
        /\ Stakes(blockHashes)[i] = blockHashes[i].blockStake
        /\ Stakes(blockHashes)[i] \in Nat /\ Stakes(blockHashes)[i] \in Int
  BY QueueTypes DEF Stakes, BlockData
<1>6. \A i \in OpenBlocks(q) : Stakes(blockHashes)[i] \in Nat
  BY <1>1, <1>5
<1>7. SumFunctionOnSet(Stakes(blockHashes), OpenBlocks(q)) \in Nat
  BY <1>4, <1>6, SumNat
<1>8. QED BY <1>1, <1>3, <1>4, <1>5, <1>7, OpenStakeIs

(* Nothing is proposed, removed or paid, and no lock changes.              *)
LEMMA LocksStay ==
  ASSUME LocksMatchBlocks, UNCHANGED <<blockHashes, returned>>,
         \A q \in Proposer :
           stakeAccounts'[q].challengeLocked = stakeAccounts[q].challengeLocked
  PROVE  LocksMatchBlocks'
<1>1. \A q : OpenStake(q)' = OpenStake(q)
  BY DEF OpenStake, OpenBlocks
<1>2. QED BY <1>1 DEF LocksMatchBlocks

LEMMA LocksStayWith ==
  ASSUME LocksMatchBlocks, UNCHANGED <<blockHashes, returned>>,
         \A a \in Addr : SameAccount(stakeAccounts, stakeAccounts', a)
  PROVE  LocksMatchBlocks'
BY LocksStay, AddrFacts DEF SameAccount

(* A block proposed is open, whatever happened to the same block before.   *)
LEMMA LocksProposing ==
  ASSUME TypeInv, IInv, LocksMatchBlocks,
         NEW p \in Proposer, NEW txs \in Body, NEW valid, NEW value \in Nat,
         Propose(p, txs, valid, value)
  PROVE  LocksMatchBlocks'
<1> DEFINE hash  == HashBlock(NextBlock(p, txs, valid))
           block == [blockHash |-> hash, time |-> now,
                     proposer |-> p, blockStake |-> blockStake]
           w == Stakes(blockHashes)
           x == Stakes(blockHashes')
<1>1. blockHashes' = Append(blockHashes, block) /\ returned' = returned
  BY DEF Propose, ProposeBlock, history
<1>2. ChainTypeOK /\ ChainWellFormed /\ ReturnedStay /\ blockStake \in Int
  BY DEF IInv, StakeInv, ChainTypeOK
<1>3. PICK n : n = Len(blockHashes) /\ n \in Nat /\ DOMAIN blockHashes = 1..n
  BY <1>2, QueueTypes
<1>4. /\ block.proposer = p /\ block.blockStake = blockStake /\ block.blockHash = hash
  OBVIOUS
<1>5. hash \notin returned
  <2>1. Preimage(hash).blockNumberL2 = n
    BY <1>3, PreimageOfHash DEF NextBlock
  <2>2. ASSUME NEW i \in DOMAIN blockHashes, blockHashes[i].blockHash = hash PROVE FALSE
    <3>1. n = i - 1
      BY <1>2, <2>1, <2>2 DEF ChainWellFormed
    <3>2. QED BY <1>3, <3>1
  <2>3. QED BY <1>2, <2>2 DEF ReturnedStay
<1> HIDE DEF block, hash
<1>6. /\ DOMAIN blockHashes' = 1..n + 1 /\ blockHashes'[n + 1] = block
      /\ \A i \in 1..n : blockHashes'[i] = blockHashes[i]
  <2>1. blockHashes \in Seq(BlockData \cup {block})
    BY <1>2, SeqMonotonic DEF ChainTypeOK
  <2>2. QED BY <1>1, <1>3, <2>1, AppendProperties
<1>7. ASSUME NEW q \in Proposer
      PROVE  OpenBlocks(q)' = OpenBlocks(q) \cup (IF q = p THEN {n + 1} ELSE {})
  BY <1>1, <1>3, <1>4, <1>5, <1>6, OpenStakeIs DEF OpenBlocks
<1>8. /\ x[n + 1] = blockStake /\ \A i \in 1..n : x[i] = w[i] /\ w[i] \in Int
  <2>1. \A i \in 1..n : w[i] \in Int
    BY <1>2, <1>3, OpenTypes
  <2>2. QED BY <1>3, <1>4, <1>6, <2>1 DEF Stakes
<1> HIDE DEF w, x
<1>9. ASSUME NEW q \in Proposer
      PROVE  /\ IsFiniteSet(OpenBlocks(q)) /\ OpenBlocks(q) \subseteq 1..n
             /\ SumFunctionOnSet(x, OpenBlocks(q)) = OpenStake(q) /\ OpenStake(q) \in Int
  <2>1. IsFiniteSet(OpenBlocks(q)) /\ OpenBlocks(q) \subseteq 1..n /\ OpenStake(q) \in Int
    BY <1>2, <1>3, OpenTypes
  <2>2. \A i \in OpenBlocks(q) : x[i] = w[i]
    BY <1>8, <2>1
  <2>3. SumFunctionOnSet(x, OpenBlocks(q)) = SumFunctionOnSet(w, OpenBlocks(q))
    BY <2>1, <2>2, SumSame
  <2>4. QED BY <2>1, <2>3, OpenStakeIs DEF w
<1>10. /\ stakeAccounts'[p].challengeLocked = stakeAccounts[p].challengeLocked + blockStake
       /\ \A a \in Addr \ {p} : stakeAccounts'[a] = stakeAccounts[a]
  BY Proposing
<1>11. ASSUME NEW q \in Proposer, q # p
       PROVE  stakeAccounts'[q].challengeLocked = OpenStake(q)'
  <2>1. OpenStake(q)' = OpenStake(q)
    BY <1>7, <1>9, <1>11, OpenStakeIs DEF x
  <2>2. stakeAccounts'[q] = stakeAccounts[q]
    BY <1>10, <1>11, AddrFacts
  <2>3. QED BY <2>1, <2>2 DEF LocksMatchBlocks
<1>12. stakeAccounts'[p].challengeLocked = OpenStake(p)'
  <2>1. n + 1 \notin OpenBlocks(p)
    BY <1>3, <1>9
  <2>2. \A y \in OpenBlocks(p) \cup {n + 1} : x[y] \in Int
    BY <1>2, <1>8, <1>9
  <2>3. SumFunctionOnSet(x, OpenBlocks(p) \cup {n + 1})
          = x[n + 1] + SumFunctionOnSet(x, OpenBlocks(p))
    BY <1>9, <2>1, <2>2, SumAdd
  <2>4. OpenStake(p)' = blockStake + OpenStake(p)
    BY <1>7, <1>8, <1>9, <2>3, OpenStakeIs DEF x
  <2>5. stakeAccounts[p].challengeLocked = OpenStake(p)
    BY DEF LocksMatchBlocks
  <2>6. PICK u : u = OpenStake(p) /\ u \in Int
    BY <1>9
  <2>7. u + blockStake = blockStake + u
    BY <1>2, <2>6
  <2>8. QED BY <1>10, <2>4, <2>5, <2>6, <2>7
<1>13. QED BY <1>11, <1>12 DEF LocksMatchBlocks

(* A block paid for is open until then, and one block of the queue only.   *)
LEMMA LocksPaying ==
  ASSUME TypeInv, IInv, LocksMatchBlocks,
         NEW p \in Proposer, NEW i \in DOMAIN blockHashes, PayBlock(p, i)
  PROVE  LocksMatchBlocks'
<1> DEFINE hash == blockHashes[i].blockHash
           w == Stakes(blockHashes)
<1>1. /\ blockHashes[i].proposer = p /\ ~blockInfo[hash].stakeClaimed
      /\ blockHashes' = blockHashes /\ returned' = returned \cup {hash}
  BY DEF PayBlock, RequestBlockPayment
<1>2. ChainTypeOK /\ ChainWellFormed /\ ClaimsRemembered
  BY DEF IInv, StakeInv
<1>3. hash \notin returned
  BY <1>1, <1>2 DEF ClaimsRemembered, IsClaimed
<1>4. \A j \in DOMAIN blockHashes : blockHashes[j].blockHash = hash => j = i
  BY <1>2, HashesAtOnePlace
<1>5. ASSUME NEW q \in Proposer
      PROVE  OpenBlocks(q)' = OpenBlocks(q) \ (IF q = p THEN {i} ELSE {})
  BY <1>1, <1>4, OpenStakeIs DEF OpenBlocks
<1>6. i \in OpenBlocks(p)
  BY <1>1, <1>3 DEF OpenBlocks
<1>7. /\ stakeAccounts'[p].challengeLocked
           = stakeAccounts[p].challengeLocked - blockHashes[i].blockStake
      /\ \A a \in Addr \ {p} : stakeAccounts'[a] = stakeAccounts[a]
  BY Paying
<1>8. ASSUME NEW q \in Proposer, q # p
      PROVE  stakeAccounts'[q].challengeLocked = OpenStake(q)'
  <2>1. OpenBlocks(q)' = OpenBlocks(q)
    BY <1>5, <1>8
  <2>2. OpenStake(q)' = OpenStake(q)
    BY <1>1, <2>1, OpenStakeIs
  <2>3. stakeAccounts'[q] = stakeAccounts[q]
    BY <1>7, <1>8, AddrFacts
  <2>4. QED BY <2>2, <2>3 DEF LocksMatchBlocks
<1>9. stakeAccounts'[p].challengeLocked = OpenStake(p)'
  <2>1. /\ IsFiniteSet(OpenBlocks(p)) /\ \A y \in OpenBlocks(p) : w[y] \in Int
        /\ w[i] = blockHashes[i].blockStake
    BY <1>2, OpenTypes
  <2>2. SumFunctionOnSet(w, OpenBlocks(p)) = w[i] + SumFunctionOnSet(w, OpenBlocks(p) \ {i})
    <3> HIDE DEF w
    <3>1. QED BY <1>6, <2>1, SumRemove
  <2>3. IsFiniteSet(OpenBlocks(p) \ {i})
    BY <2>1, FS_Subset
  <2>4. PICK u : u = SumFunctionOnSet(w, OpenBlocks(p) \ {i}) /\ u \in Int
    <3>1. \A y \in OpenBlocks(p) \ {i} : w[y] \in Int
      BY <2>1
    <3> HIDE DEF w
    <3>2. QED BY <2>3, <3>1, SumInt
  <2>5. OpenStake(p)' = u
    BY <1>1, <1>5, <2>4, OpenStakeIs
  <2>6. stakeAccounts[p].challengeLocked = w[i] + u
    BY <2>2, <2>4, OpenStakeIs DEF LocksMatchBlocks
  <2>7. PICK s : s = w[i] /\ s \in Int
    BY <1>6, <2>1
  <2>8. (s + u) - s = u
    BY <2>4, <2>7
  <2>9. QED BY <1>7, <2>1, <2>5, <2>6, <2>7, <2>8
<1>10. QED BY <1>8, <1>9 DEF LocksMatchBlocks

(* What a challenger is rewarded is the stake of the blocks removed.       *)
LEMMA RewardOfRemoved ==
  ASSUME ChainTypeOK, NEW i \in DOMAIN blockHashes
  PROVE  LET n == Len(blockHashes)
         IN Reward(SubSeq(blockHashes, i, n)) = SumFunctionOnSet(Stakes(blockHashes), i..n)
<1> DEFINE n == Len(blockHashes)
           bad == SubSeq(blockHashes, i, n)
           m == (n - i) + 1
           b == [k \in 1..m |-> (i + k) - 1]
           v == [k \in 1..m |-> bad[k].blockStake]
           w == Stakes(blockHashes)
<1>1. n \in Nat /\ i \in 1..n /\ blockHashes \in Seq(BlockData)
  BY QueueTypes DEF ChainTypeOK
<1>2. /\ Len(bad) = m /\ bad \in Seq(BlockData) /\ m \in Nat
      /\ \A k \in 1..m : bad[k] = blockHashes[(i + k) - 1] /\ (i + k) - 1 \in i..n
  BY <1>1
<1>3. Reward(bad) = SumFunctionOnSet(v, 1..m)
  BY <1>2, RewardIsSum
<1>4. \A k \in 1..m : v[k] \in Int /\ w[b[k]] = v[k]
  <2>1. \A j \in i..n : w[j] = blockHashes[j].blockStake /\ w[j] \in Int
    BY <1>1, QueueTypes, OpenTypes
  <2> HIDE DEF w, bad
  <2>2. QED BY <1>2, <2>1
<1>5. {b[k] : k \in 1..m} = i..n
  <2>1. \A k \in 1..m : b[k] \in i..n
    BY <1>1
  <2>2. \A j \in i..n : (j - i) + 1 \in 1..m /\ b[(j - i) + 1] = j
    BY <1>1
  <2> HIDE DEF b
  <2>3. QED BY <2>1, <2>2
<1>6. \A k \in 1..m : \A l \in 1..m : b[k] = b[l] => k = l
  BY <1>1
<1>7. IsFiniteSet(1..m)
  BY <1>2, FS_Interval
<1> HIDE DEF b, v, w, bad
<1>8. Renames(b, 1..m, v, w)
  BY <1>4, <1>6 DEF Renames
<1>9. SumFunctionOnSet(w, {b[k] : k \in 1..m}) = SumFunctionOnSet(v, 1..m)
  BY <1>7, <1>8, SumRenamed
<1>10. QED BY <1>3, <1>5, <1>9 DEF w, bad

LEMMA LocksChallenging ==
  ASSUME TypeInv, IInv, LocksMatchBlocks, NEW c \in Challenger,
         NEW i \in DOMAIN blockHashes, NEW salt \in Salt, NEW seed \in Nat,
         Challenge(c, i, salt, seed), ~MixedRollback
  PROVE  LocksMatchBlocks'
<1> DEFINE w == Stakes(blockHashes)
           x == Stakes(blockHashes')
<1>1. ChallengeBlock(c, i, salt, seed) /\ returned' = returned
  BY DEF Challenge
<1>2. ChainTypeOK /\ ChainWellFormed /\ ReturnedStay
  BY DEF IInv, StakeInv
<1>3. PICK n, p, r : /\ n = Len(blockHashes) /\ p = blockHashes[i].proposer
                     /\ r = Reward(SubSeq(blockHashes, i, Len(blockHashes)))
  OBVIOUS
<1>4. n \in Nat /\ i \in 1..n /\ DOMAIN blockHashes = 1..n
  BY <1>2, <1>3, QueueTypes
<1>5. /\ p \in Proposer /\ r \in Nat
      /\ \A j \in i..n : blockHashes[j].proposer = p
      /\ stakeAccounts'[p].challengeLocked = stakeAccounts[p].challengeLocked - r
      /\ \A a \in Addr \ {p} : SameAccount(stakeAccounts, stakeAccounts', a)
  BY <1>1, <1>3, OnePays
<1>6. /\ DOMAIN blockHashes' = 1..i - 1
      /\ \A j \in 1..i - 1 : blockHashes'[j] = blockHashes[j]
      /\ IsChallengeable(blockHashes[i])
  BY <1>1, ChallengeEffect
<1>7. \A j \in i..n : blockHashes[j].blockHash \notin returned
  <2>1. SUFFICES ASSUME NEW j \in i..n, blockHashes[j].blockHash \in returned PROVE FALSE
    OBVIOUS
  <2>2. PICK k \in DOMAIN blockHashes : /\ blockHashes[k].blockHash = blockHashes[j].blockHash
                                        /\ IsFinal(blockHashes[k])
    BY <1>2, <2>1 DEF ReturnedStay
  <2>3. j \in DOMAIN blockHashes
    BY <1>4
  <2>4. k = j
    BY <1>2, <2>2, <2>3, HashesAtOnePlace
  <2>5. k < i
    BY <1>2, <1>6, <2>2, FinalBeforeChallengeable
  <2>6. QED BY <1>4, <2>4, <2>5
<1>8. ASSUME NEW q \in Proposer PROVE OpenBlocks(q)' = OpenBlocks(q) \ (i..n)
  <2>1. \A j \in 1..n : j \in 1..i - 1 <=> j \notin i..n
    BY <1>4
  <2>2. \A j \in 1..i - 1 : j \in 1..n
    BY <1>4
  <2>3. QED BY <1>1, <1>4, <1>6, <2>1, <2>2, OpenStakeIs DEF OpenBlocks
<1>9. \A q \in Proposer : /\ OpenBlocks(q) \cap (i..n) = IF q = p THEN i..n ELSE {}
  <2>1. i..n \subseteq DOMAIN blockHashes
    BY <1>4
  <2>2. QED BY <1>5, <1>7, <2>1 DEF OpenBlocks
<1>10. ASSUME NEW q \in Proposer
       PROVE  OpenStake(q)' = SumFunctionOnSet(w, OpenBlocks(q) \ (i..n))
  <2>1. OpenBlocks(q)' \subseteq 1..i - 1
    BY <1>6, OpenStakeIs
  <2>2. \A j \in OpenBlocks(q)' : x[j] = w[j]
    <3>1. \A j \in 1..i - 1 : j \in DOMAIN blockHashes
      BY <1>4
    <3>2. QED BY <1>6, <2>1, <3>1 DEF Stakes
  <2>3. IsFiniteSet(OpenBlocks(q)')
    <3>1. IsFiniteSet(OpenBlocks(q))
      BY <1>2, OpenTypes
    <3>2. QED BY <1>8, <3>1, FS_Subset
  <2>4. PICK y : y = OpenBlocks(q)'
    OBVIOUS
  <2> HIDE DEF w, x
  <2>5. SumFunctionOnSet(x, y) = SumFunctionOnSet(w, y)
    BY <2>2, <2>3, <2>4, SumSame
  <2>6. QED BY <1>8, <2>4, <2>5, OpenStakeIs DEF x
<1>11. ASSUME NEW q \in Proposer, q # p
       PROVE  stakeAccounts'[q].challengeLocked = OpenStake(q)'
  <2>1. OpenBlocks(q) \ (i..n) = OpenBlocks(q)
    BY <1>9, <1>11
  <2>2. OpenStake(q)' = OpenStake(q)
    BY <1>10, <2>1, OpenStakeIs
  <2>3. stakeAccounts'[q].challengeLocked = stakeAccounts[q].challengeLocked
    BY <1>5, <1>11, AddrFacts DEF SameAccount
  <2>4. QED BY <2>2, <2>3 DEF LocksMatchBlocks
<1>12. stakeAccounts'[p].challengeLocked = OpenStake(p)'
  <2>1. i..n \subseteq OpenBlocks(p)
    BY <1>5, <1>9
  <2>2. IsFiniteSet(OpenBlocks(p)) /\ \A y \in OpenBlocks(p) : w[y] \in Int
    BY <1>2, OpenTypes
  <2>3. r = SumFunctionOnSet(w, i..n)
    BY <1>2, <1>3, RewardOfRemoved
  <2> HIDE DEF w
  <2>4. /\ SumFunctionOnSet(w, OpenBlocks(p))
             = SumFunctionOnSet(w, i..n) + SumFunctionOnSet(w, OpenBlocks(p) \ (i..n))
        /\ SumFunctionOnSet(w, OpenBlocks(p) \ (i..n)) \in Int
    <3>1. PICK open, bad, rest : /\ open = OpenBlocks(p) /\ bad = i..n
                                 /\ rest = OpenBlocks(p) \ (i..n)
      OBVIOUS
    <3>2. IsFiniteSet(bad) /\ IsFiniteSet(rest)
      BY <2>1, <2>2, <3>1, FS_Subset
    <3>3. /\ bad \cap rest = {} /\ bad \cup rest = open
          /\ \A y \in bad \cup rest : w[y] \in Int
      BY <2>1, <2>2, <3>1
    <3>4. SumFunctionOnSet(w, bad \cup rest)
            = SumFunctionOnSet(w, bad) + SumFunctionOnSet(w, rest)
      BY <3>2, <3>3, SumUnion
    <3>5. SumFunctionOnSet(w, rest) \in Int
      BY <3>2, <3>3, SumInt
    <3>6. QED BY <3>1, <3>3, <3>4, <3>5
  <2>5. OpenStake(p) = SumFunctionOnSet(w, OpenBlocks(p))
    BY OpenStakeIs DEF w
  <2>6. PICK u : u = OpenStake(p)' /\ u \in Int
    BY <1>5, <1>10, <2>4
  <2>7. stakeAccounts[p].challengeLocked = r + u
    BY <1>5, <1>10, <2>3, <2>4, <2>5, <2>6 DEF LocksMatchBlocks
  <2>8. (r + u) - r = u
    BY <1>5, <2>6
  <2>9. QED BY <1>5, <2>6, <2>7, <2>8
<1>13. QED BY <1>11, <1>12 DEF LocksMatchBlocks

(* A proposer without open blocks takes out no locked stake.               *)
LEMMA LocksTaking ==
  ASSUME TypeInv, LocksMatchBlocks, NEW p \in Proposer, TakeStake(p), ~AbandonsBlocks
  PROVE  LocksMatchBlocks'
<1>1. WithdrawStake(p) /\ UNCHANGED <<blockHashes, returned>>
  BY DEF TakeStake, WithdrawStake, chainVars, history
<1>2. ~(OpenStake(p) > 0)
  BY <1>1 DEF AbandonsBlocks
<1>3. stakeAccounts[p].challengeLocked = 0
  <2>1. OpenStake(p) \in Nat
    BY OpenTypes DEF TypeInv
  <2>2. QED BY <1>2, <2>1 DEF LocksMatchBlocks
<1>4. /\ stakeAccounts'[p].challengeLocked = 0
      /\ \A a \in Addr \ {p} : stakeAccounts'[a] = stakeAccounts[a]
  BY <1>1, StakeTaken
<1>5. \A q \in Proposer :
        stakeAccounts'[q].challengeLocked = stakeAccounts[q].challengeLocked
  BY <1>3, <1>4, AddrFacts
<1>6. QED BY <1>1, <1>5, LocksStay

LEMMA StepLocks ==
  TypeInv /\ IInv /\ [Next]_vars /\ ~MixedRollback /\ ~AbandonsBlocks /\ LocksMatchBlocks
    => LocksMatchBlocks'
<1> SUFFICES ASSUME TypeInv, IInv, [Next]_vars, ~MixedRollback, ~AbandonsBlocks,
                    LocksMatchBlocks
             PROVE  LocksMatchBlocks'
  OBVIOUS
<1>1. /\ now \in Nat /\ RingInv
      /\ \A seed \in Seed : seed \in Nat
      /\ \A value \in Value : value \in Nat
  BY InputAssumption DEF TypeInv, ChainTypeOK
<1>2. CASE \/ Tick \/ Owner \/ Deposit \/ UNCHANGED vars
           \/ \E a \in Address : Collect(a)
           \/ \E c \in Challenger, i \in DOMAIN blockHashes, salt \in Salt :
                CommitChallenge(c, i, salt)
  <2>1. UNCHANGED <<blockHashes, returned, stakeAccounts>>
    BY <1>2 DEF Tick, Owner, SetPaused, SetMaxProposers, SetBlockStake, Deposit,
                SubmitDeposit, Collect, Withdraw, CommitChallenge, CommitToChallenge,
                moneyVars, chainVars, history, vars
  <2>2. QED BY <2>1, LocksStay
<1>3. ASSUME NEW p \in Proposer, TakeStake(p) PROVE LocksMatchBlocks'
  BY <1>3, LocksTaking
<1>4. ASSUME NEW p \in Proposer, NEW seed \in Seed, DeRegister(p, seed)
      PROVE  LocksMatchBlocks'
  <2>1. DeRegisterProposer(p, seed)
    BY <1>4 DEF DeRegister
  <2>2. \A a \in Addr : SameAccount(stakeAccounts, stakeAccounts', a)
    BY <1>1, <2>1, Leaving, SameAccounts
  <2>3. UNCHANGED <<blockHashes, returned>>
    BY <1>4 DEF DeRegister, DeRegisterProposer, chainVars, history
  <2>4. QED BY <2>2, <2>3, LocksStayWith
<1>5. ASSUME NEW seed \in Seed, Rotate(seed) PROVE LocksMatchBlocks'
  <2>1. RotateProposer(seed)
    BY <1>5 DEF Rotate
  <2>2. \A a \in Addr : SameAccount(stakeAccounts, stakeAccounts', a)
    BY <1>1, <2>1, TakingTurns, SameAccounts
  <2>3. UNCHANGED <<blockHashes, returned>>
    BY <1>5 DEF Rotate, RotateProposer, chainVars, history
  <2>4. QED BY <2>2, <2>3, LocksStayWith
<1>6. ASSUME NEW p \in Proposer, NEW value \in Value, AddStake(p, value)
      PROVE  LocksMatchBlocks'
  <2>1. UpdateProposer(p, value) /\ value \in Nat
    BY <1>1, <1>6 DEF AddStake
  <2>2. \A q \in Proposer :
          stakeAccounts'[q].challengeLocked = stakeAccounts[q].challengeLocked
    BY <2>1, StakeAdded, AddrFacts
  <2>3. UNCHANGED <<blockHashes, returned>>
    BY <1>6 DEF AddStake, UpdateProposer, chainVars, history
  <2>4. QED BY <2>2, <2>3, LocksStay
<1>7. ASSUME NEW p \in Proposer, NEW value \in Value, NEW seed \in Seed,
             Register(p, value, seed)
      PROVE  LocksMatchBlocks'
  <2>1. RegisterProposer(p, value, seed) /\ value \in Nat /\ seed \in Nat
    BY <1>1, <1>7 DEF Register
  <2>2. \A q \in Proposer :
          stakeAccounts'[q].challengeLocked = stakeAccounts[q].challengeLocked
    BY <1>1, <2>1, Registering, AddrFacts
  <2>3. UNCHANGED <<blockHashes, returned>>
    BY <1>7 DEF Register, RegisterProposer, chainVars, history
  <2>4. QED BY <2>2, <2>3, LocksStay
<1>8. ASSUME NEW p \in Proposer, NEW txs \in Body, NEW valid \in BOOLEAN,
             NEW value \in Value, Propose(p, txs, valid, value)
      PROVE  LocksMatchBlocks'
  BY <1>1, <1>8, LocksProposing
<1>9. ASSUME NEW c \in Challenger, NEW i \in DOMAIN blockHashes, NEW salt \in Salt,
             NEW seed \in Seed, Challenge(c, i, salt, seed)
      PROVE  LocksMatchBlocks'
  BY <1>1, <1>9, LocksChallenging
<1>10. ASSUME NEW p \in Proposer, NEW i \in DOMAIN blockHashes, PayBlock(p, i)
       PROVE  LocksMatchBlocks'
  BY <1>10, LocksPaying
<1>11. QED
  BY <1>2, <1>3, <1>4, <1>5, <1>6, <1>7, <1>8, <1>9, <1>10
     DEF Next, Staking, Challenging

(***************************************************************************)
(* Once challengeLocked of every proposer is the stake behind its unpaid   *)
(* blocks, it stays so: whatever is proposed, challenged or paid locks and *)
(* unlocks what the blocks say, save the two calls named there.            *)
(***************************************************************************)
THEOREM LocksStayMatched == Spec => LocksKept
<1>1. TypeInv /\ IInv /\ [Next]_vars
        => [~MixedRollback /\ ~AbandonsBlocks /\ LocksMatchBlocks => LocksMatchBlocks']_vars
  BY StepLocks
<1>2. QED BY <1>1, RingInvariance, Invariance, PTL DEF Spec, LocksKept
=============================================================================
