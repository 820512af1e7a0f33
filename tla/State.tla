------------------------------- MODULE State -------------------------------
(***************************************************************************)
(* The storage of the rollup's layer 1 contracts and the internal          *)
(* functions of State.sol: the queue of layer 2 blocks, the stakes locked  *)
(* behind them, and the circular list of proposers from which the proof of *)
(* stake rotation picks who may propose.                                   *)
(*                                                                         *)
(* An Ethereum transaction is atomic and a `require' that fails undoes it, *)
(* so one external function is one action.  The contracts compute it by a  *)
(* sequence of storage writes; here those are operators from one frame to  *)
(* the next, a frame being a record of the storage they touch together     *)
(* with `reverted', which records a checked arithmetic error, an index out *)
(* of bounds or a `require' that failed on the way.                        *)
(***************************************************************************)
EXTENDS Integers, Sequences, SequencesExt

CONSTANTS
  Proposer,             \* addresses that may register as proposers
  Challenger,           \* addresses that may challenge blocks
  NoAddress,            \* address(0)
  BootProposer,         \* the proposer left when maxProposers is set to 1
  CHALLENGE_PERIOD,     \* Config.sol: 1 weeks, in ticks of the L1 clock
  MinimumStake,         \* stake needed to register
  InitialBlockStake,    \* stake locked behind each block at deployment
  RotateProposerBlocks, \* length of a sprint, in L1 blocks
  ProposerSetCount,     \* slots drawn for a span
  SprintsInSpan,        \* sprints in a span
  MaximumSlots,         \* slots of the largest stake (10 in fillSlots)
  InitialMaxProposers   \* maxProposers at deployment

ASSUME PeriodAssumption == CHALLENGE_PERIOD \in Nat \ {0}
ASSUME StakeAssumption  == /\ MinimumStake \in Nat
                           /\ InitialBlockStake \in Nat \ {0}
ASSUME AddressAssumption == /\ NoAddress \notin Proposer \cup Challenger
                            /\ BootProposer \in Proposer \cup {NoAddress}
                            /\ IsFiniteSet(Proposer \cup Challenger) \* 20 bytes each
ASSUME RotationAssumption ==
  /\ RotateProposerBlocks \in Nat
  /\ {ProposerSetCount, SprintsInSpan, MaximumSlots, InitialMaxProposers}
       \subseteq Nat \ {0}

VARIABLES
  now,                    \* block.timestamp, and block.number: one L1 block a tick
  paused,                 \* Pausable.sol, a flag of its own in State and in Shield
  blockHashes,            \* the queue of L2 blocks, as BlockData records
  blockInfo,              \* block hash -> [feesL2, stakeClaimed]
  isCommitmentEscrowed,   \* deposit commitments paid in to Shield
  pendingWithdrawalsFees, \* address -> [feesL1, feesL2] it may withdraw
  stakeAccounts,          \* address -> TimeLockedStake
  ethBalance,             \* ether held by the State contract
  proposers,              \* address -> LinkedAddress
  currentProposer,        \* a COPY of a LinkedAddress, not a reference to it
  proposerStartBlock,
  numProposers,
  proposersSet,           \* the proposers of this span and their weights
  currentSprint,
  spanProposersList,      \* who proposes in each sprint of this span
  blockStake,             \* Config.sol, set by the owner
  maxProposers,           \* Config.sol, a copy of its own in each contract
  committers              \* Challenges.sol: commitment hash -> sender

chainVars == <<blockHashes, blockInfo>>
ringVars  == <<proposers, currentProposer, proposerStartBlock, numProposers,
               proposersSet, currentSprint, spanProposersList>>
moneyVars == <<stakeAccounts, pendingWithdrawalsFees, ethBalance>>
ownerVars == <<paused, blockStake, maxProposers>>

Address  == Proposer \cup Challenger
Contract == {"State", "Proposers", "Shield"}

EmptyStake   == [amount |-> 0, challengeLocked |-> 0, time |-> 0]
EmptyFees    == [feesL1 |-> 0, feesL2 |-> 0]
EmptyAddress == [thisAddress |-> NoAddress, previousAddress |-> NoAddress,
                 nextAddress |-> NoAddress, inProposerSet |-> FALSE,
                 indexProposerSet |-> 0]

(***************************************************************************)
(* The clock starts after a whole period so that, as with Unix time, a     *)
(* lock with time = 0 has expired.                                         *)
(***************************************************************************)
StartTime == CHALLENGE_PERIOD + 1

StateInit ==
  /\ now = StartTime
  /\ paused = [c \in Contract |-> FALSE]
  /\ blockHashes = <<>>
  /\ blockInfo = <<>>
  /\ isCommitmentEscrowed = {}
  /\ pendingWithdrawalsFees = [a \in Address |-> EmptyFees]
  /\ stakeAccounts = [a \in Proposer \cup {NoAddress} |-> EmptyStake]
  /\ ethBalance = 0
  /\ proposers = [a \in Proposer \cup {NoAddress} |-> EmptyAddress]
  /\ currentProposer = EmptyAddress
  /\ proposerStartBlock = 0
  /\ numProposers = 0
  /\ proposersSet = <<>>
  /\ currentSprint = 0
  /\ spanProposersList = <<>>
  /\ blockStake = InitialBlockStake
  /\ maxProposers = [c \in Contract |-> InitialMaxProposers]
  /\ committers = <<>>

-----------------------------------------------------------------------------
(* Frames: the storage an external call works on until it returns.         *)

Frame == [proposers          |-> proposers,
          currentProposer    |-> currentProposer,
          proposerStartBlock |-> proposerStartBlock,
          numProposers       |-> numProposers,
          proposersSet       |-> proposersSet,
          currentSprint      |-> currentSprint,
          spanProposersList  |-> spanProposersList,
          stakeAccounts      |-> stakeAccounts,
          reverted           |-> FALSE]

Commit(f) ==
  /\ ~f.reverted
  /\ proposers'          = f.proposers
  /\ currentProposer'    = f.currentProposer
  /\ proposerStartBlock' = f.proposerStartBlock
  /\ numProposers'       = f.numProposers
  /\ proposersSet'       = f.proposersSet
  /\ currentSprint'      = f.currentSprint
  /\ spanProposersList'  = f.spanProposersList
  /\ stakeAccounts'      = f.stakeAccounts

Require(f, condition) == [f EXCEPT !.reverted = @ \/ ~condition]

SetStakeAccount(f, a, amount, challengeLocked) ==
  [f EXCEPT !.stakeAccounts[a] = [amount          |-> amount,
                                  challengeLocked |-> challengeLocked,
                                  time            |-> 0]]

-----------------------------------------------------------------------------
(* The span: slots by stake, a shuffle, and the weighted set drawn.        *)

(***************************************************************************)
(* The addresses fillSlots visits: from the current proposer along         *)
(* nextAddress until it is back at it.  Empty when the links never lead    *)
(* back, in which case the contract's loop runs out of gas.                *)
(***************************************************************************)
RingFrom(f) ==
  LET N == Cardinality(Proposer) + 1
      visit[k \in 0..N] ==
        IF k = 0 THEN f.currentProposer
                 ELSE f.proposers[visit[k - 1].nextAddress]
      lasts == {k \in 0..N :
                  visit[k].nextAddress = f.currentProposer.thisAddress}
  IN IF lasts = {} THEN <<>>
     ELSE [i \in 1..Min(lasts) + 1 |-> visit[i - 1].thisAddress]

SlotValue(f, ring) ==
  Max({f.stakeAccounts[a].amount \div MaximumSlots : a \in ToSet(ring)})

SlotWeight(f, a, slotValue) ==
  LET weight == f.stakeAccounts[a].amount \div slotValue
  IN IF weight = 0 THEN 1 ELSE weight

FilledSlots(f, ring) ==
  FlattenSeq([i \in DOMAIN ring |->
     [j \in 1..SlotWeight(f, ring[i], SlotValue(f, ring)) |-> ring[i]]])

(* One hash of the timestamp drives every swap of the shuffle.             *)
ShuffledSlots(slots, seed) ==
  FoldLeftDomain(LAMBDA s, i :
      LET n == i + (seed % (Len(slots) - i + 1))
      IN [s EXCEPT ![n] = s[i], ![i] = s[n]],
    slots, slots)

InOrderOfFirstAppearance(s) ==
  FoldLeft(LAMBDA seen, a : IF Contains(seen, a) THEN seen ELSE Append(seen, a),
           <<>>, s)

SpanProposerSet(f, slots) ==
  LET drawn    == SubSeq(slots, 1, ProposerSetCount)
      members  == InOrderOfFirstAppearance(drawn)
      Count(a) == Cardinality({i \in DOMAIN drawn : drawn[i] = a})
      previous == {f.proposersSet[i].thisAddress : i \in DOMAIN f.proposersSet}
  IN [f EXCEPT
       !.proposersSet = [i \in DOMAIN members |->
          [thisAddress     |-> members[i],
           weight          |-> Count(members[i]),
           currentWeight   |-> Count(members[i]),
           effectiveWeight |-> Count(members[i])]],
       !.proposers = [a \in DOMAIN @ |->
          IF Contains(members, a)
          THEN [@[a] EXCEPT !.inProposerSet = TRUE,
                            !.indexProposerSet =
                               (CHOOSE i \in DOMAIN members : members[i] = a) - 1]
          ELSE IF a \in previous
          THEN [@[a] EXCEPT !.inProposerSet = FALSE, !.indexProposerSet = 0]
          ELSE @[a]]]

InitializeSpan(f, seed) ==
  LET ring  == RingFrom(f)
      slots == FilledSlots(f, ring)
  IN IF \/ f.currentProposer.thisAddress = NoAddress
        \/ ring = <<>>
        \/ SlotValue(f, ring) = 0              \* division by zero
        \/ Len(slots) < ProposerSetCount       \* slots[i] out of bounds
     THEN Require(f, FALSE)
     ELSE SpanProposerSet(f, ShuffledSlots(slots, seed))

(***************************************************************************)
(* calculateNextProposers.  `peer' is a memory copy, so neither the        *)
(* increase of its currentWeight nor that of its effectiveWeight outlives  *)
(* an iteration, and totalEffectiveWeight runs on from round to round.  An *)
(* address that left the list has index 0 and borrows that entry's weight. *)
(***************************************************************************)
CalculateNextProposers(f, previousBest) ==
  LET IndexOf(a) == f.proposers[a].indexProposerSet + 1
      Better(set, best, peer) ==
        IF \/ best = NoAddress
           \/ set[IndexOf(best)].currentWeight
                < peer.currentWeight + peer.effectiveWeight
        THEN peer.thisAddress ELSE best
      Round(acc) ==
        LET best  == FoldLeft(LAMBDA b, peer : Better(acc.set, b, peer),
                              acc.best, acc.set)
            total == acc.total + FoldLeft(LAMBDA t, peer : t + peer.effectiveWeight,
                                          0, acc.set)
        IN [set   |-> IF acc.set[IndexOf(best)].weight = 0 THEN acc.set
                      ELSE [acc.set EXCEPT ![IndexOf(best)].currentWeight = @ - total],
            best  |-> best,
            total |-> total,
            list  |-> Append(acc.list, best)]
      final == FoldLeft(LAMBDA acc, j : Round(acc),
                 [set |-> f.proposersSet, best |-> previousBest,
                  total |-> 0, list |-> <<>>],
                 [j \in 1..ProposerSetCount |-> j])
  IN IF f.reverted THEN f
     ELSE [f EXCEPT !.proposersSet = final.set, !.spanProposersList = final.list]

-----------------------------------------------------------------------------
(* The circular list and the rotation.                                     *)

(* _removeProposer re-reads the copy when a neighbour's links changed.     *)
NotRefreshed(f, links, previous, next) == f.currentProposer
RefreshedCurrent(f, links, previous, next) ==
  LET current == f.currentProposer.thisAddress
  IN IF current \in {previous, next} THEN links[current] ELSE f.currentProposer

(* Its neighbours are linked to each other, if they are still there.       *)
UnlinkedForward(links, previous, next) ==
  [links EXCEPT ![previous].nextAddress = links[next].thisAddress]
Unlinked(links, previous, next) ==
  LET forward == [links EXCEPT ![previous].nextAddress = links[next].thisAddress]
  IN [forward EXCEPT ![next].previousAddress = forward[previous].thisAddress]

RemoveFromRing(f, p) ==
  LET previous == f.proposers[p].previousAddress
      next     == f.proposers[p].nextAddress
      links    == Unlinked([f.proposers EXCEPT ![p] = EmptyAddress], previous, next)
  IN [Require(f, f.numProposers > 0) EXCEPT      \* numProposers-- is checked
       !.proposers       = links,
       !.numProposers    = @ - 1,
       !.currentProposer = RefreshedCurrent(f, links, previous, next)]

(* With maxProposers = 1 everyone but the boot proposer is expelled, and   *)
(* their stake is locked from now.                                         *)
ExpelAllButBootProposer(f) ==
  FoldLeft(LAMBDA g, i :
      LET selected == g.currentProposer.nextAddress
      IN [RemoveFromRing(g, selected) EXCEPT !.stakeAccounts[selected].time = now],
    [f EXCEPT !.currentProposer = f.proposers[BootProposer]],
    [i \in 1..f.numProposers - 1 |-> i])

NextSprint(f, seed) ==
  IF f.currentSprint >= Len(f.spanProposersList)   \* index out of bounds
  THEN Require(f, FALSE)
  ELSE LET best   == f.spanProposersList[f.currentSprint + 1]
           sprint == IF f.currentSprint + 1 = SprintsInSpan
                     THEN 0 ELSE f.currentSprint + 1
           g      == [f EXCEPT !.currentSprint = sprint]
           h      == IF sprint = 0
                     THEN CalculateNextProposers(InitializeSpan(g, seed), best)
                     ELSE g
       IN [h EXCEPT !.currentProposer = h.proposers[best]]

ChangeCurrentProposer(f, seed) ==
  LET g == Require(f, \/ now - f.proposerStartBlock > RotateProposerBlocks
                      \/ f.proposerStartBlock = 0
                      \/ maxProposers["State"] = 1)
      h == IF maxProposers["State"] = 1 /\ g.numProposers > 1
           THEN ExpelAllButBootProposer(g) ELSE g
      k == IF h.numProposers <= 1
           THEN [h EXCEPT !.currentSprint = 0,
                          !.currentProposer = h.proposers[@.thisAddress]]
           ELSE NextSprint(h, seed)
  IN [k EXCEPT !.proposerStartBlock = now]

RemoveProposer(f, p, seed) ==
  LET g == RemoveFromRing(f, p)
  IN IF g.currentProposer.thisAddress \in {p, NoAddress}
     THEN ChangeCurrentProposer(
            [g EXCEPT !.currentProposer    = g.proposers[@.nextAddress],
                      !.proposerStartBlock = 0], seed)
     ELSE g

SetNumProposers(f, n, seed) ==
  LET g == [f EXCEPT !.numProposers = n]
  IN IF n = 2 /\ f.numProposers = 1
     THEN CalculateNextProposers(InitializeSpan(g, seed), NoAddress)
     ELSE g

AddPendingWithdrawal(fees, a, feesL1, feesL2) ==
  [fees EXCEPT ![a].feesL1 = @ + feesL1, ![a].feesL2 = @ + feesL2]
=============================================================================
