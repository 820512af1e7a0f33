# A formal model of Nightfall_3

Nightfall_3 is a zero-knowledge optimistic rollup. Proposers post blocks of
private transactions to contracts on Ethereum without proving that they are
right; for a week anybody may challenge a block, and a challenge that the
contracts accept removes the block and everything after it. What makes the
system correct is therefore a matter of order: who may propose, which block can
still be removed, which stake is behind it, and what the off-chain nodes believe
of all this when events arrive late, twice or not at all. This directory holds
TLA+ models of that, TLC configurations that check them on small instances, and
proofs that TLAPS checks.

Paths below are relative to the repository's root. `contracts/` stands for
`nightfall-deployer/contracts/`.

## The system

| Component | State | Operations | Talks to |
|---|---|---|---|
| `contracts/State.sol` | queue of L2 blocks, `blockInfo`, stakes, pending withdrawals, circular list of proposers, current proposer, span | `proposeBlock`, `removeProposer`, `rewardChallenger`, `changeCurrentProposer`, `withdraw`, setters for the other contracts | called by everyone below |
| `contracts/Proposers.sol` | none of its own | register, deregister, withdraw stake, update | State |
| `contracts/Challenges.sol` | `committers` | commit, eight challenge functions, rollback | State |
| `contracts/Shield.sol` | withdrawals, advances, tokens | deposit, payment for a block, finalise, advance | State, ERC contracts |
| `contracts/Config.sol`, `Ownable`, `Pausable` | parameters, owner, pause flag - one copy in each contract | setters | inherited |
| `contracts/MerkleTree_Stateless.sol`, `ChallengesUtil.sol`, `Verifier.sol`, ... | none | recompute frontier, root, counts, proofs | Challenges |
| `contracts/X509.sol`, `Certified.sol`, `Whitelist.sol` | certified keys and users | certify, revoke | all `onlyCertified` calls |
| `contracts/SimpleMultiSig.sol`, `nightfall-administrator` | nonce, collected signatures | execute | owner's calls |
| `nightfall-optimist` | Mongo: blocks, transactions and mempool, trees, commits; three queues in memory | event handlers, block assembler, checks, challenges, resync | L1 events, websockets to the apps |
| `common-files/utils/event-queue.mjs` | queues 0, 1, 2 and counters of removed events | enqueue, wait for confirmations, pause, flush | optimist, client |
| `nightfall-client` | Mongo: commitments and their marks, transactions, trees | build transactions, event handlers, resync | L1 events, optimist, worker |
| `common-files/classes/timber.mjs` | a frontier and a pruned tree | stateless update, roll back, paths | optimist, client |
| `apps/*`, `cli/lib/nf3.mjs` | nonce, queue of signed transactions | send what the optimist asks for, rotate | optimist, L1 |
| `worker`, circuits | proving keys | prove | client |

### What is hard here, and what makes each part correct

* **Queue, stakes and payments.** Challenges race payments and stake withdrawals;
  rollbacks cut blocks of several proposers; a block that was rolled back can be
  proposed again; parameters change under way. Correct: a final block is never
  removed, a stake is given away once, what is locked is what is behind the
  blocks, the contract can pay what it owes.
* **List of proposers and rotation.** The current proposer is a copy of a list
  entry; proposers register, leave, are slashed or expelled at any point of a
  span. Correct: the list stays linked and agrees with the copy; somebody
  registered has the turn, or can get it.
* **Commit and reveal.** Commitments can be copied; two challengers can aim at one
  rollback. Correct: only the committer can reveal, one is rewarded.
* **Withdrawals.** Finalising, advancing and rolling back interleave. Correct: each
  withdrawal pays once, to whoever owns it.
* **Optimist.** Handlers interleave at every `await`; the assembler and the handlers
  change the mempool; events are missed, reordered by reorganisations or replayed
  by a resync. Correct: the database converges to the chain, no transaction is
  lost or put into two blocks, production stops while a bad block is pending and
  resumes after the rollback.
* **Client.** Correct: a commitment is spent once and released when its
  transaction fails or is rolled back.
* **Event queue.** Events wait for confirmations, blocks are reorganised away and
  mined again, and the notifications come late. Correct: what is handled is what is on
  the chain, once and in order.
* **Timber.** Correct: whoever computes a root, frontier or path, with or without
  the tree, gets the same.
* **Selection, curves, compression.** Correct: what is selected pays exactly, and what is
  compressed is recovered.

`PROJECT.json` lists the hazards at their lines, with the properties that cover
them.

## The modules

| Module | Models | Kind |
|---|---|---|
| `State` | storage of the contracts and the internal functions of `State.sol` | operators on frames |
| `Proposers`, `Challenges`, `Shield` | the contract of that name; `proposeBlock`, `rewardChallenger`, `changeCurrentProposer` of State beside the calls they belong to | actions |
| `Rollup` | all of them in any order, the owner, the clock; the properties | specification |
| `BlockQueue` | what the contracts promise of the queue | abstract specification |
| `Withdrawals` | the tokens and ether of `Shield.sol`: deposits, limits, the sale and payment of withdrawals | specification |
| `EventQueue` | `event-queue.mjs` and `subscribe.mjs`: how events reach their handlers | specification |
| `OptimistDB` | the collections of the optimist, `database.mjs` | operators |
| `OptimistChecks` | `transaction-checker.mjs`, `check-block.mjs` | operators |
| `Optimist` | event handlers, block assembler, stop queue, proposer and challenger | specification |
| `OptimistRestart` | the optimist missing events and stopping anywhere, `state-sync.mjs` | specification |
| `ClientDB` | the marks on commitments, `commitment-storage.mjs` | operators |
| `Client` | requests, event handlers, resynchronisation and restart of the client | specification |
| `Timber`, `MerkleTree` | `timber.mjs`, `MerkleTree_Stateless.sol` | operators |
| `Trees` | both at work on the blocks of a chain | specification |
| `Selection`, `NumberTheory`, `Curves` | how commitments are selected; roots, inverses, points and their compression | operators |
| `Algorithms` | problems for these, one to a step | specification |
| `RollupProof`, `RingProof` | theorems on the queue of blocks; on the list of proposers and the ledger | proofs |
| `WithdrawalsProof`, `ShieldProof` | theorems on withdrawals; on what Shield holds | proofs |
| `ClientProof`, `EventQueueProof` | theorems on the marks and on what is spent; on the order of handling | proofs |
| `OptimistProof` | theorems on the collections of the optimist, the blocks it builds and its stop queue | proofs |
| `FoldLemmas` | lemmas on sums over sets and on loops | proofs |
| `MC...` | inputs for TLC | instances |

The operators of a database are functions from one state of its collections to the
next, so that an action says which of them a handler calls and in which order. The three
families - contracts, optimist, client - are composed through the chain: each
off-chain model has the chain as an external actor that appends blocks, rolls back
and logs events, which is what `Rollup` is shown to do through `BlockQueue`, and what
`EventQueue` is shown to deliver.

### Contracts

An Ethereum transaction is atomic and a failed `require` undoes it, so an
external function is one action: the requires are guards, the writes are primed
variables. Where a call changes the list of proposers through several internal
functions, each of them is an operator from a *frame* to a frame (a record of the
storage it works on and a flag `reverted`), and the action ends in `Commit`,
which is disabled when the frame reverted: a checked subtraction below zero, an
index out of bounds, a division by zero or a failed inner `require`. This keeps
the order of the writes, and with it what a function reads from storage that an
earlier one already changed.

* `blockHashes` holds the records of `BlockData`. A block's hash is
  `<<"keccak256", block>>`, so that hashes are equal exactly when the blocks are.
  The block carries its number, the hash before it, its proposer, its
  transactions and a flag `valid`, which stands for whatever a challenge function
  can refute. A challenge of a good block always reverts; one of a bad block passes
  these checks.
* `currentProposer` is a record of its own, a copy of an entry of `proposers`, as in
  the code. `proposers` and `stakeAccounts` have an entry for `address(0)`, which
  some paths of the code write to.
* `paused` and `maxProposers` are functions of the contract, because each contract
  inherits its own copy and the owner sets one at a time.
* `slashed` and `returned` are history variables: the hashes of the blocks whose
  stake went to a challenger or back to the proposer.
* One clock `now` serves as `block.timestamp` and `block.number`. It starts after
  a whole challenge period so that a lock with time 0 has expired, as it has with
  Unix time. Several calls may share a tick.
* `keccak256(block.timestamp)` in the shuffle is a choice from `Seed` at each call.
* `Withdrawals` has a queue of its own: blocks with their transactions, which are
  added and cut as `BlockQueue` allows; who proposes them and what happens to the
  stakes is `Rollup`'s. Anybody may submit and propose anything of the right shape
  (`TransactionAssumption`): `submitTransaction` looks neither at the proof nor at what
  the commitment it escrows is worth, and a block needs the mark only (`EscrowMarked`). Which
  block is bad follows from its transactions: a proof that is not right (`Proven`: what
  goes in comes out, fee included), a note spent that no earlier block created, or a
  commitment or nullifier that occurs twice. Every bad block is challenged while it
  can be (the guard of `Tick`), as the roll-up assumes. The layer-2 fees of a final block
  leave Shield for State once (`RequestBlockPayment`; who may ask, and the
  stake, are in module `Shield`). A non-fungible token is one id of its contract,
  counted as one. `paidIn` and `received` are history variables.

Senders are certified (`onlyCertified`). Names, URLs and fees of proposers, the
packing of fields into words, the Merkle root of the transaction hashes and the
byte limit of a block are left out: no decision modelled here reads them. The
seven days of `challengeAccepted` and `CHALLENGE_PERIOD` (one week) are one
constant, and stay two expressions. `maximumSlots` is 10 in the code and a
constant here. `slots` is recomputed before every read and is no variable. In
`Rollup` only the claims to the fee token of layer 2 are modelled; the token itself
moves in `Withdrawals`.
Numbers do not overflow: `uint112` and `uint32` hold any stake and time.

### Events

`EventQueue` has a node of layer 1 (external) that mines blocks, takes the newest back and
puts what happened on one wire for each contract (`subscribe.mjs` subscribes to each). On
arrival `queueManager` counts a removal, or appends a job to the queue of the event's
priority. The head of a queue polls, as `waitForConfirmation` does: first it looks whether
a removal of its transaction is counted (`Reject`), then it asks for the height of the
chain (`AskHeight`), and the answer (`HeightKnown`) may find the event confirmed, or things
changed since it asked. Queues start when the first synchronisation is over.

The layer-1 node keeps a promise (`TimingAssumption`): a block with `MaxDepth` - 1 others on top stays,
and a notification or an answer is under way while at most `MaxDelay` blocks are mined;
the code waits for `CONFIRMATIONS >= MaxDepth + 2 * MaxDelay` blocks. TLC finds one
confirmation less too little. With the code's 12 confirmations that allows six blocks
reorganised away and delays of three.

Polls that overlap, when an answer takes longer than a second, are one: an answer that does
not confirm changes nothing. `flushQueue`, `enqueueEvent` and the job that runs when queue 0
is empty add jobs that no property here is about. `pauseQueue` is called at the start only, when the
queues have not started, and then does nothing; `emptyQueue` has no caller. The
removers of `chain-reorg.mjs` are not called by `queueManager` and are not modelled.

### Optimist

The optimist has three queues. In queue 0 (`fast`) blocks, rollbacks, rotations and commits are
handled, one at a time; in queue 1 (`slow`) submitted transactions, beside it. Queue 2
(`stop`) holds the challenge of a wrong block and halts production while it is not empty.
When queue 0 is empty the block assembler runs in it.

* Handlers are split where they await something that another job can change:
  queue 1 checks and saves in two steps, the assembler reads its list and makes one block
  of it after another, and the promises with which `block-proposed.mjs` saves
  transactions land in any order (`SaveLands`). So do the returns to the mempool and the
  deletions of blocks that `rollback.mjs:124-132` starts and, the promises being nested in
  arrays, does not await (`RollbackLands`); until then whoever reads finds the old
  entries (`unlanded`, `AsRead`).
* The assembler waits for nothing (`queues[0].on('end')`): it may read while such writes
  are under way. `MaxEarly` bounds how often it reads its list then.
* The chain takes our signed proposals in the order of their nonces; one may revert, and one
  that is built while the proposer's socket is down is never sent. Both end in
  `ResetLocalBlock`.
* A block's own fault (a wrong root, proof or count) is a flag; what depends on other
  blocks - duplicates, roots not on chain, the tree - is computed.
* In `Optimist` every event arrives. `OptimistRestart` adds that `BlockProposed` events are missed (`Miss`),
  after which the block that is too high is handled with a resynchronisation inside (`HandleOutOfOrder`); and that the
  optimist stops at any of four places, which loses the memory and keeps the
  database, and starts `initialBlockSync`. The resynchronisation is a recursive operator and
  so is kept out of the module with the theorems.
* It is assumed that these writes land before the next job of queue 0 starts, which
  first waits for its confirmations, at least one polling interval; and, when blocks are
  replayed, at once. The commit hash is the block's hash. `MaxResyncAttempts` is 10 in the code.
* A deposit refers to no root; what spends refers to that of any block on chain when it is made.
  Reorganisations of layer 1 are `EventQueue`'s.

### Client

`db` is the collection of commitments with their marks (`pending`, `nullified`, the blocks in which they
appeared and were spent), the transactions and the trees of blocks. A request runs beside the event
handlers and the other requests in the steps between its awaits: the commitments its
user names are read and only later marked (`ReadProvided`, `MarkProvided`), others are
selected and marked under the mutex (`SelectCommitments`), the paths are read
(`ReadSiblings`), the proof made (`Prove`) or not. These steps but the last are one call
of `getCommitmentInfo`; a transform makes one for each token it names and another for its
fee (`NextInfo`). A request holds what its calls have so far (`inputs`) and what the last
one has (`call`): an error inside a call releases the latter only (`InfoFails`), one in the
block around the proof all that was selected (`ProofFails`), and some errors are not caught
and release nothing (`FailsUncaught`, the kinds in `MayKeepInputs`). What stays marked for
good is in `count.left`. Any commitments available may be selected; how it is done is
`Selection`'s.

A block's event is handled in two steps: the marks, then the tree and the sibling paths. If
the number of the block is too high, `Resynchronise` puts all events from the last one in
order before it in the queue, and those jobs may ask for another resynchronisation
(`MaxNested` bounds the nesting). `Restart` replays the log from the first block seen
while requests are refused. Each block holds one transaction; transactions are numbered as they are made.

### Pure algorithms

`Timber` hashes symbolically: the hash of `l` and `r` is `<<l, r>>`, an empty subtree of any height is
`<<>>`. A whole tree is left out (nobody makes 2^32 commitments), and memory past the
leaves in `calculateMerkleRoot` is taken for zero, as Solidity has it. `rollback`, `insertLeaf` and
`statelessIncrementSiblingPath` are only used by tests. `statelessUpdate` passes the
frontier where the constructor wants the tree's height and so on; its callers use only the root,
frontier and leaf count, which are right, and those are compared.

In `Selection` a wallet is the sorted sequence of its values. The comparator of
`findUsableCommitments` returns 0 or -1, which the sort of V8 takes as intended.
`Curves` works over fields of 7 and 17 elements; a compressed coordinate is a pair of
its bit and its value. G1 and G2 have no points with x = 0 or y = 0, whose order would
be 3 or 2, so none are enumerated.

## The runs

`CHECK_DEADLOCK FALSE` is set throughout because all instances end: a clock stops at
`MaxTime`, blocks and requests run out. A state in which nothing is left to do is
the end of the instance.

| Run | Instance | Checks |
|---|---|---|
| `chain` | two proposers with stakes for two blocks each, up to three blocks that are good or bad, a challenge period of one tick, three ticks | `StakeInv`, `SlashedXorReturned`, `FinalNeverRolledBack`, `LocksKept`, `ImplementsBlockQueue` |
| `calls` | one proposer and every call: deposits, fees, pauses, top-ups, collections, a block stake that changes between a proposal and its payment | `ClaimsConserved` |
| `ring` | three proposers, no blocks, two sprints to a span of two slots; the owner may set `maxProposers` to 1 in either contract | `CurrentCopyFresh`, `RingLinked` |
| `sale` | two notes of one coin, deposited for their worth or for less, passed on for a layer-2 fee and withdrawn, one block that spends a note twice; two users, two advances, pauses and limits | `PaidStayFinal`, `ShieldCoversChain`, `FeesBacked`, `PaidThroughOnce` |
| `events` | three transactions of three contracts, one with two events; two blocks reorganised away, depth 2, delay 1 | `HandledFollowsChain`, `ConfirmedAreHandled` |
| `node` | a deposit and a transaction that spends, three blocks, one of another proposer wrong, two rotations, one proposal never sent, one list read early | `DatabaseReflectsChain`, `HaltedWhileWrong`, `OwnBlocksFollow`, `WrongBlocksRolledBack`, `TransactionsIncluded` |
| `requests` | two requests at a time, transforms and deposits with a fee of up to two inputs, one call that names its commitments, one failure, two blocks, two rollbacks | `NoDoubleSpend`, `InputsReleased`, `PendingHeld` |
| `sync` | one request at a time, three blocks, one missed event, one rollback, one restart, replays three deep | `MarksReflectChain` |
| `timber` | trees of 16 places filled by up to four blocks of every split, one rollback | `RootsAgree`, `FrontiersAgree`, `PathsLeadToRoot`, `TransactionsProvable` |
| `algorithms` | wallets of up to four commitments; fields of 7 and 17 elements, twelve points | `SpendsWithinLimits`, `SelectsWheneverPossible`, `LeastChange`, `RootsExact`, `ProofRoundTrip`, `KeyRoundTrip`, `ScalarMultRepeats` |
| `restart` | two deposits, three blocks, one of another proposer wrong, one crash | `WrongBlocksHeld`, violated |
| `frontier` | a tree of four places, two blocks | `HonestFrontierStands`, violated |

One run of each module also checks its `TypeOK`.

The bounds are chosen so that each hazard fits in. Three blocks are enough for a final
block under a challengeable one under another, for a rollback of two blocks, and for a
block to be proposed again; four ticks for a lock to be set, expire and be
set again. In `events` the two blocks may hold all the transactions, be removed together
or one by one, and a transaction may be removed twice; events are only mined in the
first `MaxHeight - CONFIRMATIONS` blocks so that all can be confirmed, because a chain
that ends leaves the head of the queue, and all behind it, waiting. Two requests suffice for two
selections to meet; the properties are about one commitment at a time. Trees of 16
places have frontiers of every shape up to four levels. The fields are large enough for
both branches of Tonelli-Shanks (7 is 3 modulo 4; 17 - 1 is 2^4) and for a curve that is complete.
In `node` three blocks are enough for one of ours to be rolled back with a wrong one
below it, built again, and found wrong itself because the root it refers to is gone or
because the list was read early; in `sale`, for a deposit that is worth more than was paid
for it to be final and spent.

Symmetry is used where no constant names one of the model values and no property is temporal beyond
one step.

Each property of a passing run has a mutant: an operator written just before the one
it stands in for and marked so, a slip that a programmer could have made at that place
(`FinalTooEarly`, `GetAvailableAlsoPending`, `TreesAfter`, ...), under which the run finds the property violated.

### What the two violations show

* **restart**: a block is stored before it is checked. If the optimist stops in
  between, `checkBlocks` takes the stored block for a processed one, and a wrong block
  is never challenged by this optimist.
* **frontier**: `ChallengesUtil.sol:29` recomputes a block's frontier from the leaf count
  after the block, where the function wants the one before it. The frontier of a
  correct block is then found wrong, so that a correct block can be removed.

## Fairness

Two runs state fairness. In `events` (`Fairness` of `EventQueue`) the node goes on mining,
notifications and answers arrive, the first synchronisation ends, and `setInterval` goes
on polling; reorganisations need not happen. The deliveries share one condition, as they are finitely many. In
`node` (`Fairness` of `Optimist`) each queue runs its next job - which is the assembler's
whenever queue 0 is empty (`queues[0].on('end')`), so that the two share one condition -
promises resolve, and the chain mines what is sent; nothing is
assumed of other proposers, of rotations, of faults or of sockets that are down. `TransactionsIncluded` holds while
we keep the turn for good, and for as long as the bound on blocks lets one be made.

## What is proved

For all values of the constants that meet the ASSUMEs of the modules. Two assumptions deserve a
word: that there are finitely many addresses and users (`AddressAssumption`,
`FinitenessAssumption`), which is so on a chain and which sums over them need; and the ones
named in the statement of a theorem.

| Theorem | States |
|---|---|
| `RollupProof`: `StakeGivenOnce`, `StakeInvariance`, `Finality`, `Implementation`, `ChainTypes` | `[]SlashedXorReturned`, `[]StakeInv`, `FinalNeverRolledBack`, `ImplementsBlockQueue`, types of the queue |
| `RingProof`: `TypesKept`, `RingStaysLinked`, `CopyStaysFresh`, `Conservation`, `LocksStayMatched` | `[]TypeOK`, `[]RingLinked`, `[]CurrentCopyFresh`, `ClaimsConserved`, `LocksKept` |
| `WithdrawalsProof`: `PaidWithdrawalsStay`, `WithdrawalsPaidOnce` | `[]PaidStayFinal`, `[]PaidThroughOnce` |
| `ShieldProof`: `TypesKept`, `FeesAreBacked`, `ShieldIsSolvent`, `ShieldHoldsWhatItOwes` | `[]TypeOK`, `[]FeesBacked`; under `TokenByToken` `[](PaidInFull => Solvent)` and `[]ShieldCoversChain` |
| `EventQueueProof`: `HandledInOrder`, `TypesKept` | `[]HandledFollowsChain` under `OneEvent`, `[]TypeOK` |
| `OptimistProof`: `OptimistTypes`, `ReflectsChain`, `EventsInOrder`, `OwnBlocks`, `HaltsWhileWrong` | `[]TypeOK`, `[]DatabaseReflectsChain`, `[]NeverAhead`, `[]OwnBlocksFollow` under `NoClash`; where also all are deposits and one block at most is wrong, `[]HaltedWhileWrong` |
| `ClientProof`: `ClientTypes`, `HeldBackByRequests`, `NothingSpentTwice`, `InputsAreReleased`, `MarksFollowChain` | `[]TypeOK`, `[]PendingHeld`, `[]NoDoubleSpend`, `[]InputsReleased`, `[]MarksReflectChain` under `RollbacksHandledOnce` |

**The queue of blocks.**
`SlashedXorReturned` alone is not inductive: that a block was slashed says nothing
of whether it can be paid for. The invariant adds why: each block's number is part
of its hash, so a hash is in the queue once (`HashesAtOnePlace`); blocks age in
order, so what lies on a challengeable block is challengeable and a final one lies
before it (`FinalBeforeChallengeable`); a returned stake belongs to a final block
still in the queue (`ReturnedStay`), which no rollback reaches; and a stake once given
away stays claimed under its hash (`ClaimsRemembered`), even if the block is proposed
again, which rewrites `blockInfo` of a hash that may be known. Only three actions touch
the queue, its claims or the history (`NextCases`); each has a lemma, and the others
fall under `QueueAloneIInv`. `Finality` uses the same two lemmas on one step.

`Implementation` maps each step: a proposal to `Add` (`ProposeAdds`), a rollback to
`Cut` (`ChallengeCuts`), a payment to `Return` (`PayBlockReturns`), the clock to `Age`, and
every other call to a stutter (`QueueAloneAges`). The invariant is what makes the
guards of the abstract steps hold, that a stake is given away for the first time.

**The list of proposers and the ledger.** A call is a sequence of frames, so the invariant
is one of frames (`RingFrame`): the entries form doubly linked circular lists, the count is that of
their members, the copy of the current proposer's entry agrees with the list, weights and span are
what they should be. Each internal function of `State.sol` keeps it, with taking out and
joining as the two that relink (`Joining`, `TakingOut`); that the copy
is fresh is needed for the list, since both read their neighbours' names from it. The loops - the span's slots, the shuffle, the
weighted round robin, the stakes of a rollback - are folds and recursive
functions, for which `FoldLemmas` shows that a step that stays in a set of good frames
leads to a good frame. The state after a call is its last frame (`Committed`). `Conservation` adds that stakes
and claims over all accounts (`AllStakes`, `AllFees`) move by what the contract's ether
moves; `LocksStayMatched` uses `StakeInv`: blocks paid for are final, hence a
rollback removes unpaid ones only and what it takes from the lock is there.

**Withdrawals.**
`PaidStayFinal` needs the order of the blocks in time (`TimesOrdered`): a block that can
be challenged lies behind every final one (`FinalBeforeChallengeable`), so no rollback
reaches a withdrawal that was paid. `PaidThroughOnce` is inductive with the types; it
says of every user what a withdrawal has brought it so far, as a function of the
current owner and `isWithdrawn`, and a sale moves exactly that difference. Neither
uses the assumption that bad blocks are challenged.

**What Shield holds** does use it: `Tick` lets no wrong block become final, so what is paid out is
in the longest correct part of the chain (`FinalCorrect`, `PaidOnChain`). The rest is bookkeeping by block: a correct
block spends what it makes, withdraws and pays as fees (`BlockAccounts`, `FeesOfSet`), so adding and removing one
changes what is unspent, still to be paid out and due to its proposer by sums that cancel; a payment moves what was due.
Escrow comes first: the commitment of a deposit on chain is marked (`EscrowedFirst`), by whatever payment.
`ShieldCoversChain` therefore counts, for each marked commitment, what was paid in for it less the deposits of it that
are on chain (`Unused`, `UnusedIs`, `LedgerCovers`); the difference is negative where a deposit is worth more than was
paid. As long as none is (`PaidInFull`), Shield holds at least what it owes (`ShieldIsSolvent`); `proposeBlock` does not
ask for that, and the deviations below say what follows. Both theorems assume that in every proven transaction each
token adds up (`TokenByToken`): the circuits show one sum over the values of the transaction's token and of the fee
token together (`withdraw.circom:123`), so that this is an assumption about what else they check. With one token, as in
`sale`, it follows from `Proven`.

**The event queue.** `HandledInOrder` is proved where every transaction emits one event (`OneEvent`); the run also has
one with two. The notifications of a transaction alternate - mined, removed, mined. Going back through them from where it is on chain tells what
its subscriber was last told (`Told`), and the number of removals not yet told tells how many of its jobs
will be rejected (`JobsOK`). The time limits on notifications and answers make a job that
is confirmed one about which nothing is under way (`Confirmation`), so that its event is on chain for good. The jobs of a
contract lie in the order of the chain (`Ordered`), and what was handled never leaves it (`Settled`).

**The optimist.** `DatabaseReflectsChain` speaks of states in which no event waits, and says nothing of the others.
The invariant (`IInv` of `OptimistProof`) says where the chain is meanwhile: following the waiting events one after the
other takes the stored blocks to the chain, through sequences each of which could be a chain (`Leads`): numbered as
they stand, with different hashes. What happens on chain adds an event at the end, a handler takes the first, and in both cases the
rest of the way stays. What a handler has to do is then a statement about one step (`HandledRight`): the collections are right for the
blocks before it and must be right for those after. Right means that the trees are those of the stored
blocks (`TreesRight`), and that each transaction of theirs is stored under the first block that holds it, or the save that
is not awaited is still under way, which only the last block's can be (`StoredRight`); then the order in which the saves land
does not matter. A rollback finds blocks by number, deletes one for each, and as numbers are
not repeated that is all of them (`DeletedFrom`); each transaction of theirs that an earlier block does not hold
is deleted or goes back to the mempool (`Disposes`). A block of our own is new when it is mined, though it was signed
before others were (`ProposalsFresh`): that its proposal cannot repeat a hash is what keeps hashes apart. Numbers
that follow each other also mean that no block is ever ahead of the database (`EventsInOrder`): a resynchronisation happens
only after an event was missed, never because of a rollback that waits.

A proposal of ours may be mined long after it was signed, on a chain that was rolled back since, by a proposer that has
forgotten it. What makes it right all the same is that the contract compares one hash, that of the block it follows. So the
invariant is about hashes (`Owns`): there are functions that give for every block ever built, on chain or not, the
tree and the set of transactions up to it, of which a step may only add to the end (`Agree`); the blocks of the chain and
the stored ones lie along them (`Along`), and a proposal is right on top of the block it names (`Sound`). A block that was never sent was
remembered as the last one all the same, and its transactions stay in the mempool: what is built on it may repeat them. It is never
mined, as its parent is not, and the third component marks it. Building the next
block needs that what `Block` remembers is that tree, and that while it is ahead of the stored blocks none of the transactions up to it waits in
the mempool (`LocalRight`), across the assembler's list, which is read once and made into blocks one
by one (`Listed`). All this holds until a list is read while a handler's writes are under way (`count.early`). `NoClash` is needed, and
that no root is lost is a hypothesis on each block (`RootsThere`): the deviations below say what happens without.

`HaltedWhileWrong` adds the one block that is wrong to these functions: the tree of a block tells whether it
is that block or built on it (`On`). The stop queue follows the stored blocks, not the chain: it
holds a challenge while the wrong block is stored (`Held`). That nothing else gets in needs two things of every other
block when its event is handled. It passes every check (`CheckPasses`), as it is right on the blocks below it
(`Right`), which are those stored; a deposit refers to no root that could be gone (`Rootless`). And what was built on
the wrong block is not checked, as the wrong block's event came before and the stop queue is not empty. Hence the invariant orders the events that wait (`Queued`): the wrong block's comes before those on it, its
rollback after them, and what follows the rollback is not on it. That the wrong blocks are the
faulty ones, `WrongOnly`, needs that ours are right, and so `NoClash` and deposits; in `node` one transaction spends, and the
property is stated for as long as no root was lost (`RootsKept`). For two wrong
blocks it is false (the deviations below).

**The client.**
`PendingHeld` is inductive with the types of what it reads (`IInv` of `ClientProof`):
the marks, the transactions made, the jobs in the queue and the requests. The argument is which
operators of the database may set `pending`: `Tame` says of an operator that it
neither adds pending marks nor invents commitments or transactions, with a lemma for each, so that
event handlers, however they nest, cannot disturb it; a request sets the mark in the step in
which it takes the commitment, and every path by which it gives one up either
releases it or adds it to `left`.

`NoDoubleSpend` is not inductive: a transaction is spendable again if a proposer may still
take it while the client has already cleared its marks. The invariant
(`SInv`) relates the client to the log. Of the log it says that blocks are numbered as
they stand on chain (`Numbered`) and that a transaction one rollback removed with its root is in no pool and in no
later block (`Dropped`). While no event is missed and no rollback handled twice, the queue is the end of the log
(`InQueue`); the trees are those of the blocks up to some event (`TreesInv` - further than what is handled, if the
client restarted), so that no block is out of order and `Resynchronise` cannot happen (`NeverResynchronises`); and what
spent a commitment is in the collections as long as its block stands, under its number (`SpentInv`). Transactions that are in
a pool, in the collections or in the queue are `Live`: two of them, or one and a request, or two requests
share no commitment of our own (`SpentOnce`). A rollback clears the marks of a transaction it finds in the collections and
that lost a root, which by `Dropped` is then no longer live. `InputsReleased`
follows from `SpentInv` when nothing is left to handle.

`MarksReflectChain` needs that the marks are right before all is handled, and a mark is a number of a block that
may be rolled back and its number used again. So the invariant is about the log up to an event: after the first `e`, a
commitment is marked with the number of the block that made it if that block stands (`MarkRight`), with the number of the one
that spent it, and with the tree of the first; the stored blocks are blocks that stand (`BlocksRight`). `e` is
one ahead of the trees while a block is marked and its tree is not yet stored (`Ahead`), and
ahead of the queue after a restart, whose replay must change nothing. A
rollback clears marks by their numbers alone. That it clears those of the blocks removed and no
others needs that blocks are numbered as they stand and that at no time two standing blocks share a transaction or spend the same
commitment (`OnceEach`). A transaction that comes on chain a second time must find its marks cleared. Our own transactions are deleted with their
outputs when they lost a root, and only then: `HeldRight` says why a commitment is not held, so that whatever is on
chain is. A root is only known to belong to a commitment by its last leaf (`RootsRight`), and what a block spends
was made by a standing block below it (`SpendsLater`), so that a rollback that removes the block that made a commitment removes the one that spent it. With one missed event, or a restart after
a rollback, the property stays with `sync`.

**Sums and loops** (`FoldLemmas`). The induction theorems of the library take an operator as a parameter and cannot be
used. Sums over a finite set, that they exist and do not depend on the order, are proved by a smallest
subset for which the claim fails; folds over sequences and recursive functions by a table of what the loop reached, as a set of pairs
that the loop cannot leave.

Only model-checked: liveness and `ENABLED`; the violations, which are single behaviours; the resynchronisation of
the optimist, which is recursive; `MarksReflectChain` of a client that missed an event, which resynchronises; the
tree of `Timber` and the algorithms, which compute by recursion over data.

## Known deviations

What the models showed, or reading for them did, and no run repeats. The properties are
worded so that they hold beside these, and say where.

Contracts

* `State.sol:490`: `rewardChallenger` reads the account of each bad block's proposer and writes
  that of the challenged one. A rollback of blocks of two proposers copies one account over the other, or
  underflows and reverts, so that the bad block cannot be removed. `LocksKept` and `ClaimsConserved` except it.
* `State.sol:469`: every write of a stake account resets its time lock. Being slashed lets a
  proposer that is waiting to withdraw take the rest of its stake out at once.
* `State.sol:396`: removing the last proposer a second time underflows `numProposers`, so that a bad
  block of one that has left cannot be removed; with others registered the count is one too small.
* `State.sol:545` and `:605`: a proposer that leaves stays in the list of its span; the turn may go to nobody,
  and with no current proposer the rotation reverts at the end of the span.
* `Proposers.sol:115`: `withdrawStake` also pays out what is locked behind blocks not yet paid for and zeroes the lock;
  payment for them then underflows, or uses the lock of later blocks. `LocksKept` excepts it.
* `Proposers.sol:47`: who registers while the turn is nobody's starts a second list.
* `Shield.sol:39-62` with `State.sol:198-222`: `submitTransaction` marks the commitment it is given for whatever is paid in,
  and `proposeBlock` asks for the mark alone, so that nothing compares the payment with the deposit that ends up in a block:
  if a deposit is worth more than the payment that marked its commitment, Shield owes more than it holds. `Solvent` is
  stated for `PaidInFull`; `ShieldCoversChain` says exactly what is lacking.
* Tokens that exist on layer 2 alone (tokenise, burn, transform) have addresses that `payIn` and `payOut` refuse
  (`Shield.sol:317`), and do not appear in `Withdrawals`.

Event queue

* A transaction whose events are of two contracts (a successful challenge: `Rollback` of
  Challenges, and `NewCurrentProposer` of State when the current proposer is removed) needs both
  wires to be equally fast: a removal on one may reject the job of the other's new event
  (`OneQueueAssumption` and `Contract` exclude it). In the client `NewCurrentProposer` has no handler, but its
  removal is counted all the same: the rollback, mined again, is rejected and lost, delays or not.
* Between two contracts nothing orders the jobs of one queue but the node: `HandledFollowsChain` is about one
  contract's events. The models of optimist and client take events in the order of the chain.
* `chain-reorg.mjs` of both nodes is dead code.

Optimist

* `rollback.mjs:45`: only the transactions of removed blocks are checked again. One that waits in the
  mempool and refers to a removed root gets into our next block, which is then wrong and can be challenged. `node`
  reaches it; `OwnBlocksFollow` excepts it (`RootsThere`), and `HaltedWhileWrong` is stated for `RootsKept`.
* `block-proposed.mjs:106` with `index.mjs:38-47`: the saves that take a block's transactions out of the mempool are not
  awaited, and the assembler runs as soon as queue 0 is empty. It may read the list before they land and repeat the
  transactions of the last block, so that our block is wrong. Seen with `MaxEarly` = 1, which `node` has; `OwnBlocksFollow`
  and `HaltedWhileWrong` are about behaviours in which no list was read early, the other properties of `node` about any.
* Of two transactions that spend one note and are under way at the same time, both may pass the checks of queue 1, and
  clash in our block. No two transactions of `node` clash, and `NoClash` is a hypothesis of both theorems on our blocks.
* `block-proposed.mjs:81`: when a block's event is missed and a rollback waits behind the next one, the resynchronisation
  replays past the rollback while the collections do not know of it, and saves the new block beside the one rolled back
  of the same number. The rollback, when its turn comes, deletes only the first it finds (`deleteBlock`, `database.mjs:149`): the other
  stays stored for good, although the comment at :95 has the database reflect the chain "at any time". Seen in
  `OptimistRestart` with `MaxLost` = 1; the instance of `restart` has `MaxLost` = 0.
* `block-proposed.mjs:158` and `rollback.mjs:134`: a block that comes while the stop queue holds a challenge is not checked, as
  the rollback is taken to remove it too. Where it is wrong itself, somebody else may challenge it alone: only it is
  rolled back, but the challenge of the one below is taken out of the stop queue, and blocks are made on a chain that is
  still wrong. Seen with `MaxFaults` = 2; `node` has one wrong block, and `HaltsWhileWrong` assumes no more.
* `initialBlockSync` runs the stop queue and leaves it empty, so that production resumes before the rollback; on an empty
  chain it never sets the current proposer.

Client

* `block-proposed.mjs:60-72`: the resynchronisation may never end. If a block's event was missed and a
  rollback lies behind it in the log, the replay starts at the last block in order,
  comes to the block that is too high, and starts over inside itself. The full resynchronisation after ten attempts that the
  comment at :40 promises is not reached: the in-order block replayed first overwrites
  `lastInOrderL1Block`. The model stops at `MaxNested`.
* `block-proposed.mjs:60-72`: what is replayed stays in the queue, where the sockets' events follow, and is handled again. If two blocks'
  events were missed and a rollback lies behind them, the second handling of the rollback deletes outputs of a block that follows it and
  frees the commitments it spent, which are then spent again. A restart after a rollback does the same
  (`RollbacksHandledOnce`; `MarksReflectChain` excludes it by the number of events lost).
* `block-proposed.mjs:121-127`: a transaction that is rolled back and proposed again in a block of another number keeps the number of
  its first. If that block is rolled back too, the lookup by number (`database.mjs:294`) misses it and its inputs stay spent for
  good. `InputsReleased` is about transactions proposed under one number (`SameNumber`).
* `state-sync.mjs:69`: a restart after a rollback replays it over collections that already hold what followed, and
  commitments are lost (`RestartAfterRollback` is FALSE).
* `getCommitmentInfo.mjs:219`: commitments that the user names are marked outside the mutex and need not be unspent: two requests can
  hold one, and a failing one releases it. `NoDoubleSpend` is about the others.
* `transform.mjs:36-62`: commitments are selected once for every token and once for the fee, before the block whose errors
  release them (:104). When a later call of `getCommitmentInfo` fails, or does not return one commitment (:47), those of the
  earlier calls stay pending (in the second case its own, too). `deposit.mjs:150`, and a burn or tokenise that fails outside of that block, leave what they
  selected pending in the same way. So does a restart. `PendingHeld` excepts them (`count.left`).
* `rollback.mjs:76`: a transaction that is in no block when its root is rolled back keeps its inputs marked as spent.
* A request between the two steps of a block's handler takes a new block number and an old sibling path.
* With value and fee in one token, commitments the user names that cover the value but not both always fail,
  although the comment at `getCommitmentInfo.mjs:203` calls them valid, and commitments named for both may leave negative change. `Ordinary`
  excludes both.

Others: the comment on `edwardsCompress` speaks of the parity of x where the code takes the half of the
field x lies in, and (0, -1) is decompressed to the neutral element.

## What could come next

The commit and reveal of several challengers (`Challenges.sol:448`), the shares of the weighted round robin, and
the owner's setters of a span's parameters, for which the hazards without a property in
`PROJECT.json` stand; the queue of signed transactions and nonces of `nf3.mjs`; the handled
order across contracts; and what the optimist's stop queue still ensures when several blocks are wrong.

## Not modelled

Poseidon, MiMC, SHA and pairings, circuits and proof generation: out of a model checker's
reach. DER parsing, RSA signatures and the certification of users; the multi-signature
contract and its tool; verification keys. Encryption of secrets and derivation of keys. Deployment
scripts, configuration, the REST routes that only read, logging, the wallet and demo user interfaces - which hold copies of the client and
of `common-files` - and hosted utilities: without state that a property is about.
