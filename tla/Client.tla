------------------------------ MODULE Client -------------------------------
(* A client against the chain: the marks it keeps on its commitments while *)
(* several requests build transactions from them and blocks and rollbacks  *)
(* arrive. The chain (external) appends blocks of one transaction each and *)
(* rolls back; its events are logged and queued for the client, which may  *)
(* miss a block's event. What a proposer takes from users is the pool.     *)
(* Transactions are numbered in the order in which they are made; the k-th *)
(* commitment of transaction t is <<t, k>>.                                *)
EXTENDS ClientDB

CONSTANTS
    Requests,        \* requests under way at one time
    Kinds,           \* kinds of transaction the requests make
    MaxNullifiers,   \* nullifiers of a transaction
    MaxMade,         \* bound: transactions made
    MaxProposed,     \* bound: blocks proposed
    MaxRollbacks,    \* bound: rollbacks
    MaxLost,         \* bound: BlockProposed events missed
    MaxFailures,     \* bound: requests that fail after their selection
    MaxRestarts,     \* bound: restarts of the client
    RestartAfterRollback,   \* whether the client restarts after a rollback
    MaxProvided,     \* bound: requests whose user names the commitments to spend
    MaxResyncAttempts,  \* resynchronisations before a full one
    MaxNested           \* bound: resynchronisations within each other

Services == {"transfer", "withdraw", "burn", "tokenise", "transform", "depositFee"}

ASSUME KindsAssumption == Kinds \subseteq Services
ASSUME BoundsAssumption ==
    /\ {MaxNullifiers, MaxMade, MaxProposed, MaxRollbacks, MaxLost, MaxFailures,
        MaxRestarts, MaxProvided, MaxResyncAttempts, MaxNested} \subseteq Nat
    /\ RestartAfterRollback \in BOOLEAN

VARIABLES
    made,      \* all transactions there are, ours and other users'
    chain,     \* the transactions of the blocks on chain, with their L1 transaction
    log,       \* the events, in order; their place is their L1 transaction
    pool,      \* transactions proposers hold, on chain or not
    db,        \* the client's collections
    mem,       \* last (lastInOrderL1Block, 0 for "earliest"), attempts
    queue,     \* queue 0: the events to handle; the first one is under way
    request,   \* what each request has selected so far, and what its last
               \* call of getCommitmentInfo has
    count      \* what is bounded, and what failed requests left pending

chainVars == <<made, chain, log, pool>>
vars == <<made, chain, log, pool, db, mem, queue, request, count>>

Idle == [stage |-> "idle", provided |-> {}, call |-> {}, inputs |-> {}, roots |-> <<>>]

ChainTree == [i \in DOMAIN chain |-> chain[i].tx]
OnChain == ToSet(ChainTree)
BlockOf(t) == CHOOSE i \in DOMAIN chain : chain[i].tx = t

Commitments(t) == {<<t, k>> : k \in DOMAIN made[t].outs}
OursOf(t) == {<<t, k>> : k \in {j \in DOMAIN made[t].outs : made[t].outs[j]}}
Foreign == {"received", "foreign"}
(* Kinds whose secrets are encrypted for the owner of the first output. *)
HasSecrets(t) == made[t].kind \in Foreign \cup {"transfer"}

Init ==
    /\ made = <<>> /\ chain = <<>> /\ log = <<>> /\ pool = {}
    /\ db = EmptyDB /\ mem = [last |-> 0, attempts |-> 0]
    /\ queue = <<>>
    /\ request = [r \in Requests |-> Idle]
    /\ count = [proposed |-> 0, rollbacks |-> 0, lost |-> 0, failures |-> 0,
                provided |-> 0, restarts |-> 0, left |-> {}]

Count(what) == count' = [count EXCEPT ![what] = @ + 1]

---------------------------------------------------------------------------
(* The handlers, on the collections                                        *)

DecryptsAnything(d, t) ==   \* mutant
    /\ HasSecrets(t) /\ made[t].outs # <<>> /\ <<t, 1>> \notin DOMAIN d.commitments
Decrypts(d, t) ==
    /\ HasSecrets(t) /\ made[t].outs # <<>> /\ made[t].outs[1]
    /\ <<t, 1>> \notin DOMAIN d.commitments

(* Of a transaction that concerns us the client keeps a copy. *)
Concerns(d, t) ==
    \/ made[t].outs # <<>> /\ <<t, 1>> \in DOMAIN d.commitments
    \/ Held(d, made[t].inputs) # {}

SaveIfOurs(d, t, n) ==
    IF Decrypts(d, t)
    THEN SaveBlock(SaveTransaction(StoreCommitments(d, {<<t, 1>>}, {}), t, n, TRUE), n, t)
    ELSE IF Concerns(d, t) THEN SaveBlock(SaveTransaction(d, t, n, FALSE), n, t)
    ELSE d

(* The first part of blockProposedEventHandler: transaction and marks. *)
MarkBlock(d, block) ==
    MarkNullifiedOnChain(
        MarkOnChain(SaveIfOurs(d, block.tx, block.n),
                    Commitments(block.tx), block.n, block.l1),
        made[block.tx].inputs, block.n, block.l1)

(* The second part: the tree, then the sibling paths of our commitments. A *)
(* tree already there ends the handler with an error, but not in a replay. *)
FinishBlock(d, block, syncing) ==
    LET tree == Append(GetTreeByBlockNumberL2(d, block.n - 1), block.tx)
        known == TreeKnown(d, block.l1)
        saved == IF known THEN d ELSE SaveTree(d, block.l1, block.n, tree)
    IN IF known /\ ~ syncing THEN d ELSE SetSiblingInfo(saved, Commitments(block.tx), tree)

CheckValidHistoricRootsBlockNumber(t, latest) ==
    \A c \in made[t].inputs : made[t].roots[c].n <= latest

(* rollbackEventHandler: of the transactions of the blocks removed those   *)
(* sent to us, and those that refer to a root that is gone, are forgotten. *)
Rollback(d, n) ==
    LET removed == UNION {GetTransactionsByL2Block(d, m) :
                             m \in FindBlocksFromBlockNumberL2(d, n)}
        decrypted == {t \in removed : d.txs[t].decrypted}
        invalid == {t \in removed \ decrypted : ~ CheckValidHistoricRootsBlockNumber(t, n - 1)}
        forgotten == {<<t, 1>> : t \in decrypted} \cup UNION {Commitments(t) : t \in invalid}
        nullifiers == UNION {made[t].inputs : t \in invalid}
        cut == DeleteBlocksByBlockNumberL2(DeleteTreeByBlockNumberL2(d, n), n)
        cleared == ClearNullifiers(ClearOnChain(ClearNullifiedOnChain(cut, n), n), nullifiers)
    IN DeleteTransactions(DeleteCommitments(cleared, forgotten), decrypted \cup invalid)

---------------------------------------------------------------------------
(* Queue 0. A job is an event, what asked for it (the socket, a            *)
(* resynchronisation or the start of the client) and how far it is.        *)

Job(event, by) == [event |-> event, by |-> by, step |-> "new"]

(* syncState: all past events from an L1 block on, in order. *)
SyncState(from, by) ==
    LET past == SubSeq(log, IF from = 0 THEN 1 ELSE from, Len(log))
    IN [i \in DOMAIN past |-> Job(past[i], by)]

IsBlock(event) == event.type = "BlockProposed"
Current == Head(queue)
OutOfOrder(job) == job.step = "new" /\ job.event.block.n > GetNumberOfL2Blocks(db)

(* Now and then a resynchronisation is a full one. *)
Checked == IF mem.attempts > MaxResyncAttempts THEN [last |-> 0, attempts |-> 0] ELSE mem

Nested == {i \in DOMAIN queue : queue[i].step = "resynced"}

(* A block whose number is too high waits for a resynchronisation from the *)
(* last one that was in order; the blocks replayed may ask for another.    *)
Resynchronise ==
    /\ Cardinality(Nested) < MaxNested
    /\ queue # <<>> /\ IsBlock(Current.event) /\ OutOfOrder(Current)
    /\ mem' = [Checked EXCEPT !.attempts = @ + 1]
    /\ queue' = SyncState(Checked.last, "resync")
                   \o <<[Current EXCEPT !.step = "resynced"]>> \o Tail(queue)
    /\ UNCHANGED <<chainVars, db, request, count>>

HandleBlock ==
    /\ queue # <<>> /\ IsBlock(Current.event) /\ Current.step # "marked"
    /\ ~ OutOfOrder(Current)
    /\ db' = MarkBlock(db, Current.event.block)
    /\ mem' = [(IF Current.step = "new" THEN Checked ELSE mem)
                  EXCEPT !.last = Current.event.block.l1]
    /\ queue' = <<[Current EXCEPT !.step = "marked"]>> \o Tail(queue)
    /\ UNCHANGED <<chainVars, request, count>>

FinishEvent ==
    /\ queue # <<>> /\ Current.step = "marked"
    /\ db' = FinishBlock(db, Current.event.block, Current.by # "socket")
    /\ queue' = Tail(queue)
    /\ UNCHANGED <<chainVars, mem, request, count>>

HandleRollback ==
    /\ queue # <<>> /\ ~ IsBlock(Current.event)
    /\ db' = Rollback(db, Current.event.n)
    /\ queue' = Tail(queue)
    /\ UNCHANGED <<chainVars, mem, request, count>>

(* The client goes down, losing its requests and events, and replays the   *)
(* log from the first L1 block that one of its commitments names.          *)
FirstSeen(from) ==
    LET seen == {db.commitments[c].l1 : c \in DOMAIN db.commitments} \ {-1}
    IN IF seen = {} THEN from = 1 ELSE from \in seen /\ \A l1 \in seen : from <= l1

Restart ==
    /\ count.restarts < MaxRestarts
    /\ RestartAfterRollback \/ count.rollbacks = 0
    /\ mem' = [last |-> 0, attempts |-> 0]
    /\ \E from \in 1..Len(log) + 1 :
        FirstSeen(from) /\ queue' = SyncState(from, "start")
    /\ request' = [r \in Requests |-> Idle]
    /\ Count("restarts")
    /\ UNCHANGED <<chainVars, db>>

(* Until that is done the client refuses requests. *)
IsSyncing == \E i \in DOMAIN queue : queue[i].by = "start"

---------------------------------------------------------------------------
(* Requests                                                                *)

Step(r, to) == request' = [request EXCEPT ![r] = to]

(* getCommitmentInfo reads the commitments that the user names ... *)
ReadProvided(r) ==
    /\ request[r].stage = "again" \/ (request[r] = Idle /\ ~ IsSyncing)
    /\ count.provided < MaxProvided
    /\ \E p \in SUBSET GetCommitmentsAvailableByHash(db) :
        /\ p # {} /\ Cardinality(p \cup request[r].inputs) <= MaxNullifiers
        /\ Step(r, [request[r] EXCEPT !.stage = "read", !.provided = p])
    /\ Count("provided")
    /\ UNCHANGED <<chainVars, db, mem, queue>>

(* ... and then marks them. *)
MarkProvided(r) ==
    /\ request[r].stage = "read"
    /\ db' = MarkPending(db, request[r].provided)
    /\ Step(r, [request[r] EXCEPT !.stage = "marked", !.call = request[r].provided,
                                  !.inputs = @ \cup request[r].provided])
    /\ UNCHANGED <<chainVars, mem, queue, count>>

(* findUsableCommitments, alone in its mutex: any selection that the       *)
(* algorithm may make of what is available and on chain; it is marked.     *)
SelectCommitments(r) ==
    /\ request[r].stage \in {"marked", "again"} \/ (request[r] = Idle /\ ~ IsSyncing)
    /\ \E c \in SUBSET {x \in GetAvailableCommitments(db) : db.commitments[x].onChain > -1} :
        LET all == c \cup request[r].inputs IN
        /\ all # {} /\ Cardinality(all) <= MaxNullifiers
        /\ db' = MarkPending(db, c)
        /\ Step(r, [request[r] EXCEPT !.stage = "selected", !.call = c \cup @, !.inputs = all])
    /\ UNCHANGED <<chainVars, mem, queue, count>>

HasPath(c) == c \in DOMAIN db.commitments /\ db.commitments[c].root # NoTree

(* The sibling paths, roots and block numbers of the selection. *)
ReadSiblings(r) ==
    /\ request[r].stage = "selected"
    /\ \A c \in request[r].call : HasPath(c)
    /\ Step(r, [request[r] EXCEPT !.stage = "built",
           !.roots = [c \in request[r].inputs |->
                         IF c \in request[r].call
                         THEN [n |-> db.commitments[c].onChain, root |-> db.commitments[c].root]
                         ELSE @[c]]])
    /\ UNCHANGED <<chainVars, db, mem, queue, count>>

(* A transform names one commitment for each of its tokens, in calls of    *)
(* their own, and then asks once more for what pays the fee.               *)
NextInfo(r) ==
    /\ request[r].stage = "built" /\ "transform" \in Kinds
    /\ request[r].provided # {} /\ Cardinality(request[r].call) = 1
    /\ Step(r, [request[r] EXCEPT !.stage = "again", !.provided = {}, !.call = {}])
    /\ UNCHANGED <<chainVars, db, mem, queue, count>>

(* What getCommitmentInfo releases when it fails. *)
ReleasedSelectedOnly(r) == request[r].call \ request[r].provided   \* mutant
ReleasedOnError(r) == request[r].call

(* getCommitmentInfo fails: the value is not covered, or a path is missing.*)
(* What earlier calls for the same transaction marked stays pending.       *)
InfoFails(r) ==
    /\ count.failures < MaxFailures
    /\ request[r].stage \in {"again", "read", "marked", "selected"}
    /\ request[r].stage = "selected" => ~ \A c \in request[r].call : HasPath(c)
    /\ db' = ClearPending(db, ReleasedOnError(r))
    /\ Step(r, Idle)
    /\ count' = [count EXCEPT !.failures = @ + 1,
                              !.left = @ \cup (request[r].inputs \ request[r].call)]
    /\ UNCHANGED <<chainVars, mem, queue>>

---------------------------------------------------------------------------
(* What each service makes of a selection: for every output, whether it is *)
(* ours. The last one, if any, is change.                                  *)
TransferOutputs == {<<FALSE>>, <<FALSE, TRUE>>}
WithdrawOutputs == {<<>>, <<TRUE>>}
BurnOutputs == {<<>>, <<TRUE>>}
TokeniseOutputs == {<<TRUE>>, <<TRUE, TRUE>>}
TransformOutputs == {<<TRUE>>, <<TRUE, TRUE>>}
DepositFeeOutputs == {<<TRUE>>, <<TRUE, TRUE>>}

Outputs(kind) ==
    CASE kind = "transfer" -> TransferOutputs
      [] kind = "withdraw" -> WithdrawOutputs
      [] kind = "burn" -> BurnOutputs
      [] kind = "tokenise" -> TokeniseOutputs
      [] kind = "transform" -> TransformOutputs
      [] kind = "depositFee" -> DepositFeeOutputs

(* Kinds that look up the circuit's hash, select again, make the outputs   *)
(* or prove outside of the block whose errors release the selection.       *)
MayKeepInputs == {"burn", "tokenise", "transform", "depositFee"}

RootHolds(r) == r.n < Len(chain) /\ r.root = SubSeq(ChainTree, 1, r.n + 1)
Spent == UNION {made[t].inputs : t \in OnChain}

(* A transaction is made; proposers take it if its roots are on chain. *)
Make(tx, taken) ==
    /\ Len(made) < MaxMade
    /\ made' = Append(made, tx)
    /\ pool' = IF taken THEN pool \cup {Len(made) + 1} ELSE pool
    /\ UNCHANGED <<chain, log>>

(* saveExtendedTransaction: our outputs are stored, the inputs nullified.  *)
(* The outputs of a deposit are marked as such.                            *)
SaveExtendedTransaction(d, tx, t) ==
    LET ours == {<<t, k>> : k \in {j \in DOMAIN tx.outs : tx.outs[j]}}
    IN StoreCommitments(MarkNullified(d, tx.inputs, t), ours,
                        IF tx.kind = "depositFee" THEN {<<t, 1>>} ELSE {})

(* The proof is made and the transaction saved and sent. A selection with  *)
(* no block number cannot be packed into a transaction.                    *)
Prove(r) ==
    /\ request[r].stage = "built"
    /\ \A c \in request[r].inputs : request[r].roots[c].n >= 0
    /\ \E kind \in Kinds : \E outs \in Outputs(kind) :
        LET tx == [kind |-> kind, inputs |-> request[r].inputs, roots |-> request[r].roots,
                   outs |-> outs] IN
        /\ request[r].inputs = request[r].call \/ kind = "transform"
        /\ Make(tx, \A c \in tx.inputs : RootHolds(tx.roots[c]))
        /\ db' = SaveExtendedTransaction(db, tx, Len(made) + 1)
    /\ Step(r, Idle)
    /\ UNCHANGED <<mem, queue, count>>

(* The proof fails, or the transaction cannot be built. *)
ProofFails(r) ==
    /\ request[r].stage = "built" /\ count.failures < MaxFailures
    /\ db' = ClearPending(db, request[r].inputs)
    /\ Step(r, Idle)
    /\ Count("failures")
    /\ UNCHANGED <<chainVars, mem, queue>>

(* It fails where no error is caught. *)
FailsUncaught(r) ==
    /\ request[r].stage = "built" /\ count.failures < MaxFailures
    /\ Kinds \cap MayKeepInputs # {}
    /\ Step(r, Idle)
    /\ count' = [count EXCEPT !.failures = @ + 1, !.left = @ \cup request[r].inputs]
    /\ UNCHANGED <<chainVars, db, mem, queue>>

(* A deposit with no fee spends nothing and is saved when it is proved. *)
Deposit ==
    /\ ~ IsSyncing
    /\ Make([kind |-> "deposit", inputs |-> {}, roots |-> <<>>, outs |-> <<TRUE>>],
            TRUE)
    /\ db' = StoreCommitments(db, {<<Len(made) + 1, 1>>}, {<<Len(made) + 1, 1>>})
    /\ UNCHANGED <<mem, queue, request, count>>

---------------------------------------------------------------------------
(* The chain and other users                                               *)

(* Another user makes a transaction, which may pay us. *)
OthersTransact ==
    /\ \E kind \in Foreign :
        Make([kind |-> kind, inputs |-> {}, roots |-> <<>>,
              outs |-> <<kind = "received">>], TRUE)
    /\ UNCHANGED <<db, mem, queue, request, count>>

Includable(t) ==
    /\ t \notin OnChain
    /\ made[t].inputs \cap Spent = {}
    /\ \A c \in made[t].inputs : RootHolds(made[t].roots[c])

Propose ==
    /\ count.proposed < MaxProposed
    /\ \E t \in {u \in pool : Includable(u)}, lost \in BOOLEAN :
        LET block == [n |-> Len(chain), tx |-> t, l1 |-> Len(log) + 1]
            event == [type |-> "BlockProposed", block |-> block] IN
        /\ lost => count.lost < MaxLost
        /\ chain' = Append(chain, block)
        /\ log' = Append(log, event)
        /\ queue' = IF lost THEN queue ELSE Append(queue, Job(event, "socket"))
        /\ count' = [count EXCEPT !.proposed = @ + 1, !.lost = @ + (IF lost THEN 1 ELSE 0)]
    /\ UNCHANGED <<made, pool, db, mem, request>>

(* A rollback; proposers drop what refers to a root that is gone. *)
RollBack ==
    /\ count.rollbacks < MaxRollbacks
    /\ \E n \in 0..Len(chain) - 1 :
        /\ chain' = SubSeq(chain, 1, n)
        /\ log' = Append(log, [type |-> "Rollback", n |-> n])
        /\ queue' = Append(queue, Job([type |-> "Rollback", n |-> n], "socket"))
        /\ pool' = {t \in pool : CheckValidHistoricRootsBlockNumber(t, n - 1)}
    /\ Count("rollbacks")
    /\ UNCHANGED <<made, db, mem, request>>

Next ==
    \/ Resynchronise \/ HandleBlock \/ FinishEvent \/ HandleRollback \/ Restart
    \/ \E r \in Requests :
        \/ ReadProvided(r) \/ MarkProvided(r) \/ SelectCommitments(r) \/ ReadSiblings(r)
        \/ NextInfo(r) \/ InfoFails(r) \/ Prove(r) \/ ProofFails(r) \/ FailsUncaught(r)
    \/ Deposit \/ OthersTransact \/ Propose \/ RollBack

Spec == Init /\ [][Next]_vars

---------------------------------------------------------------------------
(* Properties                                                              *)

TypeOK ==
    /\ \A c \in DOMAIN db.commitments : c[1] \in DOMAIN made /\ c \in OursOf(c[1])
    /\ DOMAIN db.txs \subseteq DOMAIN made /\ pool \subseteq DOMAIN made
    /\ \A r \in Requests : request[r].inputs \subseteq UNION {OursOf(t) : t \in DOMAIN made}
    /\ count.failures \in 0..MaxFailures /\ mem.last \in 0..Len(log)

(* Nothing waits to be handled, and the last block's event was not missed. *)
CaughtUp ==
    /\ queue = <<>>
    /\ chain # <<>> => mem.last >= chain[Len(chain)].l1

(* Once it has caught up, also after a missed block, a rollback or a       *)
(* restart, the client holds every commitment of its own on chain, with    *)
(* the block that made it, the block that spent it and the root its path   *)
(* leads to as they are on chain, and its trees are those of the chain. If *)
(* several events are missed, a rollback behind them may be handled again  *)
(* after blocks that followed it, whose commitments it then deletes.       *)
MarksReflectChain ==
    CaughtUp /\ (count.lost > 1 => count.rollbacks = 0) =>
        /\ UNION {OursOf(t) : t \in OnChain} \subseteq DOMAIN db.commitments
        /\ \A c \in DOMAIN db.commitments :
            LET m == db.commitments[c]
                spends == {i \in DOMAIN chain : c \in made[chain[i].tx].inputs} IN
            /\ IF c[1] \in OnChain
               THEN m.onChain = BlockOf(c[1]) - 1
                    /\ m.root = SubSeq(ChainTree, 1, m.onChain + 1)
               ELSE m.onChain = -1
            /\ m.nullifiedOnChain = (IF spends = {} THEN -1 ELSE Max(spends) - 1)
        /\ [i \in DOMAIN db.trees |-> db.trees[i].tree] =
               [i \in DOMAIN chain |-> SubSeq(ChainTree, 1, i)]

(* No rollback is handled twice. What is replayed after a missed event     *)
(* stays in the queue, and a restart replays what was handled.             *)
RollbacksHandledOnce == count.lost = 0 /\ (RestartAfterRollback => count.restarts = 0)

(* Two transactions of ours that proposers hold never spend the same       *)
(* commitment, however their requests and the rollbacks interleaved - but  *)
(* for one we were sent, which a rollback forgets with the mark on it. The *)
(* client selects them all: those that users name are marked too late. A   *)
(* rollback handled again frees what was spent since.                      *)
NoDoubleSpend ==
    count.provided = 0 /\ RollbacksHandledOnce =>
        \A t, u \in pool : t # u =>
            \A c \in made[t].inputs \cap made[u].inputs : made[c[1]].kind \in Foreign

(* The events of blocks of t; whether that of event a is still on chain    *)
(* after event b.                                                          *)
Inclusions(t) == {a \in DOMAIN log : IsBlock(log[a]) /\ log[a].block.tx = t}
Stands(a, b) == \A k \in a + 1..b : ~ IsBlock(log[k]) => log[a].block.n < log[k].n

(* One rollback removed t and a root it refers to.                         *)
RemovedWithRoot(t) ==
    \E b \in DOMAIN log :
        /\ ~ IsBlock(log[b]) /\ ~ CheckValidHistoricRootsBlockNumber(t, log[b].n - 1)
        /\ \E a \in Inclusions(t) :
              a < b /\ Stands(a, b - 1) /\ log[b].n <= log[a].block.n

SameNumber(t) == \A a, b \in Inclusions(t) : log[a].block.n = log[b].block.n

(* What a transaction spent is spendable again once the client has seen    *)
(* that no proposer holds it: its block was rolled back with the root it   *)
(* refers to. The client has to have seen the block and the rollback once. *)
(* And the transaction never was in a block of another number, since the   *)
(* client keeps the first.                                                 *)
InputsReleased ==
    CaughtUp /\ RollbacksHandledOnce => \A c \in DOMAIN db.commitments :
        LET m == db.commitments[c] IN
        m.nullified => ~ (RemovedWithRoot(m.by) /\ SameNumber(m.by))

(* A mark that holds a commitment back belongs to a request under way or   *)
(* was left by one that failed where the code does not release it: what    *)
(* earlier calls of getCommitmentInfo marked for a transform when a later  *)
(* one fails, and the selection of a burn, a tokenise, a transform or a    *)
(* deposit with a fee that fails outside of the block whose errors release *)
(* it. Restarts leave marks, too.                                          *)
PendingHeld ==
    count.restarts = 0 =>
        \A c \in DOMAIN db.commitments : db.commitments[c].pending =>
            c \in count.left \/ \E r \in Requests : c \in request[r].inputs
=============================================================================
