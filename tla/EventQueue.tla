----------------------------- MODULE EventQueue ----------------------------
(***************************************************************************)
(* How events of the contracts reach their handlers. A client or optimist  *)
(* subscribes to each contract; the layer-1 node (external) sends it the   *)
(* events of new blocks, and sends them again, as removed, when the blocks *)
(* are reorganised away. Events wait in the queue of their priority until  *)
(* they are CONFIRMATIONS blocks deep, or turn out to be removed, before   *)
(* they are handled. Queue 2, the challenges', has no events: see Optimist.*)
(***************************************************************************)
EXTENDS Integers, SequencesExt

CONSTANTS
    Contracts,       \* the contracts subscribed to
    Transactions,    \* layer-1 transactions
    Contract,        \* the contract that emits a transaction's events
    Events,          \* the events that a transaction emits, in order
    CONFIRMATIONS,
    MaxDepth,        \* no block with MaxDepth - 1 blocks on top is reorganised away
    MaxDelay,        \* blocks mined while a notification or an answer is under way
    MaxHeight,       \* bound: blocks of the chain; the last CONFIRMATIONS are empty
    MaxReorgs        \* bound: blocks reorganised away

Queues == {0, 1}

(* eventHandlers: the events that have a handler, and its queue.           *)
First == {"BlockProposed", "Rollback", "CommittedToChallenge", "NewCurrentProposer"}
Second == {"TransactionSubmitted", "InstantWithdrawalRequested"}
eventHandlers == First \cup Second
priority == [e \in eventHandlers |-> IF e \in First THEN 0 ELSE 1]

ASSUME TransactionsAssumption ==
    /\ "none" \notin Transactions
    /\ Contract \in [Transactions -> Contracts]
    /\ DOMAIN Events = Transactions
    /\ \A t \in Transactions : Events[t] \in Seq(STRING)
(* No transaction has events in two queues, or some that have a handler    *)
(* and some that have none.                                                *)
ASSUME OneQueueAssumption ==
    \A t \in Transactions :
        LET names == ToSet(Events[t])
        IN  \/ names \cap eventHandlers = {}
            \/ \E p \in Queues : \A e \in names : e \in eventHandlers /\ priority[e] = p
ASSUME TimingAssumption ==
    /\ {CONFIRMATIONS, MaxDepth, MaxDelay, MaxHeight, MaxReorgs} \subseteq Nat
    /\ MaxHeight > CONFIRMATIONS
    /\ CONFIRMATIONS >= MaxDepth + 2 * MaxDelay

VARIABLES
    chain,      \* the transaction of each layer-1 block, or None
    top,        \* the greatest height the chain ever had
    reorgs,     \* blocks reorganised away so far
    wire,       \* the notifications under way from each contract
    removed,    \* the removals of a transaction that no job was rejected for
    jobs,       \* the queues; once autostart holds, the first job runs
    autostart,
    asked,      \* top when the block number was asked for, NotAsked if it was not
    handled     \* history: the events handled in each queue

vars == <<chain, top, reorgs, wire, removed, jobs, autostart, asked, handled>>

None == "none"
NotAsked == -1

Event(t, k, b) == [tx |-> t, index |-> k, block |-> b]

(* The node tells the subscribers of t's contract of its events in block b. *)
Emit(t, b, gone, height) ==
    [c \in Contracts |->
        IF t = None \/ Contract[t] # c THEN wire[c]
        ELSE wire[c] \o [k \in DOMAIN Events[t] |->
                 [event |-> Event(t, k, b), removed |-> gone, sent |-> height]]]

Init == /\ chain = <<>> /\ top = 0 /\ reorgs = 0
        /\ wire = [c \in Contracts |-> <<>>]
        /\ removed = [t \in Transactions |-> 0]
        /\ jobs = [p \in Queues |-> <<>>]
        /\ autostart = FALSE
        /\ asked = [p \in Queues |-> NotAsked]
        /\ handled = [p \in Queues |-> <<>>]

-----------------------------------------------------------------------------
(* The chain. Nothing is under way while more than MaxDelay blocks come.   *)
Timely(height) ==
    /\ \A c \in Contracts : \A i \in DOMAIN wire[c] : height - wire[c][i].sent <= MaxDelay
    /\ \A p \in Queues : asked[p] # NotAsked => height - asked[p] <= MaxDelay

Mine(t) ==
    LET b == Len(chain) + 1
        height == IF b > top THEN b ELSE top
    IN  /\ b <= MaxHeight /\ Timely(height)
        /\ t # None => t \notin ToSet(chain) /\ b <= MaxHeight - CONFIRMATIONS
        /\ chain' = Append(chain, t)
        /\ top' = height
        /\ wire' = Emit(t, b, FALSE, height)
        /\ UNCHANGED <<reorgs, removed, jobs, autostart, asked, handled>>

(* The last block goes; a reorganisation may take several, newest first.   *)
Reorganise ==
    LET b == Len(chain)
    IN  /\ chain # <<>> /\ reorgs < MaxReorgs /\ top - b < MaxDepth
        /\ chain' = Front(chain)
        /\ reorgs' = reorgs + 1
        /\ wire' = Emit(chain[b], b, TRUE, top)
        /\ UNCHANGED <<top, removed, jobs, autostart, asked, handled>>

-----------------------------------------------------------------------------
HasHandler(e) == Events[e.tx][e.index] \in eventHandlers
QueueOf(e) == priority[Events[e.tx][e.index]]

queueManager(eventObject, isRemoved) ==
    IF isRemoved THEN
        /\ removed' = [removed EXCEPT ![eventObject.tx] = @ + 1]
        /\ UNCHANGED jobs
    ELSE
        /\ jobs' = IF HasHandler(eventObject)
                   THEN [jobs EXCEPT ![QueueOf(eventObject)] = Append(@, eventObject)]
                   ELSE jobs
        /\ UNCHANGED removed

Deliver(c) ==
    /\ wire[c] # <<>>
    /\ queueManager(Head(wire[c]).event, Head(wire[c]).removed)
    /\ wire' = [wire EXCEPT ![c] = Tail(@)]
    /\ UNCHANGED <<chain, top, reorgs, autostart, asked, handled>>

Waiting(p) == autostart /\ jobs[p] # <<>>

FinishJob(p) == /\ jobs' = [jobs EXCEPT ![p] = Tail(@)]
                /\ asked' = [asked EXCEPT ![p] = NotAsked]

\* mutant
RejectUnasked(p) ==
    /\ Waiting(p)
    /\ removed' = [removed EXCEPT ![Head(jobs[p]).tx] = @ - 1]
    /\ FinishJob(p)
    /\ UNCHANGED <<chain, top, reorgs, wire, autostart, handled>>
\* mutant
Uncounted(t) == removed
Counted(t) == [removed EXCEPT ![t] = @ - 1]

(* waitForConfirmation polls; it looks for a removal before it asks.       *)
Reject(p) ==
    /\ Waiting(p) /\ removed[Head(jobs[p]).tx] > 0
    /\ removed' = Counted(Head(jobs[p]).tx)
    /\ FinishJob(p)
    /\ UNCHANGED <<chain, top, reorgs, wire, autostart, handled>>

AskHeight(p) ==
    /\ Waiting(p) /\ asked[p] = NotAsked /\ removed[Head(jobs[p]).tx] = 0
    /\ asked' = [asked EXCEPT ![p] = top]
    /\ UNCHANGED <<chain, top, reorgs, wire, removed, jobs, autostart, handled>>

\* mutant
ConfirmedEarly(e) == Len(chain) - e.block >= CONFIRMATIONS - 1
Confirmed(e) == Len(chain) - e.block >= CONFIRMATIONS

(* The answer arrives; the handler runs once the event is confirmed.       *)
HeightKnown(p) ==
    /\ Waiting(p) /\ asked[p] # NotAsked
    /\ IF Confirmed(Head(jobs[p]))
       THEN /\ handled' = [handled EXCEPT ![p] = Append(@, Head(jobs[p]))]
            /\ FinishJob(p)
       ELSE /\ asked' = [asked EXCEPT ![p] = NotAsked]
            /\ UNCHANGED <<jobs, handled>>
    /\ UNCHANGED <<chain, top, reorgs, wire, removed, autostart>>

-----------------------------------------------------------------------------
(* The queues start when the node has caught up with the chain.            *)
unpauseQueue ==
    /\ ~autostart
    /\ autostart' = TRUE
    /\ UNCHANGED <<chain, top, reorgs, wire, removed, jobs, asked, handled>>

-----------------------------------------------------------------------------
MineSome == \E t \in Transactions \cup {None} : Mine(t)
DeliverSome == \E c \in Contracts : Deliver(c)
Poll(p) == Reject(p) \/ AskHeight(p) \/ HeightKnown(p)

Next == \/ MineSome \/ Reorganise \/ DeliverSome \/ unpauseQueue
        \/ \E p \in Queues : Poll(p)

Spec == Init /\ [][Next]_vars

(* The node mines and delivers, synchronisation ends and polls go on.      *)
Fairness == /\ WF_vars(MineSome) /\ WF_vars(DeliverSome) /\ WF_vars(unpauseQueue)
            /\ \A p \in Queues : WF_vars(Poll(p))

FairSpec == Spec /\ Fairness

-----------------------------------------------------------------------------
(* The chain, its notifications, the queues and the counters have their    *)
(* types; no transaction is twice on the chain.                            *)
TypeOK ==
    /\ chain \in Seq(Transactions \cup {None}) /\ Len(chain) <= top /\ top <= MaxHeight
    /\ \A i, j \in DOMAIN chain : chain[i] = chain[j] => i = j \/ chain[i] = None
    /\ reorgs \in 0..MaxReorgs
    /\ removed \in [Transactions -> Nat]
    /\ autostart \in BOOLEAN
    /\ \A p \in Queues : \A i \in DOMAIN jobs[p] :
          jobs[p][i].tx \in Transactions /\ QueueOf(jobs[p][i]) = p

OnChain(e) == e.block \in DOMAIN chain /\ chain[e.block] = e.tx
EventsOnChain == {e \in UNION {{Event(chain[b], k, b) : k \in DOMAIN Events[chain[b]]} :
                               b \in {i \in DOMAIN chain : chain[i] # None}} : HasHandler(e)}
(* e comes before f among the events of their contract in their queue.     *)
Before(e, f) == /\ Contract[e.tx] = Contract[f.tx] /\ QueueOf(e) = QueueOf(f)
                /\ e.block < f.block \/ (e.block = f.block /\ e.index < f.index)

(* However blocks are reorganised, mined again and notified late: what a   *)
(* queue has handled of a contract's events are the first events on the    *)
(* chain, each once, in order and none left out; so nothing handled is     *)
(* ever removed, and no removal meant for one event rejects another        *)
(* (waitForConfirmation, queueManager).                                    *)
HandledFollowsChain ==
    \A p \in Queues : \A j \in DOMAIN handled[p] :
        /\ OnChain(handled[p][j])
        /\ \A i \in 1..j - 1 : handled[p][i] # handled[p][j] /\ ~Before(handled[p][j], handled[p][i])
        /\ \A e \in EventsOnChain :
              Before(e, handled[p][j]) => \E i \in 1..j - 1 : handled[p][i] = e

(* The events of a transaction that is confirmed on the chain are handled  *)
(* in the end, whatever was removed before.                                *)
ConfirmedAreHandled ==
    \A t \in Transactions :
        (\E b \in DOMAIN chain : chain[b] = t /\ Len(chain) - b >= CONFIRMATIONS)
            ~> \A k \in DOMAIN Events[t] :
                 HasHandler(Event(t, k, 0)) =>
                    \E e \in ToSet(handled[QueueOf(Event(t, k, 0))]) :
                        e.tx = t /\ e.index = k
=============================================================================
