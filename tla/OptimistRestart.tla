-------------------------- MODULE OptimistRestart --------------------------
(* The optimist when events are missed, and with crashes. A block whose    *)
(* number is too high tells that events were missed, and past events are   *)
(* replayed. In a crash what is in memory is lost - the three queues, the  *)
(* proposer, Block's statics, promises under way - the collections and the *)
(* signed transactions are not. On the way up the optimist synchronises    *)
(* with the chain before it handles events again.                          *)
EXTENDS Optimist

CONSTANTS
    CrashPoints,     \* where crashes happen, a subset of CrashPlaces
    MaxCrashes,      \* bound: crashes
    MaxLost          \* bound: BlockProposed events the subscription misses

(* Between jobs; between the save of a block and the rest of its handler;  *)
(* before the block is checked; between the sending of a block and the     *)
(* removal of its transactions from the mempool.                           *)
CrashPlaces == {"idle", "afterSave", "beforeCheck", "afterSend"}

VARIABLES crashes, lost
restartVars == <<vars, crashes, lost>>

---------------------------------------------------------------------------
(* Replays. *)

LandAll(s) ==
    [s EXCEPT !.saving = {}, !.unlanded = AllLanded,
              !.db = FoldSet(LAMBDA p, d : SaveBlockTransaction(d, p[1], p[2]), @, s.saving)]

(* transactionSubmittedEventHandler as a replay runs it, in one go. *)
TransactionSubmitted(s, t) ==
    IF CheckTransaction(s.db, t, roots[t], TRUE, None, None, Len(chain) - 1)
    THEN [s EXCEPT !.db = SaveTransaction(
             DeleteDuplicatesFromMemPool(@, Commitments[t], Nullifiers[t], {}), t)]
    ELSE s

(* A block with a number too high is handled after a resynchronisation:    *)
(* all events there are from the L1 block of the last one in order on are  *)
(* replayed, for a proposer object of its own. A replay may find the       *)
(* numbers too high again.                                                 *)
RECURSIVE Replayed(_, _)

SyncState(s, from, to) ==
    FoldLeft(LAMBDA r, event : LandAll(Replayed(r, event)), s, SubSeq(log, from, to))

Resynchronised(s) ==
    LET c == AttemptsChecked(s)
        r == SyncState([c EXCEPT !.mem.isMe = FALSE, !.mem.attempts = @ + 1],
                       c.mem.last, Len(log))
    IN [r EXCEPT !.mem.isMe = s.mem.isMe]

Replayed(s, event) ==
    CASE event.type = "TransactionSubmitted" -> TransactionSubmitted(s, event.t)
      [] OutOfOrder(s.db, event) -> BlockProposed(Resynchronised(s), event.block)
      [] OTHER -> Handled(s, event)

(* The job of an event does not reach the queue. *)
Miss ==
    /\ lost < MaxLost /\ lost' = lost + 1
    /\ \E i \in DOMAIN fast :
        fast[i].type = "BlockProposed" /\ fast' = RemoveAt(fast, i)
    /\ UNCHANGED <<chainVars, db, mem, slow, stop, checked, batches, saving, unlanded,
                   resetting, crashes>>

HandleOutOfOrder ==
    /\ fast # <<>> /\ batches = <<>> /\ AllWritten
    /\ OutOfOrder(db, Head(fast))
    /\ \E s \in {Replayed(Node, Head(fast))} : Becomes(s)
    /\ fast' = Tail(fast)
    /\ UNCHANGED <<chain, log, current, roots, proposals, count, slow, checked,
                   batches, resetting, crashes, lost>>

---------------------------------------------------------------------------
(* Crashes. *)

(* Stored blocks in the order of their L1 blocks. *)
GetBlocks(d) == SortSeq(d.blocks, LAMBDA a, b : a.l1 < b.l1)

(* Stretches of the chain to replay: where the stored blocks do not add up *)
(* (the last one is not looked at), or else what follows the last one.     *)
MissingBlocks(d) ==
    LET b == GetBlocks(d)
        last == Len(b)
        Gap(i) == Len(b[i].tree) # (IF i = 1 THEN 1 ELSE Len(b[i - 1].tree) + 1)
        gaps == SelectSeq([i \in 1..last - 1 |-> i], Gap)
    IN IF last = 0 THEN << <<1, Len(log)>> >>
       ELSE IF gaps = <<>> THEN << <<b[last].l1 + 1, Len(log)>> >>
       ELSE [k \in DOMAIN gaps |->
               <<IF gaps[k] = 1 THEN 1 ELSE b[gaps[k] - 1].l1 + 1, b[gaps[k]].l1 - 1>>]

(* The challenges left in the stop queue are run, which empties it. *)
RunStopQueue(s) ==
    LET run == FoldLeft(CommitToChallenge, s, s.stop) IN [run EXCEPT !.stop = <<>>]

(* initialBlockSync: challenges are off during the replay. The proposer is *)
(* told whose turn it is unless the replay told it so last.                *)
InitialBlockSync(d) ==
    LET up == [Node EXCEPT !.db = d, !.stop = <<>>, !.saving = {}, !.unlanded = AllLanded,
                           !.mem = [isMe |-> FALSE, local |-> ResetLocal, last |-> 1,
                                    attempts |-> 0, challenging |-> FALSE]]
        replayed == FoldLeft(LAMBDA s, m : SyncState(s, m[1], m[2]), up, MissingBlocks(d))
        done == RunStopQueue([replayed EXCEPT !.mem.challenging = TRUE])
    IN IF chain = <<>> THEN [up EXCEPT !.mem.challenging = TRUE]
       ELSE IF done.mem.isMe /\ current = Me THEN done
       ELSE NewCurrentProposer(done, current)

(* The collections as a crash at that point leaves them, without what was  *)
(* under way; none if there is no such point now.                          *)
Unchecked(event) ==
    LandAll(BlockProposed([Node EXCEPT !.stop = <<event.block.hash>>], event.block)).db
Crashed(point) ==
    LET handling == /\ fast # <<>> /\ Head(fast).type = "BlockProposed"
                    /\ batches = <<>> /\ AllWritten IN
    CASE point = "idle" -> {AsRead(db, unlanded)}
      [] point = "afterSave" -> IF handling THEN {SaveBlock(db, Head(fast).block)} ELSE {}
      [] point = "beforeCheck" -> IF handling THEN {Unchecked(Head(fast))} ELSE {}
      [] point = "afterSend" ->
             IF batches # <<>> /\ count.blocks < MaxBlocks
             THEN {AsRead(db, unlanded)} ELSE {}

(* A crash, some time down in which events are missed, and the             *)
(* synchronisation.                                                        *)
Restart ==
    /\ crashes < MaxCrashes /\ crashes' = crashes + 1
    /\ \E point \in CrashPoints : \E d \in Crashed(point) :
        /\ IF point = "afterSend"
           THEN /\ proposals' = Append(proposals,
                       BuildBlock(AsRead(db, unlanded), mem.local, Head(batches),
                                  count.blocks + 1, Me))
                /\ Count("blocks")
           ELSE UNCHANGED <<proposals, count>>
        /\ \E s \in {InitialBlockSync(d)} :
            /\ db' = s.db /\ mem' = s.mem /\ stop' = s.stop /\ pool' = s.pool
    /\ fast' = <<>> /\ slow' = <<>> /\ checked' = NoTx /\ batches' = <<>>
    /\ saving' = {} /\ unlanded' = AllLanded
    /\ UNCHANGED <<chain, log, current, roots, resetting, lost>>

RestartInit == Init /\ crashes = 0 /\ lost = 0
RestartNext ==
    Restart \/ Miss \/ HandleOutOfOrder \/ (Next /\ UNCHANGED <<crashes, lost>>)
RestartSpec == RestartInit /\ [][RestartNext]_restartVars

(* After a synchronisation, for a wrong block on chain there is "still ...  *)
(* a challenge in the stop queue", or a challenge to it, or to a block     *)
(* below it, was committed to.                                             *)
WrongBlocksHeld ==
    CaughtUp => \A i \in DOMAIN chain : ~ ValidBlock(i) =>
        \/ stop # <<>>
        \/ \E j \in 1..i : ~ ValidBlock(j) /\ chain[j].hash \in DOMAIN db.commits
=============================================================================
