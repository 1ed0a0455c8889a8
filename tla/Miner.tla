-------------------------------- MODULE Miner --------------------------------
(***************************************************************************)
(* Block production (miner/worker.go, miner/miner.go): the loop that       *)
(* follows the downloader and the API, newWorkLoop, mainLoop, taskLoop,    *)
(* the sealing goroutine and resultLoop, with the channels between them,   *)
(* over a chain that other validators extend and a pool that follows the   *)
(* head with a delay.                                                      *)
(*                                                                         *)
(* A block is its parent, its transactions, the state its root stands for  *)
(* (the set of transactions executed so far) and the account its fees went *)
(* to. Two works with the same contents have the same seal hash: their     *)
(* slot has not passed between them. taskLoop serves a task when it is     *)
(* sent. Closing the worker, the resubmit interval and its channel (which  *)
(* blocks no one before ten adjustments wait) and getSealingBlock, which   *)
(* nothing calls, are left out.                                            *)
(***************************************************************************)
EXTENDS Integers, Sequences, FiniteSets, SequencesExt

CONSTANTS
    Nil,
    Txs,            \* [id, from, nonce, sponsor, snonce, gas, fee, kind]
    LocalSenders,
    Foreign,        \* the transaction lists of other validators' blocks
    Refused,        \* blocks on which the engine refuses to seal
    Keys,           \* accounts this node may seal with
    GasLimit, TxGas,
    staleThreshold,
    Started,        \* the worker was started before it took up any work
    Waiting,        \* the sets of transactions the pool may hold at first
    MaxBlocks, MaxCommands, MaxSyncs, MaxTimers, MaxArrivals

VARIABLES
    chain,      \* blocks written, the first is the genesis
    head,       \* CurrentBlock
    pool,       \* the transactions that arrived and the head the pool follows
    miner,      \* Miner.update and the API: canStart, shouldStart, ...
    running,    \* worker.running
    chans,      \* startCh, chainHeadCh, chainSideCh, txsCh
    newTxs,     \* transactions since the last work
    loop,       \* newWorkLoop: what it is about to send
    signal,     \* *interrupt of the work in mainLoop
    main,       \* mainLoop
    current,    \* worker.current, of which RPC reads copies
    uncles,     \* localUncles and remoteUncles
    prev,       \* taskLoop: the last task
    pendingTasks,
    sealing,    \* the block whose sealing can still be stopped
    resultCh,
    budget      \* bounds on what the environment does

env == <<pool, miner, running, budget>>
vars == <<chain, head, pool, miner, running, chans, newTxs, loop, signal, main, current,
          uncles, prev, pendingTasks, sealing, resultCh, budget>>

priv(tx) == tx.gas = 0

-----------------------------------------------------------------------------
(* The chain.                                                              *)
Number(b) == chain[b].number

\* The block and its ancestors.
RECURSIVE Ancestors(_)
Ancestors(b) == IF b = Nil THEN {} ELSE {b} \cup Ancestors(chain[b].parent)

StateAt(b) == chain[b].root

NonceIn(state, a) == Cardinality({tx \in state : tx.from = a})
SponsorNonceIn(state, a) == Cardinality({tx \in state : tx.sponsor = a})

\* A transaction whose nonces are next in a state.
NextIn(state, tx) ==
    /\ tx.nonce = NonceIn(state, tx.from)
    /\ tx.sponsor # Nil => tx.snonce = SponsorNonceIn(state, tx.sponsor)

RECURSIVE ExecutesIn(_, _)
ExecutesIn(state, txs) ==
    IF txs = <<>> THEN TRUE
    ELSE NextIn(state, txs[1]) /\ ExecutesIn(state \cup {txs[1]}, Tail(txs))

-----------------------------------------------------------------------------
(* The pool, which serves what is executable on the head it has seen.      *)
RECURSIVE Processable(_, _)
Processable(state, txs) ==
    LET next == {tx \in txs \ state : NextIn(state, tx)}
    IN  IF next = {} THEN {}
        ELSE next \cup Processable(state \cup next, txs)

Pending == Processable(StateAt(pool.head), pool.txs)

Senders(txs) == {tx.from : tx \in txs}
ListOf(txs, a) == SetToSortSeq({tx \in txs : tx.from = a}, LAMBDA x, y : x.nonce < y.nonce)

-----------------------------------------------------------------------------
(* Selection: cursors over the senders' lists, the best paying first.      *)
Best(heads) ==
    CHOOSE c \in heads : \A d \in heads :
        c[1].fee > d[1].fee \/ (c[1].fee = d[1].fee /\ c[1].id <= d[1].id)

\* The rest of the list, if it goes on with the nonce expected.
AdvanceToExpected(cursor, expected) ==
    LET rest == SelectSeq(Tail(cursor), LAMBDA tx : tx.nonce >= expected)
    IN  IF rest # <<>> /\ rest[1].nonce = expected THEN {rest} ELSE {}

\* Mutant: a cursor waiting for its sponsor is never taken up again.
ResumeNone(s, sponsor) == s

resumePausedSponsorCursors(s, sponsor) ==
    LET of == {c \in s.paused : c[1].sponsor = sponsor}
        ready == {c \in of : c[1].snonce = s.snext[sponsor]}
        late == {c \in of : c[1].snonce < s.snext[sponsor]}
    IN  [s EXCEPT !.heads = @ \cup ready, !.paused = @ \ (ready \cup late)]

Take(s, cursor) ==
    LET tx == cursor[1]
        t == [s EXCEPT !.sel = Append(@, tx), !.next[tx.from] = @ + 1, !.gas = @ - tx.gas]
        u == IF tx.sponsor = Nil THEN t
             ELSE resumePausedSponsorCursors([t EXCEPT !.snext[tx.sponsor] = @ + 1], tx.sponsor)
    IN  [u EXCEPT !.heads = @ \cup AdvanceToExpected(cursor, tx.nonce + 1)]

\* Mutant: the sponsor's nonce is not looked at.
ConsiderUnsponsored(s, cursor) ==
    LET tx == cursor[1] IN
    IF tx.nonce # s.next[tx.from] \/ tx.gas > s.gas \/ tx.kind = "unbuildable" THEN s
    ELSE Take(s, cursor)

Consider(s, cursor) ==
    LET tx == cursor[1]
        expected == s.next[tx.from]
    IN  CASE tx.nonce < expected ->
               [s EXCEPT !.heads = @ \cup AdvanceToExpected(cursor, expected)]
          [] tx.nonce > expected -> s
          [] tx.nonce = expected /\ tx.sponsor # Nil /\ tx.snonce # s.snext[tx.sponsor] ->
               [s EXCEPT !.paused = @ \cup
                   (IF tx.snonce > s.snext[tx.sponsor] THEN {cursor} ELSE {})]
          [] OTHER ->
               IF tx.gas > s.gas \/ tx.kind = "unbuildable" THEN s ELSE Take(s, cursor)

RECURSIVE doSelect(_)
doSelect(s) ==
    IF s.heads = {} THEN s
    ELSE LET c == Best(s.heads)
             r == [s EXCEPT !.heads = @ \ {c}]
         IN  IF ~priv(c[1]) /\ s.gas < TxGas THEN [r EXCEPT !.heads = {}]
             ELSE doSelect(Consider(r, c))

\* One pass over some senders, with the cursors an earlier pass paused.
Pass(s, txs, senders) ==
    LET t == [s EXCEPT !.heads = {ListOf(txs, a) : a \in senders}]
        ready == {c \in t.paused : c[1].snonce = t.snext[c[1].sponsor]}
    IN  IF senders = {} THEN s
        ELSE doSelect([t EXCEPT !.heads = @ \cup ready, !.paused = @ \ ready])

selectTransactions(work, txs, locals) ==
    LET s == [heads |-> {}, paused |-> {}, gas |-> work.gas, sel |-> <<>>,
              next |-> [a \in Senders(Txs) |-> NonceIn(work.state, a)],
              snext |-> [a \in {tx.sponsor : tx \in Txs} |-> SponsorNonceIn(work.state, a)]]
    IN  Pass(Pass(s, txs, Senders(txs) \cap locals), txs, Senders(txs) \ locals).sel

RECURSIVE GasOf(_)
GasOf(txs) == IF txs = <<>> THEN 0 ELSE txs[1].gas + GasOf(Tail(txs))

\* ExecuteTransactions: all of them, or an error after some of the levels.
Executed(work, sel) ==
    IF \A i \in DOMAIN sel : sel[i].kind # "refused"
    THEN {[work EXCEPT !.state = @ \cup Range(sel), !.txs = @ \o sel, !.gas = @ - GasOf(sel)]}
    ELSE LET bad == CHOOSE i \in DOMAIN sel :
                        sel[i].kind = "refused" /\ \A j \in 1 .. (i - 1) : sel[j].kind # "refused"
         IN  {[work EXCEPT !.state = @ \cup Range(SubSeq(sel, 1, n))] : n \in 0 .. (bad - 1)}

Succeeds(sel) == \A i \in DOMAIN sel : sel[i].kind # "refused"

-----------------------------------------------------------------------------
(* Writing a block: it becomes the head if it is heavier, perhaps if it is *)
(* as heavy, and the blocks that leave the chain are announced.            *)
Write(block) ==
    LET id == Len(chain) + 1
        left == SetToSortSeq(Ancestors(head) \ Ancestors(block.parent),
                             LAMBDA x, y : Number(x) < Number(y))
    IN  /\ chain' = Append(chain, block)
        /\ \/ /\ block.number >= Number(head)
              /\ head' = id
              /\ chans' = [chans EXCEPT !.head = Append(@, id), !.side = @ \o left]
           \/ /\ block.number <= Number(head)
              /\ head' = head
              /\ chans' = [chans EXCEPT !.side = Append(@, id)]

\* A block of another validator, empty or with a transaction.
Import(parent, txs) ==
    /\ Len(chain) + Len(resultCh) <= MaxBlocks
    /\ ExecutesIn(StateAt(parent), txs)
    /\ Write([parent |-> parent, number |-> Number(parent) + 1, txs |-> txs, own |-> FALSE,
              root |-> StateAt(parent) \cup Range(txs), paid |-> Nil, author |-> Nil])
    /\ UNCHANGED <<env, newTxs, loop, signal, main, current, uncles, prev,
                   pendingTasks, sealing, resultCh>>

\* A transaction arrives, the pool announces it.
Arrive(tx) ==
    /\ budget.arrivals > 0 /\ tx \notin pool.txs
    /\ pool' = [pool EXCEPT !.txs = @ \cup {tx}]
    /\ chans' = [chans EXCEPT !.txs = Append(@, tx)]
    /\ budget' = [budget EXCEPT !.arrivals = @ - 1]
    /\ UNCHANGED <<chain, head, miner, running, newTxs, loop, signal, main, current,
                   uncles, prev, pendingTasks, sealing, resultCh>>

\* The pool catches up with the head.
PoolReset ==
    /\ pool.head # head
    /\ pool' = [pool EXCEPT !.head = head]
    /\ UNCHANGED <<chain, head, miner, running, chans, newTxs, loop, signal, main, current,
                   uncles, prev, pendingTasks, sealing, resultCh, budget>>

-----------------------------------------------------------------------------
(* Miner.update, the API and the downloader.                               *)
worker == <<chain, head, pool, newTxs, loop, signal, main, current, uncles, prev,
            pendingTasks, sealing, resultCh>>

\* StartMining: the engine gets its key, a goroutine waits to start the worker.
StartMining ==
    /\ budget.commands > 0 /\ ~running
    /\ miner' = [miner EXCEPT !.validator = miner.base, !.calls = Append(@, miner.base)]
    /\ budget' = [budget EXCEPT !.commands = @ - 1]
    /\ UNCHANGED <<worker, chans, running>>

SetCoinbase(a) ==
    /\ budget.commands > 0 /\ a # miner.base
    /\ miner' = [miner EXCEPT !.base = a, !.coinbase = a]
    /\ budget' = [budget EXCEPT !.commands = @ - 1]
    /\ UNCHANGED <<worker, chans, running>>

\* Mutant: newWorkLoop is not told.
startSilently(b) ==
    /\ running' = (running \/ b)
    /\ UNCHANGED chans

\* worker.start waits until startCh has room.
start(b) ==
    /\ b => ~chans.start
    /\ running' = (running \/ b)
    /\ chans' = [chans EXCEPT !.start = @ \/ b]

\* case addr := <-startCh
HandleStart ==
    /\ miner.calls # <<>>
    /\ miner' = [miner EXCEPT !.calls = Tail(@), !.coinbase = miner.calls[1],
                              !.shouldStart = TRUE]
    /\ start(miner.canStart)
    /\ UNCHANGED <<worker, budget>>

\* case <-stopCh
HandleStop ==
    /\ budget.commands > 0 /\ running
    /\ miner' = [miner EXCEPT !.shouldStart = FALSE]
    /\ running' = FALSE
    /\ budget' = [budget EXCEPT !.commands = @ - 1]
    /\ UNCHANGED <<worker, chans>>

\* downloader.StartEvent
SyncStarts ==
    /\ miner.listening /\ ~miner.syncing /\ budget.syncs > 0
    /\ miner' = [miner EXCEPT !.syncing = TRUE, !.canStart = FALSE,
                              !.shouldStart = @ \/ running]
    /\ running' = FALSE
    /\ budget' = [budget EXCEPT !.syncs = @ - 1]
    /\ UNCHANGED <<worker, chans>>

\* Mutant: the miner that was stopped for the sync is not started again.
SyncEndsIdle(done) ==
    /\ miner.listening /\ miner.syncing
    /\ miner' = [miner EXCEPT !.syncing = FALSE, !.canStart = TRUE, !.listening = ~done]
    /\ UNCHANGED <<worker, chans, budget, running>>

\* downloader.FailedEvent, or DoneEvent after which the events are ignored.
SyncEnds(done) ==
    /\ miner.listening /\ miner.syncing
    /\ miner' = [miner EXCEPT !.syncing = FALSE, !.canStart = TRUE, !.listening = ~done]
    /\ start(miner.shouldStart)
    /\ UNCHANGED <<worker, budget>>

-----------------------------------------------------------------------------
(* newWorkLoop.                                                            *)
loopRest == <<chain, head, pool, miner, running, newTxs, main, current, uncles,
              prev, sealing, resultCh>>

clearPending(number) ==
    {t \in pendingTasks : t.number + staleThreshold > number}

\* commit: the work in mainLoop is interrupted, the new one offered.
Offer(noempty, s) ==
    /\ signal' = s
    /\ loop' = [loop EXCEPT !.pc = "offer", !.noempty = noempty]

LoopStart ==
    /\ loop.pc = "idle" /\ chans.start
    /\ chans' = [chans EXCEPT !.start = FALSE]
    /\ pendingTasks' = clearPending(Number(head))
    /\ Offer(FALSE, "newhead")
    /\ UNCHANGED <<loopRest, budget>>

LoopHead ==
    /\ loop.pc = "idle" /\ chans.head # <<>>
    /\ chans' = [chans EXCEPT !.head = Tail(@)]
    /\ pendingTasks' = clearPending(Number(chans.head[1]))
    /\ Offer(FALSE, "newhead")
    /\ UNCHANGED <<loopRest, budget>>

\* The timer: a new cycle if transactions arrived while sealing. It stays
\* armed without transactions, and is not armed again while not sealing.
LoopTimer ==
    /\ loop.pc = "idle" /\ loop.timer /\ budget.timers > 0
    /\ IF running
       THEN newTxs /\ Offer(TRUE, "resubmit")
       ELSE loop' = [loop EXCEPT !.timer = FALSE] /\ UNCHANGED signal
    /\ budget' = [budget EXCEPT !.timers = @ - 1]
    /\ UNCHANGED <<loopRest, chans, pendingTasks>>

-----------------------------------------------------------------------------
(* mainLoop.                                                               *)
mainRest == <<chain, head, env, resultCh>>
tasks == <<prev, pendingTasks, sealing>>

\* commitUncle: a side block on an ancestor that is not the parent.
commitsUncle(work, u) ==
    /\ u \notin work.uncles
    /\ chain[u].parent # work.parent
    /\ chain[u].parent \in Ancestors(work.parent)
    /\ u \notin Ancestors(work.parent)

\* Mutant: the work is not built on the state of its parent.
prepareOnCurrent ==
    [parent |-> head, number |-> Number(head) + 1, txs |-> <<>>, gas |-> GasLimit,
     state |-> IF current = Nil THEN StateAt(head) ELSE current.state,
     paid |-> IF running THEN miner.coinbase ELSE Nil, author |-> miner.validator,
     uncles |-> {}]

prepareWork ==
    LET work == [parent |-> head, number |-> Number(head) + 1, txs |-> <<>>, gas |-> GasLimit,
                 state |-> StateAt(head), paid |-> IF running THEN miner.coinbase ELSE Nil,
                 author |-> miner.validator, uncles |-> {}]
        fit == {u \in uncles : commitsUncle(work, u)}
    IN  [work EXCEPT !.uncles = CHOOSE us \in SUBSET fit :
            Cardinality(us) = IF Cardinality(fit) > 2 THEN 2 ELSE Cardinality(fit)]

\* FinalizeAndAssemble: the block has no uncles.
assemble(work) ==
    [parent |-> work.parent, number |-> work.number, txs |-> work.txs, root |-> work.state,
     paid |-> work.paid, author |-> work.author, own |-> TRUE]

\* commitWork begins: the parent and the fee recipient are read here. The
\* loop that offered the work resets its timer and the count.
RecvWork ==
    /\ main.pc = "idle" /\ loop.pc = "offer"
    /\ loop' = [loop EXCEPT !.pc = "idle", !.timer = TRUE]
    /\ newTxs' = FALSE
    /\ signal' = "none"
    /\ main' = [main EXCEPT !.pc = IF loop.noempty THEN "fill" ELSE "commit",
                            !.then = "fill", !.work = prepareWork]
    /\ UNCHANGED <<mainRest, tasks, chans, current, uncles>>

\* taskLoop: the work in flight is stopped, the engine seals the new one or
\* refuses; the same work again changes nothing.
Submit(block) ==
    IF block = prev THEN UNCHANGED tasks
    ELSE /\ prev' = block
         /\ IF block.parent \in Refused
            THEN sealing' = Nil /\ pendingTasks' = pendingTasks \ {block}
            ELSE sealing' = block /\ pendingTasks' = pendingTasks \cup {block}

\* commit: a task while sealing; then fillTransactions after the empty block,
\* updateSnapshot and perhaps the swap of current after the others.
Commit ==
    /\ main.pc = "commit"
    /\ IF running THEN Submit(assemble(main.work)) ELSE UNCHANGED tasks
    /\ IF main.then = "fill"
       THEN main' = [main EXCEPT !.pc = "fill"] /\ UNCHANGED current
       ELSE /\ main' = [main EXCEPT !.pc = "idle", !.work = Nil]
            /\ current' = IF main.then = "swap" THEN main.work ELSE current
    /\ UNCHANGED <<mainRest, chans, newTxs, loop, signal, uncles>>

\* fillTransactions: interrupted by a head the work is thrown away, by the
\* timer it goes on without transactions; so it is when the execution fails.
Fill ==
    /\ main.pc = "fill"
    /\ \E sel \in {selectTransactions(main.work, Pending, LocalSenders)} :
         main' =
           IF signal = "newhead" \/ (signal = "none" /\ ~Succeeds(sel))
           THEN [main EXCEPT !.pc = "idle", !.work = Nil]
           ELSE [main EXCEPT !.pc = "commit", !.then = "swap",
                             !.work = IF signal = "resubmit" THEN @
                                      ELSE CHOOSE w \in Executed(@, sel) : TRUE]
    /\ UNCHANGED <<mainRest, tasks, chans, newTxs, loop, signal, current, uncles>>

\* A side block may become an uncle of the current work, which is committed.
SideBlock ==
    /\ main.pc = "idle" /\ chans.side # <<>>
    /\ chans' = [chans EXCEPT !.side = Tail(@)]
    /\ uncles' = uncles \cup {chans.side[1]}
    /\ IF /\ chans.side[1] \notin uncles
          /\ running /\ current # Nil
          /\ Cardinality(current.uncles) < 2
          /\ commitsUncle(current, chans.side[1])
       THEN /\ current' = [current EXCEPT !.uncles = @ \cup {chans.side[1]}]
            /\ main' = [pc |-> "commit", then |-> "update", work |-> current']
       ELSE UNCHANGED <<current, main>>
    /\ UNCHANGED <<mainRest, tasks, newTxs, loop, signal>>

\* cleanTicker
CleanUncles ==
    LET old == {u \in uncles : Number(u) + staleThreshold <= Number(head)}
    IN  /\ main.pc = "idle" /\ old # {}
        /\ uncles' = uncles \ old
        /\ UNCHANGED <<mainRest, tasks, main, chans, newTxs, loop, signal, current>>

\* Mutant: the pending state moves on without the pending block.
applyUnrecorded(tx) ==
    LET sel == selectTransactions(current, {tx}, {tx.from})
    IN  {[current EXCEPT !.state = @ \cup Range(sel)]}

applyTxBatch(tx) ==
    LET sel == selectTransactions(current, {tx}, {tx.from})
    IN  Executed(current, sel)

\* A transaction event: while not sealing it goes to the pending block.
TxsEvent ==
    /\ main.pc = "idle" /\ chans.txs # <<>>
    /\ chans' = [chans EXCEPT !.txs = Tail(@)]
    /\ newTxs' = TRUE
    /\ IF ~running /\ current # Nil /\ (current.gas >= TxGas \/ priv(chans.txs[1]))
       THEN current' \in applyTxBatch(chans.txs[1])
       ELSE UNCHANGED current
    /\ UNCHANGED <<mainRest, tasks, main, loop, signal, uncles>>

-----------------------------------------------------------------------------
(* The sealing goroutine and resultLoop.                                   *)
\* The delay of Seal is over.
Deliver ==
    /\ sealing # Nil /\ Len(chain) + Len(resultCh) <= MaxBlocks
    /\ resultCh' = Append(resultCh, sealing)
    /\ sealing' = Nil
    /\ UNCHANGED <<chain, head, env, chans, newTxs, loop, signal, main, current,
                   uncles, prev, pendingTasks>>

Result ==
    /\ resultCh # <<>>
    /\ resultCh' = Tail(resultCh)
    /\ IF resultCh[1] \in Range(chain) \/ resultCh[1] \notin pendingTasks
       THEN UNCHANGED <<chain, head, chans>>
       ELSE Write(resultCh[1])
    /\ UNCHANGED <<env, newTxs, loop, signal, main, current, uncles, prev,
                   pendingTasks, sealing>>

-----------------------------------------------------------------------------
Init ==
    /\ chain = <<[parent |-> Nil, number |-> 0, txs |-> <<>>, root |-> {}, paid |-> Nil,
                  author |-> Nil, own |-> FALSE]>>
    /\ head = 1
    /\ pool \in [head : {1}, txs : Waiting]
    /\ \E k \in Keys : LET signer == IF Started THEN k ELSE Nil IN
          miner = [base |-> k, coinbase |-> signer, validator |-> signer, calls |-> <<>>,
                   canStart |-> TRUE, shouldStart |-> Started, listening |-> TRUE,
                   syncing |-> FALSE]
    /\ running = Started
    /\ chans = [start |-> TRUE, head |-> <<>>, side |-> <<>>, txs |-> <<>>]
    /\ newTxs = FALSE
    /\ loop = [pc |-> "idle", noempty |-> FALSE, timer |-> FALSE]
    /\ signal = "none"
    /\ main = [pc |-> "idle", then |-> "fill", work |-> Nil]
    /\ current = Nil
    /\ uncles = {}
    /\ prev = Nil
    /\ pendingTasks = {}
    /\ sealing = Nil
    /\ resultCh = <<>>
    /\ budget = [commands |-> MaxCommands, syncs |-> MaxSyncs, timers |-> MaxTimers,
                 arrivals |-> MaxArrivals]

\* Nothing is under way, or the chain is as long as it may be.
Quiescent ==
    /\ main.pc = "idle" /\ loop.pc = "idle" /\ (sealing = Nil \/ Len(chain) > MaxBlocks)
    /\ ~chans.start /\ chans.head = <<>> /\ chans.side = <<>> /\ chans.txs = <<>>
    /\ resultCh = <<>>
    /\ UNCHANGED vars

Loops ==
    \/ HandleStart \/ LoopStart \/ LoopHead \/ LoopTimer
    \/ RecvWork \/ Commit \/ Fill \/ SideBlock \/ CleanUncles \/ TxsEvent
    \/ Deliver \/ Result

Next ==
    \/ Loops
    \/ \E b \in DOMAIN chain, txs \in Foreign : Import(b, txs)
    \/ \E tx \in Txs : Arrive(tx)
    \/ PoolReset
    \/ StartMining \/ HandleStop
    \/ \E a \in Keys : SetCoinbase(a)
    \/ SyncStarts \/ \E done \in BOOLEAN : SyncEnds(done)
    \/ Quiescent

Spec == Init /\ [][Next]_vars

\* The runtime schedules every goroutine, in its select the newWorkLoop
\* serves what waits.
Fairness ==
    /\ WF_vars(LoopStart \/ LoopHead)
    /\ WF_vars(RecvWork \/ Commit \/ Fill)

-----------------------------------------------------------------------------
(* Properties.                                                             *)

\* Every block this node wrote executes on its parent: the nonces of senders
\* and sponsors follow, the gas fits, and the root it carries is the state
\* that another node reaches with the block's transactions, whatever heads,
\* timers, side blocks and starts came in between (selectTransactions,
\* commitWork, commit, resultLoop).
MinedBlocksExecute ==
    \A b \in DOMAIN chain : chain[b].own =>
        /\ ExecutesIn(StateAt(chain[b].parent), chain[b].txs)
        /\ GasOf(chain[b].txs) <= GasLimit
        /\ chain[b].root = StateAt(chain[b].parent) \cup Range(chain[b].txs)

\* The pending state is the state after the pending block, which RPC reads
\* together (updateSnapshot, applyTxBatch).
PendingConsistent ==
    current # Nil =>
        current.state = StateAt(current.parent) \cup Range(current.txs)

\* All that the pool offers on the parent of the work is taken when the block
\* has the gas, however senders wait for each other's sponsors and whether
\* they are local (doSelect, resumePausedSponsorCursors).
FillTakesAll ==
    (/\ main.pc = "fill" /\ main'.pc = "commit" /\ signal = "none"
     /\ pool.head = main.work.parent
     /\ \A tx \in Pending : tx.kind = "ok"
     /\ GasOf(SetToSeq(Pending)) + TxGas <= GasLimit)
    => Range(main'.work.txs) = Pending

\* The worker runs whenever it was asked to and no sync forbids it (update).
MiningFollowsSync ==
    running = (miner.shouldStart /\ miner.canStart)

\* While the worker runs, a head is either replaced or handed to the engine:
\* no wake-up is lost between the loops (start, newWorkLoop, commitWork).
HeadServed ==
    \A b \in 1 .. (MaxBlocks + 1) :
        (running /\ head = b)
            ~> (head # b \/ ~running \/ (prev # Nil /\ prev.parent = b))
=============================================================================
