-------------------------------- MODULE MCConsensus --------------------------------
(* The engine for TLC, side by side: sealing nodes whose clocks lag next   *)
(* to one with timestamps of its own (DPoSTurns under its own names), a    *)
(* chain with two of three validators online, the miner's worker, and      *)
(* vote evidence from one checkpoint or over several days. In each         *)
(* behaviour the component that focus names takes its steps; the others    *)
(* have no state.                                                          *)
EXTENDS DPoSTurns, VoteEvidence

CONSTANT Nil

OneLeaves == {{2, 3}}

MinerTx(id, from, nonce, sponsor, snonce, gas, kind) ==
    [id |-> id, from |-> from, nonce |-> nonce, sponsor |-> sponsor, snonce |-> snonce,
     gas |-> gas, fee |-> id, kind |-> kind]

(* Two senders that share the sponsor s, the first one local; p's is private, x's is *)
(* refused when it is executed.                                                      *)
SenderTxs ==
    {MinerTx(1, "a", 0, Nil, 0, 1, "ok"), MinerTx(5, "a", 1, "s", 1, 1, "ok"),
     MinerTx(3, "b", 0, "s", 0, 2, "ok"), MinerTx(2, "b", 1, "s", 2, 1, "ok"),
     MinerTx(4, "p", 0, Nil, 0, 0, "ok"), MinerTx(6, "x", 0, Nil, 0, 1, "refused"),
     MinerTx(7, "a", 2, Nil, 0, 1, "unbuildable")}

PlainTxs == {tx \in SenderTxs : tx.id \in {1, 5, 3}}

VARIABLE focus  \* the component that runs

VARIABLES
    growthNow, growthParent, growthSigned, growthSnap, growthRegistry, growthTodo, growthWork

VARIABLES
    mineChain, mineHead, minePool, mineMiner, mineRunning, mineChans, mineNewTxs, mineLoop,
    mineSignal, mineMain, mineCurrent, mineUncles, minePrev, minePendingTasks, mineSealing,
    mineResultCh, mineBudget

growthVars ==
    <<growthNow, growthParent, growthSigned, growthSnap, growthRegistry, growthTodo, growthWork>>

mineVars ==
    <<mineChain, mineHead, minePool, mineMiner, mineRunning, mineChans, mineNewTxs, mineLoop,
      mineSignal, mineMain, mineCurrent, mineUncles, minePrev, minePendingTasks, mineSealing,
      mineResultCh, mineBudget>>

Days == INSTANCE VoteEvidence WITH
    CheckpointInterval <- 1, CheckpointFinalityBlock <- 1, MaxPendingPerCheckpoint <- 1,
    Signers <- {"f"}, Honest <- {}, Numbers <- {1}, Hashes <- {1, 2}, Threads <- {"t"},
    RetentionDays <- 2, MaxHead <- 2, MaxDay <- 2, MaxConflicts <- 2, None <- None,
    signatures <- signatures, known <- known, head <- head, finalized <- finalized,
    pool <- pool, thread <- thread, day <- day, lastPruneDay <- lastPruneDay,
    journal <- journal, reported <- reported, outbox <- outbox, status <- status,
    records <- records

Offence == INSTANCE VoteEvidence WITH
    CheckpointInterval <- 1, CheckpointFinalityBlock <- 1, MaxPendingPerCheckpoint <- 1,
    Signers <- {"f"}, Honest <- {}, Numbers <- {1}, Hashes <- {1, 2, 3}, Threads <- {"t"},
    RetentionDays <- 2, MaxHead <- 0, MaxDay <- 0, MaxConflicts <- 1, None <- None,
    signatures <- signatures, known <- known, head <- head, finalized <- finalized,
    pool <- pool, thread <- thread, day <- day, lastPruneDay <- lastPruneDay,
    journal <- journal, reported <- reported, outbox <- outbox, status <- status,
    records <- records

LiveChain == INSTANCE DPoSTurns WITH
    Addresses <- {1, 2, 3}, GenesisValidators <- {1, 2, 3}, Registries <- {{}},
    Online <- {1, 2}, Faulty <- {}, PeriodMs <- 1, TurnLength <- 2, Epoch <- 4,
    RecentSignerWindow <- 0, MaxBlocks <- 4, MaxLag <- 2, now <- growthNow,
    parent <- growthParent, signed <- growthSigned, snap <- growthSnap,
    registry <- growthRegistry, todo <- growthTodo, work <- growthWork

Mine == INSTANCE Miner WITH
    Nil <- Nil, Txs <- PlainTxs, LocalSenders <- {"a"}, Foreign <- {<<>>}, Refused <- {},
    Keys <- {"k"}, GasLimit <- 5, TxGas <- 1, staleThreshold <- 0, Started <- TRUE,
    Waiting <- {PlainTxs}, MaxBlocks <- 2, MaxCommands <- 0, MaxSyncs <- 0, MaxTimers <- 0,
    MaxArrivals <- 0, chain <- mineChain, head <- mineHead, pool <- minePool,
    miner <- mineMiner, running <- mineRunning, chans <- mineChans, newTxs <- mineNewTxs,
    loop <- mineLoop, signal <- mineSignal, main <- mineMain, current <- mineCurrent,
    uncles <- mineUncles, prev <- minePrev, pendingTasks <- minePendingTasks,
    sealing <- mineSealing, resultCh <- mineResultCh, budget <- mineBudget

Select == INSTANCE Miner WITH
    Nil <- Nil, Txs <- SenderTxs, LocalSenders <- {"a"}, Foreign <- {<<>>}, Refused <- {},
    Keys <- {"k"}, GasLimit <- 5, TxGas <- 1, staleThreshold <- 0, Started <- TRUE,
    Waiting <- SUBSET SenderTxs, MaxBlocks <- 0, MaxCommands <- 0, MaxSyncs <- 0,
    MaxTimers <- 0, MaxArrivals <- 0, chain <- mineChain, head <- mineHead, pool <- minePool,
    miner <- mineMiner, running <- mineRunning, chans <- mineChans, newTxs <- mineNewTxs,
    loop <- mineLoop, signal <- mineSignal, main <- mineMain, current <- mineCurrent,
    uncles <- mineUncles, prev <- minePrev, pendingTasks <- minePendingTasks,
    sealing <- mineSealing, resultCh <- mineResultCh, budget <- mineBudget

Arrive == INSTANCE Miner WITH
    Nil <- Nil, Txs <- PlainTxs, LocalSenders <- {"a"},
    Foreign <- {<<MinerTx(1, "a", 0, Nil, 0, 1, "ok")>>}, Refused <- {1}, Keys <- {"k"},
    GasLimit <- 5, TxGas <- 1, staleThreshold <- 0, Started <- TRUE, Waiting <- {{}},
    MaxBlocks <- 1, MaxCommands <- 0, MaxSyncs <- 0, MaxTimers <- 1, MaxArrivals <- 1,
    chain <- mineChain, head <- mineHead, pool <- minePool, miner <- mineMiner,
    running <- mineRunning, chans <- mineChans, newTxs <- mineNewTxs, loop <- mineLoop,
    signal <- mineSignal, main <- mineMain, current <- mineCurrent, uncles <- mineUncles,
    prev <- minePrev, pendingTasks <- minePendingTasks, sealing <- mineSealing,
    resultCh <- mineResultCh, budget <- mineBudget

Command == INSTANCE Miner WITH
    Nil <- Nil, Txs <- {MinerTx(1, "a", 0, Nil, 0, 1, "ok")}, LocalSenders <- {"a"},
    Foreign <- {}, Refused <- {}, Keys <- {"k", "l"}, GasLimit <- 5, TxGas <- 1,
    staleThreshold <- 0, Started <- TRUE, Waiting <- {{}}, MaxBlocks <- 0, MaxCommands <- 2,
    MaxSyncs <- 0, MaxTimers <- 1, MaxArrivals <- 1, chain <- mineChain, head <- mineHead,
    pool <- minePool, miner <- mineMiner, running <- mineRunning, chans <- mineChans,
    newTxs <- mineNewTxs, loop <- mineLoop, signal <- mineSignal, main <- mineMain,
    current <- mineCurrent, uncles <- mineUncles, prev <- minePrev,
    pendingTasks <- minePendingTasks, sealing <- mineSealing, resultCh <- mineResultCh,
    budget <- mineBudget

Begin == INSTANCE Miner WITH
    Nil <- Nil, Txs <- {MinerTx(1, "a", 0, Nil, 0, 1, "ok")}, LocalSenders <- {"a"},
    Foreign <- {}, Refused <- {}, Keys <- {"k"}, GasLimit <- 5, TxGas <- 1, staleThreshold <- 0,
    Started <- FALSE, Waiting <- {{}}, MaxBlocks <- 1, MaxCommands <- 1, MaxSyncs <- 1,
    MaxTimers <- 0, MaxArrivals <- 0, chain <- mineChain, head <- mineHead, pool <- minePool,
    miner <- mineMiner, running <- mineRunning, chans <- mineChans, newTxs <- mineNewTxs,
    loop <- mineLoop, signal <- mineSignal, main <- mineMain, current <- mineCurrent,
    uncles <- mineUncles, prev <- minePrev, pendingTasks <- minePendingTasks,
    sealing <- mineSealing, resultCh <- mineResultCh, budget <- mineBudget

EvidenceStart ==
    IF focus = "days" THEN Days!EvidenceInit
    ELSE IF focus = "offence" THEN Offence!EvidenceInit
    ELSE EvidenceInit

GrowthInit ==
    IF focus = "growth" THEN LiveChain!Init
    ELSE
        /\ growthNow = 0 /\ growthParent = [number |-> 0] /\ growthSigned = 0 /\ growthSnap = 0
        /\ growthRegistry = 0 /\ growthTodo = 0 /\ growthWork = 0

MineInit ==
    IF focus = "mine" THEN Mine!Init
    ELSE IF focus = "select" THEN Select!Init
    ELSE IF focus = "arrive" THEN Arrive!Init
    ELSE IF focus = "command" THEN Command!Init
    ELSE IF focus = "begin" THEN Begin!Init
    ELSE
        /\ mineChain = 0 /\ mineHead = 1 /\ minePool = 0 /\ mineMiner = 0 /\ mineRunning = FALSE
        /\ mineChans = 0 /\ mineNewTxs = 0 /\ mineLoop = 0 /\ mineSignal = 0 /\ mineMain = 0
        /\ mineCurrent = 0 /\ mineUncles = 0 /\ minePrev = Nil /\ minePendingTasks = 0
        /\ mineSealing = 0 /\ mineResultCh = 0 /\ mineBudget = 0

ConsensusInit ==
    /\ focus \in {"sealing", "evidence", "days", "offence", "growth", "mine", "select", "arrive", "command", "begin"}
    /\ Init /\ (focus # "sealing" => registry = {2, 3})
    /\ EvidenceStart
    /\ GrowthInit
    /\ MineInit

SealingStep ==
    /\ focus = "sealing" /\ Next
    /\ UNCHANGED <<focus, evidenceVars, growthVars, mineVars>>

EvidenceStep ==
    /\ focus = "evidence" /\ EvidenceNext
    /\ UNCHANGED <<focus, vars, growthVars, mineVars>>

DaysStep ==
    /\ focus = "days" /\ Days!EvidenceNext
    /\ UNCHANGED <<focus, vars, growthVars, mineVars>>

OffenceStep ==
    /\ focus = "offence" /\ Offence!EvidenceNext
    /\ UNCHANGED <<focus, vars, growthVars, mineVars>>

GrowthStep ==
    /\ focus = "growth" /\ LiveChain!Next
    /\ UNCHANGED <<focus, vars, evidenceVars, mineVars>>

MineStep ==
    /\ focus = "mine" /\ Mine!Next
    /\ UNCHANGED <<focus, vars, evidenceVars, growthVars>>

SelectStep ==
    /\ focus = "select" /\ Select!Next
    /\ UNCHANGED <<focus, vars, evidenceVars, growthVars>>

ArriveStep ==
    /\ focus = "arrive" /\ Arrive!Next
    /\ UNCHANGED <<focus, vars, evidenceVars, growthVars>>

CommandStep ==
    /\ focus = "command" /\ Command!Next
    /\ UNCHANGED <<focus, vars, evidenceVars, growthVars>>

BeginStep ==
    /\ focus = "begin" /\ Begin!Next
    /\ UNCHANGED <<focus, vars, evidenceVars, growthVars>>

ConsensusNext ==
    \/ SealingStep
    \/ EvidenceStep
    \/ DaysStep
    \/ OffenceStep
    \/ GrowthStep
    \/ MineStep
    \/ SelectStep
    \/ ArriveStep
    \/ CommandStep
    \/ BeginStep

ConsensusVars == <<focus, vars, evidenceVars, growthVars, mineVars>>

ConsensusSpec ==
    /\ ConsensusInit
    /\ [][ConsensusNext]_ConsensusVars
    /\ WF_growthVars(focus = "growth" /\ LiveChain!Tick)
    /\ \A v \in {1, 2} :
          /\ WF_growthVars(focus = "growth" /\ (LiveChain!Seal(v) \/ LiveChain!SealRefused(v)))
          /\ WF_growthVars(focus = "growth" /\ LiveChain!Release(v))
    /\ WF_mineVars(focus = "begin" /\ (Begin!LoopStart \/ Begin!LoopHead))
    /\ WF_mineVars(focus = "begin" /\ (Begin!RecvWork \/ Begin!Commit \/ Begin!Fill))

\* Without a single transaction to wake the resubmission timer, the branch keeps
\* growing when a majority of every validator set is online.
ChainGrows == focus = "growth" => LiveChain!Growth

\* While the worker runs, a head is either replaced or handed to the engine:
\* no wake-up is lost between the loops (start, newWorkLoop, commitWork).
HeadServed == focus = "begin" => Begin!HeadServed

(* Every block this node mines executes on its parent with the root it     *)
(* carries, the pending state belongs to the pending block, and the        *)
(* worker runs when it was asked to and no sync forbids it.                *)
MinedSound ==
    /\ focus = "mine" =>
            /\ Mine!MinedBlocksExecute
            /\ Mine!PendingConsistent
            /\ Mine!MiningFollowsSync
    /\ focus = "select" =>
            /\ Select!MinedBlocksExecute
            /\ Select!PendingConsistent
            /\ Select!MiningFollowsSync
    /\ focus = "arrive" =>
            /\ Arrive!MinedBlocksExecute
            /\ Arrive!PendingConsistent
            /\ Arrive!MiningFollowsSync
    /\ focus = "command" =>
            /\ Command!MinedBlocksExecute
            /\ Command!PendingConsistent
            /\ Command!MiningFollowsSync
    /\ focus = "begin" =>
            /\ Begin!MinedBlocksExecute
            /\ Begin!PendingConsistent
            /\ Begin!MiningFollowsSync

(* All that the pool offers on the parent of the work is taken when the    *)
(* block has the gas (doSelect, resumePausedSponsorCursors).               *)
FillTakesAll ==
    [][ /\ focus = "mine" =>
                /\ Mine!FillTakesAll
        /\ focus = "select" =>
                /\ Select!FillTakesAll
        /\ focus = "arrive" =>
                /\ Arrive!FillTakesAll
        /\ focus = "command" =>
                /\ Command!FillTakesAll
        /\ focus = "begin" =>
                /\ Begin!FillTakesAll ]_mineVars

=============================================================================
