----------------------------------- MODULE MCNode -----------------------------------
(* The node's services for TLC, side by side: in each behaviour the        *)
(* component that focus names takes its steps; the others have no state.   *)
EXTENDS StateTransition

Tx(id, from, nonce, sponsor, snonce) ==
    [id |-> id, from |-> from, nonce |-> nonce, sponsor |-> sponsor, snonce |-> snonce]

(* One plain and one sponsored transaction, for the reorganisations. *)
ReorgTxs == {Tx(1, "a", 0, Nil, 0), Tx(2, "b", 0, "s", 0)}

(* Two senders that share a sponsor, and replacements; a sponsored transaction is the *)
(* last one of its sender.                                                            *)
SharedTxs ==
    {Tx(1, "a", 0, Nil, 0), Tx(2, "a", 1, Nil, 0), Tx(3, "a", 1, "s", 1),
     Tx(4, "b", 0, "s", 0), Tx(5, "b", 0, Nil, 0)}

(* Blocks by name: a chain a1..a4, a heavier fork b2, b3, and single side blocks. *)
ParentOf ==
    [a1 |-> "g", a2 |-> "a1", a3 |-> "a2", a4 |-> "a3", b2 |-> "a1", b3 |-> "b2",
     c3 |-> "a2", c4 |-> "a3"]

TdOf ==
    [g |-> 0, a1 |-> 2, a2 |-> 4, a3 |-> 5, a4 |-> 7, b2 |-> 3, b3 |-> 5, c3 |-> 5, c4 |-> 7]

TxsIn ==
    [g |-> {}, a1 |-> {}, a2 |-> {1}, a3 |-> {2}, a4 |-> {}, b2 |-> {2}, b3 |-> {1},
     c3 |-> {}, c4 |-> {}]

(* The accounts of the messages; the address of a new contract is longer. *)
TwoUsers == {<<"a">>, <<"b">>}
Code == <<"k">>
AccountContract == <<"w">>
LeaseOver == <<"x">>
Locker == <<"r">>
Author == <<"c">>
System == <<"system">>
Slash == <<"slash">>

(* Messages from <<"a">>; <<"b">> is the other user and the sponsor. *)
Plain ==
    [from |-> <<"a">>, to |-> <<"b">>, value |-> 1, gas |-> 4, price |-> 1, feeCap |-> 2,
     nonce |-> 0, sponsor |-> Nil, sponsorNonce |-> 0, expired |-> FALSE, policy |-> TRUE,
     pkg |-> "none", action |-> "none"]

To(a) == [Plain EXCEPT !.to = a]
Action(a) == [To(System) EXCEPT !.action = a]
Deploy(pkg) == [To(Nil) EXCEPT !.pkg = pkg, !.gas = 6]
Lease(pkg) == [Action("lease") EXCEPT !.pkg = pkg, !.gas = 6]
Sponsored(m) == [m EXCEPT !.sponsor = <<"b">>]

Messages ==
    {Plain, To(Code), To(AccountContract), [To(AccountContract) EXCEPT !.value = 11], To(LeaseOver),
     [Plain EXCEPT !.from = <<"b">>, !.to = <<"a">>], [To(Slash) EXCEPT !.action = "locks"],
     Sponsored(Plain), Sponsored(To(Code)), Sponsored(To(AccountContract)), Sponsored(Deploy("ctor")),
     [Sponsored(Plain) EXCEPT !.value = 21], [Sponsored(Plain) EXCEPT !.policy = FALSE],
     [Sponsored(Plain) EXCEPT !.expired = TRUE], [Action("locks") EXCEPT !.gas = 2],
     [Deploy("plain") EXCEPT !.gas = 3], [Lease("plain") EXCEPT !.value = 9]}
    \cup {Action(a) : a \in {"undecodable", "locks", "fails"}}
    \cup {Lease(p) : p \in {"plain", "ctor", "raw"}}
    \cup {Deploy(p) : p \in {"raw", "invalid", "plain", "ctor"}}

InOrder(ms) == ms \cup {[m EXCEPT !.nonce = 1] : m \in ms}
AllMessages == InOrder(Messages)

CodeOutcomes ==
    {[err |-> "none", used |-> 1, pays |-> 0, truthy |-> TRUE],
     [err |-> "none", used |-> 2, pays |-> 1, truthy |-> TRUE],
     [err |-> "none", used |-> 9, pays |-> 0, truthy |-> FALSE],
     [err |-> "reverted", used |-> 1, pays |-> 0, truthy |-> FALSE],
     [err |-> "fault", used |-> 1, pays |-> 0, truthy |-> TRUE]}

AllOnes == [n \in 0 .. 2 |-> 1]
AllTwos == [n \in 0 .. 2 |-> 2]
OneOrTwo == [n \in 0 .. 2 |-> 1 + (n % 2)]

AccountWith(balance, value) ==
    [nonce |-> 0, balance |-> balance, code |-> Nil, root |-> [k |-> value]]

VARIABLE focus  \* the component that runs

VARIABLES
    poolPool, poolHead, poolWant, poolJob, poolEvents, poolAnnounced, poolCount

VARIABLES
    chainDb, chainMem, chainOps, chainFrz, chainRcp, chainIdx, chainUp, chainCount

VARIABLES
    stateSdb, stateWorld, stateCount

VARIABLES
    ancientIndex, ancientData, ancientMeta, ancientSynced, ancientMem, ancientBatch,
    ancientFrozen, ancientTail, ancientOp, ancientKept, ancientCrashes, ancientOps

poolVars ==
    <<poolPool, poolHead, poolWant, poolJob, poolEvents, poolAnnounced, poolCount>>

chainVars ==
    <<chainDb, chainMem, chainOps, chainFrz, chainRcp, chainIdx, chainUp, chainCount>>

stateVars ==
    <<stateSdb, stateWorld, stateCount>>

ancientVars ==
    <<ancientIndex, ancientData, ancientMeta, ancientSynced, ancientMem, ancientBatch,
      ancientFrozen, ancientTail, ancientOp, ancientKept, ancientCrashes, ancientOps>>

Pool == INSTANCE TxPool WITH
    Txs <- ReorgTxs, None <- Nil, GlobalSlots <- 2, AccountSlots <- 1, GlobalQueue <- 1,
    AccountQueue <- 2, LocalSenders <- {"a"}, PoorSets <- {{}, {"s"}}, MaxDepth <- 1,
    MaxHeads <- 3, MaxChain <- 2, MaxAdds <- 1, MaxTimers <- 0, MaxRestarts <- 0,
    pool <- poolPool, head <- poolHead, want <- poolWant, job <- poolJob, events <- poolEvents,
    announced <- poolAnnounced, count <- poolCount

PoolLimits == INSTANCE TxPool WITH
    Txs <- SharedTxs, None <- Nil, GlobalSlots <- 1, AccountSlots <- 1, GlobalQueue <- 1,
    AccountQueue <- 2, LocalSenders <- {"a"}, PoorSets <- {{}}, MaxDepth <- 1, MaxHeads <- 0,
    MaxChain <- 0, MaxAdds <- 4, MaxTimers <- 0, MaxRestarts <- 0, pool <- poolPool,
    head <- poolHead, want <- poolWant, job <- poolJob, events <- poolEvents,
    announced <- poolAnnounced, count <- poolCount

PoolCrash == INSTANCE TxPool WITH
    Txs <- SharedTxs, None <- Nil, GlobalSlots <- 2, AccountSlots <- 1, GlobalQueue <- 1,
    AccountQueue <- 2, LocalSenders <- {"a"}, PoorSets <- {{}}, MaxDepth <- 1, MaxHeads <- 1,
    MaxChain <- 1, MaxAdds <- 2, MaxTimers <- 1, MaxRestarts <- 1, pool <- poolPool,
    head <- poolHead, want <- poolWant, job <- poolJob, events <- poolEvents,
    announced <- poolAnnounced, count <- poolCount

Chain == INSTANCE ChainStore WITH
    Blocks <- {"g", "a1", "a2", "a3", "b2", "b3"}, Genesis <- "g", Parent <- ParentOf,
    Td <- TdOf, TxsOf <- TxsIn, TriesInMemory <- 1, Archive <- FALSE, Threshold <- 9,
    TxLookupLimit <- 0, Pivot <- Nil, AncientLimit <- 0, Snap <- FALSE, MaxCrashes <- 1,
    MaxImports <- 3, MaxRewinds <- 0, MaxFuture <- 0, MaxIndexings <- 0, None <- Nil,
    db <- chainDb, mem <- chainMem, ops <- chainOps, frz <- chainFrz, rcp <- chainRcp,
    idx <- chainIdx, up <- chainUp, count <- chainCount

ChainFuture == INSTANCE ChainStore WITH
    Blocks <- {"g", "a1", "a2", "a3", "b2", "b3"}, Genesis <- "g", Parent <- ParentOf,
    Td <- TdOf, TxsOf <- TxsIn, TriesInMemory <- 1, Archive <- FALSE, Threshold <- 9,
    TxLookupLimit <- 0, Pivot <- Nil, AncientLimit <- 0, Snap <- FALSE, MaxCrashes <- 1,
    MaxImports <- 2, MaxRewinds <- 0, MaxFuture <- 2, MaxIndexings <- 0, None <- Nil,
    db <- chainDb, mem <- chainMem, ops <- chainOps, frz <- chainFrz, rcp <- chainRcp,
    idx <- chainIdx, up <- chainUp, count <- chainCount

ChainFreeze == INSTANCE ChainStore WITH
    Blocks <- {"g", "a1", "a2", "a3", "a4", "c4"}, Genesis <- "g", Parent <- ParentOf,
    Td <- TdOf, TxsOf <- TxsIn, TriesInMemory <- 1, Archive <- TRUE, Threshold <- 2,
    TxLookupLimit <- 0, Pivot <- Nil, AncientLimit <- 0, Snap <- FALSE, MaxCrashes <- 1,
    MaxImports <- 3, MaxRewinds <- 1, MaxFuture <- 0, MaxIndexings <- 0, None <- Nil,
    db <- chainDb, mem <- chainMem, ops <- chainOps, frz <- chainFrz, rcp <- chainRcp,
    idx <- chainIdx, up <- chainUp, count <- chainCount

ChainSnap == INSTANCE ChainStore WITH
    Blocks <- {"g", "a1", "a2", "a3", "c3"}, Genesis <- "g", Parent <- ParentOf, Td <- TdOf,
    TxsOf <- TxsIn, TriesInMemory <- 1, Archive <- TRUE, Threshold <- 9, TxLookupLimit <- 0,
    Pivot <- 2, AncientLimit <- 1, Snap <- TRUE, MaxCrashes <- 1, MaxImports <- 2,
    MaxRewinds <- 1, MaxFuture <- 0, MaxIndexings <- 0, None <- Nil, db <- chainDb,
    mem <- chainMem, ops <- chainOps, frz <- chainFrz, rcp <- chainRcp, idx <- chainIdx,
    up <- chainUp, count <- chainCount

ChainIndex == INSTANCE ChainStore WITH
    Blocks <- {"g", "a1", "a2", "a3", "a4"}, Genesis <- "g", Parent <- ParentOf, Td <- TdOf,
    TxsOf <- TxsIn, TriesInMemory <- 1, Archive <- TRUE, Threshold <- 2, TxLookupLimit <- 2,
    Pivot <- Nil, AncientLimit <- 0, Snap <- FALSE, MaxCrashes <- 1, MaxImports <- 3,
    MaxRewinds <- 0, MaxFuture <- 0, MaxIndexings <- 2, None <- Nil, db <- chainDb,
    mem <- chainMem, ops <- chainOps, frz <- chainFrz, rcp <- chainRcp, idx <- chainIdx,
    up <- chainUp, count <- chainCount

State == INSTANCE StateDB WITH
    Addrs <- {"x"}, Keys <- {"k"}, Values <- {0, 1}, Codes <- {"c"}, Ripemd <- "r",
    Genesis <- [x |-> AccountWith(1, 1)], Snapshots <- TRUE,
    Ops <- {"AddBalance", "SubBalance", "SetState", "Suicide", "Create", "CreateAccount", "Copy"},
    MaxOps <- 3, MaxTxs <- 2, MaxBlocks <- 1, MaxSnapshots <- 1, MaxAmount <- 1, None <- Nil,
    sdb <- stateSdb, world <- stateWorld, count <- stateCount

StateAccess == INSTANCE StateDB WITH
    Addrs <- {"x", "y"}, Keys <- {"k"}, Values <- {0, 1}, Codes <- {"c"}, Ripemd <- "r",
    Genesis <- [x |-> Nil, y |-> Nil], Snapshots <- FALSE,
    Ops <- {"AddLog", "AddRefund", "AccessAddress", "AccessSlot"}, MaxOps <- 4, MaxTxs <- 1,
    MaxBlocks <- 1, MaxSnapshots <- 1, MaxAmount <- 1, None <- Nil, sdb <- stateSdb,
    world <- stateWorld, count <- stateCount

StateRipemd == INSTANCE StateDB WITH
    Addrs <- {"x", "r"}, Keys <- {"k"}, Values <- {0, 1}, Codes <- {"c"}, Ripemd <- "r",
    Genesis <- [x |-> AccountWith(1, 1), r |-> AccountWith(0, 1)], Snapshots <- FALSE,
    Ops <- {"AddBalance", "SubBalance", "SetNonce", "SetState"}, MaxOps <- 2, MaxTxs <- 2,
    MaxBlocks <- 2, MaxSnapshots <- 1, MaxAmount <- 1, None <- Nil, sdb <- stateSdb,
    world <- stateWorld, count <- stateCount

StorageOnly == INSTANCE StateDB WITH
    Addrs <- {"registry"}, Keys <- {"k"}, Values <- {0, 1}, Codes <- {"c"}, Ripemd <- "r",
    Genesis <- [registry |-> Nil], Snapshots <- TRUE, Ops <- {"SetState"}, MaxOps <- 3,
    MaxTxs <- 2, MaxBlocks <- 1, MaxSnapshots <- 1, MaxAmount <- 1, None <- Nil,
    sdb <- stateSdb, world <- stateWorld, count <- stateCount

BlockSeq == INSTANCE StateTransition WITH
    Users <- Users, Contract <- Contract, Wallet <- Wallet, Expired <- Expired,
    Registry <- Registry, Coinbase <- Coinbase, SystemAction <- SystemAction,
    SlashIndicator <- SlashIndicator, Nil <- Nil, Outcomes <- Outcomes, GasLimit <- GasLimit,
    Funds <- Funds, TxGas <- TxGas, TxGasContractCreation <- TxGasContractCreation,
    SysActionGas <- SysActionGas, ValidationGasCap <- ValidationGasCap, CodeGas <- CodeGas,
    Deposit <- Deposit, MaxNonce <- MaxNonce,
    Msgs <- InOrder({Plain, To(Code), Deploy("ctor")}), Scheduled <- {0, 1}, MaxTxs <- 1,
    MaxBlocks <- 2, state <- state, base <- base, gp <- gp, block <- block

Creation == INSTANCE StateTransition WITH
    Users <- Users, Contract <- Contract, Wallet <- Wallet, Expired <- Expired,
    Registry <- Registry, Coinbase <- Coinbase, SystemAction <- SystemAction,
    SlashIndicator <- SlashIndicator, Nil <- Nil, Outcomes <- Outcomes, GasLimit <- GasLimit,
    Funds <- Funds, TxGas <- TxGas, TxGasContractCreation <- TxGasContractCreation,
    SysActionGas <- SysActionGas, ValidationGasCap <- ValidationGasCap, CodeGas <- CodeGas,
    Deposit <- Deposit, MaxNonce <- MaxNonce, Msgs <- {Deploy("ctor")}, Scheduled <- {1},
    MaxTxs <- 1, MaxBlocks <- 1, state <- state, base <- base, gp <- gp, block <- block

Ancient == INSTANCE Freezer WITH
    Tables <- {"hashes", "bodies"}, Size <- [hashes |-> AllOnes, bodies |-> OneOrTwo],
    FullSize <- [hashes |-> AllOnes, bodies |-> AllTwos], maxFileSize <- 2, MaxItems <- 3,
    MaxBatch <- 2, MaxCrashes <- 1, MaxOps <- 3, Sizes <- {0, 3}, index <- ancientIndex,
    data <- ancientData, meta <- ancientMeta, synced <- ancientSynced, mem <- ancientMem,
    batch <- ancientBatch, frozen <- ancientFrozen, tail <- ancientTail, op <- ancientOp,
    kept <- ancientKept, crashes <- ancientCrashes, ops <- ancientOps

(* The constants are as the components assume. *)
ASSUME
    /\ Pool!TxPoolAssumption
    /\ PoolLimits!TxPoolAssumption
    /\ PoolCrash!TxPoolAssumption
    /\ Chain!ChainAssumption
    /\ ChainFuture!ChainAssumption
    /\ ChainFreeze!ChainAssumption
    /\ ChainSnap!ChainAssumption
    /\ ChainIndex!ChainAssumption
    /\ State!StateDBAssumption
    /\ StateAccess!StateDBAssumption
    /\ StateRipemd!StateDBAssumption
    /\ StorageOnly!StateDBAssumption

MessageStart ==
    IF focus = "blocks" THEN BlockSeq!MessageInit
    ELSE IF focus = "creation" THEN Creation!MessageInit
    ELSE MessageInit

PoolInit ==
    IF focus = "pool" THEN Pool!Init
    ELSE IF focus = "limits" THEN PoolLimits!Init
    ELSE IF focus = "crash" THEN PoolCrash!Init
    ELSE
        /\ poolPool = 0 /\ poolHead = 0 /\ poolWant = 0 /\ poolJob = 0 /\ poolEvents = 0
        /\ poolAnnounced = 0 /\ poolCount = 0

ChainInit ==
    IF focus = "chain" THEN Chain!Init
    ELSE IF focus = "future" THEN ChainFuture!Init
    ELSE IF focus = "freeze" THEN ChainFreeze!Init
    ELSE IF focus = "snap" THEN ChainSnap!Init
    ELSE IF focus = "index" THEN ChainIndex!Init
    ELSE
        /\ chainDb = 0 /\ chainMem = 0 /\ chainOps = 0 /\ chainFrz = 0 /\ chainRcp = 0 /\ chainIdx = 0
        /\ chainUp = 0 /\ chainCount = 0

StateInit ==
    IF focus = "state" THEN State!Init
    ELSE IF focus = "access" THEN StateAccess!Init
    ELSE IF focus = "ripemd" THEN StateRipemd!Init
    ELSE IF focus = "registry" THEN StorageOnly!Init
    ELSE
        /\ stateSdb = 0 /\ stateWorld = 0 /\ stateCount = 0

AncientInit ==
    IF focus = "ancient" THEN Ancient!Init
    ELSE
        /\ ancientIndex = 0 /\ ancientData = 0 /\ ancientMeta = 0 /\ ancientSynced = 0
        /\ ancientMem = 0 /\ ancientBatch = 0 /\ ancientFrozen = 0 /\ ancientTail = 0 /\ ancientOp = 0
        /\ ancientKept = 0 /\ ancientCrashes = 0 /\ ancientOps = 0

NodeInit ==
    /\ focus \in {"message", "pool", "limits", "crash", "chain", "future", "freeze", "snap", "index", "state", "access", "ripemd", "blocks", "ancient"}
    /\ MessageStart
    /\ PoolInit
    /\ ChainInit
    /\ StateInit
    /\ AncientInit

MessageStep ==
    /\ focus = "message" /\ MessageNext
    /\ UNCHANGED <<focus, poolVars, chainVars, stateVars, ancientVars>>

PoolStep ==
    /\ focus = "pool" /\ Pool!Next
    /\ UNCHANGED <<focus, messageVars, chainVars, stateVars, ancientVars>>

LimitsStep ==
    /\ focus = "limits" /\ PoolLimits!Next
    /\ UNCHANGED <<focus, messageVars, chainVars, stateVars, ancientVars>>

CrashStep ==
    /\ focus = "crash" /\ PoolCrash!Next
    /\ UNCHANGED <<focus, messageVars, chainVars, stateVars, ancientVars>>

ChainStep ==
    /\ focus = "chain" /\ Chain!Next
    /\ UNCHANGED <<focus, messageVars, poolVars, stateVars, ancientVars>>

FutureStep ==
    /\ focus = "future" /\ ChainFuture!Next
    /\ UNCHANGED <<focus, messageVars, poolVars, stateVars, ancientVars>>

FreezeStep ==
    /\ focus = "freeze" /\ ChainFreeze!Next
    /\ UNCHANGED <<focus, messageVars, poolVars, stateVars, ancientVars>>

SnapStep ==
    /\ focus = "snap" /\ ChainSnap!Next
    /\ UNCHANGED <<focus, messageVars, poolVars, stateVars, ancientVars>>

IndexStep ==
    /\ focus = "index" /\ ChainIndex!Next
    /\ UNCHANGED <<focus, messageVars, poolVars, stateVars, ancientVars>>

StateStep ==
    /\ focus = "state" /\ State!Next
    /\ UNCHANGED <<focus, messageVars, poolVars, chainVars, ancientVars>>

AccessStep ==
    /\ focus = "access" /\ StateAccess!Next
    /\ UNCHANGED <<focus, messageVars, poolVars, chainVars, ancientVars>>

RipemdStep ==
    /\ focus = "ripemd" /\ StateRipemd!Next
    /\ UNCHANGED <<focus, messageVars, poolVars, chainVars, ancientVars>>

RegistryStep ==
    /\ focus = "registry" /\ StorageOnly!Next
    /\ UNCHANGED <<focus, messageVars, poolVars, chainVars, ancientVars>>

BlocksStep ==
    /\ focus = "blocks" /\ BlockSeq!MessageNext
    /\ UNCHANGED <<focus, poolVars, chainVars, stateVars, ancientVars>>

CreationStep ==
    /\ focus = "creation" /\ Creation!MessageNext
    /\ UNCHANGED <<focus, poolVars, chainVars, stateVars, ancientVars>>

AncientStep ==
    /\ focus = "ancient" /\ Ancient!Next
    /\ UNCHANGED <<focus, messageVars, poolVars, chainVars, stateVars>>

NodeNext ==
    \/ MessageStep
    \/ PoolStep
    \/ LimitsStep
    \/ CrashStep
    \/ ChainStep
    \/ FutureStep
    \/ FreezeStep
    \/ SnapStep
    \/ IndexStep
    \/ StateStep
    \/ AccessStep
    \/ RipemdStep
    \/ BlocksStep
    \/ AncientStep

NodeVars == <<focus, messageVars, poolVars, chainVars, stateVars, ancientVars>>

NodeSpec ==
    /\ NodeInit
    /\ [][NodeNext]_NodeVars

RegistrySpec ==
    /\ focus = "registry"
    /\ MessageStart
    /\ PoolInit
    /\ ChainInit
    /\ StateInit
    /\ AncientInit
    /\ [][RegistryStep]_NodeVars

CreationSpec ==
    /\ focus = "creation"
    /\ MessageStart
    /\ PoolInit
    /\ ChainInit
    /\ StateInit
    /\ AncientInit
    /\ [][CreationStep]_NodeVars

(* The chain database through imports, reorganisations, rewinds, snap      *)
(* sync, freezing and crashes at every write: canonical blocks form a      *)
(* path, what a marker names can be read, the database opens again, the    *)
(* head has its state after start-up, and indexed transactions are found.  *)
ChainStoreSound ==
    /\ (focus \in {"chain", "future"}) =>
            /\ Chain!CanonicalPath
            /\ Chain!MarkedDataReadable
            /\ Chain!AlwaysOpens
            /\ Chain!HeadHasState
            /\ Chain!TxsFound
    /\ focus = "freeze" =>
            /\ ChainFreeze!CanonicalPath
            /\ ChainFreeze!MarkedDataReadable
            /\ ChainFreeze!AlwaysOpens
            /\ ChainFreeze!HeadHasState
            /\ ChainFreeze!TxsFound
    /\ focus = "snap" =>
            /\ ChainSnap!CanonicalPath
            /\ ChainSnap!MarkedDataReadable
            /\ ChainSnap!AlwaysOpens
            /\ ChainSnap!HeadHasState
            /\ ChainSnap!TxsFound
    /\ focus = "index" =>
            /\ ChainIndex!CanonicalPath
            /\ ChainIndex!MarkedDataReadable
            /\ ChainIndex!AlwaysOpens
            /\ ChainIndex!HeadHasState
            /\ ChainIndex!TxsFound

(* What a block's execution stores: the diff layer given to the snapshot   *)
(* tree describes the committed trie, the roots and codes of committed     *)
(* accounts resolve, and a copy taken between transactions reads and       *)
(* commits like the original.                                              *)
StateStored ==
    /\ focus = "state" =>
            /\ State!SnapshotFollowsTrie
            /\ State!CommittedReadable
            /\ State!CopyExact
    /\ focus = "access" =>
            /\ StateAccess!SnapshotFollowsTrie
            /\ StateAccess!CommittedReadable
            /\ StateAccess!CopyExact
    /\ focus = "ripemd" =>
            /\ StateRipemd!SnapshotFollowsTrie
            /\ StateRipemd!CommittedReadable
            /\ StateRipemd!CopyExact

(* A revert brings back all that a caller can read and all that a commit   *)
(* would write; a commit stores what the transactions read at the end of   *)
(* the block.                                                              *)
StateExact ==
    [][ /\ focus = "state" =>
                /\ State!RevertExact
                /\ State!CommitExact
        /\ focus = "access" =>
                /\ StateAccess!RevertExact
                /\ StateAccess!CommitExact
        /\ focus = "ripemd" =>
                /\ StateRipemd!RevertExact
                /\ StateRipemd!CommitExact ]_stateVars

(* The transaction pool through arrivals, replacements, merged resets and  *)
(* limits: lookup, lists and noncers agree, what the miner is served can   *)
(* be executed in order for senders and sponsors alike, everything         *)
(* pending was announced.                                                  *)
PoolServesMiner ==
    /\ (focus \in {"pool", "limits", "crash"}) =>
            /\ Pool!LookupMatches
            /\ Pool!PendingProcessable
            /\ Pool!PendingAnnounced

(* Transactions of abandoned blocks come back to the pool unless the new   *)
(* chain includes them or they can no longer be executed, however resets   *)
(* are merged; local transactions are not dropped for lack of room, and    *)
(* after a crash the journal gives them back; the limits hold after every  *)
(* reorganisation of the pool.                                             *)
PoolLosesNothing ==
    [][ /\ (focus \in {"pool", "limits", "crash"}) =>
                /\ Pool!ReorgedNotLost
                /\ Pool!LocalsKept
        /\ focus = "limits" =>
                /\ PoolLimits!WithinLimits
        /\ focus = "crash" =>
                /\ PoolCrash!JournalRestored ]_poolVars

(* The stores below the chain database: frozen items are read back as      *)
(* they were appended, the tables of the freezer agree, and what was       *)
(* synced survives crashes.                                                *)
StorageSound ==
    /\ focus = "ancient" =>
            /\ Ancient!ReadsWhatWasWritten
            /\ Ancient!TablesAgree
            /\ Ancient!SyncedSurvives

(* A record written to a native registry outlives its transaction          *)
(* (stateObject.empty, Finalise).                                          *)
RegistryStorageKept == [][focus = "registry" => StorageOnly!StorageKept]_NodeVars

(* Every message of a block advances the nonce of its sender (execute,     *)
(* createPackage).                                                         *)
SenderNonceAdvances == [][focus = "creation" => CreationAdvances]_NodeVars

=============================================================================
