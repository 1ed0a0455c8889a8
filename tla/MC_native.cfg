SPECIFICATION NativeSpec
CONSTANTS
    Addresses = {1, 2, 3}
    InitialBalance = 2
    Values = {0, 1}
    MinValidatorStake = 1
    MaxValidators = 2
    Epoch = 2
    MaintenanceMaxBlocks = 2
    GenesisValidators = {1, 2}
    MaxBlock = 4
    Schedulers = {"c1", "c2"}
    SchedulerFunds = 2
    GasLimits = {1}
    Delays = {1}
    Intervals = {0, 1, 6}
    RunLimits = {2}
    TaskMaxGasLimit = 1
    TaskMaxPerBlock = 1
    TaskMaxPerContract = 2
    TaskMaxHorizon = 2
    BlockGasLimit = 1
    SelfCancel = FALSE
    Uint64Max = 6
    LastTaskBlock = 4
    MaxTasks = 2
    LeaseAddrs = {"a1", "a2"}
    OwnerFunds = 7
    LeaseBlocks = {1, 3}
    ByteGas = 5
    ReferenceBlocks = 3
    RefundNum = 4
    RefundDen = 5
    EpochLength = 2
    GraceBlocks = 2
    Budget = 1
    LastLeaseBlock = 9
    LastEpoch = 13
    MaxEntries = 4
    Agents = {"p", "q"}
    Contract = "contract"
    Receipts = {"r"}
    Purposes = {0, 1}
    Amounts = {1}
    Modes = {"refund_public", "uno_transfer", "escrow_release_public"}
    ContractFunds = 1
    CatchesErrors = FALSE
    MaxCalls = 2
    MaxMoved = 2
    MaxTime = 2
    Callers = {"a", "b"}
    TxHashes = {"t"}
    TTLs = {0, 1, 2}
    MaxTTLBlocks = 1
    MaxRecords = 2
    LastBlock = 3
    Accounts = {"a", "b"}
    NoOne = "none"
    Limits = {1}
    Tiers = {1}
    Keys = {"k"}
    RecoveryTimelockBlocks = 2
    MaxHeight = 3
    Contracts = {"c1", "c2"}
    Plain = "eoa"
    NotCallable = {"c2"}
    Unpublished = {}
    Entry = "c1"
    Endowment = 1
    Gas = 4
    Word = 64
    GasFraction = 4
    SStoreGas = 1
    TransferGas = 1
    DeployGas = 1
    MaxCallDepth = 3
    Explicit = {1}
INVARIANTS
    RegistryCoherent
    StakeCounts
    
    LeasesSound
    
    RecordsDistinct
    NoInheritedRecovery
    FramesSound
PROPERTIES
    ExpiredStaysOut
    LeaseSteps
    FinalizedIsFinal
    WalletGuarded
    ReadonlyNeverWrites
    Terminates
