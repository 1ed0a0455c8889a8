SPECIFICATION ConsensusSpec
CONSTANTS
    Addresses = {1, 2, 3}
    GenesisValidators = {1, 2, 3}
    Registries <- OneLeaves
    Online = {1, 2}
    Faulty = {3}
    PeriodMs = 2
    TurnLength = 2
    Epoch = 2
    RecentSignerWindow = 0
    MaxBlocks = 4
    MaxLag = 2
    Nil = Nil
    CheckpointInterval = 1
    CheckpointFinalityBlock = 1
    MaxPendingPerCheckpoint = 1
    Signers = {"h", "f"}
    Honest = {"h"}
    Numbers = {1}
    Hashes = {1, 2}
    Threads = {"t"}
    RetentionDays = 2
    MaxHead = 0
    MaxDay = 0
    MaxConflicts = 1
    None = None
INVARIANTS
    VerifiedApplies
    SealedVerifies
    QuotaKept
    
    
PROPERTIES
    ChainGrows
    HeadServed
    FillTakesAll
