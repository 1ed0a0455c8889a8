SPECIFICATION Spec
CONSTANTS
    a = a
    b = b
    g = g
    h1 = h1
    h2 = h2
    h3 = h3
    h4 = h4
    NoBlock = NoBlock
    CheckpointInterval = 1
    CheckpointFinalityBlock = 1
    MaxPendingPerCheckpoint = 2
    Nodes = {a, b}
    Faulty = {}
    ValidatorSets <- OnlyAB
    GenesisSet = {a, b}
    Epoch = 2
    Hashes = {g, h1, h2, h3}
    Genesis = g
    NoHash = NoBlock
    Difficulties = {1}
    VoteSigLen = 96
    MaxHeight = 2
SYMMETRY Interchangeable
PROPERTIES
    SealingVotes
