SPECIFICATION CreationSpec
CONSTANTS
    Nil = Nil
    Users <- TwoUsers
    Contract <- Code
    Wallet <- AccountContract
    Expired <- LeaseOver
    Registry <- Locker
    Coinbase <- Author
    SystemAction <- System
    SlashIndicator <- Slash
    Msgs <- AllMessages
    Outcomes <- CodeOutcomes
    Scheduled = {1}
    GasLimit = 12
    Funds = 20
    TxGas = 1
    TxGasContractCreation = 2
    SysActionGas = 2
    ValidationGasCap = 2
    CodeGas = 2
    Deposit = 3
    MaxNonce = 1
    MaxTxs = 2
    MaxBlocks = 1
PROPERTY SenderNonceAdvances
