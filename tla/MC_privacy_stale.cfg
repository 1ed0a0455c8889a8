SPECIFICATION StaleSpec
CONSTANTS
    LNil = LNil
    a = a
    b = b
    d = d
    cb = cb
    k = k
    none = none
    create = create
    system = system
    slash = slash
    lvmserial = lvmserial
    validators = validators
    EOAs = {a, b, d, cb}
    Senders = {a, b}
    Recipients = {b, cb}
    Sponsors = {d, cb}
    Coinbases = {cb}
    Contract = k
    Payee = a
    NoSponsor = none
    Create = create
    SystemAction = system
    SlashIndicator = slash
    LVMSerial = lvmserial
    ValidatorRegistry = validators
    Funds <- Balances
    Amounts = {1}
    TxGas = 2
    UsedGas = 1
    TxsPerBlock = 3
    BlockGas = 3
    CallsFresh = FALSE
    WordKeys = {"w"}
    StringKeys = {"s"}
    ArrayKeys = {"a"}
    StructKeys = {"t"}
    FieldList <- Fields
    Values = {1, 2}
    Strings <- Texts
    HashLen = 2
    MaxLen = 2
    Owners = {"a", "b"}
    Coinbase = "coinbase"
    UNOBaseFee = 1
    Public <- PublicFunds
    Private <- PrivateFunds
    Txs <- PrivacyTxs
    MaxTxs = 3
INVARIANT MixedParity
