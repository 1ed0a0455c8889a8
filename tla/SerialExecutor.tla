--------------------------- MODULE SerialExecutor ---------------------------
(***************************************************************************)
(* Execution of the public transactions of a block one after the other     *)
(* (executeTransactionsSerial), on a state of balances, nonces, sponsor    *)
(* nonces, code and contract storage.                                      *)
(*                                                                         *)
(* A contract is modelled by the most it can observe: it stores all        *)
(* balances in its slot and pays one unit to Payee.                        *)
(***************************************************************************)
EXTENDS Integers, Sequences, FiniteSets

CONSTANTS
    EOAs,            \* externally owned accounts
    Senders, Recipients, Sponsors, Coinbases,   \* which of them take which part
    Contract,        \* a contract that exists when the block starts
    Payee,           \* whom contracts pay
    NoSponsor,
    Create,          \* stands for the missing destination of a creation
    SystemAction, SlashIndicator, LVMSerial, ValidatorRegistry,  \* fixed addresses
    Funds,           \* balances before the block
    Amounts,         \* values of transactions
    TxGas,           \* gas limit of a transaction, at a price of 1
    UsedGas,         \* what it uses
    TxsPerBlock,
    BlockGas,        \* gas limit of the block
    CallsFresh       \* may a block call a contract that it creates?

CreateAddress(from, nonce) == <<from, nonce>>
Fresh == {CreateAddress(s, n) : s \in Senders, n \in 0 .. TxsPerBlock - 1}
Codes == {Contract} \cup Fresh
Accounts == EOAs \cup Codes
Natives == {SystemAction, SlashIndicator}
Stored == Codes \cup Natives

Destinations ==
    Recipients \cup {Contract, Create} \cup Natives \cup (IF CallsFresh THEN Fresh ELSE {})

ASSUME ExecutorAssumption ==
    /\ Senders \cup Recipients \cup Sponsors \cup Coinbases \cup {Payee} \subseteq EOAs
    /\ NoSponsor \notin EOAs
    /\ {Contract, Create, LVMSerial, ValidatorRegistry} \cap EOAs = {}
    /\ Natives \cap Accounts = {}
    /\ Fresh \cap (EOAs \cup {Contract}) = {}
    /\ Create \notin Accounts \cup Natives
    /\ Funds \in [Accounts -> Nat]
    /\ Amounts \subseteq Nat
    /\ TxGas \in Nat /\ UsedGas \in 0 .. TxGas
    /\ TxsPerBlock \in Nat \ {0}
    /\ BlockGas \in Nat
    /\ CallsFresh \in BOOLEAN

VARIABLES
    coinbase,  \* of the block
    msgs,      \* messages of the block
    statedb,
    merged,    \* number of transactions executed
    gp,        \* block gas pool
    failed     \* was the block rejected?

serialVars == <<coinbase, msgs, statedb, merged, gp, failed>>

-----------------------------------------------------------------------------
gasPayer(msg) == IF msg.sponsor = NoSponsor THEN msg.from ELSE msg.sponsor

(* Native handlers are called without a value.                             *)
txValue(msg) == IF msg.to \in Natives THEN 0 ELSE msg.value

target(msg) == IF msg.to = Create THEN CreateAddress(msg.from, msg.nonce) ELSE msg.to

(* preCheck, buyGas and the check before the transfer: an error of any     *)
(* rejects the block.                                                      *)
CanApply(msg, s) ==
    LET p == gasPayer(msg)
    IN  /\ s.nonce[msg.from] = msg.nonce
        /\ msg.sponsor # NoSponsor => s.sponsored[msg.sponsor] = msg.sponsorNonce
        /\ s.bal[p] >= TxGas + (IF msg.sponsor = NoSponsor THEN txValue(msg) ELSE 0)
        /\ s.bal[msg.from] >= txValue(msg)

Pay(bal, who, n) == [bal EXCEPT ![who] = @ + n]

buyGas(msg, s) ==
    [s EXCEPT !.bal = Pay(@, gasPayer(msg), -TxGas),
              !.nonce = Pay(@, msg.from, 1),
              !.sponsored = IF msg.sponsor = NoSponsor THEN @ ELSE Pay(@, msg.sponsor, 1)]

Transfer(msg, s) ==
    [s EXCEPT !.bal = IF msg.to \in Natives THEN @
                      ELSE Pay(Pay(@, msg.from, -msg.value), target(msg), msg.value),
              !.code = IF msg.to = Create THEN @ \cup {target(msg)} ELSE @]

RunsCode(msg, s) == msg.to = Create \/ msg.to \in s.code \cup Natives

(* A contract stores what it sees and pays.                                *)
RunCode(s, self) ==
    [s EXCEPT !.slot = [@ EXCEPT ![self] = <<s.bal>>],
              !.bal = IF self \in Accounts /\ s.bal[self] > 0
                      THEN Pay(Pay(@, self, -1), Payee, 1) ELSE @]

(* The gas that is left goes back to the payer, the rest to the coinbase.  *)
Settle(msg, s, cb) ==
    [s EXCEPT !.bal = Pay(Pay(@, gasPayer(msg), TxGas - UsedGas), cb, UsedGas)]

(* The state after a message that can be applied.                          *)
ApplyMessage(msg, s, cb) ==
    LET paid == Transfer(msg, buyGas(msg, s))
    IN  Settle(msg, IF RunsCode(msg, s) THEN RunCode(paid, target(msg)) ELSE paid, cb)

-----------------------------------------------------------------------------
Genesis ==
    [bal       |-> Funds,
     nonce     |-> [a \in EOAs |-> 0],
     sponsored |-> [a \in EOAs |-> 0],
     code      |-> {Contract},
     slot      |-> [a \in Stored |-> <<>>]]

Requests ==
    {m \in [from : Senders, to : Destinations, sponsor : Sponsors \cup {NoSponsor}, value : Amounts] :
        m.from # m.sponsor}

(* The message of a request that follows the others in the block: nonces   *)
(* as the pool hands them out.                                             *)
Numbered(ms, r) ==
    [from |-> r.from, to |-> r.to, sponsor |-> r.sponsor, value |-> r.value,
     nonce |-> Cardinality({i \in DOMAIN ms : ms[i].from = r.from}),
     sponsorNonce |-> Cardinality({i \in DOMAIN ms : ms[i].sponsor = r.sponsor})]

SerialInit ==
    /\ coinbase \in Coinbases
    /\ msgs = <<>>
    /\ statedb = Genesis
    /\ merged = 0
    /\ gp = BlockGas
    /\ failed = FALSE

(* The block that is to be executed is filled.                             *)
Include ==
    /\ Len(msgs) < TxsPerBlock
    /\ \E r \in Requests : msgs' = Append(msgs, Numbered(msgs, r))
    /\ UNCHANGED <<coinbase, statedb, merged, gp, failed>>

Filled == Len(msgs) = TxsPerBlock

OutOfGas == TxGas > gp

(* publicExecutionResult of the next transaction.                          *)
Execute ==
    LET msg == msgs[merged + 1]
    IN  /\ ~failed
        /\ Filled /\ merged < Len(msgs)
        /\ \/ /\ ~CanApply(msg, statedb) \/ OutOfGas
              /\ failed' = TRUE
              /\ UNCHANGED <<statedb, merged, gp>>
           \/ /\ CanApply(msg, statedb) /\ ~OutOfGas
              /\ gp' = gp - UsedGas
              /\ statedb' = ApplyMessage(msg, statedb, coinbase)
              /\ merged' = merged + 1
              /\ UNCHANGED failed
        /\ UNCHANGED <<coinbase, msgs>>

SerialSpec == SerialInit /\ [][Include \/ Execute]_serialVars
=============================================================================
