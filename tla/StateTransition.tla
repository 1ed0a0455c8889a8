--------------------------- MODULE StateTransition ---------------------------
(***************************************************************************)
(* The state transition of one message (core/state_transition.go) and the  *)
(* block it is part of (core/state_processor.go): who pays the gas, what a *)
(* failing execution leaves behind, which nonces advance and how the block *)
(* gas pool follows.                                                       *)
(*                                                                         *)
(* A message that is refused (TransitionDb returns an error) invalidates   *)
(* the block: the caller throws the state away. A message that fails       *)
(* (ExecutionResult.Err) stays in the block. What contract code does is    *)
(* chosen from Outcomes. The gas refund counter is left out: no code adds  *)
(* to it. Cancelled contexts belong to simulated calls and are left out.   *)
(***************************************************************************)
EXTENDS Integers, Sequences, FiniteSets, Functions

CONSTANTS
    Users,          \* accounts that sign
    Contract,       \* an account with code
    Wallet,         \* an account contract: code and the validate marker
    Expired,        \* a contract whose lease is over or that is buried
    Registry,       \* holds what system actions and leases lock
    Coinbase,
    SystemAction, SlashIndicator, Nil,
    Msgs,           \* the messages that may be tried
    Outcomes,       \* what a contract's code may do
    Scheduled,      \* gas the scheduled tasks of a block may take
    GasLimit,       \* of a block
    Funds,          \* balance of the users at first
    TxGas, TxGasContractCreation, SysActionGas, ValidationGasCap,
    CodeGas, Deposit,
    MaxNonce, MaxTxs, MaxBlocks

VARIABLES
    state,      \* the state database
    base,       \* the state at the start of the block
    gp,         \* GasPool of the block
    block       \* its number, the gas of its tasks, its gas and its receipts

messageVars == <<state, base, gp, block>>

CreateAddress(from, nonce) == Append(from, nonce)

Created == {CreateAddress(u, n) : u \in Users, n \in 0..MaxNonce}
Addresses ==
    Users \cup Created \cup
    {Contract, Wallet, Expired, Registry, Coinbase, SystemAction, SlashIndicator}

(* Prices: a signed transaction has the price of params.TxPrice for its    *)
(* price and its fee cap alike. The address of a new contract is a hash    *)
(* that is no user's.                                                      *)
ASSUME MessageAssumption ==
    /\ IsFiniteSet(Addresses) /\ Nil \notin Addresses /\ Created \cap Users = {}
    /\ SystemAction # SlashIndicator
    /\ Msgs \subseteq
          [from : Users, to : Addresses \cup {Nil}, value : Nat, gas : Nat, price : Nat,
           feeCap : Nat, nonce : 0..MaxNonce, sponsor : Users \cup {Nil}, sponsorNonce : Nat,
           expired : BOOLEAN, policy : BOOLEAN,
           pkg : {"none", "raw", "invalid", "plain", "ctor"},
           action : {"none", "undecodable", "lease", "locks", "fails"}]
    /\ \A m \in Msgs : m.price <= m.feeCap
    /\ Outcomes # {}
    /\ Outcomes \subseteq
          [err : {"none", "reverted", "fault"}, used : Nat, pays : Nat, truthy : BOOLEAN]
    /\ GasLimit \in Nat /\ Scheduled \subseteq 0..GasLimit
    /\ {Funds, TxGas, TxGasContractCreation, SysActionGas, ValidationGasCap, CodeGas, Deposit,
        MaxNonce} \subseteq Nat

-----------------------------------------------------------------------------
(* The state database.                                                     *)
CanTransfer(s, a, v) == s.balance[a] >= v

SubBalance(s, a, v) == [s EXCEPT !.balance[a] = @ - v]
AddBalance(s, a, v) == [s EXCEPT !.balance[a] = @ + v]
Transfer(s, a, b, v) == AddBalance(SubBalance(s, a, v), b, v)

SetNonce(s, a, n) == [s EXCEPT !.nonce[a] = n]

(* A store of the contract and the value it hands on, if it can.           *)
Effect(s, a, to, o) ==
    LET w == [s EXCEPT !.slot[a] = 1 - @]
    IN  IF CanTransfer(w, a, o.pays) THEN Transfer(w, a, to, o.pays) ELSE w

-----------------------------------------------------------------------------
(* t is the StateTransition object of message m: the state it works on,    *)
(* the gas left, the gas bought, the gas of the validation, the error of   *)
(* the execution and whether the message is refused.                       *)
NewStateTransition(s) ==
    [state |-> s, gas |-> 0, initialGas |-> 0, validationGas |-> 0,
     vmerr |-> FALSE, refused |-> FALSE]

Refuse(t) == [t EXCEPT !.refused = TRUE]
Fail(t) == [t EXCEPT !.vmerr = TRUE]

gasPayer(m) == IF m.sponsor # Nil THEN m.sponsor ELSE m.from

buyGas(t, m) ==
    LET check == m.gas * m.feeCap + (IF m.sponsor # Nil THEN 0 ELSE m.value)
    IN  IF t.state.balance[gasPayer(m)] < check
        THEN Refuse(t)
        ELSE [t EXCEPT !.gas = m.gas, !.initialGas = m.gas,
                       !.state = SubBalance(@, gasPayer(m), m.gas * m.price)]

(* The nonce of the sender, the nonce and the expiry of the sponsor, and   *)
(* that the sender has no code.                                            *)
preCheck(t, m) ==
    IF \/ t.state.nonce[m.from] # m.nonce
       \/ m.sponsor # Nil /\ (t.state.sponsorNonce[m.sponsor] # m.sponsorNonce \/ m.expired)
       \/ t.state.code[m.from]
    THEN Refuse(t) ELSE buyGas(t, m)

(* rejectTombstonedAddress and ensureLeaseCallable.                        *)
targetCheck(t, m) == IF m.to = Expired THEN Refuse(t) ELSE t

(* The validate call of an account contract runs on a gas cap of its own.  *)
validateAccountContract(t, m, v) ==
    IF \/ t.state.balance[gasPayer(m)] < ValidationGasCap * m.price
       \/ v.err # "none" \/ v.used > ValidationGasCap
       \/ ~v.truthy
    THEN Refuse(t)
    ELSE [t EXCEPT !.state = SubBalance(Effect(@, m.to, m.to, v), gasPayer(m), v.used * m.price),
                   !.validationGas = v.used]

IntrinsicGas(m) == IF m.to = Nil THEN TxGasContractCreation ELSE TxGas

(* Mutant: clause 6 is not checked.                                        *)
useIntrinsicGasOnly(t, m) ==
    IF t.gas < IntrinsicGas(m) THEN Refuse(t) ELSE [t EXCEPT !.gas = @ - IntrinsicGas(m)]

(* The intrinsic gas, and that the sender has the value (clause 6).        *)
useIntrinsicGas(t, m) ==
    IF t.gas < IntrinsicGas(m) \/ ~CanTransfer(t.state, m.from, m.value)
    THEN Refuse(t) ELSE [t EXCEPT !.gas = @ - IntrinsicGas(m)]

(* The sponsor's nonce advances; the sender's policy wallet has its say.   *)
spendSponsorNonce(t, m) ==
    IF m.sponsor = Nil THEN t
    ELSE IF ~m.policy THEN Refuse(t)
    ELSE [t EXCEPT !.state.sponsorNonce[m.sponsor] = @ + 1]

-----------------------------------------------------------------------------
(* LVM.Call: the state comes back on every error; an error other than a    *)
(* revert takes all the gas.                                               *)
Call(t, m, o) ==
    LET sent == Transfer(t.state, m.from, m.to, m.value)
    IN  IF o.err = "reverted"
        THEN Fail([t EXCEPT !.gas = @ - (IF o.used > @ THEN @ ELSE o.used)])
        ELSE IF o.err # "none" \/ o.used > t.gas
        THEN Fail([t EXCEPT !.gas = 0])
        ELSE [t EXCEPT !.state = Effect(sent, m.to, m.from, o), !.gas = @ - o.used]

(* The constructor: whatever its error, the state of before the creation   *)
(* comes back and the gas that was used is gone.                           *)
constructed(t, made, m, o, left) ==
    IF o.err # "none" THEN Fail([t EXCEPT !.gas = left - (IF o.used > left THEN left ELSE o.used)])
    ELSE IF o.used > left THEN Fail([t EXCEPT !.gas = 0])
    ELSE [t EXCEPT !.state = Effect(made, CreateAddress(m.from, m.nonce), m.from, o),
                   !.gas = left - o.used]

(* The new account, its code, and the nonce of its creator.                *)
createdState(s, m, a) ==
    SetNonce([SetNonce(Transfer(s, m.from, a, m.value), a, 1) EXCEPT !.code[a] = TRUE],
             m.from, m.nonce + 1)

createPackage(t, m, o) ==
    LET a == CreateAddress(m.from, m.nonce)
    IN  CASE m.pkg = "raw" -> Fail([t EXCEPT !.gas = 0])
          [] m.pkg # "raw" /\ (t.state.code[a] \/ t.state.nonce[a] # 0 \/ m.pkg = "invalid") ->
             Fail(t)
          [] OTHER ->
             IF t.gas < CodeGas THEN Fail([t EXCEPT !.gas = 0])
             ELSE IF ~CanTransfer(t.state, m.from, m.value)
             THEN Fail([t EXCEPT !.gas = @ - CodeGas])
             ELSE IF m.pkg = "plain"
             THEN [t EXCEPT !.state = createdState(@, m, a), !.gas = @ - CodeGas]
             ELSE constructed(t, createdState(t.state, m, a), m, o, t.gas - CodeGas)

(* Mutant: the state is not put back.                                      *)
RevertNothing(t, r) == r

(* Back to the snapshot of the state if the execution failed.              *)
RevertToSnapshot(t, r) == IF r.vmerr THEN [r EXCEPT !.state = t.state] ELSE r

executeLeaseDeploy(t, m, o) ==
    IF t.state.balance[m.from] < Deposit THEN Fail(t)
    ELSE createPackage([t EXCEPT !.state = Transfer(@, m.from, Registry, Deposit)], m, o)

(* sysaction.Execute and slashindicator.Execute: a handler writes to its   *)
(* registry and may lock the value; it may still fail after that.          *)
executeHandler(t, m) ==
    IF t.gas < SysActionGas THEN Fail([t EXCEPT !.gas = 0])
    ELSE [t EXCEPT !.state = [Transfer(t.state, m.from, Registry, m.value) EXCEPT !.slot[Registry] = 1 - @],
                   !.gas = t.gas - SysActionGas, !.vmerr = m.action = "fails"]

executeSystemAction(t, m, o) ==
    RevertToSnapshot(t,
        CASE m.action = "undecodable" ->
             Fail([t EXCEPT !.gas = IF @ < SysActionGas THEN 0 ELSE @ - SysActionGas])
          [] m.action = "lease" -> executeLeaseDeploy(t, m, o)
          [] OTHER -> executeHandler(t, m))

(* Mutant: the nonce of the sender is left to the call.                    *)
executeUncounted(t, m, o) ==
    CASE m.to = Nil -> createPackage(t, m, o)
      [] m.to = SystemAction -> executeSystemAction(t, m, o)
      [] m.to = SlashIndicator -> RevertToSnapshot(t, executeHandler(t, m))
      [] OTHER -> IF t.state.code[m.to] THEN Call(t, m, o)
                  ELSE [t EXCEPT !.state = Transfer(@, m.from, m.to, m.value)]

(* Every message but a creation advances the nonce before it executes; a   *)
(* creation leaves that to createPackage.                                  *)
execute(t, m, o) ==
    IF m.to = Nil THEN createPackage(t, m, o)
    ELSE LET u == [t EXCEPT !.state = SetNonce(@, m.from, m.nonce + 1)]
         IN  CASE m.to = SystemAction -> executeSystemAction(u, m, o)
               [] m.to = SlashIndicator -> RevertToSnapshot(u, executeHandler(u, m))
               [] OTHER -> IF u.state.code[m.to] THEN Call(u, m, o)
                           ELSE [u EXCEPT !.state = Transfer(@, m.from, m.to, m.value)]

gasUsed(t) == t.initialGas - t.gas + t.validationGas

(* Mutant: the gas of the validation is not part of the fee.               *)
payFeeUnvalidated(t, m) ==
    [t EXCEPT !.state = AddBalance(@, Coinbase, (t.initialGas - t.gas) * m.price)]

payFee(t, m) == [t EXCEPT !.state = AddBalance(@, Coinbase, gasUsed(t) * m.price)]

refundGas(t, m) == [t EXCEPT !.state = AddBalance(@, gasPayer(m), t.gas * m.price)]

(* The early returns of TransitionDb: nothing follows a refusal.           *)
finish(t, m) == IF t.refused THEN t ELSE payFee(refundGas(t, m), m)

run(t, m, o) == IF t.refused THEN t ELSE execute(t, m, o)

sponsored(t, m) == IF t.refused THEN t ELSE spendSponsorNonce(t, m)

paid(t, m) == IF t.refused THEN t ELSE useIntrinsicGas(t, m)

validated(t, m, v) ==
    IF t.refused \/ m.to # Wallet THEN t ELSE validateAccountContract(t, m, v)

TransitionDb(s, m, v, o) ==
    finish(run(sponsored(paid(validated(
        targetCheck(preCheck(NewStateTransition(s), m), m), m, v), m), m), m, o), m)

-----------------------------------------------------------------------------
(* Process: the scheduled tasks take their gas first.                      *)
Begin(n, g) == [number |-> n, scheduled |-> g, usedGas |-> g, receipts |-> <<>>]

MessageInit ==
    /\ state = [balance |-> [a \in Addresses |-> IF a \in Users THEN Funds ELSE 0],
                nonce |-> [a \in Addresses |-> 0],
                sponsorNonce |-> [u \in Users |-> 0],
                code |-> [a \in Addresses |-> a \in {Contract, Wallet, Expired}],
                slot |-> [a \in Addresses |-> 0]]
    /\ base = state
    /\ \E g \in Scheduled : gp = GasLimit - g /\ block = Begin(1, g)

NextBlock ==
    /\ block.number < MaxBlocks /\ block.receipts # <<>>
    /\ base' = state
    /\ \E g \in Scheduled : gp' = GasLimit - g /\ block' = Begin(block.number + 1, g)
    /\ UNCHANGED state

(* Mutant: the gas that was used is not held against the block.            *)
fitsDeclared(t, m) == m.gas <= gp

(* ExecuteTransactions: the declared gas has to fit the rest of the block, *)
(* the used gas is taken from it.                                          *)
fits(t, m) == m.gas <= gp /\ gasUsed(t) <= gp

Receipt(t, m) ==
    [msg |-> m, failed |-> t.vmerr, gasUsed |-> gasUsed(t), validationGas |-> t.validationGas,
     cumulative |-> block.usedGas + gasUsed(t)]

Include(m, t) ==
    /\ ~t.refused /\ fits(t, m)
    /\ state' = t.state
    /\ gp' = gp - gasUsed(t)
    /\ block' = [block EXCEPT !.usedGas = @ + gasUsed(t), !.receipts = Append(@, Receipt(t, m))]
    /\ UNCHANGED base

(* A refused message, or one that does not fit, takes the block with it.   *)
Discard(m, t) ==
    /\ t.refused \/ ~fits(t, m)
    /\ state' = base
    /\ block' = Begin(block.number, block.scheduled)
    /\ gp' = GasLimit - block.scheduled
    /\ UNCHANGED base

Any == CHOOSE o \in Outcomes : TRUE
Executions(m) == IF m.to \in {Contract, Wallet} \/ m.pkg = "ctor" THEN Outcomes ELSE {Any}
Validations(m) == IF m.to = Wallet THEN Outcomes ELSE {Any}

ApplyMessage(m) ==
    \E v \in Validations(m), o \in Executions(m) : \E t \in {TransitionDb(state, m, v, o)} :
        Include(m, t) \/ Discard(m, t)

(* The bounds of the model are used up.                                    *)
Exhausted ==
    /\ block.number = MaxBlocks /\ Len(block.receipts) = MaxTxs
    /\ UNCHANGED messageVars

MessageNext ==
    \/ NextBlock
    \/ Exhausted
    \/ Len(block.receipts) < MaxTxs /\ \E m \in Msgs : ApplyMessage(m)

MessageSpec == MessageInit /\ [][MessageNext]_messageVars

-----------------------------------------------------------------------------
Included == Len(block'.receipts) = Len(block.receipts) + 1
Last == block'.receipts[Len(block'.receipts)]
Total(s) == SumFunction(s.balance)

(* No value appears or disappears: what a message moves, the gas it buys,  *)
(* the gas of its validation, what it gets back and the fee of the block's *)
(* author add up, whichever of the early exits of TransitionDb is taken.   *)
SupplyConserved == Included => Total(state') = Total(state)

(* SubBalance does not look at the balance: the checks of buyGas, of       *)
(* validateAccountContract, of clause 6 and of the lease deposit together  *)
(* keep every account from going below zero.                               *)
NeverOverdrawn == \A a \in Addresses : state.balance[a] >= 0

(* A failed message leaves nothing but its fee, the nonces and what its    *)
(* validation stored.                                                      *)
FailurePaysOnly ==
    (Included /\ Last.failed) =>
        LET payer == gasPayer(Last.msg)
            fee == Last.gasUsed * Last.msg.price
        IN  /\ state'.balance =
                   [state.balance EXCEPT ![payer] = @ - fee, ![Coinbase] = @ + fee]
            /\ state'.code = state.code
            /\ \A a \in Addresses \ {Wallet} : state'.slot[a] = state.slot[a]

(* A message that is not a creation advances its sender's nonce by one,    *)
(* whether it succeeds or fails, and its sponsor's nonce with it; no other *)
(* nonce moves but that of an account just created.                        *)
NoncesAdvance ==
    (Included /\ Last.msg.to # Nil) =>
        /\ state'.nonce[Last.msg.from] = state.nonce[Last.msg.from] + 1
        /\ \A u \in Users : state'.sponsorNonce[u] =
               state.sponsorNonce[u] + (IF u = Last.msg.sponsor THEN 1 ELSE 0)
        /\ \A u \in Users \ {Last.msg.from} : state'.nonce[u] = state.nonce[u]

(* The gas of a block: what the pool gave is the gas of the tasks and of  *)
(* the receipts, each of which counts it on from the one before, and it    *)
(* never exceeds the limit of the block.                                   *)
BlockGasExact ==
    LET rs == block.receipts
        before(i) == IF i = 1 THEN block.scheduled ELSE rs[i - 1].cumulative
    IN  /\ block.usedGas = GasLimit - gp
        /\ block.usedGas <= GasLimit
        /\ block.usedGas = before(Len(rs) + 1)
        /\ \A i \in DOMAIN rs :
              /\ rs[i].cumulative = before(i) + rs[i].gasUsed
              /\ rs[i].gasUsed - rs[i].validationGas \in IntrinsicGas(rs[i].msg)..rs[i].msg.gas

(* Messages leave balances that cover everything, a block whose gas adds   *)
(* up, the value there was, nonces that advanced once, and after a failure *)
(* nothing but the fee.                                                    *)
MessagesExact ==
    /\ [](NeverOverdrawn /\ BlockGasExact)
    /\ [][SupplyConserved /\ FailurePaysOnly /\ NoncesAdvance]_messageVars

(* docs/Security-audit.md:27 says of the nonce of a creation's sender that *)
(* it is incremented "for all tx types before calling LVM.Create": every   *)
(* message of a block would advance its sender's nonce.                    *)
CreationAdvances ==
    Included => state'.nonce[Last.msg.from] = state.nonce[Last.msg.from] + 1
=============================================================================
