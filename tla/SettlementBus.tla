---------------------------- MODULE SettlementBus ----------------------------
(***************************************************************************)
(* The settlement bus of the contract runtime (core/vm/lvm.go, package     *)
(* settlement) and the escrow primitives: one contract opens receipts,     *)
(* settles them by moving value, and finalizes them.                       *)
(*                                                                         *)
(* A transaction runs any sequence of host calls of the contract on the    *)
(* working state st and ends by keeping it or by going back to snap, the   *)
(* state at its begin.  A host call that fails raises a Lua error; the     *)
(* contract may catch it with pcall (CatchesErrors) and go on, with        *)
(* whatever the call had already written.                                  *)
(***************************************************************************)
EXTENDS Integers, FiniteSets, Functions

CONSTANTS
    Agents,         \* accounts that are paid or have escrow
    Contract,       \* the account of the contract
    Receipts,       \* receipt references
    Purposes,       \* purposes of an escrow slot, 0 the default
    Amounts,        \* amounts of a settlement or an escrow
    Modes,          \* admissible settlement modes
    ContractFunds,
    CatchesErrors,  \* the contract wraps its calls in pcall
    MaxCalls,       \* bound on the host calls of a transaction
    MaxMoved,       \* bound on the total amount settled
    MaxTime         \* bound on the block time

ASSUME BusAssumption ==
    /\ IsFiniteSet(Agents) /\ IsFiniteSet(Purposes)
    /\ 0 \in Purposes
    /\ Amounts \subseteq Nat
    /\ ContractFunds \in Nat
    /\ CatchesErrors \in BOOLEAN

NoRef == <<>>

VARIABLES
    st,     \* the working state of the running transaction
    snap,   \* the state it started from
    calls,  \* host calls it made, -1 between two transactions
    time    \* block time

busVars == <<st, snap, calls, time>>

PublicModes == {"public_transfer", "refund_public"}
UnoModes == {"uno_transfer", "refund_uno", "escrow_release_uno"}
RefundModes == {"refund_public", "refund_uno"}
EscrowModes == {"escrow_release_public", "escrow_release_uno"}

(* A settlement reference is a hash of what identifies the effect.         *)
mintSettlementRef(r, mode, recipient, amount) == <<r, mode, recipient, amount, time>>

-----------------------------------------------------------------------------
(* RuntimeReceipt and SettlementEffect in the storage of the registry.     *)
NewReceipt == [status |-> "open", settlementRef |-> NoRef, openedAt |-> time, finalizedAt |-> 0]

WriteReceipt(receipts, r, rec) ==
    [x \in DOMAIN receipts \cup {r} |-> IF x = r THEN rec ELSE receipts[x]]

ReceiptExists(s, r) == r \in DOMAIN s.receipts

ReceiptOpen(s, r) == ReceiptExists(s, r) /\ s.receipts[r].status = "open"

ContractCanTransfer(s, amount) == s.balance[Contract] >= amount

Credit(f, k, amount) == [f EXCEPT ![k] = @ + amount]
Debit(f, k, amount) == [f EXCEPT ![k] = @ - amount]

(* Transfer, AddBalance, and the release of an escrow slot.                *)
Paid(s, to, amount) ==
    [s EXCEPT !.balance = Credit(Debit(@, Contract, amount), to, amount), !.moved = @ + amount]

(* Mutant: the escrow slot keeps what was released.                        *)
ReleaseKeepsSlot(s, slot, to, amount) == [s EXCEPT !.balance = Credit(@, to, amount)]

Released(s, slot, to, amount) ==
    [s EXCEPT !.escrow = Debit(@, slot, amount), !.balance = Credit(@, to, amount)]

Escrowed(s, slot, amount) ==
    [s EXCEPT !.balance = Debit(@, Contract, amount), !.escrow = Credit(@, slot, amount)]

(* The deposit is added to the encrypted balance, and nothing is taken     *)
(* from the contract.                                                      *)
Deposit(f, k, amount) ==
    [f EXCEPT ![k] = [total |-> @.total + amount, version |-> @.version + 1]]

applyUnoTransfer(s, to, amount) ==
    [s EXCEPT !.uno = Deposit(@, to, amount), !.moved = @ + amount]

(* What a mode moves, and whether it can.                                  *)
ModeAllowed(s, mode, recipient, purpose, amount) ==
    /\ mode \in PublicModes => ContractCanTransfer(s, amount)
    /\ mode = "escrow_release_public" => s.escrow[<<recipient, purpose>>] >= amount

Moved(s, mode, recipient, purpose, amount) ==
    IF mode \in PublicModes THEN Paid(s, recipient, amount)
    ELSE IF mode \in UnoModes THEN applyUnoTransfer(s, recipient, amount)
    ELSE [Released(s, <<recipient, purpose>>, recipient, amount) EXCEPT !.moved = @ + amount]

(* Mutant: the reference is not written when the receipt stays open.       *)
RefOnlyWhenFinal(rec, ref, auto) ==
    [rec EXCEPT !.status = IF auto THEN "success" ELSE @,
                !.finalizedAt = IF auto THEN time ELSE @]

(* The receipt of a settlement, finalized at once if the call says so.     *)
Settled(rec, ref, auto) ==
    [rec EXCEPT !.settlementRef = ref,
                !.status = IF auto THEN "success" ELSE @,
                !.finalizedAt = IF auto THEN time ELSE @]

Recorded(s, r, ref, auto) ==
    [s EXCEPT !.effects = @ \cup {ref},
              !.receipts = WriteReceipt(@, r, Settled(@[r], ref, auto))]

-----------------------------------------------------------------------------
(* Mutant: an error ends the transaction without going back.               *)
KeepsPartial(partial) == st' = partial /\ calls' = -1

(* A failing host call raises: the frame unwinds and the transaction goes  *)
(* back to snap, or the contract catches the error and keeps `partial`.    *)
RaiseError(partial) ==
    \/ st' = snap /\ calls' = -1
    \/ CatchesErrors /\ st' = partial /\ calls' = calls + 1

HostCall ==
    /\ calls \in 0 .. MaxCalls - 1
    /\ UNCHANGED <<snap, time>>

ReturnState(s) == st' = s /\ calls' = calls + 1

receipt_open(r) ==
    /\ HostCall
    /\ IF ReceiptExists(st, r) THEN RaiseError(st)
       ELSE ReturnState([st EXCEPT !.receipts = WriteReceipt(@, r, NewReceipt)])

(* The value moves first; a recorded effect is looked for afterwards.      *)
executeRuntimeSettlement(mode, recipient, purpose, amount, r, auto) ==
    LET ref == mintSettlementRef(r, mode, recipient, amount)
        moved == Moved(st, mode, recipient, purpose, amount)
    IN  /\ HostCall
        /\ st.moved + amount <= MaxMoved
        /\ IF \/ ~ReceiptOpen(st, r)
              \/ ~ModeAllowed(st, mode, recipient, purpose, amount)
           THEN RaiseError(st)
           ELSE IF ref \in st.effects THEN RaiseError(moved)
           ELSE ReturnState(Recorded(moved, r, ref, auto))

settle(mode, recipient, amount, r, auto) ==
    executeRuntimeSettlement(mode, recipient, 0, amount, r, auto)

settle_refund(mode, recipient, amount, r, auto) ==
    /\ mode \in RefundModes
    /\ executeRuntimeSettlement(mode, recipient, 0, amount, r, auto)

settle_escrow(mode, recipient, purpose, amount, r, auto) ==
    /\ mode \in EscrowModes
    /\ executeRuntimeSettlement(mode, recipient, purpose, amount, r, auto)

(* Mutant: a finalized receipt may be finalized again.                     *)
AnyReceipt(s, r) == ReceiptExists(s, r)

Finalizable(s, r) == ReceiptOpen(s, r)

receipt_success(r, ref) ==
    /\ HostCall
    /\ IF ~Finalizable(st, r) \/ ref \notin st.effects THEN RaiseError(st)
       ELSE ReturnState([st EXCEPT !.receipts = WriteReceipt(@, r,
                [@[r] EXCEPT !.settlementRef = ref, !.status = "success", !.finalizedAt = ref[5]])])

receipt_failure(r) ==
    /\ HostCall
    /\ IF ~Finalizable(st, r) THEN RaiseError(st)
       ELSE ReturnState([st EXCEPT !.receipts = WriteReceipt(@, r,
                [@[r] EXCEPT !.status = "failure", !.finalizedAt = time])])

escrow(slot, amount) ==
    /\ HostCall
    /\ IF ~ContractCanTransfer(st, amount) THEN RaiseError(st)
       ELSE ReturnState(Escrowed(st, slot, amount))

(* tos.release, and tos.slash with another recipient than the agent.       *)
release(slot, to, amount) ==
    /\ HostCall
    /\ IF st.escrow[slot] < amount THEN RaiseError(st)
       ELSE ReturnState(Released(st, slot, to, amount))

-----------------------------------------------------------------------------
BusInit ==
    /\ st = [receipts |-> <<>>, effects |-> {}, moved |-> 0,
             balance |-> [a \in Agents \cup {Contract} |->
                                IF a = Contract THEN ContractFunds ELSE 0],
             escrow |-> [slot \in Agents \X Purposes |-> 0],
             uno |-> [a \in Agents |-> [total |-> 0, version |-> 0]]]
    /\ snap = st
    /\ calls = -1
    /\ time = 1

Begin == calls = -1 /\ calls' = 0 /\ snap' = st /\ UNCHANGED <<st, time>>

(* The frame returns: the writes of the transaction stay.                  *)
Commit == calls >= 0 /\ calls' = -1 /\ UNCHANGED <<st, snap, time>>

(* tos.revert, or an error outside the host calls.                         *)
Revert == calls >= 0 /\ calls' = -1 /\ st' = snap /\ UNCHANGED <<snap, time>>

BusBlock == calls = -1 /\ time < MaxTime /\ time' = time + 1 /\ UNCHANGED <<st, snap, calls>>

BusNext ==
    \/ Begin \/ Commit \/ Revert \/ BusBlock
    \/ \E r \in Receipts :
          \/ receipt_open(r)
          \/ \E mode \in Modes, a \in Agents, n \in Amounts, auto \in BOOLEAN :
                \/ settle(mode, a, n, r, auto)
                \/ settle_refund(mode, a, n, r, auto)
                \/ \E purpose \in Purposes : settle_escrow(mode, a, purpose, n, r, auto)
          \/ \E ref \in st.effects : receipt_success(r, ref)
          \/ receipt_failure(r)
    \/ \E slot \in Agents \X Purposes, n \in Amounts :
          \/ escrow(slot, n)
          \/ \E to \in Agents : release(slot, to, n)

BusSpec == BusInit /\ [][BusNext]_busVars

-----------------------------------------------------------------------------
Total(f) == SumFunction(f)

(* Value is neither made nor lost: what the contract, the accounts and     *)
(* the escrow slots hold together is what the contract started with,       *)
(* whatever host calls ran, failed, were caught or rolled back.            *)
ValueConserved == Total(st.balance) + Total(st.escrow) = ContractFunds

(* Every amount moved by a settlement is the amount of one recorded        *)
(* effect, in the states transactions leave behind: a settlement whose     *)
(* recording fails moves nothing.                                          *)
MovedIsRecorded ==
    calls = -1 => st.moved = Total([ref \in st.effects |-> ref[4]])

(* A receipt that settled names a recorded effect of the past, and an open *)
(* receipt that was settled in two phases names the one it was settled by. *)
SettlementTraceable ==
    \A ref \in st.effects :
        /\ ref[1] \in DOMAIN st.receipts
        /\ LET receipt == st.receipts[ref[1]]
           IN  receipt.settlementRef \in st.effects /\ receipt.openedAt <= ref[5]

(* Settlement through host calls that may fail half-way: value is          *)
(* conserved, whatever moved is recorded and traceable to its receipt.     *)
SettlementSound == ValueConserved /\ MovedIsRecorded /\ SettlementTraceable

(* A receipt that a transaction left finalized stays as it is: success     *)
(* and failure are terminal and the references of a finalized receipt are  *)
(* never written again.                                                    *)
FinalizedKept(s, t) ==
    \A r \in DOMAIN s.receipts :
        s.receipts[r].status # "open" =>
            r \in DOMAIN t.receipts /\ t.receipts[r] = s.receipts[r]

FinalizedIsFinal == [][calls' = -1 => FinalizedKept(snap, st')]_busVars
=============================================================================
