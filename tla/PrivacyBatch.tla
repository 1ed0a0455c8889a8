---------------------------- MODULE PrivacyBatch ----------------------------
(***************************************************************************)
(* Execution of a block that holds privacy transactions                    *)
(* (core/execute_transactions_privacy.go): consecutive privacy             *)
(* transactions are prepared against a speculative copy of the state,      *)
(* their proofs are verified together, and they are then applied.          *)
(*                                                                         *)
(* A ciphertext is the value it encrypts; a proof is whether it was made   *)
(* honestly (`sound`) and the balance it commits to (`source`).  Amounts   *)
(* are UNO units on both sides of a shield.  A public transaction is a     *)
(* plain transfer; gas is left out.                                        *)
(***************************************************************************)
EXTENDS Integers, FiniteSets, Sequences, Functions

CONSTANTS
    Owners,     \* owners of a public and a private balance
    Coinbase,     \* receives the fees
    UNOBaseFee,   \* params.UNOBaseFee
    Public,       \* public balance of each account at the start
    Private,      \* private balance of each account at the start
    Txs,          \* transactions a block may hold
    MaxTxs        \* bound on the length of the block

(* A transaction: the proofs were made honestly (sound) and commit to a    *)
(* balance (source); a public one only has an amount.                      *)
Transactions ==
    [kind : {"transfer", "shield", "unshield", "public"}, from : Owners, to : Owners,
     nonce : Nat, amount : Nat, fee : Nat, limit : Nat, source : Int, sound : BOOLEAN]

ASSUME PrivacyAssumption ==
    /\ IsFiniteSet(Owners) /\ Coinbase \notin Owners
    /\ UNOBaseFee \in Nat /\ MaxTxs \in Nat
    /\ Public \in [Owners -> Nat] /\ Private \in [Owners -> Nat]
    /\ Txs \subseteq Transactions

VARIABLES
    stateDB,        \* [pub, priv]
    pending,        \* prepared privacy transactions that await the flush
    pendingState,   \* the speculative copy, or NoState
    receipts,       \* receipts of the transactions executed so far
    single,         \* reference: the same block, one transaction at a time
    done            \* the block is executed

batchVars == <<stateDB, pending, pendingState, receipts, single, done>>

NoState == [pub |-> <<>>, priv |-> <<>>]

TransferTx == "transfer"
ShieldTx   == "shield"
UnshieldTx == "unshield"
PublicTx   == "public"

isPrivacyTxType(tx) == tx.kind \in {TransferTx, ShieldTx, UnshieldTx}

Larger(a, b) == IF a > b THEN a ELSE b

(*------------------------------- preparation -----------------------------*)

(* Mutant: a nonce that was used before will do.                           *)
AnyUsedNonce(st, tx) == tx.nonce <= st.priv[tx.from].nonce

NonceMatches(st, tx) == tx.nonce = st.priv[tx.from].nonce

(* The checks of preparePrivTransferState, prepareShieldState and          *)
(* prepareUnshieldState that can fail; signatures are valid.               *)
TransferPreparable(st, tx) ==
    /\ tx.fee <= tx.limit /\ UNOBaseFee <= tx.limit
    /\ NonceMatches(st, tx)

ShieldPreparable(st, tx) ==
    /\ tx.fee >= UNOBaseFee
    /\ st.pub[tx.from] >= tx.amount + tx.fee
    /\ NonceMatches(st, tx)

UnshieldPreparable(st, tx) ==
    /\ tx.fee >= UNOBaseFee
    /\ NonceMatches(st, tx)
    /\ st.pub[tx.to] + tx.amount >= tx.fee

Preparable(st, tx) ==
    CASE tx.kind = TransferTx -> TransferPreparable(st, tx)
      [] tx.kind = ShieldTx   -> ShieldPreparable(st, tx)
      [] tx.kind = UnshieldTx -> UnshieldPreparable(st, tx)

(* What they compute: the states they read, the balance that the proofs    *)
(* must speak of, the fee and its refund.                                  *)
PreparedTransfer(st, tx) ==
    LET paid == Larger(tx.fee, UNOBaseFee)
    IN  [tx |-> tx, sender |-> st.priv[tx.from], receiver |-> st.priv[tx.to],
         newBalance |-> st.priv[tx.from].value - tx.amount - tx.limit,
         paid |-> paid, refund |-> tx.limit - paid]

PreparedShield(st, tx) ==
    [tx |-> tx, sender |-> st.pub[tx.from], receiver |-> st.priv[tx.to],
     newBalance |-> tx.source, paid |-> tx.fee, refund |-> 0]

PreparedUnshield(st, tx) ==
    [tx |-> tx, sender |-> st.priv[tx.from], receiver |-> st.pub[tx.to],
     newBalance |-> st.priv[tx.from].value - tx.amount, paid |-> tx.fee, refund |-> 0]

preparePrivacyTxState(st, tx) ==
    CASE tx.kind = TransferTx -> PreparedTransfer(st, tx)
      [] tx.kind = ShieldTx   -> PreparedShield(st, tx)
      [] tx.kind = UnshieldTx -> PreparedUnshield(st, tx)

(* The balance that the transaction commits to is the one that the state   *)
(* it was prepared on gives; the proofs of a shield speak of no balance.   *)
VerifyProofs(p) == p.tx.sound /\ p.tx.source = p.newBalance

(*-------------------------------- application ----------------------------*)

SetAccountState(st, a, account) == [st EXCEPT !.priv[a] = account]

IncrementPrivNonce(st, a) == [st EXCEPT !.priv[a].nonce = @ + 1]

AddBalance(st, a, amount) == [st EXCEPT !.pub[a] = @ + amount]

(* The state still is the one the preparation read.                        *)
Current(st, p) ==
    CASE p.tx.kind = TransferTx -> /\ st.priv[p.tx.from] = p.sender
                                   /\ st.priv[p.tx.to] = p.receiver
      [] p.tx.kind = ShieldTx   -> /\ st.pub[p.tx.from] = p.sender
                                   /\ st.priv[p.tx.to] = p.receiver
      [] p.tx.kind = UnshieldTx -> /\ st.priv[p.tx.from] = p.sender
                                   /\ st.pub[p.tx.to] = p.receiver

Deposited(account, amount) ==
    [value |-> account.value + amount, version |-> account.version + 1, nonce |-> account.nonce]

Spent(account, value) ==
    [value |-> value, version |-> account.version + 1, nonce |-> account.nonce]

(* Mutant: the whole fee limit is refunded.                                *)
ApplyTransferFree(st, p) ==
    IncrementPrivNonce(
        SetAccountState(
            SetAccountState(st, p.tx.from, Spent(p.sender, p.tx.source + p.tx.limit)),
            p.tx.to, Deposited(p.receiver, p.tx.amount)),
        p.tx.from)

(* ApplyState: the sender's new balance is the one its transaction commits *)
(* to, and the receiver's is the one read before plus the amount.          *)
ApplyTransfer(st, p) ==
    IncrementPrivNonce(
        SetAccountState(
            SetAccountState(st, p.tx.from, Spent(p.sender, p.tx.source + p.refund)),
            p.tx.to, Deposited(p.receiver, p.tx.amount)),
        p.tx.from)

ApplyShield(st, p) ==
    IncrementPrivNonce(
        SetAccountState(AddBalance(st, p.tx.from, -(p.tx.amount + p.tx.fee)),
                        p.tx.to, Deposited(p.receiver, p.tx.amount)),
        p.tx.from)

ApplyUnshield(st, p) ==
    AddBalance(IncrementPrivNonce(SetAccountState(st, p.tx.from, Spent(p.sender, p.tx.source)),
                                  p.tx.from),
               p.tx.to, p.tx.amount - p.tx.fee)

ApplyState(st, p) ==
    CASE p.tx.kind = TransferTx -> ApplyTransfer(st, p)
      [] p.tx.kind = ShieldTx   -> ApplyShield(st, p)
      [] p.tx.kind = UnshieldTx -> ApplyUnshield(st, p)

applyPreparedPrivacyExecution(st, p) == AddBalance(ApplyState(st, p), Coinbase, p.paid)

(*------------------------- one transaction at a time ----------------------*)

(* What a receipt tells apart here: whose nonce a success consumed.        *)
Receipt(tx, status) ==
    IF status = "success" /\ isPrivacyTxType(tx)
    THEN [status |-> status, from |-> tx.from, nonce |-> tx.nonce]
    ELSE [status |-> status, from |-> Coinbase, nonce |-> 0]

Outcome(st, tx, status) == [st |-> st, receipt |-> Receipt(tx, status)]

(* executeSinglePrivacyTx: prepare, verify, apply; a failure leaves no     *)
(* trace but the receipt.                                                  *)
executeSinglePrivacyTx(st, tx) ==
    LET p == preparePrivacyTxState(st, tx)
    IN  IF Preparable(st, tx) /\ VerifyProofs(p) /\ Current(st, p)
        THEN Outcome(applyPreparedPrivacyExecution(st, p), tx, "success")
        ELSE Outcome(st, tx, "failed")

publicExecutionResult(st, tx) ==
    IF st.pub[tx.from] >= tx.amount
    THEN Outcome(AddBalance(AddBalance(st, tx.from, -tx.amount), tx.to, tx.amount), tx, "success")
    ELSE Outcome(st, tx, "failed")

ExecuteOne(st, tx) ==
    IF isPrivacyTxType(tx) THEN executeSinglePrivacyTx(st, tx) ELSE publicExecutionResult(st, tx)

(*--------------------------------- the batch -----------------------------*)

(* Mutant: the batch is applied without verifying its proofs.              *)
BatchUnverified(candidates) == TRUE

verifyPreparedPrivacyBatch(candidates) ==
    \A i \in DOMAIN candidates : VerifyProofs(candidates[i])

(* One candidate of the flush. While the joint verification stands (fast)  *)
(* it is prepared anew and applied; the first one that no longer prepares  *)
(* or applies ends that, and from there on each is executed on its own.    *)
FlushOne(acc, p) ==
    LET fresh == preparePrivacyTxState(acc.st, p.tx)
        out   == IF acc.fast /\ Preparable(acc.st, p.tx) /\ Current(acc.st, fresh)
                 THEN Outcome(applyPreparedPrivacyExecution(acc.st, fresh), p.tx, "success")
                 ELSE executeSinglePrivacyTx(acc.st, p.tx)
    IN  [st |-> out.st, receipts |-> Append(acc.receipts, out.receipt),
         fast |-> acc.fast /\ Preparable(acc.st, p.tx) /\ Current(acc.st, fresh)]

FlushAll(acc, candidates) ==
    LET after[i \in 0..Len(candidates)] ==
            IF i = 0 THEN acc ELSE FlushOne(after[i - 1], candidates[i])
    IN  after[Len(candidates)]

(* flushPrivacyBatch: with nothing pending it returns at once, and the     *)
(* speculative copy stays.                                                 *)
flushPrivacyBatch ==
    FlushAll([st |-> stateDB, receipts |-> receipts,
              fast |-> verifyPreparedPrivacyBatch(pending)], pending)

FlushedCopy == IF pending = <<>> THEN pendingState ELSE NoState

(* The history: the block executed one transaction at a time, whether a    *)
(* public transaction was executed while a copy made before it stayed      *)
(* behind (stale), and whether someone transferred to themselves (self).   *)
Reference(tx) ==
    LET out == ExecuteOne(single.st, tx)
    IN  single' = [st |-> out.st, receipts |-> Append(single.receipts, out.receipt),
                   stale |-> \/ single.stale
                             \/ ~ isPrivacyTxType(tx) /\ FlushedCopy # NoState,
                   self |-> single.self \/ (tx.kind = TransferTx /\ tx.from = tx.to)]

Open == ~ done /\ Len(single.receipts) < MaxTxs

Copied == IF pendingState = NoState THEN stateDB ELSE pendingState

(* A privacy transaction that prepares on the copy joins the batch.        *)
Batched(tx) ==
    /\ Open /\ isPrivacyTxType(tx) /\ Preparable(Copied, tx)
    /\ LET p == preparePrivacyTxState(Copied, tx)
       IN  /\ pending' = Append(pending, p)
           /\ pendingState' = applyPreparedPrivacyExecution(Copied, p)
    /\ Reference(tx)
    /\ UNCHANGED <<stateDB, receipts, done>>

(* One that does not: the batch is flushed and the transaction executed on *)
(* its own.                                                                *)
ExecutedAlone(tx) ==
    /\ Open /\ isPrivacyTxType(tx) /\ ~ Preparable(Copied, tx)
    /\ LET flush == flushPrivacyBatch
           out   == executeSinglePrivacyTx(flush.st, tx)
       IN  /\ stateDB' = out.st
           /\ receipts' = Append(flush.receipts, out.receipt)
    /\ pendingState' = IF pending = <<>> THEN Copied ELSE NoState
    /\ pending' = <<>>
    /\ Reference(tx)
    /\ UNCHANGED done

ExecutedPublic(tx) ==
    /\ Open /\ ~ isPrivacyTxType(tx)
    /\ LET flush == flushPrivacyBatch
           out   == publicExecutionResult(flush.st, tx)
       IN  /\ stateDB' = out.st
           /\ receipts' = Append(flush.receipts, out.receipt)
    /\ pendingState' = FlushedCopy
    /\ pending' = <<>>
    /\ Reference(tx)
    /\ UNCHANGED done

Finish ==
    /\ ~ done
    /\ LET flush == flushPrivacyBatch
       IN  stateDB' = flush.st /\ receipts' = flush.receipts
    /\ pending' = <<>> /\ pendingState' = NoState
    /\ done' = TRUE
    /\ UNCHANGED single

Opening ==
    [pub  |-> [a \in Owners \cup {Coinbase} |-> IF a = Coinbase THEN 0 ELSE Public[a]],
     priv |-> [a \in Owners |-> [value |-> Private[a], version |-> 0, nonce |-> 0]]]

BatchInit ==
    /\ stateDB = Opening /\ pending = <<>> /\ pendingState = NoState /\ receipts = <<>>
    /\ single = [st |-> Opening, receipts |-> <<>>, stale |-> FALSE, self |-> FALSE]
    /\ done = FALSE

BlockDone == done /\ UNCHANGED batchVars

BatchNext ==
    \/ \E tx \in Txs : Batched(tx) \/ ExecutedAlone(tx) \/ ExecutedPublic(tx)
    \/ Finish \/ BlockDone

BatchSpec == BatchInit /\ [][BatchNext]_batchVars

-----------------------------------------------------------------------------

Total(st) ==
    SumFunctionOnSet(st.pub, Owners \cup {Coinbase})
        + SumFunctionOnSet([x \in Owners |-> st.priv[x].value], Owners)

(* The block ends in the state, and with the receipts, of the same         *)
(* transactions executed one at a time.                                    *)
EndsAsSingle == done => stateDB = single.st /\ receipts = single.receipts

(* That is so whatever proofs in a batch are bad, wherever batches are cut *)
(* and whichever public transactions lie between them, as long as none of  *)
(* these was executed while a copy of the state before it stayed behind.   *)
BatchParity == ~ single.stale => EndsAsSingle

(* No privacy transaction takes effect twice: each successful one consumed *)
(* a nonce of its sender that no other one did, also when it was prepared  *)
(* on a stale copy, retried after a failed batch or sent to its sender.    *)
NonceSpentOnce ==
    \A x \in Owners :
        LET applied == {i \in DOMAIN receipts : receipts[i].from = x}
        IN  {receipts[i].nonce : i \in applied} = 0..(stateDB.priv[x].nonce - 1)
                /\ Cardinality(applied) = stateDB.priv[x].nonce

(* Transactions move value between private balances, public balances and   *)
(* the coinbase; none appears or disappears, unless a batch was verified   *)
(* on a stale copy or a transfer went to its sender.                       *)
ValueConserved == ~ single.stale /\ ~ single.self => Total(stateDB) = Total(Opening)

(* A block with privacy transactions verified in batches ends as it does   *)
(* when each is verified alone, a privacy nonce is spent once, and public  *)
(* and private value together are conserved.                               *)
PrivacySound == BatchParity /\ NonceSpentOnce /\ ValueConserved
=============================================================================
