------------------------- MODULE SettlementCallbacks -------------------------
(***************************************************************************)
(* The settlement system actions (settlement/handler.go): callbacks are    *)
(* registered with a time to live and executed at most once by their       *)
(* creator; fulfillments are appended.                                     *)
(*                                                                         *)
(* An identifier is the hash of the caller, the transaction and a counter. *)
(* A handler writes on a working copy which core/state_transition.go       *)
(* keeps only if the handler returns no error.                             *)
(***************************************************************************)
EXTENDS Integers, FiniteSets

CONSTANTS
    Callers,
    TxHashes,
    TTLs,        \* times to live callers ask for, in blocks
    MaxTTLBlocks,
    MaxRecords,  \* bound on callbacks and on fulfillments
    LastBlock    \* bound on the block number

VARIABLES
    callbacks,      \* by identifier
    callbackCount,
    fulfillments,
    fulfillmentCount,
    blockNumber,         \* block being executed
    receipt         \* outcome of the last transaction

callbackVars == <<callbacks, callbackCount, fulfillments, fulfillmentCount, blockNumber, receipt>>

Ok == [err |-> "none"]
Failed(err, id) == [err |-> err, id |-> id]

(* Mutant: the counter is not part of the hash.                            *)
WithoutNonce(from, txHash, nonce) == <<from, txHash>>

mintCallbackID(from, txHash, nonce) == <<from, txHash, nonce>>

mintFulfillmentID(from, txHash, nonce) == <<from, txHash, nonce>>

Put(f, id, rec) == [x \in DOMAIN f \cup {id} |-> IF x = id THEN rec ELSE f[x]]

(* A handler that returns an error: its writes are rolled back.            *)
ActionReverted(err, id) ==
    /\ receipt' = Failed(err, id)
    /\ UNCHANGED <<callbacks, callbackCount, fulfillments, fulfillmentCount, blockNumber>>

-----------------------------------------------------------------------------
handleRegisterCallback(from, txHash, ttl) ==
    /\ callbackCount < MaxRecords
    /\ IF ttl = 0 \/ ttl > MaxTTLBlocks THEN ActionReverted("ErrTTL", <<>>)
       ELSE /\ callbacks' = Put(callbacks, mintCallbackID(from, txHash, callbackCount),
                    [creator |-> from, txHash |-> txHash, createdAt |-> blockNumber,
                     expiresAt |-> blockNumber + ttl, executedAt |-> 0, status |-> "pending"])
            /\ callbackCount' = callbackCount + 1
            /\ receipt' = Ok
            /\ UNCHANGED <<fulfillments, fulfillmentCount, blockNumber>>

Expired(cb) == blockNumber > cb.expiresAt

(* The status is written before ErrCallbackExpired is returned.            *)
handleExecuteCallback(from, id) ==
    LET cb == callbacks[id]
    IN  /\ id \in DOMAIN callbacks
        /\ IF cb.status # "pending" THEN ActionReverted("ErrCallbackNotPending", id)
           ELSE IF Expired(cb) THEN ActionReverted("ErrCallbackExpired", id)
           ELSE IF from # cb.creator THEN ActionReverted("ErrNotCallbackCreator", id)
           ELSE /\ callbacks' = [callbacks EXCEPT ![id].status = "executed",
                                                  ![id].executedAt = blockNumber]
                /\ receipt' = Ok
                /\ UNCHANGED <<callbackCount, fulfillments, fulfillmentCount, blockNumber>>

handleFulfillAsync(from, txHash) ==
    /\ fulfillmentCount < MaxRecords
    /\ fulfillments' = Put(fulfillments, mintFulfillmentID(from, txHash, fulfillmentCount),
            [origTxHash |-> txHash, fulfiller |-> from, fulfilledAt |-> blockNumber])
    /\ fulfillmentCount' = fulfillmentCount + 1
    /\ receipt' = Ok
    /\ UNCHANGED <<callbacks, callbackCount, blockNumber>>

CallbackBlock ==
    /\ blockNumber < LastBlock
    /\ blockNumber' = blockNumber + 1
    /\ receipt' = Ok
    /\ UNCHANGED <<callbacks, callbackCount, fulfillments, fulfillmentCount>>

CallbackInit ==
    /\ callbacks = <<>> /\ callbackCount = 0
    /\ fulfillments = <<>> /\ fulfillmentCount = 0
    /\ blockNumber = 1 /\ receipt = Ok

CallbackNext ==
    \/ CallbackBlock
    \/ \E a \in Callers, t \in TxHashes :
          \/ \E ttl \in TTLs : handleRegisterCallback(a, t, ttl)
          \/ handleFulfillAsync(a, t)
    \/ \E a \in Callers, id \in DOMAIN callbacks : handleExecuteCallback(a, id)

CallbackSpec == CallbackInit /\ [][CallbackNext]_callbackVars

-----------------------------------------------------------------------------
(* Every registration and every fulfillment has a record of its own: the   *)
(* counter makes the identifiers distinct, so that a caller who repeats a  *)
(* registration never overwrites the earlier one or brings an executed     *)
(* callback back to pending.                                               *)
RecordsDistinct ==
    /\ Cardinality(DOMAIN callbacks) = callbackCount
    /\ Cardinality(DOMAIN fulfillments) = fulfillmentCount
=============================================================================
