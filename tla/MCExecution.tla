-------------------------------- MODULE MCExecution --------------------------------
(* Block execution for TLC, side by side: in each behaviour the component  *)
(* that focus names takes its steps; the others have no state.             *)
EXTENDS ParallelExecutor, LvmStorage, PrivacyBatch

CONSTANTS a, b, d, cb, k, none, create, system, slash, lvmserial, validators

Balances == [x \in Accounts |-> IF x \in EOAs THEN 3 ELSE 1]

Fields == <<"balance", "locked">>

(* Privacy transactions of two accounts: small amounts, proofs made for any of the *)
(* balances the sender may have had.                                               *)
Transfers ==
    {[kind |-> "transfer", from |-> f, to |-> t, nonce |-> n, amount |-> 1, fee |-> 1,
      limit |-> l, source |-> s, sound |-> ok] :
        f \in {"a", "b"}, t \in {"a", "b"}, n \in 0..1, l \in 1..2, s \in 0..1, ok \in BOOLEAN}

Shields ==
    {[kind |-> "shield", from |-> "a", to |-> "b", nonce |-> n, amount |-> 1, fee |-> 1,
      limit |-> 1, source |-> 0, sound |-> ok] : n \in 0..1, ok \in BOOLEAN}

Unshields ==
    {[kind |-> "unshield", from |-> "b", to |-> "a", nonce |-> n, amount |-> 1, fee |-> 1,
      limit |-> 1, source |-> s, sound |-> TRUE] : n \in 0..1, s \in 0..2}

Publics ==
    {[kind |-> "public", from |-> f, to |-> IF f = "a" THEN "b" ELSE "a", nonce |-> 0,
      amount |-> 1, fee |-> 0, limit |-> 0, source |-> 0, sound |-> TRUE] : f \in {"a", "b"}}

PrivacyTxs == {tx \in Transfers : tx.from # tx.to \/ tx.limit = 1} \cup Shields \cup Unshields

MixedTxs == {tx \in PrivacyTxs : tx.limit = 1} \cup Publics

PublicFunds == [a |-> 1, b |-> 2]

PrivateFunds == [a |-> 2, b |-> 3]

(* The empty string, one chunk, a full chunk, and more than one chunk. *)
Texts == {<<>>, <<1>>, <<2, 1>>, <<1, 2, 1>>}

VARIABLE focus  \* the component that runs

Mixed == INSTANCE PrivacyBatch WITH
    Txs <- MixedTxs, stateDB <- stateDB, pending <- pending, pendingState <- pendingState,
    receipts <- receipts, single <- single, done <- done

Stale == INSTANCE PrivacyBatch WITH
    Txs <- MixedTxs, MaxTxs <- 4, stateDB <- stateDB, pending <- pending,
    pendingState <- pendingState, receipts <- receipts, single <- single, done <- done

PrivacyStart ==
    IF focus = "mixed" THEN Mixed!BatchInit
    ELSE IF focus = "stale" THEN Stale!BatchInit
    ELSE BatchInit

ExecutionInit ==
    /\ focus \in {"parallel", "storage", "privacy", "mixed"}
    /\ ParallelInit
    /\ StorageInit
    /\ PrivacyStart

ParallelStep ==
    /\ focus = "parallel" /\ ParallelNext
    /\ UNCHANGED <<focus, db, batchVars>>

StorageStep ==
    /\ focus = "storage" /\ StorageNext
    /\ UNCHANGED <<focus, executorVars, batchVars>>

PrivacyStep ==
    /\ focus = "privacy" /\ BatchNext
    /\ UNCHANGED <<focus, executorVars, db>>

MixedStep ==
    /\ focus = "mixed" /\ Mixed!BatchNext
    /\ UNCHANGED <<focus, executorVars, db>>

StaleStep ==
    /\ focus = "stale" /\ Stale!BatchNext
    /\ UNCHANGED <<focus, executorVars, db>>

ExecutionNext ==
    \/ ParallelStep
    \/ StorageStep
    \/ PrivacyStep
    \/ MixedStep

ExecutionVars == <<focus, executorVars, db, batchVars>>

ExecutionSpec ==
    /\ ExecutionInit
    /\ [][ExecutionNext]_ExecutionVars

StaleSpec ==
    /\ focus = "stale"
    /\ ParallelInit
    /\ StorageInit
    /\ PrivacyStart
    /\ [][StaleStep]_ExecutionVars

(* The same whatever public transactions lie between the privacy ones,     *)
(* which the comment in executeTransactionsSerial claims too.              *)
MixedParity == focus = "stale" => EndsAsSingle

=============================================================================
