---------------------------- MODULE LeaseRegistry ----------------------------
(***************************************************************************)
(* Lease contracts (package lease): a contract is deployed for a number of *)
(* blocks against a deposit, can be renewed and closed by its owner, and   *)
(* is pruned by a sweep at the epoch boundaries after its grace window.    *)
(*                                                                         *)
(* The prune queue has one list of addresses per epoch.  Renewing and      *)
(* closing append a new entry and leave the old one behind: an entry       *)
(* counts only if the lease still names it.  The sweep runs one action per *)
(* iteration of the loops of runPruneSweep; nothing interleaves with it.   *)
(* The gas price is 1.                                                     *)
(***************************************************************************)
EXTENDS Integers, FiniteSets, Sequences, Functions

CONSTANTS
    LeaseAddrs,       \* addresses lease contracts are deployed at
    OwnerFunds,       \* what the owner of the leases has at the beginning
    LeaseBlocks,      \* admissible durations
    ByteGas,          \* bytes of code times the reference gas per byte
    ReferenceBlocks,
    RefundNum, RefundDen,
    EpochLength,
    GraceBlocks,
    Budget,           \* entries one sweep processes
    LastLeaseBlock,   \* bound on block numbers
    LastEpoch,        \* bound on the epochs leases are queued for
    MaxEntries        \* bound on the entries ever queued

ASSUME LeaseAssumption ==
    /\ OwnerFunds \in Nat
    /\ LeaseBlocks \subseteq Nat \ {0}
    /\ ByteGas \in Nat
    /\ ReferenceBlocks \in Nat \ {0}
    /\ RefundNum \in Nat /\ RefundDen \in Nat \ {0} /\ RefundNum <= RefundDen
    /\ EpochLength \in Nat \ {0}
    /\ GraceBlocks \in Nat
    /\ Budget \in Nat \ {0}
    /\ LastLeaseBlock \in Nat \ {0} /\ MaxEntries \in Nat
    /\ LastEpoch \in Nat /\ LastLeaseBlock \div EpochLength < LastEpoch

VARIABLES
    metas,         \* live lease records by address
    tombs,         \* tombstoned addresses
    entries,       \* per epoch, the addresses queued
    cursor,        \* per epoch, how many of them were processed
    head,          \* earliest epoch with work, 0 when nothing was ever queued
    ownerBalance,
    leaseBalance,  \* of params.LeaseRegistryAddress
    currentBlock,  \* block being executed
    queued,        \* entries ever queued (for the bound)
    sweeping,      \* is runPruneSweep running?
    epoch,         \* its loop variable
    at,            \* its local cursor
    swept          \* its count of processed entries

queueVars == <<entries, cursor, head, queued>>
sweepVars == <<sweeping, epoch, at, swept>>
leaseVars == <<metas, tombs, ownerBalance, leaseBalance, currentBlock, queueVars, sweepVars>>

Epochs == 1 .. LastEpoch

-----------------------------------------------------------------------------
DepositFor(blocks) ==
    LET gas == (ByteGas * blocks) \div ReferenceBlocks
    IN  IF gas = 0 THEN 1 ELSE gas

RefundFor(deposit) == (deposit * RefundNum) \div RefundDen

PruneEpoch(graceUntil) == graceUntil \div EpochLength + 1

EffectiveStatus(meta, block) ==
    IF block >= meta.pruneEpoch * EpochLength /\ block >= meta.graceUntil THEN "Prunable"
    ELSE IF block < meta.expireAt THEN "Active"
    ELSE IF block < meta.graceUntil THEN "Frozen"
    ELSE "Expired"

CheckCallable(addr) ==
    /\ addr \notin tombs
    /\ addr \in DOMAIN metas => EffectiveStatus(metas[addr], currentBlock) = "Active"

(* Mutant: the record keeps the position it had in the queue.              *)
KeepSeq(meta) == [meta EXCEPT !.pruneEpoch = PruneEpoch(meta.graceUntil)]

(* The record with its position in the queue.                              *)
Placed(meta) ==
    [meta EXCEPT !.pruneEpoch = PruneEpoch(meta.graceUntil),
                 !.pruneSeq = Len(entries[PruneEpoch(meta.graceUntil)])]

WriteMeta(addr, meta) ==
    metas' = [a \in DOMAIN metas \cup {addr} |-> IF a = addr THEN meta ELSE metas[a]]

(* ScheduleMeta and WriteMeta.                                             *)
ScheduleMeta(addr, meta) ==
    LET e == PruneEpoch(meta.graceUntil)
    IN  /\ queued < MaxEntries
        /\ e \in Epochs
        /\ queued' = queued + 1
        /\ entries' = [entries EXCEPT ![e] = Append(@, addr)]
        /\ head' = IF head = 0 \/ e < head THEN e ELSE head
        /\ WriteMeta(addr, Placed(meta))
        /\ UNCHANGED cursor

-----------------------------------------------------------------------------
(* LEASE_DEPLOY, tos.createx and tos.create2x: an address is taken while   *)
(* it has code and forever once it is tombstoned.                          *)
Deploy(addr, blocks) ==
    /\ ~sweeping
    /\ addr \notin tombs
    /\ addr \notin DOMAIN metas
    /\ ownerBalance >= DepositFor(blocks)
    /\ ownerBalance' = ownerBalance - DepositFor(blocks)
    /\ leaseBalance' = leaseBalance + DepositFor(blocks)
    /\ ScheduleMeta(addr, [expireAt |-> currentBlock + blocks,
                           graceUntil |-> currentBlock + blocks + GraceBlocks,
                           deposit |-> DepositFor(blocks),
                           pruneEpoch |-> 0, pruneSeq |-> 0])
    /\ UNCHANGED <<tombs, currentBlock, sweepVars>>

(* Mutant: a lease is renewed whatever its status.                         *)
AnyStatus(meta) == TRUE

Renewable(meta) == EffectiveStatus(meta, currentBlock) \in {"Active", "Frozen"}

(* The new expiry counts from the later of the old one and this block.     *)
RenewFrom(meta) == IF meta.expireAt > currentBlock THEN meta.expireAt ELSE currentBlock

(* Mutant: the grace window is not moved.                                  *)
RenewKeepsGrace(meta, delta) ==
    [meta EXCEPT !.expireAt = RenewFrom(meta) + delta, !.deposit = @ + DepositFor(delta)]

RenewMeta(meta, delta) ==
    [meta EXCEPT !.expireAt = RenewFrom(meta) + delta,
                 !.graceUntil = RenewFrom(meta) + delta + GraceBlocks,
                 !.deposit = @ + DepositFor(delta)]

handleRenew(addr, delta) ==
    /\ ~sweeping
    /\ addr \in DOMAIN metas
    /\ addr \notin tombs
    /\ Renewable(metas[addr])
    /\ ownerBalance >= DepositFor(delta)
    /\ ownerBalance' = ownerBalance - DepositFor(delta)
    /\ leaseBalance' = leaseBalance + DepositFor(delta)
    /\ ScheduleMeta(addr, RenewMeta(metas[addr], delta))
    /\ UNCHANGED <<tombs, currentBlock, sweepVars>>

(* Mutant: the deposit stays on record after the refund.                   *)
CloseKeepsDeposit(meta) ==
    [meta EXCEPT !.expireAt = currentBlock, !.graceUntil = currentBlock]

CloseMeta(meta) ==
    [meta EXCEPT !.expireAt = currentBlock, !.graceUntil = currentBlock, !.deposit = 0]

(* LEASE_CLOSE, whatever the status: also of a lease that waits for the    *)
(* sweep.                                                                  *)
handleClose(addr) ==
    LET refund == RefundFor(metas[addr].deposit)
    IN  /\ ~sweeping
        /\ addr \in DOMAIN metas
        /\ addr \notin tombs
        /\ leaseBalance >= refund
        /\ leaseBalance' = leaseBalance - refund
        /\ ownerBalance' = ownerBalance + refund
        /\ ScheduleMeta(addr, CloseMeta(metas[addr]))
        /\ UNCHANGED <<tombs, currentBlock, sweepVars>>

(* A handler that returns an error is reverted.                            *)
LeaseReverted == ~sweeping /\ UNCHANGED leaseVars

-----------------------------------------------------------------------------
currentEpoch == currentBlock \div EpochLength

(* Is there anything to sweep at the end of this block?                    *)
SweepDue ==
    /\ currentBlock % EpochLength = 0
    /\ head # 0
    /\ head <= currentEpoch

(* Finalize of a block without a sweep.                                    *)
EndLeaseBlock ==
    /\ ~sweeping
    /\ ~SweepDue
    /\ currentBlock < LastLeaseBlock
    /\ currentBlock' = currentBlock + 1
    /\ UNCHANGED <<metas, tombs, ownerBalance, leaseBalance, queueVars, sweepVars>>

StartSweep ==
    /\ ~sweeping
    /\ SweepDue
    /\ currentBlock < LastLeaseBlock
    /\ sweeping' = TRUE
    /\ epoch' = head
    /\ at' = cursor[head]
    /\ swept' = 0
    /\ UNCHANGED <<metas, tombs, ownerBalance, leaseBalance, currentBlock, queueVars>>

Waiting == sweeping /\ epoch <= currentEpoch /\ at < Len(entries[epoch])

(* Mutant: the sweep stops before its last entry.                          *)
OneLess == Budget - 1

SweepLimit == Budget

(* The entry the sweep is at names this lease, and the lease names the     *)
(* entry.                                                                  *)
EntryAddr == entries[epoch][at + 1]

Current(addr) ==
    /\ addr \in DOMAIN metas
    /\ metas[addr].pruneEpoch = epoch
    /\ metas[addr].pruneSeq = at
    /\ EffectiveStatus(metas[addr], currentBlock) = "Prunable"

(* What the registry can pay is refunded, a tombstone written and the      *)
(* record cleared.                                                         *)
Prune(addr) ==
    LET refund == RefundFor(metas[addr].deposit)
        payout == IF leaseBalance < refund THEN leaseBalance ELSE refund
    IN  /\ metas' = [a \in DOMAIN metas \ {addr} |-> metas[a]]
        /\ tombs' = tombs \cup {addr}
        /\ leaseBalance' = leaseBalance - payout
        /\ ownerBalance' = ownerBalance + payout

PruneEntry ==
    /\ Waiting
    /\ swept < SweepLimit
    /\ \/ Current(EntryAddr) /\ Prune(EntryAddr)
       \/ ~Current(EntryAddr) /\ UNCHANGED <<metas, tombs, ownerBalance, leaseBalance>>
    /\ at' = at + 1
    /\ swept' = swept + 1
    /\ UNCHANGED <<currentBlock, queueVars, sweeping, epoch>>

(* All entries of an epoch are done: it is cleared and the next one is     *)
(* begun.                                                                  *)
ClearPruneEpoch ==
    /\ sweeping
    /\ epoch <= currentEpoch
    /\ at >= Len(entries[epoch])
    /\ entries' = [entries EXCEPT ![epoch] = <<>>]
    /\ cursor' = [cursor EXCEPT ![epoch] = 0]
    /\ epoch' = epoch + 1
    /\ at' = cursor[epoch + 1]
    /\ UNCHANGED <<metas, tombs, ownerBalance, leaseBalance, currentBlock, head, queued,
                   sweeping, swept>>

(* The sweep is over, and with it the block.                               *)
EndSweep ==
    /\ head' = epoch
    /\ sweeping' = FALSE
    /\ epoch' = 0 /\ at' = 0 /\ swept' = 0
    /\ currentBlock' = currentBlock + 1
    /\ UNCHANGED <<metas, tombs, ownerBalance, leaseBalance, entries, queued>>

(* The budget is used up: the cursor says where to go on.                  *)
StopSweep ==
    /\ Waiting
    /\ swept >= SweepLimit
    /\ cursor' = [cursor EXCEPT ![epoch] = at]
    /\ EndSweep

FinishSweep ==
    /\ sweeping
    /\ epoch > currentEpoch
    /\ UNCHANGED cursor
    /\ EndSweep

runPruneSweep == StartSweep \/ PruneEntry \/ ClearPruneEpoch \/ StopSweep \/ FinishSweep

-----------------------------------------------------------------------------
LeaseInit ==
    /\ metas = <<>>
    /\ tombs = {}
    /\ entries = [e \in Epochs |-> <<>>]
    /\ cursor = [e \in Epochs |-> 0]
    /\ head = 0
    /\ ownerBalance = OwnerFunds
    /\ leaseBalance = 0
    /\ currentBlock = 1
    /\ queued = 0
    /\ sweeping = FALSE
    /\ epoch = 0 /\ at = 0 /\ swept = 0

LeaseNext ==
    \/ \E a \in LeaseAddrs, b \in LeaseBlocks : Deploy(a, b) \/ handleRenew(a, b)
    \/ \E a \in LeaseAddrs : handleClose(a)
    \/ EndLeaseBlock
    \/ runPruneSweep
    \/ LeaseReverted

LeaseSpec == LeaseInit /\ [][LeaseNext]_leaseVars

-----------------------------------------------------------------------------
(* Every lease has its place in the prune queue: the entry it names is     *)
(* there, holds its address and was not passed by the sweep, whatever      *)
(* renewals, closes and interrupted sweeps came before.  No lease escapes  *)
(* pruning.                                                                *)
EveryLeaseQueued ==
    \A a \in DOMAIN metas :
        LET e == metas[a].pruneEpoch
        IN  /\ head # 0
            /\ e >= IF sweeping THEN epoch ELSE head
            /\ metas[a].pruneSeq \in
                  (IF sweeping /\ e = epoch THEN at ELSE cursor[e]) .. Len(entries[e]) - 1
            /\ entries[e][metas[a].pruneSeq + 1] = a

(* The registry account holds the deposits on record, so that LEASE_CLOSE  *)
(* never fails with ErrLeaseRegistryInvariant and the sweep never cuts a   *)
(* refund.                                                                 *)
LeaseDeposits == [a \in DOMAIN metas |-> metas[a].deposit]
DepositsHeld == leaseBalance >= SumFunction(LeaseDeposits)

(* Leases through renewals, closings and a budgeted sweep: every lease has *)
(* a queue entry that the sweep will still reach, and the registry account *)
(* holds the deposits.                                                     *)
LeasesSound == EveryLeaseQueued /\ DepositsHeld

(* "Ordinary execution stops before physical pruning begins": a lease that *)
(* the sweep removes was closed by its owner, or expired a whole grace     *)
(* window ago.                                                             *)
PrunedAfterGrace ==
    \A a \in tombs' \ tombs :
          metas[a].deposit = 0 \/ currentBlock >= metas[a].expireAt + GraceBlocks

(* A lease that can be pruned is not used again: it is not renewed, and    *)
(* its address never gets a new contract.                                  *)
NoResurrection ==
    \A a \in LeaseAddrs :
        /\ a \in tombs => a \in tombs' /\ a \notin DOMAIN metas'
        /\ a \in DOMAIN metas \cap DOMAIN metas' /\ EffectiveStatus(metas[a], currentBlock) = "Prunable"
               => EffectiveStatus(metas'[a], currentBlock') \in {"Expired", "Prunable"}

(* A sweep that did not use up its budget leaves no lease behind that can  *)
(* be pruned.                                                              *)
SweepIsComplete ==
    sweeping /\ ~sweeping' /\ swept < Budget
        => \A a \in DOMAIN metas' : EffectiveStatus(metas'[a], currentBlock) # "Prunable"

(* A lease is pruned only after its grace, never comes back from a         *)
(* tombstone, and a sweep within its budget leaves nothing due.            *)
LeaseSteps == [][PrunedAfterGrace /\ NoResurrection /\ SweepIsComplete]_leaseVars
=============================================================================
