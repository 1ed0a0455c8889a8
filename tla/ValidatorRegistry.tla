-------------------------- MODULE ValidatorRegistry --------------------------
(***************************************************************************)
(* The on-chain validator registry (package validator) and the validator   *)
(* set that each epoch block takes from it.                                *)
(*                                                                         *)
(* A system action is a transaction: its handler runs against the chain    *)
(* state inside block `number`, and an error reverts what it did.          *)
(* Addresses are numbers, ordered as their bytes are.  Fees, nonces and    *)
(* block rewards are left out.                                             *)
(***************************************************************************)
EXTENDS Integers, FiniteSets, Sequences, Functions

CONSTANTS
    Addresses,             \* accounts that may become validators
    InitialBalance,        \* balance of each of them at genesis
    Values,                \* tx.Value of a registration or transfer
    MinValidatorStake,     \* params.DPoSMinValidatorStake
    MaxValidators,         \* DPoSConfig.MaxValidators
    Epoch,                 \* DPoSConfig.Epoch
    MaintenanceMaxBlocks,  \* DPoSConfig.MaintenanceMaxBlocksEffective
    GenesisValidators,     \* validators of the genesis Extra
    MaxBlock               \* bound on block numbers

ASSUME RegistryConfigAssumption ==
    /\ Addresses \subseteq Nat
    /\ IsFiniteSet(Addresses)
    /\ InitialBalance \in Nat
    /\ Values \subseteq Nat
    /\ MinValidatorStake \in Nat \ {0}
    /\ MaxValidators \in Nat \ {0}
    /\ Epoch \in Nat \ {0}
    /\ MaintenanceMaxBlocks \in Nat \ {0}
    /\ GenesisValidators \in (SUBSET Addresses) \ {{}}
    /\ MaxBlock \in Nat

VARIABLES
    balance,           \* account balances
    vault,             \* balance of params.ValidatorRegistryAddress
    selfStake,
    status,
    maintenanceSince,  \* block at which maintenance began, 0 if unset
    registered,        \* the permanent "registered" flag
    validatorList,     \* append-only list of ever-registered addresses
    number,            \* block being executed
    proposers,         \* validator set of the snapshot at that block
    fellBack           \* the last epoch block found no active validator

vars == <<balance, vault, selfStake, status, maintenanceSince, registered,
          validatorList, number, proposers, fellBack>>

Inactive           == "inactive"
Active             == "active"
Maintenance        == "maintenance"
MaintenanceExpired == "expired"

ReadEffectiveValidatorStatus(v, currentBlock) ==
    IF /\ status[v] = Maintenance
       /\ currentBlock # 0
       /\ maintenanceSince[v] # 0
       /\ currentBlock - maintenanceSince[v] >= MaintenanceMaxBlocks
    THEN MaintenanceExpired
    ELSE status[v]

(* The comparison of the sort: more stake first, then the lower address.   *)
Precedes(v, w) ==
    \/ selfStake[v] > selfStake[w]
    \/ selfStake[v] = selfStake[w] /\ v < w

(* Mutant: whoever has stake is selected.                                  *)
StakedValidators(currentBlock) ==
    LET entries == {v \in Range(validatorList) : status[v] # Inactive}
    IN  {v \in entries : Cardinality({w \in entries : Precedes(w, v)}) < MaxValidators}

(* Sorted, truncated to MaxValidators and sorted again by address: the set *)
(* of the listed validators that fewer than MaxValidators others precede.  *)
ReadActiveValidatorsAtBlock(currentBlock) ==
    LET entries == {v \in Range(validatorList) :
                       ReadEffectiveValidatorStatus(v, currentBlock) = Active}
    IN  {v \in entries : Cardinality({w \in entries : Precedes(w, v)}) < MaxValidators}

-----------------------------------------------------------------------------
(* Mutant: a validator that registers again is listed again.               *)
AppendAlways(v) == validatorList' = Append(validatorList, v)

AppendOnce(v) ==
    validatorList' = IF v \in registered THEN validatorList ELSE Append(validatorList, v)

(* Mutant: tx.Value is not checked against the sender's balance.           *)
Unchecked(v, value) == TRUE

CanTransfer(v, value) == balance[v] >= value

handleRegister(v, value) ==
    /\ value >= MinValidatorStake
    /\ CanTransfer(v, value)
    /\ selfStake[v] = 0
    /\ balance' = [balance EXCEPT ![v] = @ - value]
    /\ vault' = vault + value
    /\ selfStake' = [selfStake EXCEPT ![v] = value]
    /\ status' = [status EXCEPT ![v] = Active]
    /\ maintenanceSince' = [maintenanceSince EXCEPT ![v] = 0]
    /\ registered' = registered \cup {v}
    /\ AppendOnce(v)
    /\ UNCHANGED <<number, proposers, fellBack>>

(* Mutant: the stake stays on the books after the refund.                  *)
StakeKept(v) == UNCHANGED selfStake

StakeCleared(v) == selfStake' = [selfStake EXCEPT ![v] = 0]

handleWithdraw(v) ==
    /\ status[v] \in {Active, Maintenance}
    /\ vault >= selfStake[v]
    /\ vault' = vault - selfStake[v]
    /\ balance' = [balance EXCEPT ![v] = @ + selfStake[v]]
    /\ StakeCleared(v)
    /\ status' = [status EXCEPT ![v] = Inactive]
    /\ maintenanceSince' = [maintenanceSince EXCEPT ![v] = 0]
    /\ UNCHANGED <<registered, validatorList, number, proposers, fellBack>>

handleEnterMaintenance(v) ==
    /\ status[v] = Active
    /\ status' = [status EXCEPT ![v] = Maintenance]
    /\ maintenanceSince' = [maintenanceSince EXCEPT ![v] = number]
    /\ UNCHANGED <<balance, vault, selfStake, registered, validatorList, number, proposers, fellBack>>

(* Mutant: the window is not checked on the way out.                       *)
MayAlwaysExit(v) == status[v] = Maintenance

MayExit(v) ==
    /\ status[v] = Maintenance
    /\ ReadEffectiveValidatorStatus(v, number) # MaintenanceExpired

handleExitMaintenance(v) ==
    /\ MayExit(v)
    /\ status' = [status EXCEPT ![v] = Active]
    /\ maintenanceSince' = [maintenanceSince EXCEPT ![v] = 0]
    /\ UNCHANGED <<balance, vault, selfStake, registered, validatorList, number, proposers, fellBack>>

(* A plain transfer to the registry's address.                             *)
Transfer(v, value) ==
    /\ value > 0
    /\ CanTransfer(v, value)
    /\ balance' = [balance EXCEPT ![v] = @ - value]
    /\ vault' = vault + value
    /\ UNCHANGED <<selfStake, status, maintenanceSince, registered, validatorList,
                   number, proposers, fellBack>>

(* A handler that returns an error: RevertToSnapshot.                      *)
Reverted == UNCHANGED vars

(* Mutant: no fallback to the validators of the previous epoch.            *)
RegistryOnly(currentBlock) == ReadActiveValidatorsAtBlock(currentBlock)

(* What FinalizeAndAssemble writes into an epoch block's Extra and what    *)
(* verifyCascadingFields and VerifyEpochExtra expect there.                *)
expectedEpochValidators(currentBlock) ==
    LET actual == ReadActiveValidatorsAtBlock(currentBlock)
    IN  IF actual # {} THEN actual ELSE proposers

(* The next block begins.  An epoch block takes the validators from the    *)
(* state of its parent, before its own transactions run.                   *)
NextBlock ==
    /\ number < MaxBlock
    /\ number' = number + 1
    /\ IF number' % Epoch = 0
       THEN /\ proposers' = expectedEpochValidators(number')
            /\ fellBack' = (ReadActiveValidatorsAtBlock(number') = {})
       ELSE UNCHANGED <<proposers, fellBack>>
    /\ UNCHANGED <<balance, vault, selfStake, status, maintenanceSince, registered, validatorList>>

-----------------------------------------------------------------------------
Init ==
    /\ balance = [v \in Addresses |-> InitialBalance]
    /\ vault = 0
    /\ selfStake = [v \in Addresses |-> 0]
    /\ status = [v \in Addresses |-> Inactive]
    /\ maintenanceSince = [v \in Addresses |-> 0]
    /\ registered = {}
    /\ validatorList = <<>>
    /\ number = 1
    /\ proposers = GenesisValidators
    /\ fellBack = FALSE

SystemAction(v) ==
    \/ \E value \in Values : handleRegister(v, value)
    \/ handleWithdraw(v)
    \/ handleEnterMaintenance(v)
    \/ handleExitMaintenance(v)
    \/ \E value \in Values : Transfer(v, value)

Next == NextBlock \/ Reverted \/ \E v \in Addresses : SystemAction(v)

Spec == Init /\ [][Next]_vars

-----------------------------------------------------------------------------
(* Type invariant: the storage slots of the registry, the balances and the *)
(* proposers of the snapshot keep the shape their accessors give them.     *)
TypeOK ==
    /\ balance \in [Addresses -> Nat]
    /\ vault \in Nat
    /\ selfStake \in [Addresses -> Nat]
    /\ status \in [Addresses -> {Inactive, Active, Maintenance}]
    /\ maintenanceSince \in [Addresses -> Nat]
    /\ registered \in SUBSET Addresses
    /\ validatorList \in Seq(Addresses)
    /\ number \in Nat \ {0}
    /\ proposers \in SUBSET Addresses
    /\ fellBack \in BOOLEAN

(* handleWithdraw can always refund: the registry's account holds at least *)
(* the locked stakes, whatever was registered, withdrawn or donated, so    *)
(* ErrValidatorRegistryBalanceBroken is never returned.                    *)
StakeBacked == vault >= SumFunctionOnSet(selfStake, Addresses)

(* Stake, status, the registered flag and the append-only list tell one    *)
(* story: stake is locked exactly while the validator is not inactive, and *)
(* each ever-registered address is listed exactly once, so that            *)
(* ReadActiveValidators never counts a validator twice.                    *)
RegistryCoherent ==
    /\ \A v \in Addresses :
          /\ status[v] # Inactive <=> selfStake[v] # 0
          /\ selfStake[v] # 0 => selfStake[v] >= MinValidatorStake /\ v \in registered
          /\ maintenanceSince[v] # 0 <=> status[v] = Maintenance
          /\ maintenanceSince[v] <= number
    /\ Range(validatorList) = registered
    /\ IsInjective(validatorList)

(* The maintenance window is protocol-hard: a validator that overstayed it *)
(* is not active again unless it withdrew and registered anew.             *)
ExpiredStaysOut ==
    [][\A v \in Addresses :
          status[v] = Maintenance /\ number >= maintenanceSince[v] + MaintenanceMaxBlocks
              => status'[v] # Active]_vars

(* No sequence of withdrawals, maintenance and expiry leaves the chain     *)
(* without proposers or with more than the configured maximum.             *)
ProposersBounded ==
    /\ proposers # {}
    /\ Cardinality(proposers) <= MaxValidators \/ proposers = GenesisValidators

(* Draining: a validator in maintenance since before the last epoch block  *)
(* is not a proposer any more, unless that block found no active validator *)
(* at all and kept the previous set.                                       *)
DrainedByEpoch ==
    \A v \in Addresses :
           /\ status[v] = Maintenance
           /\ maintenanceSince[v] < number - (number % Epoch)
           /\ ~fellBack
        => v \notin proposers

(* The stakes on the books count: every withdrawal can be paid, the        *)
(* proposers of an epoch are never too many or none, and whoever entered   *)
(* maintenance before the epoch block is not among them.                   *)
StakeCounts == StakeBacked /\ ProposersBounded /\ DrainedByEpoch
=============================================================================
