---------------------------- MODULE PolicyWallet ----------------------------
(***************************************************************************)
(* The policy wallet of one account (package policywallet): its owner,     *)
(* guardian, suspension, limits, allowlist, terminal policy, delegates and *)
(* auditor key, and the timelocked recovery of ownership by the guardian.  *)
(*                                                                         *)
(* A handler that returns an error is rolled back, so the owner that       *)
(* requireOwner writes for the first caller stays only on success.         *)
(***************************************************************************)
EXTENDS Integers, FiniteSets

CONSTANTS
    Accounts,
    NoOne,                   \* the zero address
    Limits,                  \* values of limits and allowances, 0 unlimited
    Tiers,                   \* trust tiers
    Keys,                    \* auditor keys
    RecoveryTimelockBlocks,
    MaxHeight                \* bound on the block number

ASSUME WalletAssumption ==
    /\ NoOne \notin Accounts    \* the handlers refuse the zero address
    /\ RecoveryTimelockBlocks \in Nat

VARIABLES
    owner, guardian, suspended,
    spendCap,    \* the single transaction limit
    allowlist,
    terminal,    \* policy of the terminal class, or Disabled
    delegates,   \* accounts with an active authorisation
    auditorKey,
    recovery,    \* the recovery under way, or NoRecovery
    height,      \* block being executed
    ownedSince   \* history: block in which the owner became the owner

policy == <<spendCap, allowlist, terminal, delegates, auditorKey>>
walletVars == <<owner, guardian, suspended, policy, recovery, height, ownedSince>>

Disabled == [enabled |-> FALSE, maxSingle |-> 0, minTrust |-> 0]
NoRecovery == [active |-> FALSE, guardian |-> NoOne, newOwner |-> NoOne, initiatedAt |-> 0]

-----------------------------------------------------------------------------
(* The first caller becomes the owner.                                     *)
requireOwner(from) ==
    /\ owner \in {NoOne, from}
    /\ owner' = from
    /\ ownedSince' = IF owner = NoOne THEN height ELSE ownedSince

requireNotSuspended == ~suspended

(* What the handlers that configure the wallet have in common.             *)
Configure(from) ==
    /\ requireOwner(from)
    /\ requireNotSuspended
    /\ UNCHANGED <<suspended, recovery, height>>

handleSetSpendCaps(from, single) ==
    /\ Configure(from)
    /\ spendCap' = single
    /\ UNCHANGED <<guardian, allowlist, terminal, delegates, auditorKey>>

(* Mutant: the suspension is not looked at.                                *)
AllowlistWhenSuspended(from, target, allowed) ==
    /\ requireOwner(from)
    /\ allowlist' = IF allowed THEN allowlist \cup {target} ELSE allowlist \ {target}
    /\ UNCHANGED <<suspended, recovery, height, guardian, spendCap, terminal,
                   delegates, auditorKey>>

handleSetAllowlist(from, target, allowed) ==
    /\ Configure(from)
    /\ allowlist' = IF allowed THEN allowlist \cup {target} ELSE allowlist \ {target}
    /\ UNCHANGED <<guardian, spendCap, terminal, delegates, auditorKey>>

handleSetTerminalPolicy(from, maxSingle, minTrust) ==
    /\ Configure(from)
    /\ terminal' = [enabled |-> TRUE, maxSingle |-> maxSingle, minTrust |-> minTrust]
    /\ UNCHANGED <<guardian, spendCap, allowlist, delegates, auditorKey>>

handleAuthorizeDelegate(from, delegate, allowance) ==
    /\ Configure(from)
    /\ allowance > 0
    /\ delegates' = delegates \cup {delegate}
    /\ UNCHANGED <<guardian, spendCap, allowlist, terminal, auditorKey>>

(* Allowed while the wallet is suspended.                                  *)
handleRevokeDelegate(from, delegate) ==
    /\ requireOwner(from)
    /\ delegates' = delegates \ {delegate}
    /\ UNCHANGED <<guardian, suspended, spendCap, allowlist, terminal, auditorKey,
                   recovery, height>>

handleSetGuardian(from, newGuardian) ==
    /\ Configure(from)
    /\ guardian' = newGuardian
    /\ UNCHANGED policy

handleSetAuditorKey(from, key) ==
    /\ Configure(from)
    /\ auditorKey' = key
    /\ UNCHANGED <<guardian, spendCap, allowlist, terminal, delegates>>

-----------------------------------------------------------------------------
handleInitiateRecovery(from, newOwner) ==
    /\ guardian # NoOne /\ from = guardian
    /\ ~recovery.active
    /\ recovery' = [active |-> TRUE, guardian |-> guardian, newOwner |-> newOwner,
                    initiatedAt |-> height]
    /\ UNCHANGED <<owner, guardian, suspended, policy, height, ownedSince>>

handleCancelRecovery(from) ==
    /\ requireOwner(from)
    /\ recovery.active
    /\ recovery' = NoRecovery
    /\ UNCHANGED <<guardian, suspended, policy, height>>

(* Mutant: the timelock is not added.                                      *)
NoTimelock == height >= recovery.initiatedAt

TimelockElapsed == height >= recovery.initiatedAt + RecoveryTimelockBlocks

(* Mutant: the recovery stays under way.                                   *)
StaysActive == recovery

Cleared == NoRecovery

(* By the guardian that initiated the recovery, whoever is guardian now.   *)
handleCompleteRecovery(from) ==
    /\ recovery.active
    /\ from = recovery.guardian
    /\ TimelockElapsed
    /\ owner' = recovery.newOwner
    /\ ownedSince' = height
    /\ recovery' = Cleared
    /\ UNCHANGED <<guardian, suspended, policy, height>>

handleSuspend(from) ==
    /\ owner # NoOne
    /\ from \in {owner, guardian}
    /\ suspended' = TRUE
    /\ UNCHANGED <<owner, guardian, policy, recovery, height, ownedSince>>

handleUnsuspend(from) ==
    /\ requireOwner(from)
    /\ suspended
    /\ suspended' = FALSE
    /\ UNCHANGED <<guardian, policy, recovery, height>>

-----------------------------------------------------------------------------
(* A failed handler leaves the wallet as it is.                            *)
WalletReverted == UNCHANGED walletVars

WalletBlock ==
    /\ height < MaxHeight
    /\ height' = height + 1
    /\ UNCHANGED <<owner, guardian, suspended, policy, recovery, ownedSince>>

WalletInit ==
    /\ owner = NoOne /\ guardian = NoOne /\ suspended = FALSE
    /\ spendCap = 0 /\ allowlist = {} /\ terminal = Disabled
    /\ delegates = {} /\ auditorKey = NoOne
    /\ recovery = NoRecovery /\ height = 1 /\ ownedSince = 0

WalletNext ==
    \/ WalletBlock \/ WalletReverted
    \/ \E from \in Accounts :
          \/ handleSuspend(from) \/ handleUnsuspend(from)
          \/ handleCancelRecovery(from) \/ handleCompleteRecovery(from)
          \/ \E n \in Limits :
                \/ handleSetSpendCaps(from, n)
                \/ \E t \in Tiers : handleSetTerminalPolicy(from, n, t)
                \/ \E a \in Accounts : handleAuthorizeDelegate(from, a, n)
          \/ \E a \in Accounts :
                \/ \E allowed \in BOOLEAN : handleSetAllowlist(from, a, allowed)
                \/ handleRevokeDelegate(from, a)
                \/ handleSetGuardian(from, a)
                \/ handleInitiateRecovery(from, a)
          \/ \E k \in Keys : handleSetAuditorKey(from, k)

WalletSpec == WalletInit /\ [][WalletNext]_walletVars

-----------------------------------------------------------------------------
(* Ownership leaves an account only through a recovery, and only after     *)
(* that account was the owner for the whole timelock of it: whoever loses  *)
(* the wallet had RecoveryTimelockBlocks blocks to cancel, whatever        *)
(* happened to the guardian meanwhile.                                     *)
OwnerHadTheTimelock ==
    owner # NoOne /\ owner' # owner =>
        /\ recovery.active /\ owner' = recovery.newOwner
        /\ height - recovery.initiatedAt >= RecoveryTimelockBlocks
        /\ height - ownedSince >= RecoveryTimelockBlocks

(* A completed recovery is over: the new owner did not inherit one, so     *)
(* nobody can take the wallet from the new owner without a recovery        *)
(* initiated after they became the owner.                                  *)
NoInheritedRecovery == recovery.active => recovery.initiatedAt >= ownedSince

(* While a wallet stays suspended its guardian, limits, allowlist,         *)
(* terminal policy and auditor key do not change and nobody gains a        *)
(* delegation, not even when a recovery changes the owner.                 *)
SuspendedIsFrozen ==
    suspended /\ suspended' =>
        /\ UNCHANGED <<guardian, spendCap, allowlist, terminal, auditorKey>>
        /\ delegates' \subseteq delegates

(* What no step of a wallet may do: take the ownership without the         *)
(* timelock (handleCompleteRecovery), or change the policy of a suspended  *)
(* wallet (requireNotSuspended).                                           *)
WalletGuarded == [][OwnerHadTheTimelock /\ SuspendedIsFrozen]_walletVars
=============================================================================
