----------------------------- MODULE Checkpoint -----------------------------
(***************************************************************************)
(* The pure arithmetic of GTOS checkpoint finality: which block numbers    *)
(* are checkpoints, which checkpoint a block may vote for or certify, and  *)
(* how many votes make a quorum certificate (QC).                          *)
(***************************************************************************)
EXTENDS Integers, FiniteSets

CONSTANTS
    CheckpointInterval,      \* K, DPoSConfig.CheckpointInterval
    CheckpointFinalityBlock  \* activation height of the finality gadget

ASSUME CheckpointConfigAssumption ==
    /\ CheckpointInterval \in Nat \ {0}
    /\ CheckpointFinalityBlock \in Nat

(* The smallest multiple of interval that is not below activationBlock.    *)
firstCheckpointAtOrAfter(activationBlock, interval) ==
    LET rem == activationBlock % interval
    IN  IF rem = 0 THEN activationBlock ELSE activationBlock + (interval - rem)

firstEligible ==
    firstCheckpointAtOrAfter(CheckpointFinalityBlock, CheckpointInterval)

IsCheckpointFinality(number) == number >= CheckpointFinalityBlock

(* A height validators may vote for: a positive multiple of K at or above  *)
(* the first eligible one.                                                 *)
EligibleCheckpoint(number) ==
    /\ number # 0
    /\ number >= firstEligible
    /\ number % CheckpointInterval = 0

(* The one checkpoint that the sealer of a block numbered `number` votes   *)
(* for and tries to certify: the last multiple of K strictly below it.     *)
Candidate(number) == ((number - 1) \div CheckpointInterval) * CheckpointInterval

(* The candidate is worth handling: it is eligible by height and lies      *)
(* above what the local snapshot already holds to be final.                *)
CandidateOpen(number, finalizedNumber) ==
    /\ number > firstEligible
    /\ Candidate(number) >= firstEligible
    /\ Candidate(number) > finalizedNumber

(* Mutant: rounds down.                                                    *)
QuorumFloor(n) == IF n <= 0 THEN 1 ELSE (2 * n) \div 3

(* ceil(2N/3) for N validators.                                            *)
Quorum(n) == IF n <= 0 THEN 1 ELSE (2 * n + 2) \div 3

IsQuorum(signers, validators) ==
    /\ signers \subseteq validators
    /\ Cardinality(signers) >= Quorum(Cardinality(validators))

(* Lower edge of the window of checkpoint numbers a node keeps votes for.  *)
WindowFloor(headNumber) ==
    IF headNumber > 2 * CheckpointInterval
    THEN headNumber - 2 * CheckpointInterval
    ELSE 0
=============================================================================
