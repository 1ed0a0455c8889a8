------------------------------ MODULE VotePool ------------------------------
(***************************************************************************)
(* The in-memory checkpoint vote cache of one node                         *)
(* (consensus/dpos/finality_pool.go), as operators on a pool value.        *)
(* An envelope is [number, hash, signer]; its signature is valid unless a  *)
(* user of this module says otherwise.  Lists whose order and multiplicity *)
(* no operation looks at are sets.                                         *)
(***************************************************************************)
EXTENDS Checkpoint

CONSTANT MaxPendingPerCheckpoint   \* maxPendingPerCheckpoint

ASSUME PendingCapAssumption == MaxPendingPerCheckpoint \in Nat

(* The pools that hold envelopes of S only.                                *)
Pools(S) == [votes : SUBSET S, equivocations : SUBSET S, pending : SUBSET S]

EmptyPool == [votes |-> {}, equivocations |-> {}, pending |-> {}]

(* The vote already cached for this signer at this checkpoint number, as a *)
(* set of at most one envelope, whatever the hash it is for.               *)
ExistingVote(pool, number, signer) ==
    {e \in pool.votes : e.number = number /\ e.signer = signer}

(* Mutant: every vote is cached, also the second of a signer at a number.  *)
AddEveryVote(pool, env) == [pool EXCEPT !.votes = @ \cup {env}]

(* First vote of a signer at a number is cached, a repetition is ignored,  *)
(* a vote for another hash is kept aside as evidence.                      *)
AddVote(pool, env) ==
    LET prev == ExistingVote(pool, env.number, env.signer)
    IN  CASE prev = {}   -> [pool EXCEPT !.votes = @ \cup {env}]
          [] env \in prev -> pool
          [] OTHER        -> [pool EXCEPT !.equivocations = @ \cup {env}]

PendingAt(pool, number) == {e \in pool.pending : e.number = number}

(* Queue a vote that cannot be verified yet: one per signer and number, at *)
(* most MaxPendingPerCheckpoint per number.                                *)
AddPending(pool, env) ==
    IF \/ \E e \in PendingAt(pool, env.number) : e.signer = env.signer
       \/ Cardinality(PendingAt(pool, env.number)) >= MaxPendingPerCheckpoint
    THEN pool
    ELSE [pool EXCEPT !.pending = @ \cup {env}]

(* AddVote for each of a set of envelopes that has at most one envelope per *)
(* signer and number, so that the order of the additions does not matter.  *)
AddVotes(pool, envs) ==
    LET fresh == {e \in envs : ExistingVote(pool, e.number, e.signer) = {}}
    IN  [pool EXCEPT !.votes = @ \cup fresh,
                     !.equivocations = @ \cup (envs \ (fresh \cup pool.votes))]

(* DrainPending(number) and AddVote of the drained envelopes that verify   *)
(* for checkpoint `hash` and its signer set; the others are dropped.       *)
PromotePending(pool, number, hash, signerSet) ==
    LET drained == PendingAt(pool, number)
    IN  AddVotes([pool EXCEPT !.pending = @ \ drained],
                 {e \in drained : e.hash = hash /\ e.signer \in signerSet})

GetVotes(pool, number, hash) ==
    {e \in pool.votes : e.number = number /\ e.hash = hash}

(* Forget everything at or below the finalized number or the sliding       *)
(* window's floor.                                                         *)
Prune(pool, finalizedNumber, currentHead) ==
    LET Kept(envs) == {e \in envs : /\ e.number > finalizedNumber
                                    /\ e.number > WindowFloor(currentHead)}
    IN  [votes         |-> Kept(pool.votes),
         equivocations |-> Kept(pool.equivocations),
         pending       |-> Kept(pool.pending)]
=============================================================================
