------------------------- MODULE CheckpointFinality -------------------------
(***************************************************************************)
(* Checkpoint finality as a network of nodes runs it: sealing blocks,      *)
(* voting for checkpoints, gossiping votes, assembling and verifying       *)
(* quorum certificates, adopting blocks, committing finality, crashing.    *)
(*                                                                         *)
(* Blocks are identified by their hash.  A header carries its number, its  *)
(* chain of ancestors `path` (path[i] is the ancestor numbered i, itself   *)
(* included), its total difficulty, the validator set of the snapshot      *)
(* after it (`vals`), the active set its state's validator registry        *)
(* records (`reg`), and the QC in its Extra field, if any.  The signatures *)
(* of a QC are represented by the set of its signers.                      *)
(*                                                                         *)
(* Slots, turns and recency are the subject of another module: a sealer    *)
(* refused at one slot is accepted at a later one, so here any validator   *)
(* may seal, in turn or out of turn.                                       *)
(***************************************************************************)
EXTENDS VotePool

CONSTANTS
    Nodes,          \* nodes; a validator is the node that holds its key
    Faulty,         \* validators that may sign anything
    ValidatorSets,  \* the active sets the registry can record
    GenesisSet,     \* validators listed in the genesis Extra
    Epoch,          \* DPoSConfig.Epoch
    Hashes,         \* block identities available to the instance
    Genesis,        \* the genesis hash
    NoHash,         \* the zero hash
    Difficulties,   \* difficulties a sealed block may have, of {1, 2}
    VoteSigLen,     \* bytes that the configured SignerFn returns for a vote
    MaxHeight       \* bound on block numbers

ASSUME FinalityConfigAssumption ==
    /\ IsFiniteSet(Nodes)
    /\ Faulty \subseteq Nodes
    /\ ValidatorSets \subseteq SUBSET Nodes
    /\ GenesisSet \in ValidatorSets
    /\ Epoch \in Nat \ {0}
    /\ Genesis \in Hashes
    /\ NoHash \notin Hashes
    /\ Difficulties \subseteq {1, 2}   \* diffNoTurn, diffInTurn
    /\ VoteSigLen \in Nat
    /\ MaxHeight \in Nat

VARIABLES
    hdr,        \* header of every block sealed so far, by hash
    net,        \* every vote envelope ever gossiped
    stored,     \* per node: blocks held with their state
    head,       \* per node: canonical head block
    finalized,  \* per node: finalized block on disk (Genesis if none)
    wasFinal,   \* per node: earlier values of finalized, which cached
                \* snapshots may still carry
    signed,     \* per node: durable signed-checkpoint record, by number
    pool,       \* per node: vote pool
    staged,     \* per node: finality results awaiting canonical adoption
    task,       \* per node: sealing task of the miner
    adopting    \* per node: new head whose OnCanonicalBlock has not run yet

vars == <<hdr, net, stored, head, finalized, wasFinal, signed, pool, staged, task, adopting>>

Heights   == 0..MaxHeight
Honest    == Nodes \ Faulty
Envelope  == [number : Heights, hash : Hashes, signer : Nodes]
Blocks    == DOMAIN hdr
NoQC      == [number |-> 0, hash |-> NoHash, signers |-> {}]
NoTask    == [parent |-> NoHash, qc |-> NoQC, sealed |-> FALSE]
Idle(n)   == adopting[n] = NoHash

Ancestor(h, number)  == hdr[h].path[number]
IsAncestor(a, h)     == hdr[a].number <= hdr[h].number /\ Ancestor(h, hdr[a].number) = a
FinalizedNumber(n)   == hdr[finalized[n]].number

(* Signers of checkpoint h: the validators of the snapshot before it.      *)
SignerSet(h) == hdr[Ancestor(h, hdr[h].number - 1)].vals

(* Snapshot.FinalizedNumber/Hash of the snapshot at block h, as the set of *)
(* possible values: the stored finality when that is not above h, else     *)
(* what the cached snapshot kept from an earlier call.  Genesis, numbered  *)
(* 0, stands for "nothing finalized".                                      *)
SnapFinalized(n, h) ==
    IF FinalizedNumber(n) <= hdr[h].number
    THEN {finalized[n]}
    ELSE {f \in wasFinal[n] : hdr[f].number <= hdr[h].number}

-----------------------------------------------------------------------------
(* Block production.                                                       *)

(* Mutant: one vote short of the quorum is enough.                         *)
CertificateShort(p, cp) ==
    LET signers == {e.signer : e \in GetVotes(p, hdr[cp].number, cp)} \cap SignerSet(cp)
    IN  IF signers # {} /\ Cardinality(signers) >= Quorum(Cardinality(SignerSet(cp))) - 1
        THEN [number |-> hdr[cp].number, hash |-> cp, signers |-> signers]
        ELSE NoQC

(* The certificate the votes of a pool allow for checkpoint cp, if any.    *)
CertificateFrom(p, cp) ==
    LET signers == {e.signer : e \in GetVotes(p, hdr[cp].number, cp)} \cap SignerSet(cp)
    IN  IF Cardinality(signers) >= Quorum(Cardinality(SignerSet(cp)))
        THEN [number |-> hdr[cp].number, hash |-> cp, signers |-> signers]
        ELSE NoQC

(* commitWork -> FinalizeAndAssemble on top of the current head: promote   *)
(* the pending votes of the candidate checkpoint of this branch, then      *)
(* embed a QC for it if the pool holds a quorum.                           *)
FinalizeAndAssemble(n, fin) ==
    LET parent == head[n]
        number == hdr[parent].number + 1
        open   == /\ IsCheckpointFinality(number)
                  /\ CandidateOpen(number, hdr[fin].number)
        cp     == Ancestor(parent, Candidate(number))
        p      == PromotePending(pool[n], Candidate(number), cp, SignerSet(cp))
    IN  /\ number <= MaxHeight
        /\ fin \in SnapFinalized(n, parent)
        /\ task' = [task EXCEPT ![n] =
               [parent |-> parent, sealed |-> FALSE,
                qc     |-> IF open THEN CertificateFrom(p, cp) ELSE NoQC]]
        /\ pool' = IF open THEN [pool EXCEPT ![n] = p] ELSE pool
        /\ UNCHANGED <<hdr, net, stored, head, finalized, wasFinal, signed, staged, adopting>>

(* Mutant: the record is not consulted.                                    *)
MaySignAnything(n, number, hash) == TRUE

(* The double-sign guard: nothing, or this very hash, is on record.        *)
MaySign(n, number, hash) == signed[n][number] \in {NoHash, hash}

(* maybeProduceCheckpointVote looks the candidate up on the canonical      *)
(* chain, which need not be the branch of the block being sealed.          *)
VoteTarget(n, number) ==
    LET c == Candidate(number)
    IN  IF c <= hdr[head[n]].number THEN Ancestor(head[n], c) ELSE NoHash

(* Mutant: the vote is numbered after the block being sealed.              *)
VoteForNext(n, cp) == [number |-> hdr[cp].number + 1, hash |-> cp, signer |-> n]

VoteFor(n, cp) == [number |-> hdr[cp].number, hash |-> cp, signer |-> n]

(* Record first, then cache, then gossip.                                  *)
CastVote(n, cp, snapFin, number) ==
    /\ signed' = [signed EXCEPT ![n][hdr[cp].number] = cp]
    /\ pool' = [pool EXCEPT ![n] = Prune(AddVote(@, VoteFor(n, cp)), snapFin, number)]
    /\ net' = net \cup {VoteFor(n, cp)}

NoVote(n, snapFin, number) ==
    /\ pool' = [pool EXCEPT ![n] = Prune(@, snapFin, number)]
    /\ UNCHANGED <<signed, net>>

(* maybeProduceCheckpointVote and the Prune that follows it in Seal.       *)
MaybeProduceCheckpointVote(n, number, snapFin) ==
    LET cp == VoteTarget(n, number)
    IN  IF /\ CandidateOpen(number, snapFin)
           /\ cp # NoHash
           /\ MaySign(n, hdr[cp].number, cp)
           /\ n \in SignerSet(cp)
           /\ VoteSigLen = 64
        THEN CastVote(n, cp, snapFin, number)
        ELSE NoVote(n, snapFin, number)

(* DPoS.Seal: the block is sealed now and released after a delay; the vote *)
(* leaves at once.                                                         *)
Seal(n, fin) ==
    LET parent == task[n].parent
        number == hdr[parent].number + 1
    IN  /\ parent # NoHash
        /\ ~task[n].sealed
        /\ n \in hdr[parent].vals
        /\ fin \in SnapFinalized(n, parent)
        /\ task' = [task EXCEPT ![n].sealed = TRUE]
        /\ IF IsCheckpointFinality(number)
           THEN MaybeProduceCheckpointVote(n, number, hdr[fin].number)
           ELSE UNCHANGED <<signed, pool, net>>
        /\ UNCHANGED <<hdr, stored, head, finalized, wasFinal, staged, adopting>>

(* Seal returns an error (not a validator, or signed too recently).        *)
SealRefused(n) ==
    /\ task[n].parent # NoHash
    /\ ~task[n].sealed
    /\ task' = [task EXCEPT ![n] = NoTask]
    /\ UNCHANGED <<hdr, net, stored, head, finalized, wasFinal, signed, pool, staged, adopting>>

-----------------------------------------------------------------------------
(* Adopting blocks.                                                        *)

(* ForkChoice.ReorgNeeded: total difficulty first, then the lower number;  *)
(* a tie at the same height is decided by preference and chance.           *)
MayReorg(H, cur, b) ==
    \/ H[b].td > H[cur].td
    \/ H[b].td = H[cur].td /\ H[b].number <= H[cur].number

MayKeep(H, cur, b) ==
    \/ H[b].td < H[cur].td
    \/ H[b].td = H[cur].td /\ H[b].number >= H[cur].number

(* Mutant: the walk back to the finalized block is left out.               *)
aboveFinalized(H, b, fin) == H[b].number >= H[fin].number

isFinalizedAncestor(H, b, fin) ==
    /\ H[b].number >= H[fin].number
    /\ H[b].path[H[fin].number] = fin

(* writeBlockAndSetHead up to the head write; OnCanonicalBlock follows as  *)
(* a step of its own because the process may stop in between.              *)
WriteBlockAndSetHead(H, n, b) ==
    /\ stored' = [stored EXCEPT ![n] = @ \cup {b}]
    /\ \/ /\ MayReorg(H, head[n], b)
          /\ isFinalizedAncestor(H, b, finalized[n])
          /\ head' = [head EXCEPT ![n] = b]
          /\ adopting' = [adopting EXCEPT ![n] = b]
       \/ /\ \/ MayKeep(H, head[n], b)
             \/ ~isFinalizedAncestor(H, b, finalized[n])
          /\ UNCHANGED <<head, adopting>>

(* The header of a block h sealed on parent with difficulty d, whose       *)
(* transactions leave the active set `reg` in the registry.  An epoch takes *)
(* its validators from there, unless none is active.                       *)
SealedHeader(h, parent, d, reg, qc) ==
    LET number == hdr[parent].number + 1
    IN  [number |-> number,
         path   |-> [i \in 0..number |-> IF i = number THEN h ELSE Ancestor(parent, i)],
         td     |-> hdr[parent].td + d,
         vals   |-> IF number % Epoch = 0 /\ hdr[parent].reg # {}
                    THEN hdr[parent].reg ELSE hdr[parent].vals,
         reg    |-> reg,
         qc     |-> qc]

WithHeader(h, header) ==
    [x \in Blocks \cup {h} |-> IF x = h THEN header ELSE hdr[x]]

(* worker.resultLoop: the node's own block is written without passing      *)
(* through the verification that stages finality results.                  *)
ResultLoop(n, h, d, reg) ==
    LET t == task[n]
        H == WithHeader(h, SealedHeader(h, t.parent, d, reg, t.qc))
    IN  /\ t.sealed
        /\ Idle(n)
        /\ h \in Hashes \ Blocks
        /\ hdr' = H
        /\ WriteBlockAndSetHead(H, n, h)
        /\ task' = [task EXCEPT ![n] = NoTask]
        /\ UNCHANGED <<net, finalized, wasFinal, signed, pool, staged>>

(* verifyCheckpointQCStructure on the QC of a header numbered `number`.    *)
QCStructureOK(qc, number) ==
    /\ qc.number >= firstEligible
    /\ qc.number % CheckpointInterval = 0
    /\ number > qc.number
    /\ number - qc.number <= 2 * CheckpointInterval
    /\ qc.signers # {}

(* ed25519.Verify for every signature of the QC: a signature on a vote     *)
(* exists only if its signer made it.                                      *)
SignaturesVerify(qc) ==
    \A s \in qc.signers : [number |-> qc.number, hash |-> qc.hash, signer |-> s] \in net

(* verifyCheckpointQCFull up to the quorum check, for the QC of block b.   *)
QCFullOK(b) ==
    LET qc == hdr[b].qc
    IN  /\ Ancestor(b, qc.number) = qc.hash
        /\ qc.number # 0
        /\ SignaturesVerify(qc)
        /\ IsQuorum(qc.signers, SignerSet(qc.hash))

HasQC(b) == IsCheckpointFinality(hdr[b].number) /\ hdr[b].qc # NoQC

(* The QC of b passes header verification and VerifyFinalizedState.        *)
ValidQC(b) ==
    /\ HasQC(b)
    /\ QCStructureOK(hdr[b].qc, hdr[b].number)
    /\ QCFullOK(b)

Parent(b) == Ancestor(b, hdr[b].number - 1)

(* The last check of verifyCheckpointQCFull: the QC does not bind another  *)
(* hash to the number that is already final here.                          *)
AgreesWithFinality(fin, b) ==
    hdr[fin].number = hdr[b].qc.number => fin = hdr[b].qc.hash

(* Mutant: phase 2 verification is skipped.                                *)
StructureOnly(fin, b) == HasQC(b) => QCStructureOK(hdr[b].qc, hdr[b].number)

Acceptable(fin, b) == HasQC(b) => ValidQC(b) /\ AgreesWithFinality(fin, b)

(* stageFinalityResult, for a QC above the snapshot's finalized number.    *)
StagedBy(fin, b) ==
    IF HasQC(b) /\ hdr[b].qc.number > hdr[fin].number
    THEN {[carrier |-> b, number |-> hdr[b].qc.number, hash |-> hdr[b].qc.hash]}
    ELSE {}

(* insertChain on a block that is new to the node.                         *)
InsertBlock(n, b, fin) ==
    /\ Idle(n)
    /\ b \in Blocks \ stored[n]
    /\ Parent(b) \in stored[n]
    /\ fin \in SnapFinalized(n, Parent(b))
    /\ Acceptable(fin, b)
    /\ staged' = [staged EXCEPT ![n] = @ \cup StagedBy(fin, b)]
    /\ WriteBlockAndSetHead(hdr, n, b)
    /\ UNCHANGED <<hdr, net, finalized, wasFinal, signed, pool, task>>

(* insertChain on a block held already: writeKnownBlock makes it the head  *)
(* when the fork choice prefers it and it is not canonical.                *)
WriteKnownBlock(n, b) ==
    /\ Idle(n)
    /\ b \in stored[n]
    /\ MayReorg(hdr, head[n], b)
    /\ ~IsAncestor(b, head[n])
    /\ head' = [head EXCEPT ![n] = b]
    /\ UNCHANGED <<hdr, net, stored, finalized, wasFinal, signed, pool, staged, task, adopting>>

(* Mutant: the block carrying the certificate is taken for the certified   *)
(* one.                                                                    *)
CommittedCarrier(r) == r.carrier

(* The block that a staged result makes final.                             *)
Committed(r) == r.hash

(* OnCanonicalBlock: commit the result staged for the adopted block if it  *)
(* is above the finality on disk.                                          *)
OnCanonicalBlock(n) ==
    LET results == {r \in staged[n] : r.carrier = adopting[n]}
        newer   == {r \in results : r.number > FinalizedNumber(n)}
    IN  /\ ~Idle(n)
        /\ \/ /\ newer = {}
              /\ UNCHANGED <<finalized, wasFinal>>
           \/ \E r \in newer :
                 /\ finalized' = [finalized EXCEPT ![n] = Committed(r)]
                 /\ wasFinal' = [wasFinal EXCEPT ![n] = @ \cup {Committed(r)}]
        /\ staged' = [staged EXCEPT ![n] = @ \ results]
        /\ adopting' = [adopting EXCEPT ![n] = NoHash]
        /\ UNCHANGED <<hdr, net, stored, head, signed, pool, task>>

-----------------------------------------------------------------------------
(* Votes from the network, crash and restart, faulty validators.           *)

HandleIncomingVote(n, env) ==
    LET headNumber == hdr[head[n]].number
        known      == env.hash \in stored[n]
    IN  /\ EligibleCheckpoint(env.number)
        /\ env.number >= WindowFloor(headNumber)
        /\ env.number <= headNumber + 2 * CheckpointInterval
        /\ known => env.signer \in SignerSet(env.hash)
        /\ pool' = [pool EXCEPT ![n] =
               Prune(IF known THEN AddVote(@, env) ELSE AddPending(@, env),
                     FinalizedNumber(n), headNumber)]
        /\ UNCHANGED <<hdr, net, stored, head, finalized, wasFinal, signed, staged, task, adopting>>

(* Mutant: the finalized hash lives in memory only.                        *)
CrashForgetsFinality(n) ==
    /\ finalized' = [finalized EXCEPT ![n] = Genesis]
    /\ pool' = [pool EXCEPT ![n] = EmptyPool]
    /\ staged' = [staged EXCEPT ![n] = {}]
    /\ task' = [task EXCEPT ![n] = NoTask]
    /\ adopting' = [adopting EXCEPT ![n] = NoHash]
    /\ UNCHANGED <<hdr, net, stored, head, wasFinal, signed>>

(* The process stops: what is only in memory is gone.                      *)
Crash(n) ==
    /\ pool' = [pool EXCEPT ![n] = EmptyPool]
    /\ staged' = [staged EXCEPT ![n] = {}]
    /\ task' = [task EXCEPT ![n] = NoTask]
    /\ adopting' = [adopting EXCEPT ![n] = NoHash]
    /\ UNCHANGED <<hdr, net, stored, head, finalized, wasFinal, signed>>

(* RestartGossip when mining starts: votes on record above the finalized   *)
(* number whose block is still canonical are signed and gossiped again.    *)
RestartGossip(n) ==
    LET unsettled == {c \in Heights :
                         /\ c > FinalizedNumber(n)
                         /\ c <= hdr[head[n]].number
                         /\ signed[n][c] = Ancestor(head[n], c)
                         /\ n \in SignerSet(signed[n][c])}
        votes     == {VoteFor(n, signed[n][c]) : c \in unsettled}
    IN  /\ VoteSigLen = 64
        /\ unsettled # {}
        /\ pool' = [pool EXCEPT ![n] = AddVotes(@, votes)]
        /\ net' = net \cup votes
        /\ UNCHANGED <<hdr, stored, head, finalized, wasFinal, signed, staged, task, adopting>>

(* A faulty validator signs a vote for any block.                          *)
FaultyVote(v, b) ==
    /\ v \in Faulty
    /\ b # Genesis
    /\ net' = net \cup {VoteFor(v, b)}
    /\ UNCHANGED <<hdr, stored, head, finalized, wasFinal, signed, pool, staged, task, adopting>>

(* A faulty validator seals a block whose Extra holds no certificate       *)
(* (cp = Genesis), or any certificate made of signatures that exist.       *)
FaultyBlock(v, h, parent, d, reg, cp, signers) ==
    LET qc == IF cp = Genesis THEN NoQC
              ELSE [number |-> hdr[cp].number, hash |-> cp, signers |-> signers]
    IN  /\ v \in Faulty \cap hdr[parent].vals
        /\ hdr[parent].number < MaxHeight
        /\ h \in Hashes \ Blocks
        /\ cp = Genesis => signers = {}
        /\ SignaturesVerify(qc)
        /\ hdr' = WithHeader(h, SealedHeader(h, parent, d, reg, qc))
        /\ UNCHANGED <<net, stored, head, finalized, wasFinal, signed, pool, staged, task, adopting>>

-----------------------------------------------------------------------------
GenesisHeader ==
    [number |-> 0, path |-> [i \in {0} |-> Genesis], td |-> 0,
     vals |-> GenesisSet, reg |-> GenesisSet, qc |-> NoQC]

Init ==
    /\ hdr = [h \in {Genesis} |-> GenesisHeader]
    /\ net = {}
    /\ stored = [n \in Nodes |-> {Genesis}]
    /\ head = [n \in Nodes |-> Genesis]
    /\ finalized = [n \in Nodes |-> Genesis]
    /\ wasFinal = [n \in Nodes |-> {Genesis}]
    /\ signed = [n \in Nodes |-> [c \in Heights |-> NoHash]]
    /\ pool = [n \in Nodes |-> EmptyPool]
    /\ staged = [n \in Nodes |-> {}]
    /\ task = [n \in Nodes |-> NoTask]
    /\ adopting = [n \in Nodes |-> NoHash]

Step(n) ==
    \/ \E fin \in Blocks : FinalizeAndAssemble(n, fin)
    \/ \E fin \in Blocks : Seal(n, fin)
    \/ SealRefused(n)
    \/ \E h \in Hashes, d \in Difficulties, reg \in ValidatorSets : ResultLoop(n, h, d, reg)
    \/ \E b, fin \in Blocks : InsertBlock(n, b, fin)
    \/ \E b \in Blocks : WriteKnownBlock(n, b)
    \/ OnCanonicalBlock(n)
    \/ \E env \in net : HandleIncomingVote(n, env)
    \/ Crash(n)
    \/ RestartGossip(n)

FaultyStep(v) ==
    \/ \E b \in Blocks : FaultyVote(v, b)
    \/ \E h \in Hashes, parent, cp \in Blocks, d \in Difficulties,
          reg \in ValidatorSets, signers \in SUBSET Nodes :
             FaultyBlock(v, h, parent, d, reg, cp, signers)

Next == (\E n \in Honest : Step(n)) \/ (\E v \in Faulty : FaultyStep(v))

Spec == Init /\ [][Next]_vars

-----------------------------------------------------------------------------
(* Properties.                                                             *)

Certificate == [number : Heights, hash : Hashes \cup {NoHash}, signers : SUBSET Nodes]

(* A header records the chain of its ancestors: each is a block, and each  *)
(* agrees with this chain about its own ancestors.                         *)
HeaderOK(h) ==
    LET x == hdr[h]
    IN  /\ x.number \in Heights
        /\ x.path \in [0..x.number -> Blocks]
        /\ x.path[x.number] = h
        /\ \A i \in 0..x.number : /\ hdr[x.path[i]].number = i
                                  /\ \A j \in 0..i : hdr[x.path[i]].path[j] = x.path[j]
        /\ x.td \in Nat
        /\ x.vals \in ValidatorSets
        /\ x.reg \in ValidatorSets
        /\ x.qc \in Certificate
        /\ x.qc # NoQC => x.qc.hash \in Blocks \ {Genesis}

(* Type invariant: every variable holds values of the shape the code's     *)
(* databases and caches give it, and every hash refers to a block.         *)
TypeOK ==
    /\ Blocks \subseteq Hashes
    /\ Genesis \in Blocks
    /\ \A h \in Blocks : HeaderOK(h)
    /\ net \subseteq Envelope
    /\ \A e \in net : e.hash \in Blocks /\ hdr[e.hash].number = e.number
    /\ stored \in [Nodes -> SUBSET Blocks]
    /\ head \in [Nodes -> Blocks]
    /\ \A n \in Nodes : head[n] \in stored[n]
    /\ finalized \in [Nodes -> Blocks]
    /\ wasFinal \in [Nodes -> SUBSET Blocks]
    /\ signed \in [Nodes -> [Heights -> Blocks \cup {NoHash}]]
    /\ pool \in [Nodes -> Pools(net)]
    /\ staged \in [Nodes -> SUBSET [carrier : Blocks, number : Heights, hash : Blocks]]
    /\ task \in [Nodes -> [parent : Blocks \cup {NoHash}, qc : Certificate, sealed : BOOLEAN]]
    /\ adopting \in [Nodes -> Blocks \cup {NoHash}]

(* The double-sign guard and the write-ahead record of                     *)
(* maybeProduceCheckpointVote: whatever reorganisations, crashes and       *)
(* restarts happen, an honest validator's key never signs two checkpoint   *)
(* hashes for one checkpoint number.                                       *)
NoDoubleSign ==
    \A e, f \in net :
        e.signer = f.signer /\ e.number = f.number /\ e.signer \in Honest
            => e.hash = f.hash

(* Two thirds of A and two thirds of B always share an honest validator.   *)
Overlap(A, B) ==
    \A P \in SUBSET A, Q \in SUBSET B :
           /\ 3 * Cardinality(P) >= 2 * Cardinality(A)
           /\ 3 * Cardinality(Q) >= 2 * Cardinality(B)
        => P \cap Q \cap Honest # {}

(* Certificates that verifyCheckpointQCFull accepts cannot bind two hashes *)
(* to one checkpoint number, as long as the quorums of the signer sets the *)
(* two branches derive for it overlap in an honest validator.              *)
Agreement ==
    \A b, c \in Blocks :
           /\ ValidQC(b)
           /\ ValidQC(c)
           /\ hdr[b].qc.number = hdr[c].qc.number
           /\ Overlap(SignerSet(hdr[b].qc.hash), SignerSet(hdr[c].qc.hash))
        => hdr[b].qc.hash = hdr[c].qc.hash

(* Whatever two honest nodes ever committed as final at one number, at any *)
(* time of either's life, is the same block (same proviso on rotation).    *)
FinalizedAgreement ==
    \A m, n \in Honest : \A f \in wasFinal[m], g \in wasFinal[n] :
           /\ hdr[f].number = hdr[g].number
           /\ f # Genesis
           /\ Overlap(SignerSet(f), SignerSet(g))
        => f = g

(* What OnCanonicalBlock committed is backed by a certificate that passes  *)
(* verification, in a block the node holds.                                *)
FinalizedCertified ==
    \A n \in Honest :
        finalized[n] # Genesis =>
            \E b \in stored[n] : ValidQC(b) /\ hdr[b].qc.hash = finalized[n]

(* A node's finality only ever moves to a descendant of what was final     *)
(* before: across imports, reorganisations, known-block switches, crashes  *)
(* and results staged long ago.                                            *)
FinalityExtends ==
    [][\A n \in Honest :
          finalized'[n] # finalized[n] =>
              /\ hdr'[finalized'[n]].number > FinalizedNumber(n)
              /\ hdr'[finalized'[n]].path[FinalizedNumber(n)] = finalized[n]]_vars

(* writeBlockAndSetHead never makes a block just written the head unless   *)
(* the finalized block is among its ancestors.                             *)
GuardedReorg ==
    [][\A n \in Honest :
          head'[n] \notin stored[n] =>
              /\ hdr'[head'[n]].number >= FinalizedNumber(n)
              /\ hdr'[head'[n]].path[FinalizedNumber(n)] = finalized[n]]_vars

(* What an honest sealer embeds, every honest node accepts: with honest    *)
(* validators and one validator set, a block whose parent a node holds is  *)
(* never refused for its certificate, whatever that node has finalized.    *)
HonestBlocksAccepted ==
    \A n \in Honest, b \in Blocks \ {Genesis} :
           /\ Faulty = {}
           /\ ValidatorSets = {GenesisSet}
           /\ Parent(b) \in stored[n]
        => \A fin \in SnapFinalized(n, Parent(b)) : Acceptable(fin, b)

(* A vote in a pool is a vote that was cast, by a signer of the checkpoint *)
(* it is for, and no signer counts twice at one number: the pool offers    *)
(* assembleCheckpointQC nothing that verification would turn down.         *)
PoolSound ==
    \A n \in Honest : \A e \in pool[n].votes :
        /\ e \in net
        /\ e.signer \in SignerSet(e.hash)
        /\ ExistingVote(pool[n], e.number, e.signer) = {e}

-----------------------------------------------------------------------------
(* The inductive invariant behind the theorems of CheckpointFinalityProofs. *)

(* Only the write-ahead record lets an honest key sign.                    *)
VotesRecorded == \A e \in net : e.signer \in Honest => signed[e.signer][e.number] = e.hash

TaskOK ==
    \A n \in Nodes :
        /\ task[n].sealed => task[n].parent # NoHash
        /\ task[n].parent # NoHash => hdr[task[n].parent].number < MaxHeight
        /\ task[n].qc # NoQC => task[n].qc.hash \in Blocks \ {Genesis}

(* A staged result names an ancestor of its carrier, certified there.      *)
StagedOK ==
    \A n \in Nodes : \A r \in staged[n] :
        /\ r.carrier \in stored[n]
        /\ r.number \in 1..hdr[r.carrier].number
        /\ Ancestor(r.carrier, r.number) = r.hash
        /\ ValidQC(r.carrier)
        /\ hdr[r.carrier].qc.hash = r.hash

(* While OnCanonicalBlock is still due, the new head holds the old         *)
(* finality; whatever was committed is certified by a block held.          *)
CommitOK ==
    \A n \in Nodes :
        /\ ~Idle(n) => /\ hdr[adopting[n]].number >= FinalizedNumber(n)
                       /\ Ancestor(adopting[n], FinalizedNumber(n)) = finalized[n]
        /\ finalized[n] \in wasFinal[n]
        /\ \A f \in wasFinal[n] \ {Genesis} :
               \E b \in stored[n] : ValidQC(b) /\ hdr[b].qc.hash = f

(* The inductive invariant of the finality protocol: types, recorded votes, *)
(* tasks, staged and committed results.                                    *)
IInv ==
    /\ TypeOK
    /\ hdr[Genesis].number = 0
    /\ VotesRecorded
    /\ TaskOK
    /\ StagedOK
    /\ CommitOK

-----------------------------------------------------------------------------
(* Properties that the documentation states and the code does not have.    *)

(* docs/Checkpoint.md section 15: a node with a finalized checkpoint never *)
(* has a canonical head that does not descend from it.  writeKnownBlock    *)
(* switches the head without asking.                                       *)
HeadKeepsFinality == \A n \in Honest : IsAncestor(finalized[n], head[n])

(* docs/Checkpoint.md section 14: a block with a valid certificate on the  *)
(* canonical chain finalizes its checkpoint.  A node does not stage the    *)
(* certificates of its own blocks, nor commit those of blocks that become  *)
(* canonical as ancestors of a new head.                                   *)
CertificateFinalizes ==
    \A n \in Honest, b \in Blocks :
        Idle(n) /\ IsAncestor(b, head[n]) /\ ValidQC(b)
            => FinalizedNumber(n) >= hdr[b].qc.number

(* docs/Checkpoint.md section 11: sealing past an open checkpoint of the   *)
(* canonical chain, a validator of its signer set with no conflicting      *)
(* record gossips a vote for it.                                           *)
SealingVotes ==
    [][\A n \in Honest :
          LET number == hdr[task[n].parent].number + 1
              cp     == VoteTarget(n, number)
          IN     /\ task[n].parent # NoHash
                 /\ ~task[n].sealed /\ task'[n].sealed
                 /\ CandidateOpen(number, FinalizedNumber(n))
                 /\ cp # NoHash
                 /\ n \in SignerSet(cp)
                 /\ signed[n][hdr[cp].number] \in {NoHash, cp}
              => VoteFor(n, cp) \in net']_vars
=============================================================================
