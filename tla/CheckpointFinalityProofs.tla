---------------------- MODULE CheckpointFinalityProofs ----------------------
(***************************************************************************)
(* Theorems about CheckpointFinality, for every number of nodes, every     *)
(* validator rotation, every block tree and every number of faulty         *)
(* validators: facts about the operators and about the parts of the        *)
(* invariant IInv, one lemma per action, and the theorems.                 *)
(***************************************************************************)
EXTENDS CheckpointFinality, FiniteSetTheorems, TLAPS

(* assembleCheckpointQC and verifyCheckpointQCFull count (2*N+2)/3 votes:  *)
(* that many votes are at least two thirds of N.                           *)
LEMMA QuorumIsTwoThirds ==
    ASSUME NEW n \in Nat
    PROVE  Quorum(n) \in Nat /\ 3 * Quorum(n) >= 2 * n
BY DEF Quorum

(* The checkpoint a sealer handles lies strictly below the block it seals. *)
LEMMA CandidateBelow ==
    ASSUME NEW number \in Nat \ {0}
    PROVE  Candidate(number) \in 0 .. number - 1
<1> DEFINE x == number - 1
           q == x \div CheckpointInterval
<1>1. x \in Nat /\ CheckpointInterval \in Nat \ {0}
  BY CheckpointConfigAssumption
<1>2. q \in Nat /\ x = (CheckpointInterval * q) + (x % CheckpointInterval)
      /\ x % CheckpointInterval \in Nat
  BY <1>1
<1> HIDE DEF x, q
<1>3. q * CheckpointInterval \in Nat /\ q * CheckpointInterval <= x
  BY <1>1, <1>2
<1>. QED BY <1>3, <1>1 DEF Candidate, x, q

(* The candidate is a multiple of K at most K below the block that carries *)
(* its certificate, so a certificate that assembleCheckpointQC embeds is   *)
(* never turned down by verifyCheckpointQCStructure, for any interval,     *)
(* activation height and block number.                                     *)
THEOREM CandidatePassesStructure ==
    ASSUME NEW number \in Nat \ {0}, NEW fin \in Nat, CandidateOpen(number, fin),
           NEW hash, NEW signers, signers # {}
    PROVE  QCStructureOK([number |-> Candidate(number), hash |-> hash, signers |-> signers], number)
<1> DEFINE K == CheckpointInterval
           x == number - 1
           q == x \div K
           c == Candidate(number)
<1>1. x \in Nat /\ K \in Nat \ {0}
  BY CheckpointConfigAssumption
<1>2. q \in Nat /\ x = (K * q) + (x % K) /\ x % K \in 0 .. K - 1
  BY <1>1
<1>3. c = q * K
  BY Zenon DEF Candidate
<1> HIDE DEF x, q, c, K
<1>4. q * K \in Nat /\ q * K = K * q
  BY <1>1, <1>2
<1>5. number > c /\ number - c <= 2 * K
  BY <1>1, <1>2, <1>3, <1>4 DEF x
<1>6. c % K = 0
  BY <1>1, <1>2, <1>3, <1>4
<1>7. c >= firstEligible
  BY Zenon DEF CandidateOpen, c
<1>. QED BY <1>5, <1>6, <1>7, Zenon DEF QCStructureOK, c, K

(* A difficulty is a natural number.                                       *)
LEMMA DifficultyIsNat == \A d \in Difficulties : d \in Nat
BY FinalityConfigAssumption

(* What every step keeps: blocks stay, headers do not change, and no vote  *)
(* that was cast disappears.                                               *)
Grows ==
    /\ Blocks \subseteq Blocks'
    /\ \A x \in Blocks : hdr'[x] = hdr[x]
    /\ net \subseteq net'

(* The header of a block just sealed satisfies the header invariant, and   *)
(* the headers already there are not disturbed (SealedHeader, the model of *)
(* Prepare, FinalizeAndAssemble and writeBlockWithState).                  *)
LEMMA NewHeaderOK ==
    ASSUME TypeOK,
           NEW h \in Hashes \ Blocks, NEW parent \in Blocks, NEW d \in Difficulties,
           NEW reg \in ValidatorSets, NEW qc \in Certificate,
           hdr[parent].number < MaxHeight,
           qc # NoQC => qc.hash \in Blocks \ {Genesis},
           hdr' = WithHeader(h, SealedHeader(h, parent, d, reg, qc))
    PROVE  /\ Blocks' = Blocks \cup {h}
           /\ \A x \in Blocks : hdr'[x] = hdr[x]
           /\ \A x \in Blocks' : HeaderOK(x)'
<1> DEFINE num == hdr[parent].number + 1
           new == SealedHeader(h, parent, d, reg, qc)
<1>1. /\ Blocks' = Blocks \cup {h}
      /\ \A x \in Blocks : hdr'[x] = hdr[x]
      /\ hdr'[h] = new
  BY Zenon DEF WithHeader, Blocks
<1>2. \A x \in Blocks : HeaderOK(x)
  BY Zenon DEF TypeOK
<1>3. ASSUME NEW x \in Blocks PROVE HeaderOK(x)'
  <2>1. HeaderOK(x) /\ hdr'[x] = hdr[x]
    BY <1>1, <1>2, Zenon
  <2>2. \A i \in 0..hdr[x].number : hdr[x].path[i] \in Blocks
    BY Zenon, <2>1 DEF HeaderOK
  <2>3. \A i \in 0..hdr[x].number : hdr'[hdr[x].path[i]] = hdr[hdr[x].path[i]]
    BY SMTT(30), <2>2, <1>1
  <2>. QED BY <2>1, <2>2, <2>3, <1>1 DEF HeaderOK
<1>4. HeaderOK(h)'
  <2>1. HeaderOK(parent) BY <1>2, Zenon
  <2>2. /\ num \in Heights /\ num - 1 = hdr[parent].number
        /\ hdr[parent].number \in Nat
        /\ MaxHeight \in Nat
    BY <2>1, FinalityConfigAssumption DEF HeaderOK, Heights
  <2>3. /\ new.number = num
        /\ new.path = [i \in 0..num |-> IF i = num THEN h ELSE hdr[parent].path[i]]
        /\ new.td = hdr[parent].td + d
        /\ new.vals = IF num % Epoch = 0 /\ hdr[parent].reg # {}
                      THEN hdr[parent].reg ELSE hdr[parent].vals
        /\ new.reg = reg
        /\ new.qc = qc
    BY Zenon DEF SealedHeader, Ancestor
  <2>4. \A i \in 0..num : i # num => i \in 0..hdr[parent].number
    BY <2>2 DEF Heights
  <2>5. \A i \in 0..hdr[parent].number : hdr[parent].path[i] \in Blocks
    BY Zenon, <2>1 DEF HeaderOK
  <2> HIDE DEF num, new
  <2>6. new.path \in [0..num -> Blocks']
    BY <2>3, <2>4, <2>5, <1>1, Zenon
  <2>7. num \in 0..num
    BY <2>2 DEF Heights
  <2>8. new.path[num] = h
    BY <2>3, <2>7, Zenon
  <2>9. \A i \in 0..hdr[parent].number : i \in 0..num /\ new.path[i] = hdr[parent].path[i]
    BY <2>2, <2>3 DEF Heights
  <2>10. ASSUME NEW i \in 0..num
         PROVE  /\ hdr'[new.path[i]].number = i
                /\ \A j \in 0..i : hdr'[new.path[i]].path[j] = new.path[j]
    <3>1. CASE i = num
      BY <3>1, <2>8, <1>1, <2>3, Zenon
    <3>2. CASE i # num
      <4>1. i \in 0..hdr[parent].number BY <3>2, <2>4, Zenon
      <4>2. new.path[i] = hdr[parent].path[i] BY <4>1, <2>9, Zenon
      <4>3. hdr'[new.path[i]] = hdr[hdr[parent].path[i]]
        BY <4>1, <4>2, <2>5, <1>1, Zenon
      <4>4. /\ hdr[hdr[parent].path[i]].number = i
            /\ \A j \in 0..i : hdr[hdr[parent].path[i]].path[j] = hdr[parent].path[j]
        BY <4>1, <2>1, Zenon DEF HeaderOK
      <4>5. \A j \in 0..i : j \in 0..hdr[parent].number
        BY <4>1, <2>2
      <4>. QED BY <4>3, <4>4, <4>5, <2>9, Zenon
    <3>. QED BY <3>1, <3>2, Zenon
  <2>11. new.td \in Nat
    <3>1. d \in Nat BY Zenon, DifficultyIsNat
    <3>. QED BY <3>1, <2>1, <2>3 DEF HeaderOK
  <2>12. new.vals \in ValidatorSets /\ new.reg \in ValidatorSets
    BY <2>1, <2>3, Zenon DEF HeaderOK
  <2>13. /\ new.qc \in Certificate
         /\ new.qc # NoQC => new.qc.hash \in Blocks' \ {Genesis}
    BY <2>3, <1>1, Zenon
  <2>14. hdr'[h] = new /\ new.number = num
    BY <1>1, <2>3, Zenon
  <2>15. /\ hdr'[h].number \in Heights
         /\ hdr'[h].path \in [0..hdr'[h].number -> Blocks']
         /\ hdr'[h].path[hdr'[h].number] = h
    BY <2>14, <2>2, <2>6, <2>8, Zenon
  <2>16. \A i \in 0..hdr'[h].number :
            /\ hdr'[hdr'[h].path[i]].number = i
            /\ \A j \in 0..i : hdr'[hdr'[h].path[i]].path[j] = hdr'[h].path[j]
    BY <2>14, <2>10
  <2>17. /\ hdr'[h].td \in Nat
         /\ hdr'[h].vals \in ValidatorSets
         /\ hdr'[h].reg \in ValidatorSets
         /\ hdr'[h].qc \in Certificate
         /\ hdr'[h].qc # NoQC => hdr'[h].qc.hash \in Blocks' \ {Genesis}
    BY <2>14, <2>11, <2>12, <2>13, Zenon
  <2>. QED BY Zenon, <2>15, <2>16, <2>17 DEF HeaderOK
<1>. QED BY <1>1, <1>3, <1>4, Zenon

-----------------------------------------------------------------------------
(* The vote pool: no operation of finality_pool.go makes up an envelope.   *)

(* AddVote keeps a pool within a set that holds the added envelope.        *)
LEMMA AddVotePools ==
    ASSUME NEW S, NEW p \in Pools(S), NEW env \in S
    PROVE  AddVote(p, env) \in Pools(S)
BY Zenon DEF AddVote, Pools

(* AddPending keeps a pool within a set that holds the queued envelope.    *)
LEMMA AddPendingPools ==
    ASSUME NEW S, NEW p \in Pools(S), NEW env \in S
    PROVE  AddPending(p, env) \in Pools(S)
BY Zenon DEF AddPending, Pools

(* Adding several envelopes keeps a pool within a set that holds them.     *)
LEMMA AddVotesPools ==
    ASSUME NEW S, NEW p \in Pools(S), NEW envs \in SUBSET S
    PROVE  AddVotes(p, envs) \in Pools(S)
BY Zenon DEF AddVotes, Pools

(* Promoting pending votes moves envelopes within the pool.                *)
LEMMA PromotePendingPools ==
    ASSUME NEW S, NEW p \in Pools(S), NEW number, NEW hash, NEW signerSet
    PROVE  PromotePending(p, number, hash, signerSet) \in Pools(S)
<1> DEFINE drained == PendingAt(p, number)
           q == [p EXCEPT !.pending = @ \ drained]
           es == {e \in drained : e.hash = hash /\ e.signer \in signerSet}
<1>1. q \in Pools(S)
  BY Zenon DEF Pools
<1>2. es \in SUBSET S
  BY Zenon DEF PendingAt, Pools
<1> HIDE DEF q, es
<1>3. AddVotes(q, es) \in Pools(S)
  BY <1>1, <1>2, AddVotesPools, Zenon
<1>. QED BY <1>3, Zenon DEF PromotePending, q, es

(* Prune only removes.                                                     *)
LEMMA PrunePools ==
    ASSUME NEW S, NEW p \in Pools(S), NEW fin, NEW cur
    PROVE  Prune(p, fin, cur) \in Pools(S)
BY Zenon DEF Prune, Pools

(* The votes for a checkpoint found in a pool come from that pool.         *)
LEMMA CertificateType ==
    ASSUME TypeOK, NEW p \in Pools(net), NEW cp \in Blocks
    PROVE  /\ CertificateFrom(p, cp) \in Certificate
           /\ CertificateFrom(p, cp) # NoQC => CertificateFrom(p, cp).hash = cp
<1>1. hdr[cp].number \in Heights /\ cp \in Hashes
  BY Zenon DEF TypeOK, HeaderOK
<1>2. net \subseteq Envelope
  BY Zenon DEF TypeOK
<1> DEFINE signers == {e.signer : e \in GetVotes(p, hdr[cp].number, cp)} \cap SignerSet(cp)
<1>3. signers \in SUBSET Nodes
  BY <1>2 DEF GetVotes, Pools, Envelope
<1>4. NoQC \in Certificate
  BY FinalityConfigAssumption DEF NoQC, Certificate, Heights
<1>. QED BY <1>1, <1>3, <1>4, Zenon DEF CertificateFrom, Certificate

-----------------------------------------------------------------------------
(* The inductive invariant in parts, by the variables that they mention.   *)

HeadersInv ==
    /\ Blocks \subseteq Hashes
    /\ Genesis \in Blocks
    /\ \A h \in Blocks : HeaderOK(h)
    /\ hdr[Genesis].number = 0

NetInv ==
    /\ net \subseteq Envelope
    /\ \A e \in net : e.hash \in Blocks /\ hdr[e.hash].number = e.number
    /\ signed \in [Nodes -> [Heights -> Blocks \cup {NoHash}]]
    /\ VotesRecorded

StoreInv ==
    /\ stored \in [Nodes -> SUBSET Blocks]
    /\ head \in [Nodes -> Blocks]
    /\ \A n \in Nodes : head[n] \in stored[n]

PoolInv == pool \in [Nodes -> Pools(net)]

TaskInv ==
    /\ task \in [Nodes -> [parent : Blocks \cup {NoHash}, qc : Certificate, sealed : BOOLEAN]]
    /\ TaskOK

CommitInv ==
    /\ finalized \in [Nodes -> Blocks]
    /\ wasFinal \in [Nodes -> SUBSET Blocks]
    /\ staged \in [Nodes -> SUBSET [carrier : Blocks, number : Heights, hash : Blocks]]
    /\ adopting \in [Nodes -> Blocks \cup {NoHash}]
    /\ StagedOK
    /\ CommitOK

(* The parts make up the invariant.                                        *)
LEMMA Parts ==
    IInv <=> HeadersInv /\ NetInv /\ StoreInv /\ PoolInv /\ TaskInv /\ CommitInv
BY Zenon DEF IInv, TypeOK, HeadersInv, NetInv, StoreInv, PoolInv, TaskInv, CommitInv

(* The same in the next state.                                             *)
LEMMA PartsNext ==
    HeadersInv' /\ NetInv' /\ StoreInv' /\ PoolInv' /\ TaskInv' /\ CommitInv' => IInv'
BY Zenon DEF IInv, TypeOK, HeadersInv, NetInv, StoreInv, PoolInv, TaskInv, CommitInv

(* Facts about a block's chain of ancestors (the ParentHash links that     *)
(* verifyCheckpointQCFull and isFinalizedAncestor walk).                   *)
LEMMA Ancestors ==
    ASSUME HeadersInv, NEW b \in Blocks
    PROVE  /\ hdr[b].number \in Nat
           /\ \A i \in 0..hdr[b].number :
                 /\ Ancestor(b, i) \in Blocks
                 /\ hdr[Ancestor(b, i)].number = i
                 /\ \A j \in 0..i : Ancestor(Ancestor(b, i), j) = Ancestor(b, j)
<1>1. HeaderOK(b)
  BY Zenon DEF HeadersInv
<1>2. hdr[b].number \in Nat
  BY <1>1, FinalityConfigAssumption DEF HeaderOK, Heights
<1>. QED BY SMTT(30), <1>1, <1>2 DEF HeaderOK, Ancestor

(* A certificate that verifies is for a proper ancestor of its carrier,    *)
(* whose signer set is that of a known block.                              *)
LEMMA ValidQCFacts ==
    ASSUME HeadersInv, NEW b \in Blocks, ValidQC(b)
    PROVE  /\ hdr[b].qc.number \in 1 .. hdr[b].number - 1
           /\ hdr[b].qc.hash = Ancestor(b, hdr[b].qc.number)
           /\ hdr[b].qc.hash \in Blocks
           /\ hdr[hdr[b].qc.hash].number = hdr[b].qc.number
           /\ Ancestor(hdr[b].qc.hash, hdr[b].qc.number - 1) \in Blocks
           /\ SignerSet(hdr[b].qc.hash) \in ValidatorSets
<1> DEFINE q == hdr[b].qc
<1>1. HeaderOK(b) /\ hdr[b].number \in Nat
  BY Ancestors, Zenon DEF HeadersInv
<1>2. q.number \in Nat
  BY <1>1, FinalityConfigAssumption DEF HeaderOK, Certificate, Heights
<1>3. q.number < hdr[b].number /\ q.number # 0 /\ Ancestor(b, q.number) = q.hash
  BY Zenon DEF ValidQC, QCStructureOK, QCFullOK
<1>4. q.number \in 1 .. hdr[b].number - 1
  BY <1>1, <1>2, <1>3
<1>5. q.hash \in Blocks /\ hdr[q.hash].number = q.number
  BY <1>3, <1>4, <1>1, Ancestors
<1>6. q.number - 1 \in 0 .. hdr[q.hash].number
  BY <1>2, <1>3, <1>5
<1>7. Ancestor(q.hash, q.number - 1) \in Blocks
  BY <1>5, <1>6, Ancestors, Zenon
<1>8. SignerSet(q.hash) \in ValidatorSets
  BY <1>5, <1>7, Zenon DEF SignerSet, HeadersInv, HeaderOK
<1>. QED BY <1>3, <1>4, <1>5, <1>7, <1>8, Zenon

(* More blocks and more votes do not invalidate a certificate.             *)
LEMMA ValidQCStable ==
    ASSUME HeadersInv, Grows, NEW b \in Blocks, ValidQC(b)
    PROVE  ValidQC(b)'
<1> DEFINE q == hdr[b].qc
<1>1. hdr'[b] = hdr[b]
  BY Zenon DEF Grows
<1>2. q.hash \in Blocks /\ Ancestor(q.hash, q.number - 1) \in Blocks
      /\ hdr[q.hash].number = q.number
  BY ValidQCFacts, Zenon
<1>3. SignerSet(q.hash)' = SignerSet(q.hash)
  BY Zenon, <1>1, <1>2 DEF Grows, SignerSet, Ancestor
<1>4. HasQC(b)' /\ QCStructureOK(hdr[b].qc, hdr[b].number)'
  BY <1>1, Zenon DEF ValidQC, HasQC
<1>5. SignaturesVerify(hdr[b].qc)'
  BY <1>1, Zenon DEF ValidQC, QCFullOK, SignaturesVerify, Grows
<1>6. IsQuorum(hdr[b].qc.signers, SignerSet(hdr[b].qc.hash))'
  BY <1>1, <1>3, Zenon DEF ValidQC, QCFullOK
<1>7. Ancestor(b, hdr[b].qc.number)' = hdr[b].qc.hash' /\ hdr[b].qc.number' # 0
  BY <1>1, Zenon DEF ValidQC, QCFullOK, Ancestor
<1>. QED BY <1>4, <1>5, <1>6, <1>7, Zenon DEF ValidQC, QCFullOK

-----------------------------------------------------------------------------
(* Each part survives a step that leaves its own variables alone.          *)

(* Headers, when no block is added.                                        *)
LEMMA HeadersStable ==
    ASSUME HeadersInv, hdr' = hdr
    PROVE  HeadersInv'
BY DEF HeadersInv, HeaderOK, Blocks

(* Votes and records, when none is made.                                   *)
LEMMA NetStable ==
    ASSUME NetInv, Grows, net' = net, signed' = signed
    PROVE  NetInv'
BY DEF NetInv, Grows, VotesRecorded

(* Stored blocks and heads, when no node adopts a block.                   *)
LEMMA StoreStable ==
    ASSUME StoreInv, Grows, stored' = stored, head' = head
    PROVE  StoreInv'
BY Zenon DEF StoreInv, Grows

(* Pools, when only votes are added to the network.                        *)
LEMMA PoolStable ==
    ASSUME PoolInv, Grows, pool' = pool
    PROVE  PoolInv'
<1>1. Pools(net) \subseteq Pools(net')
  BY Zenon DEF Grows, Pools
<1>. QED BY <1>1, Zenon DEF PoolInv

(* Sealing tasks, when the miner is not involved.                          *)
LEMMA TaskStable ==
    ASSUME TaskInv, Grows, task' = task
    PROVE  TaskInv'
BY Zenon DEF TaskInv, TaskOK, Grows

(* Finality, when nothing is staged, adopted or committed.                 *)
LEMMA CommitStable ==
    ASSUME HeadersInv, StoreInv, CommitInv, Grows,
           \A n \in Nodes : stored[n] \subseteq stored'[n],
           UNCHANGED <<finalized, wasFinal, staged, adopting>>
    PROVE  CommitInv'
<1>1. \A n \in Nodes : \A b \in stored[n] : b \in Blocks /\ hdr'[b] = hdr[b]
  BY Zenon DEF StoreInv, Grows
<1>2. \A n \in Nodes : \A b \in stored[n] : ValidQC(b) => ValidQC(b)'
  BY <1>1, ValidQCStable, Zenon
<1>3. /\ finalized' \in [Nodes -> Blocks']
      /\ wasFinal' \in [Nodes -> SUBSET Blocks']
      /\ adopting' \in [Nodes -> Blocks' \cup {NoHash}]
      /\ staged' \in [Nodes -> SUBSET [carrier : Blocks', number : Heights, hash : Blocks']]
  <2>1. [carrier : Blocks, number : Heights, hash : Blocks]
           \subseteq [carrier : Blocks', number : Heights, hash : Blocks']
    BY Zenon DEF Grows
  <2>2. finalized' \in [Nodes -> Blocks'] /\ wasFinal' \in [Nodes -> SUBSET Blocks']
    BY Zenon DEF CommitInv, Grows
  <2>3. adopting' \in [Nodes -> Blocks' \cup {NoHash}]
    BY Zenon DEF CommitInv, Grows
  <2>4. staged' \in [Nodes -> SUBSET [carrier : Blocks', number : Heights, hash : Blocks']]
    BY <2>1, Zenon DEF CommitInv
  <2>. QED BY <2>2, <2>3, <2>4, Zenon
<1>4. StagedOK'
  <2> SUFFICES ASSUME NEW n \in Nodes, NEW r \in staged[n]
               PROVE  /\ r.carrier \in stored'[n]
                      /\ r.number \in 1..hdr'[r.carrier].number
                      /\ Ancestor(r.carrier, r.number)' = r.hash
                      /\ ValidQC(r.carrier)'
                      /\ hdr'[r.carrier].qc.hash = r.hash
    BY Zenon DEF StagedOK
  <2>1. /\ r.carrier \in stored[n]
        /\ r.number \in 1..hdr[r.carrier].number
        /\ Ancestor(r.carrier, r.number) = r.hash
        /\ ValidQC(r.carrier)
        /\ hdr[r.carrier].qc.hash = r.hash
    BY Zenon DEF CommitInv, StagedOK
  <2>. QED BY <2>1, <1>1, <1>2, Zenon DEF Ancestor
<1>5. CommitOK'
  <2> SUFFICES ASSUME NEW n \in Nodes
               PROVE  /\ ~Idle(n)' =>
                            /\ hdr'[adopting'[n]].number >= FinalizedNumber(n)'
                            /\ Ancestor(adopting[n], FinalizedNumber(n))' = finalized'[n]
                      /\ finalized'[n] \in wasFinal'[n]
                      /\ \A f \in wasFinal'[n] \ {Genesis} :
                            \E b \in stored'[n] : ValidQC(b)' /\ hdr'[b].qc.hash = f
    BY Zenon DEF CommitOK
  <2>1. finalized[n] \in Blocks /\ FinalizedNumber(n)' = FinalizedNumber(n)
    BY Zenon DEF CommitInv, FinalizedNumber, Grows
  <2>2. ~Idle(n)' => adopting[n] \in Blocks /\ ~Idle(n)
    BY Zenon DEF CommitInv, Idle
  <2>3. ~Idle(n)' => /\ hdr'[adopting'[n]].number >= FinalizedNumber(n)'
                     /\ Ancestor(adopting[n], FinalizedNumber(n))' = finalized'[n]
    BY <2>1, <2>2, Zenon DEF CommitInv, CommitOK, Ancestor, Grows
  <2>4. finalized'[n] \in wasFinal'[n]
    BY Zenon DEF CommitInv, CommitOK
  <2>5. \A f \in wasFinal'[n] \ {Genesis} :
            \E b \in stored'[n] : ValidQC(b)' /\ hdr'[b].qc.hash = f
    BY <1>1, <1>2 DEF CommitInv, CommitOK
  <2>. QED BY <2>3, <2>4, <2>5, Zenon
<1>. QED BY <1>3, <1>4, <1>5, Zenon DEF CommitInv

(* A step that adds no block and removes no vote grows the history.        *)
LEMMA NoNewBlock ==
    ASSUME hdr' = hdr, net \subseteq net'
    PROVE  Grows
BY Zenon DEF Grows, Blocks

(* A result staged earlier stays what it was.                              *)
LEMMA StagedStable ==
    ASSUME HeadersInv, StoreInv, CommitInv, Grows,
           \A m \in Nodes : stored[m] \subseteq stored'[m],
           NEW n \in Nodes, NEW r \in staged[n]
    PROVE  /\ r \in [carrier : Blocks', number : Heights, hash : Blocks']
           /\ r.carrier \in stored'[n]
           /\ r.number \in 1..hdr'[r.carrier].number
           /\ Ancestor(r.carrier, r.number)' = r.hash
           /\ ValidQC(r.carrier)'
           /\ hdr'[r.carrier].qc.hash = r.hash
<1>1. /\ r \in [carrier : Blocks, number : Heights, hash : Blocks]
      /\ r.carrier \in stored[n]
      /\ r.number \in 1..hdr[r.carrier].number
      /\ Ancestor(r.carrier, r.number) = r.hash
      /\ ValidQC(r.carrier)
      /\ hdr[r.carrier].qc.hash = r.hash
  BY Zenon DEF CommitInv, StagedOK
<1>2. r.carrier \in Blocks /\ hdr'[r.carrier] = hdr[r.carrier]
  BY <1>1, Zenon DEF Grows
<1>3. ValidQC(r.carrier)'
  BY <1>1, <1>2, ValidQCStable, Zenon
<1>4. r \in [carrier : Blocks', number : Heights, hash : Blocks']
  BY <1>1, Zenon DEF Grows
<1>. QED BY <1>1, <1>2, <1>3, <1>4, Zenon DEF Ancestor

(* writeBlockAndSetHead keeps what is known of stored blocks and heads.    *)
LEMMA WriteBlockStore ==
    ASSUME StoreInv, Grows, NEW n \in Nodes, NEW b \in Blocks',
           WriteBlockAndSetHead(hdr', n, b)
    PROVE  StoreInv' /\ \A m \in Nodes : stored[m] \subseteq stored'[m]
<1>1. /\ stored' = [stored EXCEPT ![n] = @ \cup {b}]
      /\ head' = head \/ head' = [head EXCEPT ![n] = b]
  BY Zenon DEF WriteBlockAndSetHead
<1>2. \A m \in Nodes : stored[m] \subseteq stored'[m] /\ stored'[m] \subseteq stored[m] \cup {b}
  BY <1>1, Zenon DEF StoreInv
<1>3. stored' \in [Nodes -> SUBSET Blocks'] /\ b \in stored'[n]
  BY <1>1, <1>2, Zenon DEF StoreInv, Grows
<1>4. head' \in [Nodes -> Blocks'] /\ \A m \in Nodes : head'[m] \in stored'[m]
  BY <1>1, <1>2, <1>3, Zenon DEF StoreInv, Grows
<1>. QED BY <1>2, <1>3, <1>4, Zenon DEF StoreInv

(* writeBlockAndSetHead: the guard makes the new head a descendant of what *)
(* is final, which is what OnCanonicalBlock relies on later.               *)
LEMMA WriteBlockCommit ==
    ASSUME HeadersInv, StoreInv, CommitInv, Grows, NEW n \in Nodes, NEW b \in Blocks',
           WriteBlockAndSetHead(hdr', n, b),
           UNCHANGED <<finalized, wasFinal>>,
           staged' \in [Nodes -> SUBSET [carrier : Blocks', number : Heights, hash : Blocks']],
           StagedOK'
    PROVE  CommitInv'
<1>1. \A m \in Nodes : stored[m] \subseteq stored'[m]
  BY SMTT(30), WriteBlockStore
<1>2. \/ adopting' = adopting
      \/ /\ adopting' = [adopting EXCEPT ![n] = b]
         /\ hdr'[b].number >= hdr'[finalized[n]].number
         /\ hdr'[b].path[hdr'[finalized[n]].number] = finalized[n]
  BY Zenon DEF WriteBlockAndSetHead, isFinalizedAncestor
<1>3. \A m \in Nodes : \A c \in stored[m] :
         c \in Blocks /\ hdr'[c] = hdr[c] /\ (ValidQC(c) => ValidQC(c)')
  BY ValidQCStable, Zenon DEF StoreInv, Grows
<1>4. \A m \in Nodes : finalized[m] \in Blocks /\ FinalizedNumber(m)' = FinalizedNumber(m)
  BY Zenon DEF CommitInv, FinalizedNumber, Grows
<1>5. /\ finalized' \in [Nodes -> Blocks']
      /\ wasFinal' \in [Nodes -> SUBSET Blocks']
  BY Zenon DEF CommitInv, Grows
<1>6. adopting' \in [Nodes -> Blocks' \cup {NoHash}]
  BY <1>2, Zenon DEF CommitInv, Grows
<1>7. ASSUME NEW m \in Nodes, ~Idle(m)'
      PROVE  /\ hdr'[adopting'[m]].number >= FinalizedNumber(m)'
             /\ Ancestor(adopting[m], FinalizedNumber(m))' = finalized'[m]
  <2>1. CASE adopting'[m] = adopting[m]
    <3>1. adopting[m] \in Blocks /\ ~Idle(m)
      BY <1>7, <2>1, Zenon DEF CommitInv, Idle
    <3>. QED BY <2>1, <3>1, <1>4 DEF CommitInv, CommitOK, Ancestor, Grows
  <2>2. CASE adopting'[m] # adopting[m]
    <3>1. m = n /\ adopting'[m] = b
          /\ hdr'[b].number >= hdr'[finalized[n]].number
          /\ hdr'[b].path[hdr'[finalized[n]].number] = finalized[n]
      BY SMTT(30), <2>2, <1>2 DEF CommitInv
    <3>. QED BY <3>1, Zenon DEF FinalizedNumber, Ancestor
  <2>. QED BY <2>1, <2>2, Zenon
<1>8. ASSUME NEW m \in Nodes
      PROVE  /\ finalized'[m] \in wasFinal'[m]
             /\ \A f \in wasFinal'[m] \ {Genesis} :
                   \E c \in stored'[m] : ValidQC(c)' /\ hdr'[c].qc.hash = f
  BY SMTT(30), <1>1, <1>3 DEF CommitInv, CommitOK
<1>9. CommitOK'
  BY <1>7, <1>8, Zenon DEF CommitOK
<1>. QED BY <1>5, <1>6, <1>9, Zenon DEF CommitInv

-----------------------------------------------------------------------------
(* Every action preserves IInv.                                            *)

(* FinalizeAndAssemble: the promoted votes and the certificate come from   *)
(* the pool.                                                               *)
LEMMA FinalizeAndAssembleInv ==
    ASSUME IInv, NEW n \in Honest, NEW fin \in Blocks, FinalizeAndAssemble(n, fin)
    PROVE  IInv'
<1> DEFINE parent == head[n]
           number == hdr[parent].number + 1
           open   == /\ IsCheckpointFinality(number)
                     /\ CandidateOpen(number, hdr[fin].number)
           cp     == Ancestor(parent, Candidate(number))
           p      == PromotePending(pool[n], Candidate(number), cp, SignerSet(cp))
           new    == [parent |-> parent, sealed |-> FALSE,
                      qc |-> IF open THEN CertificateFrom(p, cp) ELSE NoQC]
<1>1. HeadersInv /\ NetInv /\ StoreInv /\ PoolInv /\ TaskInv /\ CommitInv /\ TypeOK
  BY Parts, Zenon DEF IInv
<1>2. /\ hdr' = hdr /\ net' = net /\ stored' = stored /\ head' = head
      /\ signed' = signed
      /\ UNCHANGED <<finalized, wasFinal, staged, adopting>>
      /\ number <= MaxHeight
      /\ task' = [task EXCEPT ![n] = new]
      /\ pool' = IF open THEN [pool EXCEPT ![n] = p] ELSE pool
  BY Zenon DEF FinalizeAndAssemble
<1>3. Grows /\ n \in Nodes
  BY Zenon, <1>2, NoNewBlock DEF Honest
<1>4. parent \in Blocks /\ hdr[parent].number \in Nat /\ number \in Nat \ {0}
      /\ hdr[fin].number \in Nat
  BY <1>1, <1>3, Ancestors DEF StoreInv
<1>5. open => Candidate(number) \in 1..hdr[parent].number
  <2>1. Candidate(number) \in 0 .. number - 1
    BY <1>4, CandidateBelow, Zenon
  <2>2. open => Candidate(number) > hdr[fin].number
    BY Zenon DEF CandidateOpen
  <2> HIDE DEF open
  <2>. QED BY <2>1, <2>2, <1>4
<1>6. open => cp \in Blocks \ {Genesis}
  BY <1>1, <1>4, <1>5, Ancestors DEF HeadersInv
<1>7. p \in Pools(net)
  BY <1>1, <1>3, PromotePendingPools, Zenon DEF PoolInv
<1> HIDE DEF open, cp, p
<1>8. open => /\ CertificateFrom(p, cp) \in Certificate
              /\ CertificateFrom(p, cp) # NoQC => CertificateFrom(p, cp).hash = cp
  BY <1>1, <1>6, <1>7, CertificateType, Zenon
<1>9. NoQC \in Certificate
  BY FinalityConfigAssumption DEF NoQC, Certificate, Heights
<1>10. PoolInv'
  BY <1>1, <1>2, <1>3, <1>7, Zenon DEF PoolInv
<1>11. TaskInv'
  <2>1. /\ new.qc \in Certificate /\ new.parent = parent /\ new.sealed = FALSE
        /\ new.qc # NoQC => new.qc.hash \in Blocks \ {Genesis}
    BY <1>6, <1>8, <1>9, Zenon
  <2>2. new \in [parent : Blocks \cup {NoHash}, qc : Certificate, sealed : BOOLEAN]
    BY <2>1, <1>4, Zenon
  <2>3. hdr[parent].number < MaxHeight
    BY <1>2, <1>4, FinalityConfigAssumption
  <2> HIDE DEF new
  <2>4. task' \in [Nodes -> [parent : Blocks \cup {NoHash}, qc : Certificate, sealed : BOOLEAN]]
    BY Zenon, <1>1, <1>2, <2>2 DEF TaskInv
  <2>5. TaskOK'
    BY <1>1, <1>2, <1>3, <2>1, <2>3, Zenon DEF TaskInv, TaskOK, Grows
  <2>. QED BY <1>2, <2>4, <2>5, Zenon DEF TaskInv, Blocks
<1>12. HeadersInv' /\ NetInv' /\ StoreInv'
  BY <1>1, <1>2, <1>3, HeadersStable, NetStable, StoreStable, Zenon
<1>13. CommitInv'
  BY SMTT(30), <1>1, <1>2, <1>3, CommitStable
<1>. QED BY <1>10, <1>11, <1>12, <1>13, PartsNext, Zenon

(* Seal: the vote, if one is cast, is recorded under its own number and no *)
(* other hash was on record there.                                         *)
LEMMA SealInv ==
    ASSUME IInv, NEW n \in Honest, NEW fin \in Blocks, Seal(n, fin)
    PROVE  IInv'
<1> DEFINE number == hdr[task[n].parent].number + 1
           cp     == VoteTarget(n, number)
           v      == VoteFor(n, cp)
<1>1. HeadersInv /\ NetInv /\ StoreInv /\ PoolInv /\ TaskInv /\ CommitInv
  BY Parts, Zenon
<1>2. /\ hdr' = hdr /\ stored' = stored /\ head' = head
      /\ UNCHANGED <<finalized, wasFinal, staged, adopting>>
      /\ task[n].parent # NoHash
      /\ task' = [task EXCEPT ![n].sealed = TRUE]
  BY Zenon DEF Seal
<1>3. n \in Nodes
  BY Zenon DEF Honest
<1>4. TaskInv'
  <2>1. /\ task' \in [Nodes -> [parent : Blocks \cup {NoHash}, qc : Certificate, sealed : BOOLEAN]]
        /\ \A m \in Nodes : task'[m].parent = task[m].parent /\ task'[m].qc = task[m].qc
        /\ \A m \in Nodes : m # n => task'[m] = task[m]
    BY Zenon, <1>1, <1>2 DEF TaskInv
  <2>2. TaskOK'
    BY <1>1, <1>2, <2>1 DEF TaskInv, TaskOK, Blocks
  <2>. QED BY <1>2, <2>1, <2>2, Zenon DEF TaskInv, Blocks
<1>5. CASE /\ signed' = signed /\ net' = net
           /\ \/ pool' = pool
              \/ \E f \in Nat : pool' = [pool EXCEPT ![n] = Prune(@, f, number)]
  <2>1. Grows
    BY <1>2, <1>5, NoNewBlock, Zenon
  <2>2. PoolInv'
    <3>1. CASE pool' = pool
      BY <3>1, <2>1, <1>1, PoolStable, Zenon
    <3>2. CASE \E f \in Nat : pool' = [pool EXCEPT ![n] = Prune(@, f, number)]
      <4>1. PICK f \in Nat : pool' = [pool EXCEPT ![n] = Prune(@, f, number)]
        BY Zenon, <3>2
      <4>2. Prune(pool[n], f, number) \in Pools(net)
        BY <1>1, <1>3, PrunePools, Zenon DEF PoolInv
      <4>. QED BY Zenon, <4>1, <4>2, <1>1, <1>5 DEF PoolInv
    <3>. QED BY <1>5, <3>1, <3>2, Zenon
  <2>. QED BY <2>1, <2>2, <1>1, <1>2, <1>4, <1>5, HeadersStable, NetStable,
              StoreStable, CommitStable, PartsNext, Zenon
<1>6. CASE /\ cp # NoHash
           /\ MaySign(n, hdr[cp].number, cp)
           /\ CastVote(n, cp, hdr[fin].number, number)
  <2>1. cp \in Blocks /\ hdr[cp].number \in Heights
    <3>1. head[n] \in Blocks /\ hdr[head[n]].number \in Nat
      BY <1>1, <1>3, Ancestors, Zenon DEF StoreInv
    <3>2. Candidate(number) \in 0..hdr[head[n]].number /\ cp = Ancestor(head[n], Candidate(number))
      <4>1. Candidate(number) <= hdr[head[n]].number /\ cp = Ancestor(head[n], Candidate(number))
        BY Zenon, <1>6 DEF VoteTarget
      <4>2. task[n].parent \in Blocks
        BY <1>1, <1>2, <1>3, Zenon DEF TaskInv
      <4>3. hdr[task[n].parent].number \in Nat
        BY <4>2, <1>1, Ancestors, Zenon
      <4>4. Candidate(number) \in 0 .. number - 1
        BY <4>3, CandidateBelow
      <4>. QED BY <4>1, <4>3, <4>4, <3>1
    <3>3. cp \in Blocks
      BY <3>1, <3>2, <1>1, Ancestors, Zenon
    <3>. QED BY <3>3, <1>1, Zenon DEF HeadersInv, HeaderOK
  <2> HIDE DEF cp, number
  <2>2. /\ signed' = [signed EXCEPT ![n][hdr[cp].number] = cp]
        /\ pool' = [pool EXCEPT ![n] = Prune(AddVote(@, v), hdr[fin].number, number)]
        /\ net' = net \cup {v}
    BY <1>6, Zenon DEF CastVote
  <2>3. Grows
    BY <1>2, <2>2, NoNewBlock, Zenon
  <2>4. v \in Envelope /\ v.hash = cp /\ v.number = hdr[cp].number /\ v.signer = n
    BY <1>1, <1>3, <2>1, Zenon DEF VoteFor, Envelope, HeadersInv
  <2>5. NetInv'
    <3> HIDE DEF v
    <3>1. signed' \in [Nodes -> [Heights -> Blocks \cup {NoHash}]]
      BY <1>1, <1>3, <2>1, <2>2, Zenon DEF NetInv
    <3>2. \A m \in Nodes, c \in Heights :
             signed'[m][c] = IF m = n /\ c = hdr[cp].number THEN cp ELSE signed[m][c]
      BY <1>1, <1>3, <2>1, <2>2, Zenon DEF NetInv
    <3>3. signed[n][hdr[cp].number] \in {NoHash, cp}
      BY <1>6, Zenon DEF MaySign
    <3>4. \A e \in net : e.signer \in Honest => signed'[e.signer][e.number] = e.hash
      <4> SUFFICES ASSUME NEW e \in net, e.signer \in Honest
                   PROVE  signed'[e.signer][e.number] = e.hash
        BY Zenon
      <4>1. e.number \in Heights /\ e.signer \in Nodes /\ e.hash \in Blocks
        BY <1>1, Zenon DEF NetInv, Envelope
      <4>2. signed[e.signer][e.number] = e.hash
        BY <1>1, Zenon DEF NetInv, VotesRecorded
      <4>3. e.hash # NoHash
        BY <4>1, <1>1, FinalityConfigAssumption, Zenon DEF HeadersInv
      <4>. QED BY <4>1, <4>2, <4>3, <3>2, <3>3, Zenon
    <3>5. VotesRecorded'
      BY <2>1, <2>2, <2>4, <3>2, <3>4, <1>3 DEF VotesRecorded
    <3>6. net' \subseteq Envelope
      BY <1>1, <2>2, <2>4, Zenon DEF NetInv
    <3>7. \A e \in net' : e.hash \in Blocks' /\ hdr'[e.hash].number = e.number
      BY <1>1, <1>2, <2>1, <2>2, <2>4, Zenon DEF NetInv, Blocks
    <3>. QED BY <3>1, <3>5, <3>6, <3>7, <1>2, Zenon DEF NetInv, Blocks
  <2>6. PoolInv'
    <3>1. pool[n] \in Pools(net') /\ pool \in [Nodes -> Pools(net')]
      <4>1. Pools(net) \subseteq Pools(net')
        BY <2>2, Zenon DEF Pools
      <4>. QED BY <4>1, <1>1, <1>3, Zenon DEF PoolInv
    <3>2. v \in net'
      BY <2>2, Zenon
    <3> HIDE DEF v
    <3>3. Prune(AddVote(pool[n], v), hdr[fin].number, number) \in Pools(net')
      BY <3>1, <3>2, AddVotePools, PrunePools, Zenon
    <3>. QED BY Zenon, <2>2, <3>1, <3>3 DEF PoolInv
  <2>. QED BY SMTT(30), <2>3, <2>5, <2>6, <1>1, <1>2, <1>4, HeadersStable,
              StoreStable, CommitStable, PartsNext
<1>7. hdr[fin].number \in Nat
  BY <1>1, Ancestors, Zenon
<1>. QED BY <1>5, <1>6, <1>7, Zenon DEF Seal, MaybeProduceCheckpointVote, NoVote

(* SealRefused only drops a task.                                          *)
LEMMA SealRefusedInv ==
    ASSUME IInv, NEW n \in Honest, SealRefused(n)
    PROVE  IInv'
<1>1. HeadersInv /\ NetInv /\ StoreInv /\ PoolInv /\ TaskInv /\ CommitInv
  BY Parts, Zenon
<1>2. /\ hdr' = hdr /\ stored' = stored /\ head' = head /\ net' = net
      /\ signed' = signed /\ pool' = pool
      /\ UNCHANGED <<finalized, wasFinal, staged, adopting>>
      /\ task' = [task EXCEPT ![n] = NoTask]
  BY Zenon DEF SealRefused
<1>3. Grows
  BY <1>2, NoNewBlock, Zenon
<1>4. NoTask \in [parent : Blocks \cup {NoHash}, qc : Certificate, sealed : BOOLEAN]
  BY FinalityConfigAssumption DEF NoTask, NoQC, Certificate, Heights
<1>5. TaskInv'
  <2>1. task' \in [Nodes -> [parent : Blocks \cup {NoHash}, qc : Certificate, sealed : BOOLEAN]]
    BY Zenon, <1>1, <1>2, <1>4 DEF TaskInv
  <2>2. TaskOK'
    BY Zenon, <1>1, <1>2 DEF TaskInv, TaskOK, NoTask, Blocks
  <2>. QED BY <2>1, <2>2, <1>2, Zenon DEF TaskInv, Blocks
<1>. QED BY <1>1, <1>2, <1>3, <1>5, HeadersStable, NetStable, StoreStable,
            PoolStable, CommitStable, PartsNext, Zenon

(* ResultLoop: the block a node sealed itself.                             *)
LEMMA ResultLoopInv ==
    ASSUME IInv, NEW n \in Honest, NEW h \in Hashes, NEW d \in Difficulties,
           NEW reg \in ValidatorSets, ResultLoop(n, h, d, reg)
    PROVE  IInv'
<1> DEFINE t == task[n]
<1>1. HeadersInv /\ NetInv /\ StoreInv /\ PoolInv /\ TaskInv /\ CommitInv /\ TypeOK
  BY Parts, Zenon DEF IInv
<1>2. /\ t.sealed /\ h \notin Blocks
      /\ hdr' = WithHeader(h, SealedHeader(h, t.parent, d, reg, t.qc))
      /\ WriteBlockAndSetHead(hdr', n, h)
      /\ task' = [task EXCEPT ![n] = NoTask]
      /\ UNCHANGED <<net, finalized, wasFinal, signed, pool, staged>>
  BY Zenon DEF ResultLoop
<1>3. /\ n \in Nodes /\ t.parent \in Blocks /\ hdr[t.parent].number < MaxHeight
      /\ t.qc \in Certificate /\ (t.qc # NoQC => t.qc.hash \in Blocks \ {Genesis})
  BY <1>1, <1>2, Zenon DEF Honest, TaskInv, TaskOK
<1>4. /\ Blocks' = Blocks \cup {h}
      /\ \A x \in Blocks : hdr'[x] = hdr[x]
      /\ \A x \in Blocks' : HeaderOK(x)'
  <2> HIDE DEF t
  <2>. QED BY <1>1, <1>2, <1>3, NewHeaderOK, Zenon
<1>5. Grows
  BY <1>2, <1>4, Zenon DEF Grows
<1>6. HeadersInv'
  BY <1>1, <1>4, Zenon DEF HeadersInv
<1>7. StoreInv' /\ \A m \in Nodes : stored[m] \subseteq stored'[m]
  BY <1>1, <1>2, <1>3, <1>4, <1>5, WriteBlockStore, Zenon
<1>8. /\ staged' \in [Nodes -> SUBSET [carrier : Blocks', number : Heights, hash : Blocks']]
      /\ StagedOK'
  <2>1. \A m \in Nodes : \A r \in staged[m] :
           /\ r \in [carrier : Blocks', number : Heights, hash : Blocks']
           /\ r.carrier \in stored'[m]
           /\ r.number \in 1..hdr'[r.carrier].number
           /\ Ancestor(r.carrier, r.number)' = r.hash
           /\ ValidQC(r.carrier)'
           /\ hdr'[r.carrier].qc.hash = r.hash
    BY <1>1, <1>5, <1>7, StagedStable, Zenon
  <2>2. StagedOK'
    BY Zenon, <2>1, <1>2 DEF StagedOK
  <2>3. staged' \in [Nodes -> SUBSET [carrier : Blocks', number : Heights, hash : Blocks']]
    BY Zenon, <2>1, <1>1, <1>2 DEF CommitInv
  <2>. QED BY <2>2, <2>3, Zenon
<1>9. CommitInv'
  BY Zenon, <1>1, <1>2, <1>3, <1>4, <1>5, <1>8, WriteBlockCommit
<1>10. TaskInv'
  <2>1. NoTask \in [parent : Blocks' \cup {NoHash}, qc : Certificate, sealed : BOOLEAN]
    BY FinalityConfigAssumption DEF NoTask, NoQC, Certificate, Heights
  <2>2. task' \in [Nodes -> [parent : Blocks' \cup {NoHash}, qc : Certificate, sealed : BOOLEAN]]
    <3>1. [parent : Blocks \cup {NoHash}, qc : Certificate, sealed : BOOLEAN]
             \subseteq [parent : Blocks' \cup {NoHash}, qc : Certificate, sealed : BOOLEAN]
      BY <1>4, Zenon
    <3>. QED BY Zenon, <3>1, <2>1, <1>1, <1>2 DEF TaskInv
  <2>3. TaskOK'
    BY ZenonT(40), <1>1, <1>2, <1>4 DEF TaskInv, TaskOK, NoTask
  <2>. QED BY <2>2, <2>3, Zenon DEF TaskInv
<1>. QED BY <1>1, <1>2, <1>5, <1>6, <1>7, <1>9, <1>10, NetStable, PoolStable, PartsNext, Zenon

(* InsertBlock: what gets staged has just been verified.                   *)
LEMMA InsertBlockInv ==
    ASSUME IInv, NEW n \in Honest, NEW b \in Blocks, NEW fin \in Blocks,
           InsertBlock(n, b, fin)
    PROVE  IInv'
<1>1. HeadersInv /\ NetInv /\ StoreInv /\ PoolInv /\ TaskInv /\ CommitInv
  BY Parts, Zenon
<1>2. /\ hdr' = hdr
      /\ Acceptable(fin, b)
      /\ staged' = [staged EXCEPT ![n] = @ \cup StagedBy(fin, b)]
      /\ WriteBlockAndSetHead(hdr', n, b)
      /\ UNCHANGED <<net, finalized, wasFinal, signed, pool, task>>
  BY Zenon DEF InsertBlock
<1>3. n \in Nodes /\ Grows /\ HeadersInv' /\ b \in Blocks'
  BY SMTT(30), <1>1, <1>2, NoNewBlock, HeadersStable DEF Honest, Blocks
<1>4. StoreInv' /\ (\A m \in Nodes : stored[m] \subseteq stored'[m]) /\ b \in stored'[n]
  <2>1. stored' = [stored EXCEPT ![n] = @ \cup {b}]
    BY <1>2, Zenon DEF WriteBlockAndSetHead
  <2>2. b \in stored'[n]
    BY <2>1, <1>1, <1>3, Zenon DEF StoreInv
  <2>. QED BY <2>2, <1>1, <1>2, <1>3, WriteBlockStore, Zenon
<1>5. ASSUME NEW r \in StagedBy(fin, b)
      PROVE  /\ r \in [carrier : Blocks', number : Heights, hash : Blocks']
             /\ r.carrier \in stored'[n]
             /\ r.number \in 1..hdr'[r.carrier].number
             /\ Ancestor(r.carrier, r.number)' = r.hash
             /\ ValidQC(r.carrier)'
             /\ hdr'[r.carrier].qc.hash = r.hash
  <2>1. /\ HasQC(b)
        /\ r = [carrier |-> b, number |-> hdr[b].qc.number, hash |-> hdr[b].qc.hash]
    BY <1>5, Zenon DEF StagedBy
  <2>2. ValidQC(b)
    BY SMTT(30), <2>1, <1>2 DEF Acceptable
  <2>3. /\ hdr[b].qc.number \in 1 .. hdr[b].number - 1
        /\ hdr[b].qc.hash = Ancestor(b, hdr[b].qc.number)
        /\ hdr[b].qc.hash \in Blocks
    BY <2>2, <1>1, ValidQCFacts, Zenon
  <2>4. ValidQC(b)'
    BY <2>2, <1>1, <1>3, ValidQCStable, Zenon
  <2>5. hdr[b].qc.number \in Heights /\ hdr[b].number \in Nat
    BY Zenon, <1>1, Ancestors DEF HeadersInv, HeaderOK, Certificate
  <2>6. hdr[b].qc.number \in 1 .. hdr[b].number
    BY <2>3, <2>5
  <2>. QED BY ZenonT(40), <2>1, <2>3, <2>4, <2>5, <2>6, <1>2, <1>3, <1>4 DEF Ancestor, Blocks
<1>6. \A m \in Nodes : \A r \in staged'[m] :
         /\ r \in [carrier : Blocks', number : Heights, hash : Blocks']
         /\ r.carrier \in stored'[m]
         /\ r.number \in 1..hdr'[r.carrier].number
         /\ Ancestor(r.carrier, r.number)' = r.hash
         /\ ValidQC(r.carrier)'
         /\ hdr'[r.carrier].qc.hash = r.hash
  <2> SUFFICES ASSUME NEW m \in Nodes, NEW r \in staged'[m], r \in staged[m]
               PROVE  /\ r \in [carrier : Blocks', number : Heights, hash : Blocks']
                      /\ r.carrier \in stored'[m]
                      /\ r.number \in 1..hdr'[r.carrier].number
                      /\ Ancestor(r.carrier, r.number)' = r.hash
                      /\ ValidQC(r.carrier)'
                      /\ hdr'[r.carrier].qc.hash = r.hash
    BY <1>1, <1>2, <1>3, <1>5 DEF CommitInv
  <2>. QED BY SMTT(30), <1>1, <1>3, <1>4, StagedStable
<1>7. StagedOK'
  BY <1>6, Zenon DEF StagedOK
<1>8. staged' \in [Nodes -> SUBSET [carrier : Blocks', number : Heights, hash : Blocks']]
  <2>1. staged' = [m \in Nodes |-> staged'[m]]
    BY Zenon, <1>1, <1>2 DEF CommitInv
  <2>. QED BY <2>1, <1>6, Zenon
<1>9. CommitInv'
  BY <1>1, <1>2, <1>3, <1>7, <1>8, WriteBlockCommit, Zenon
<1>. QED BY Zenon, <1>1, <1>2, <1>3, <1>4, <1>9, NetStable, PoolStable, TaskStable, PartsNext

(* WriteKnownBlock moves the head among stored blocks.                     *)
LEMMA WriteKnownBlockInv ==
    ASSUME IInv, NEW n \in Honest, NEW b \in Blocks, WriteKnownBlock(n, b)
    PROVE  IInv'
<1>1. HeadersInv /\ NetInv /\ StoreInv /\ PoolInv /\ TaskInv /\ CommitInv
  BY Parts, Zenon
<1>2. /\ hdr' = hdr /\ net' = net /\ stored' = stored
      /\ signed' = signed /\ pool' = pool /\ task' = task
      /\ UNCHANGED <<finalized, wasFinal, staged, adopting>>
      /\ b \in stored[n]
      /\ head' = [head EXCEPT ![n] = b]
  BY Zenon DEF WriteKnownBlock
<1>3. Grows
  BY Zenon, <1>2, NoNewBlock
<1>4. StoreInv'
  BY Zenon, <1>1, <1>2 DEF StoreInv, Blocks
<1>. QED BY Zenon, <1>1, <1>2, <1>3, <1>4, HeadersStable, NetStable, PoolStable,
            TaskStable, CommitStable, PartsNext

(* OnCanonicalBlock: the committed result was staged for the new head.     *)
LEMMA OnCanonicalBlockInv ==
    ASSUME IInv, NEW n \in Honest, OnCanonicalBlock(n)
    PROVE  IInv'
<1>1. HeadersInv /\ NetInv /\ StoreInv /\ PoolInv /\ TaskInv /\ CommitInv
  BY Parts, Zenon
<1>2. /\ hdr' = hdr /\ net' = net /\ stored' = stored /\ head' = head
      /\ signed' = signed /\ pool' = pool /\ task' = task
      /\ staged' = [staged EXCEPT ![n] = @ \ {r \in staged[n] : r.carrier = adopting[n]}]
      /\ adopting' = [adopting EXCEPT ![n] = NoHash]
      /\ \/ UNCHANGED <<finalized, wasFinal>>
         \/ \E r \in staged[n] :
               /\ finalized' = [finalized EXCEPT ![n] = r.hash]
               /\ wasFinal' = [wasFinal EXCEPT ![n] = @ \cup {r.hash}]
  BY Zenon DEF OnCanonicalBlock, Committed
<1>3. Grows /\ n \in Nodes /\ Blocks' = Blocks /\ HeadersInv'
  BY <1>1, <1>2, NoNewBlock, HeadersStable, Zenon DEF Honest, Blocks
<1>4. \A m \in Nodes : staged'[m] \subseteq staged[m]
  BY <1>1, <1>2, Zenon DEF CommitInv
<1>5. \A b \in Blocks : ValidQC(b) => ValidQC(b)'
  BY SMTT(30), <1>1, <1>3, ValidQCStable
<1>6. StagedOK'
  BY <1>1, <1>2, <1>4, <1>5, Zenon DEF CommitInv, StagedOK, StoreInv, Ancestor
<1>7. /\ staged' \in [Nodes -> SUBSET [carrier : Blocks', number : Heights, hash : Blocks']]
      /\ adopting' \in [Nodes -> Blocks' \cup {NoHash}]
  BY <1>1, <1>2, <1>3, <1>4, Zenon DEF CommitInv
<1>8. /\ finalized' \in [Nodes -> Blocks']
      /\ wasFinal' \in [Nodes -> SUBSET Blocks']
      /\ \A m \in Nodes : m # n => finalized'[m] = finalized[m] /\ wasFinal'[m] = wasFinal[m]
      /\ finalized'[n] \in wasFinal'[n]
      /\ \A f \in wasFinal'[n] : f \in wasFinal[n] \/ \E r \in staged[n] : f = r.hash
  <2>1. CASE UNCHANGED <<finalized, wasFinal>>
    BY <2>1, <1>1, <1>3, Zenon DEF CommitInv, CommitOK
  <2>2. CASE \E r \in staged[n] :
                /\ finalized' = [finalized EXCEPT ![n] = r.hash]
                /\ wasFinal' = [wasFinal EXCEPT ![n] = @ \cup {r.hash}]
    <3>1. PICK r \in staged[n] :
                /\ finalized' = [finalized EXCEPT ![n] = r.hash]
                /\ wasFinal' = [wasFinal EXCEPT ![n] = @ \cup {r.hash}]
      BY Zenon, <2>2
    <3>2. r.hash \in Blocks
      BY <1>1, <1>3 DEF CommitInv
    <3>. QED BY <3>1, <3>2, <1>1, <1>3, Zenon DEF CommitInv
  <2>. QED BY <1>2, <2>1, <2>2, Zenon
<1>9. ASSUME NEW m \in Nodes, NEW f \in wasFinal'[m] \ {Genesis}
      PROVE  \E b \in stored'[m] : ValidQC(b)' /\ hdr'[b].qc.hash = f
  <2>1. CASE f \in wasFinal[m]
    BY <2>1, <1>1, <1>2, <1>5 DEF CommitInv, CommitOK, StoreInv
  <2>2. CASE f \notin wasFinal[m]
    <3>1. PICK r \in staged[m] : f = r.hash
      BY <2>2, <1>8, <1>9, Zenon
    <3>2. r.carrier \in stored[m] /\ r.carrier \in Blocks
          /\ ValidQC(r.carrier) /\ hdr[r.carrier].qc.hash = f
      BY <3>1, <1>1 DEF CommitInv, StagedOK
    <3>. QED BY Zenon, <3>2, <1>2, <1>5
  <2>. QED BY SMTT(30), <2>1, <2>2
<1>10. ASSUME NEW m \in Nodes
       PROVE  /\ ~Idle(m)' =>
                     /\ hdr'[adopting'[m]].number >= FinalizedNumber(m)'
                     /\ Ancestor(adopting[m], FinalizedNumber(m))' = finalized'[m]
              /\ finalized'[m] \in wasFinal'[m]
  <2>1. CASE m = n
    BY Zenon, <2>1, <1>1, <1>2, <1>8 DEF CommitInv, Idle
  <2>2. CASE m # n
    BY ZenonT(40), <2>2, <1>1, <1>2, <1>8 DEF CommitInv, CommitOK, Idle, FinalizedNumber, Ancestor
  <2>. QED BY <2>1, <2>2, Zenon
<1>11. CommitOK'
  BY <1>9, <1>10, Zenon DEF CommitOK
<1>12. CommitInv'
  BY SMTT(30), <1>6, <1>7, <1>8, <1>11 DEF CommitInv
<1>. QED BY <1>1, <1>2, <1>3, <1>12, NetStable, StoreStable, PoolStable,
            TaskStable, PartsNext, Zenon

(* HandleIncomingVote: what enters the pool came from the network.         *)
LEMMA HandleIncomingVoteInv ==
    ASSUME IInv, NEW n \in Honest, NEW env \in net, HandleIncomingVote(n, env)
    PROVE  IInv'
<1> DEFINE known == env.hash \in stored[n]
           cur == hdr[head[n]].number
<1>1. HeadersInv /\ NetInv /\ StoreInv /\ PoolInv /\ TaskInv /\ CommitInv
  BY Parts, Zenon
<1>2. /\ hdr' = hdr /\ net' = net /\ stored' = stored /\ head' = head
      /\ signed' = signed /\ task' = task
      /\ UNCHANGED <<finalized, wasFinal, staged, adopting>>
      /\ pool' = [pool EXCEPT ![n] =
            Prune(IF known THEN AddVote(@, env) ELSE AddPending(@, env), FinalizedNumber(n), cur)]
  BY Zenon DEF HandleIncomingVote
<1>3. Grows /\ n \in Nodes
  BY Zenon, <1>2, NoNewBlock DEF Honest
<1>4. PoolInv'
  <2>1. pool[n] \in Pools(net)
    BY <1>1, <1>3, Zenon DEF PoolInv
  <2>2. (IF known THEN AddVote(pool[n], env) ELSE AddPending(pool[n], env)) \in Pools(net)
    BY SMTT(30), <2>1, AddVotePools, AddPendingPools
  <2>3. Prune(IF known THEN AddVote(pool[n], env) ELSE AddPending(pool[n], env),
              FinalizedNumber(n), cur) \in Pools(net)
    BY <2>2, PrunePools, Zenon
  <2>. QED BY Zenon, <2>3, <1>1, <1>2 DEF PoolInv
<1>. QED BY <1>1, <1>2, <1>3, <1>4, HeadersStable, NetStable, StoreStable,
            TaskStable, CommitStable, PartsNext, Zenon

(* Crash: what the invariant says about memory holds of empty memory.      *)
LEMMA CrashInv ==
    ASSUME IInv, NEW n \in Honest, Crash(n)
    PROVE  IInv'
<1>1. HeadersInv /\ NetInv /\ StoreInv /\ PoolInv /\ TaskInv /\ CommitInv
  BY Parts, Zenon
<1>2. /\ hdr' = hdr /\ net' = net /\ stored' = stored /\ head' = head
      /\ signed' = signed /\ finalized' = finalized /\ wasFinal' = wasFinal
      /\ pool' = [pool EXCEPT ![n] = EmptyPool]
      /\ staged' = [staged EXCEPT ![n] = {}]
      /\ task' = [task EXCEPT ![n] = NoTask]
      /\ adopting' = [adopting EXCEPT ![n] = NoHash]
  BY Zenon DEF Crash
<1>3. Grows /\ Blocks' = Blocks
  BY <1>2, NoNewBlock, Zenon DEF Blocks
<1>4. PoolInv'
  BY Zenon, <1>1, <1>2 DEF PoolInv, EmptyPool, Pools
<1>5. TaskInv'
  <2>1. NoTask \in [parent : Blocks \cup {NoHash}, qc : Certificate, sealed : BOOLEAN]
    BY FinalityConfigAssumption DEF NoTask, NoQC, Certificate, Heights
  <2>2. task' \in [Nodes -> [parent : Blocks \cup {NoHash}, qc : Certificate, sealed : BOOLEAN]]
    BY Zenon, <1>1, <1>2, <2>1 DEF TaskInv
  <2>3. TaskOK'
    BY Zenon, <1>1, <1>2, <1>3 DEF TaskInv, TaskOK, NoTask
  <2>. QED BY <2>2, <2>3, <1>3, Zenon DEF TaskInv
<1>6. CommitInv'
  <2>1. \A b \in Blocks : ValidQC(b) => ValidQC(b)'
    BY <1>1, <1>3, ValidQCStable, Zenon
  <2>2. \A m \in Nodes : /\ staged'[m] \subseteq staged[m]
                         /\ adopting'[m] # NoHash => adopting'[m] = adopting[m]
    BY <1>1, <1>2, Zenon DEF CommitInv
  <2>3. /\ staged' \in [Nodes -> SUBSET [carrier : Blocks', number : Heights, hash : Blocks']]
        /\ adopting' \in [Nodes -> Blocks' \cup {NoHash}]
        /\ finalized' \in [Nodes -> Blocks']
        /\ wasFinal' \in [Nodes -> SUBSET Blocks']
    BY ZenonT(40), <1>1, <1>2, <1>3 DEF CommitInv
  <2>4. StagedOK'
    <3>1. \A m \in Nodes : stored[m] \subseteq stored'[m]
      BY Zenon, <1>2
    <3>2. ASSUME NEW m \in Nodes, NEW r \in staged'[m]
          PROVE  /\ r.carrier \in stored'[m]
                 /\ r.number \in 1..hdr'[r.carrier].number
                 /\ Ancestor(r.carrier, r.number)' = r.hash
                 /\ ValidQC(r.carrier)'
                 /\ hdr'[r.carrier].qc.hash = r.hash
      <4>1. r \in staged[m]
        BY <2>2, Zenon
      <4>. QED BY SMTT(30), <4>1, <3>1, <1>1, <1>3, StagedStable
    <3>. QED BY ZenonT(40), <3>2 DEF StagedOK
  <2>5. ASSUME NEW m \in Nodes, ~Idle(m)'
        PROVE  /\ hdr'[adopting'[m]].number >= FinalizedNumber(m)'
               /\ Ancestor(adopting[m], FinalizedNumber(m))' = finalized'[m]
    <3>1. adopting'[m] = adopting[m] /\ ~Idle(m)
      BY Zenon, <2>5, <2>2 DEF Idle
    <3>2. /\ hdr[adopting[m]].number >= FinalizedNumber(m)
          /\ Ancestor(adopting[m], FinalizedNumber(m)) = finalized[m]
      BY Zenon, <3>1, <1>1 DEF CommitInv, CommitOK
    <3>. QED BY Zenon, <3>1, <3>2, <1>2 DEF FinalizedNumber, Ancestor
  <2>6. ASSUME NEW m \in Nodes
        PROVE  /\ finalized'[m] \in wasFinal'[m]
               /\ \A f \in wasFinal'[m] \ {Genesis} :
                     \E b \in stored'[m] : ValidQC(b)' /\ hdr'[b].qc.hash = f
    <3>1. \A b \in stored[m] : b \in Blocks
      BY Zenon, <1>1 DEF StoreInv
    <3>2. /\ finalized[m] \in wasFinal[m]
          /\ \A f \in wasFinal[m] \ {Genesis} :
                \E b \in stored[m] : ValidQC(b) /\ hdr[b].qc.hash = f
      BY Zenon, <1>1 DEF CommitInv, CommitOK
    <3>3. /\ hdr' = hdr /\ stored' = stored
          /\ finalized' = finalized /\ wasFinal' = wasFinal
      BY Zenon, <1>2
    <3>. QED BY <3>1, <3>2, <3>3, <2>1, Zenon
  <2>7. CommitOK'
    BY Zenon, <2>5, <2>6 DEF CommitOK
  <2>. QED BY <2>3, <2>4, <2>7, Zenon DEF CommitInv
<1>. QED BY <1>1, <1>2, <1>3, <1>4, <1>5, <1>6, HeadersStable, NetStable,
            StoreStable, PartsNext, Zenon

(* RestartGossip: only what is on record is signed again.                  *)
LEMMA RestartGossipInv ==
    ASSUME IInv, NEW n \in Honest, RestartGossip(n)
    PROVE  IInv'
<1> DEFINE unsettled == {c \in Heights :
                            /\ c > FinalizedNumber(n)
                            /\ c <= hdr[head[n]].number
                            /\ signed[n][c] = Ancestor(head[n], c)
                            /\ n \in SignerSet(signed[n][c])}
           votes == {VoteFor(n, signed[n][c]) : c \in unsettled}
<1>1. HeadersInv /\ NetInv /\ StoreInv /\ PoolInv /\ TaskInv /\ CommitInv
  BY Parts, Zenon
<1>2. /\ hdr' = hdr /\ stored' = stored /\ head' = head
      /\ signed' = signed /\ task' = task
      /\ UNCHANGED <<finalized, wasFinal, staged, adopting>>
      /\ pool' = [pool EXCEPT ![n] = AddVotes(@, votes)]
      /\ net' = net \cup votes
  BY Zenon DEF RestartGossip
<1>3. Grows /\ n \in Nodes /\ Blocks' = Blocks
  BY Zenon, <1>2, NoNewBlock DEF Honest, Blocks
<1>4. ASSUME NEW e \in votes
      PROVE  /\ e \in Envelope /\ e.hash \in Blocks /\ hdr[e.hash].number = e.number
             /\ e.signer = n /\ signed[n][e.number] = e.hash
  <2>1. PICK c \in unsettled : e = VoteFor(n, signed[n][c])
    BY <1>4, Zenon
  <2>2. head[n] \in Blocks /\ hdr[head[n]].number \in Nat
    BY <1>1, <1>3, Ancestors, Zenon DEF StoreInv
  <2>3. c \in Heights /\ c \in 0..hdr[head[n]].number /\ signed[n][c] = Ancestor(head[n], c)
    BY SMTT(30), <2>1, <2>2, FinalityConfigAssumption DEF Heights
  <2>4. signed[n][c] \in Blocks /\ hdr[signed[n][c]].number = c
    BY <2>2, <2>3, <1>1, Ancestors
  <2>. QED BY Zenon, <2>1, <2>3, <2>4, <1>1, <1>3 DEF VoteFor, Envelope, HeadersInv
<1> HIDE DEF votes
<1>5. NetInv'
  BY Zenon, <1>1, <1>2, <1>3, <1>4 DEF NetInv, VotesRecorded
<1>6. PoolInv'
  <2>1. Pools(net) \subseteq Pools(net')
    BY <1>2, Zenon DEF Pools
  <2>2. pool[n] \in Pools(net') /\ pool \in [Nodes -> Pools(net')]
    BY <2>1, <1>1, <1>3, Zenon DEF PoolInv
  <2>3. AddVotes(pool[n], votes) \in Pools(net')
    BY SMTT(30), <2>2, <1>2, AddVotesPools
  <2>. QED BY Zenon, <2>2, <2>3, <1>2 DEF PoolInv
<1>. QED BY Zenon, <1>1, <1>2, <1>3, <1>5, <1>6, HeadersStable, StoreStable,
            TaskStable, CommitStable, PartsNext

(* A vote of a faulty validator is not constrained by any record.          *)
LEMMA FaultyVoteInv ==
    ASSUME IInv, NEW v \in Faulty, NEW b \in Blocks, FaultyVote(v, b)
    PROVE  IInv'
<1>1. HeadersInv /\ NetInv /\ StoreInv /\ PoolInv /\ TaskInv /\ CommitInv
  BY Parts, Zenon
<1>2. /\ hdr' = hdr /\ stored' = stored /\ head' = head
      /\ signed' = signed /\ task' = task /\ pool' = pool
      /\ UNCHANGED <<finalized, wasFinal, staged, adopting>>
      /\ net' = net \cup {VoteFor(v, b)}
  BY Zenon DEF FaultyVote
<1>3. Grows /\ Blocks' = Blocks
  BY <1>2, NoNewBlock, Zenon DEF Blocks
<1>4. /\ VoteFor(v, b) \in Envelope /\ VoteFor(v, b).hash = b
      /\ VoteFor(v, b).number = hdr[b].number /\ VoteFor(v, b).signer \notin Honest
  BY Zenon, <1>1, FinalityConfigAssumption DEF VoteFor, Envelope, HeadersInv, HeaderOK, Honest
<1>5. NetInv'
  BY ZenonT(40), <1>1, <1>2, <1>3, <1>4 DEF NetInv, VotesRecorded
<1>. QED BY <1>1, <1>2, <1>3, <1>5, HeadersStable, StoreStable, PoolStable,
            TaskStable, CommitStable, PartsNext, Zenon

(* A block of a faulty validator changes no node's state.                  *)
LEMMA FaultyBlockInv ==
    ASSUME IInv, NEW v \in Faulty, NEW h \in Hashes, NEW parent \in Blocks, NEW cp \in Blocks,
           NEW d \in Difficulties, NEW reg \in ValidatorSets, NEW signers \in SUBSET Nodes,
           FaultyBlock(v, h, parent, d, reg, cp, signers)
    PROVE  IInv'
<1> DEFINE qc == IF cp = Genesis THEN NoQC
                 ELSE [number |-> hdr[cp].number, hash |-> cp, signers |-> signers]
<1>1. HeadersInv /\ NetInv /\ StoreInv /\ PoolInv /\ TaskInv /\ CommitInv /\ TypeOK
  BY Parts, Zenon DEF IInv
<1>2. /\ hdr[parent].number < MaxHeight /\ h \in Hashes \ Blocks
      /\ hdr' = WithHeader(h, SealedHeader(h, parent, d, reg, qc))
      /\ net' = net /\ stored' = stored /\ head' = head /\ signed' = signed
      /\ pool' = pool /\ task' = task
      /\ UNCHANGED <<finalized, wasFinal, staged, adopting>>
  BY Zenon DEF FaultyBlock
<1>3. qc \in Certificate /\ (qc # NoQC => qc.hash \in Blocks \ {Genesis})
  BY Zenon, <1>1, FinalityConfigAssumption DEF Certificate, HeadersInv, HeaderOK, NoQC, Heights
<1> HIDE DEF qc
<1>4. /\ Blocks' = Blocks \cup {h}
      /\ \A x \in Blocks : hdr'[x] = hdr[x]
      /\ \A x \in Blocks' : HeaderOK(x)'
  BY ZenonT(40), <1>1, <1>2, <1>3, NewHeaderOK
<1>5. Grows /\ HeadersInv'
  BY Zenon, <1>1, <1>2, <1>4 DEF Grows, HeadersInv
<1>. QED BY ZenonT(40), <1>1, <1>2, <1>5, NetStable, StoreStable, PoolStable, TaskStable,
            CommitStable, PartsNext

-----------------------------------------------------------------------------
(* The theorems.                                                           *)

(* The state of a fresh network satisfies the invariant.                   *)
LEMMA InitInv == Init => IInv
<1> SUFFICES ASSUME Init PROVE IInv
  BY Zenon
<1>1. Blocks = {Genesis} /\ hdr[Genesis] = GenesisHeader
  BY Zenon DEF Init, Blocks
<1>2. NoQC \in Certificate /\ 0 \in Heights
  BY FinalityConfigAssumption DEF NoQC, Certificate, Heights
<1>3. HeadersInv
  <2>1. /\ hdr[Genesis].number = 0 /\ hdr[Genesis].td = 0
        /\ hdr[Genesis].path = [i \in {0} |-> Genesis]
        /\ hdr[Genesis].vals = GenesisSet /\ hdr[Genesis].reg = GenesisSet
        /\ hdr[Genesis].qc = NoQC
    BY <1>1 DEF GenesisHeader
  <2>2. 0..0 = {0}
    OBVIOUS
  <2>3. hdr[Genesis].path \in [0..0 -> Blocks] /\ hdr[Genesis].path[0] = Genesis
    BY <1>1, <2>1, <2>2, Zenon
  <2>4. HeaderOK(Genesis)
    BY <1>1, <1>2, <2>1, <2>2, <2>3, FinalityConfigAssumption DEF HeaderOK
  <2>. QED BY <1>1, <2>1, <2>4, FinalityConfigAssumption, Zenon DEF HeadersInv
<1>4. NetInv /\ StoreInv
  BY <1>1, Zenon DEF Init, NetInv, StoreInv, VotesRecorded
<1>5. PoolInv
  BY Zenon DEF Init, PoolInv, Pools, EmptyPool
<1>6. TaskInv
  BY <1>2, Zenon DEF Init, TaskInv, TaskOK, NoTask
<1>7. CommitInv
  BY <1>1, Zenon DEF Init, CommitInv, StagedOK, CommitOK, Idle
<1>. QED BY <1>3, <1>4, <1>5, <1>6, <1>7, Parts, Zenon

(* Every step of every node, honest or faulty, preserves the invariant.    *)
LEMMA NextInv == IInv /\ [Next]_vars => IInv'
<1> SUFFICES ASSUME IInv, [Next]_vars PROVE IInv'
  BY Zenon
<1>1. CASE UNCHANGED vars
  <2>1. UNCHANGED <<hdr, net, stored, head, finalized, wasFinal, signed, pool, staged, task, adopting>>
    BY <1>1, Zenon DEF vars
  <2>2. Grows
    BY <2>1, NoNewBlock, Zenon
  <2>. QED BY Zenon, <2>1, <2>2, Parts, HeadersStable, NetStable, StoreStable, PoolStable,
              TaskStable, CommitStable, PartsNext
<1>2. ASSUME NEW n \in Honest, Step(n) PROVE IInv'
  BY <1>2, FinalizeAndAssembleInv, SealInv, SealRefusedInv, ResultLoopInv, InsertBlockInv,
     WriteKnownBlockInv, OnCanonicalBlockInv, HandleIncomingVoteInv, CrashInv,
     RestartGossipInv, Zenon DEF Step
<1>3. ASSUME NEW v \in Faulty, FaultyStep(v) PROVE IInv'
  BY <1>3, FaultyVoteInv, FaultyBlockInv, Zenon DEF FaultyStep
<1>. QED BY <1>1, <1>2, <1>3, Zenon DEF Next

(* IInv is an invariant of the protocol.                                   *)
THEOREM Invariance == Spec => []IInv
BY InitInv, NextInv, PTL DEF Spec

(* Type correctness: every database and cache holds what it should.        *)
THEOREM TypeCorrect == Spec => []TypeOK
<1>1. IInv => TypeOK
  BY Zenon DEF IInv
<1>. QED BY <1>1, Invariance, PTL

(* No honest key signs two hashes for one checkpoint number.               *)
THEOREM NeverDoubleSigns == Spec => []NoDoubleSign
<1>1. IInv => NoDoubleSign
  BY Zenon DEF IInv, VotesRecorded, NoDoubleSign
<1>. QED BY <1>1, Invariance, PTL

(* With fewer than a third of a validator set faulty, its quorums overlap  *)
(* in an honest validator: the proviso of Agreement when no rotation lies  *)
(* between the two branches.                                               *)
THEOREM FewFaultyOverlap ==
    ASSUME NEW A \in ValidatorSets, 3 * Cardinality(A \cap Faulty) < Cardinality(A)
    PROVE  Overlap(A, A)
<1> SUFFICES ASSUME NEW P \in SUBSET A, NEW Q \in SUBSET A,
                    3 * Cardinality(P) >= 2 * Cardinality(A),
                    3 * Cardinality(Q) >= 2 * Cardinality(A),
                    P \cap Q \cap Honest = {}
             PROVE  FALSE
  BY Zenon DEF Overlap
<1>1. A \subseteq Nodes /\ IsFiniteSet(A)
  BY FS_Subset, FinalityConfigAssumption, Zenon
<1>2. /\ IsFiniteSet(P) /\ IsFiniteSet(Q) /\ IsFiniteSet(P \cup Q)
      /\ IsFiniteSet(A \cap Faulty) /\ IsFiniteSet(P \cap Q)
  BY <1>1, FS_Subset, Zenon
<1>3. P \cap Q \subseteq A \cap Faulty
  BY <1>1, Zenon DEF Honest
<1>4. Cardinality(P \cap Q) <= Cardinality(A \cap Faulty)
  BY <1>2, <1>3, FS_Subset, Zenon
<1>5. Cardinality(P \cup Q) <= Cardinality(A)
  BY <1>1, FS_Subset, Zenon
<1>6. Cardinality(P \cup Q) = Cardinality(P) + Cardinality(Q) - Cardinality(P \cap Q)
  BY <1>2, FS_Union, Zenon
<1>7. /\ Cardinality(A) \in Nat /\ Cardinality(P) \in Nat /\ Cardinality(Q) \in Nat
      /\ Cardinality(A \cap Faulty) \in Nat /\ Cardinality(P \cap Q) \in Nat
      /\ Cardinality(P \cup Q) \in Nat
  BY <1>1, <1>2, FS_CardinalityType, Zenon
<1>. QED BY <1>4, <1>5, <1>6, <1>7

(* The signers of a certificate that verifies are two thirds of the signer *)
(* set of its checkpoint, and each of them signed it.                      *)
LEMMA ValidQCSigners ==
    ASSUME HeadersInv, NEW b \in Blocks, ValidQC(b)
    PROVE  LET q == hdr[b].qc
               A == SignerSet(q.hash)
           IN  /\ q.signers \subseteq A
               /\ 3 * Cardinality(q.signers) >= 2 * Cardinality(A)
               /\ \A s \in q.signers :
                     [number |-> q.number, hash |-> q.hash, signer |-> s] \in net
<1> DEFINE q == hdr[b].qc
           A == SignerSet(q.hash)
<1>1. A \subseteq Nodes /\ IsFiniteSet(A)
  <2>1. A \in ValidatorSets
    BY ValidQCFacts, Zenon
  <2>. QED BY <2>1, FS_Subset, FinalityConfigAssumption, Zenon
<1>2. /\ q.signers \subseteq A
      /\ Cardinality(q.signers) >= Quorum(Cardinality(A))
      /\ \A s \in q.signers : [number |-> q.number, hash |-> q.hash, signer |-> s] \in net
  BY Zenon DEF ValidQC, QCFullOK, IsQuorum, SignaturesVerify
<1>3. Cardinality(A) \in Nat /\ Cardinality(q.signers) \in Nat
  BY Zenon, <1>1, <1>2, FS_Subset, FS_CardinalityType
<1>4. Quorum(Cardinality(A)) \in Nat /\ 3 * Quorum(Cardinality(A)) >= 2 * Cardinality(A)
  BY <1>3, QuorumIsTwoThirds, Zenon
<1> HIDE DEF q, A
<1>5. 3 * Cardinality(q.signers) >= 2 * Cardinality(A)
  BY <1>2, <1>3, <1>4
<1>. QED BY <1>2, <1>5, Zenon DEF q, A

(* Two certificates that verify for one number are for one hash.           *)
LEMMA InvAgreement == IInv => Agreement
<1> SUFFICES ASSUME IInv, NEW b \in Blocks, NEW c \in Blocks, ValidQC(b), ValidQC(c),
                    hdr[b].qc.number = hdr[c].qc.number,
                    Overlap(SignerSet(hdr[b].qc.hash), SignerSet(hdr[c].qc.hash))
             PROVE  hdr[b].qc.hash = hdr[c].qc.hash
  BY Zenon DEF Agreement
<1> DEFINE p == hdr[b].qc
           q == hdr[c].qc
<1>1. HeadersInv /\ VotesRecorded
  BY Parts, Zenon DEF IInv
<1>2. /\ p.signers \in SUBSET SignerSet(p.hash)
      /\ 3 * Cardinality(p.signers) >= 2 * Cardinality(SignerSet(p.hash))
      /\ \A s \in p.signers : [number |-> p.number, hash |-> p.hash, signer |-> s] \in net
  BY Zenon, <1>1, ValidQCSigners
<1>3. /\ q.signers \in SUBSET SignerSet(q.hash)
      /\ 3 * Cardinality(q.signers) >= 2 * Cardinality(SignerSet(q.hash))
      /\ \A s \in q.signers : [number |-> q.number, hash |-> q.hash, signer |-> s] \in net
  BY Zenon, <1>1, ValidQCSigners
<1>4. PICK s \in p.signers \cap q.signers \cap Honest : TRUE
  BY Zenon, <1>2, <1>3 DEF Overlap
<1>5. signed[s][p.number] = p.hash
  BY Zenon, <1>1, <1>2, <1>4 DEF VotesRecorded
<1>6. signed[s][q.number] = q.hash
  BY Zenon, <1>1, <1>3, <1>4 DEF VotesRecorded
<1>. QED BY <1>5, <1>6, Zenon

(* verifyCheckpointQCFull never accepts certificates for two hashes at one *)
(* checkpoint number, whatever the faulty validators sign.                 *)
THEOREM CertificatesAgree == Spec => []Agreement
BY InvAgreement, Invariance, PTL

(* Whatever OnCanonicalBlock committed is certified by a block held.       *)
THEOREM FinalityIsCertified == Spec => []FinalizedCertified
<1>1. IInv => FinalizedCertified
  BY Zenon DEF IInv, CommitOK, FinalizedCertified, Honest
<1>. QED BY <1>1, Invariance, PTL

(* No two honest nodes ever finalize two blocks of one number.             *)
THEOREM FinalityAgrees == Spec => []FinalizedAgreement
<1>1. IInv => FinalizedAgreement
  <2> SUFFICES ASSUME IInv, NEW m \in Honest, NEW n \in Honest,
                      NEW f \in wasFinal[m], NEW g \in wasFinal[n],
                      hdr[f].number = hdr[g].number, f # Genesis,
                      Overlap(SignerSet(f), SignerSet(g))
               PROVE  f = g
    BY Zenon DEF FinalizedAgreement
  <2>1. HeadersInv /\ StoreInv /\ CommitInv /\ Agreement /\ m \in Nodes /\ n \in Nodes
    BY Parts, InvAgreement, Zenon DEF Honest
  <2>2. PICK b \in stored[m] : ValidQC(b) /\ hdr[b].qc.hash = f
    BY <2>1, Zenon DEF CommitInv, CommitOK
  <2>3. b \in Blocks
    BY Zenon, <2>1 DEF StoreInv
  <2>4. hdr[f].number = hdr[b].qc.number /\ hdr[f].number # 0
    BY <2>1, <2>2, <2>3, ValidQCFacts
  <2>5. g # Genesis
    BY Zenon, <2>1, <2>4 DEF HeadersInv
  <2>6. PICK c \in stored[n] : ValidQC(c) /\ hdr[c].qc.hash = g
    BY Zenon, <2>1, <2>5 DEF CommitInv, CommitOK
  <2>7. c \in Blocks
    BY Zenon, <2>1 DEF StoreInv
  <2>8. hdr[g].number = hdr[c].qc.number
    BY <2>1, <2>6, <2>7, ValidQCFacts, Zenon
  <2>. QED BY Zenon, <2>1, <2>2, <2>3, <2>4, <2>6, <2>7, <2>8 DEF Agreement
<1>. QED BY <1>1, Invariance, PTL

(* Who writes what: only OnCanonicalBlock moves a finalized hash, and only *)
(* the three ways of adopting a block move a head.                         *)
LEMMA Writers ==
    ASSUME [Next]_vars
    PROVE  /\ finalized' # finalized => \E m \in Honest : OnCanonicalBlock(m)
           /\ head' # head =>
                 \E m \in Honest :
                    \/ \E h \in Hashes, d \in Difficulties, reg \in ValidatorSets :
                          ResultLoop(m, h, d, reg)
                    \/ \E b, fin \in Blocks : InsertBlock(m, b, fin)
                    \/ \E b \in Blocks : WriteKnownBlock(m, b)
<1>1. CASE UNCHANGED vars
  BY <1>1, Zenon DEF vars
<1>2. ASSUME NEW v \in Faulty, FaultyStep(v) PROVE UNCHANGED <<finalized, head>>
  <2>1. \A b \in Blocks : FaultyVote(v, b) => UNCHANGED <<finalized, head>>
    BY Zenon DEF FaultyVote
  <2>2. \A h, parent, d, reg, cp, signers :
           FaultyBlock(v, h, parent, d, reg, cp, signers) => UNCHANGED <<finalized, head>>
    BY ZenonT(40) DEF FaultyBlock
  <2>. QED BY <1>2, <2>1, <2>2, Zenon DEF FaultyStep
<1>3. ASSUME NEW m \in Honest, Step(m)
      PROVE  \/ UNCHANGED <<finalized, head>>
             \/ OnCanonicalBlock(m) /\ UNCHANGED head
             \/ \E h \in Hashes, d \in Difficulties, reg \in ValidatorSets :
                   ResultLoop(m, h, d, reg) /\ UNCHANGED finalized
             \/ \E b, fin \in Blocks : InsertBlock(m, b, fin) /\ UNCHANGED finalized
             \/ \E b \in Blocks : WriteKnownBlock(m, b) /\ UNCHANGED finalized
  <2>1. \A fin : FinalizeAndAssemble(m, fin) => UNCHANGED <<finalized, head>>
    BY Zenon DEF FinalizeAndAssemble
  <2>2. \A fin : Seal(m, fin) => UNCHANGED <<finalized, head>>
    BY Zenon DEF Seal
  <2>3. SealRefused(m) => UNCHANGED <<finalized, head>>
    BY Zenon DEF SealRefused
  <2>4. \A h, d, reg : ResultLoop(m, h, d, reg) => UNCHANGED finalized
    BY Zenon DEF ResultLoop
  <2>5. \A b, fin : InsertBlock(m, b, fin) => UNCHANGED finalized
    BY Zenon DEF InsertBlock
  <2>6. \A b : WriteKnownBlock(m, b) => UNCHANGED finalized
    BY Zenon DEF WriteKnownBlock
  <2>7. OnCanonicalBlock(m) => UNCHANGED head
    BY Zenon DEF OnCanonicalBlock, Committed
  <2>8. \A env : HandleIncomingVote(m, env) => UNCHANGED <<finalized, head>>
    BY Zenon DEF HandleIncomingVote
  <2>9. Crash(m) => UNCHANGED <<finalized, head>>
    BY Zenon DEF Crash
  <2>10. RestartGossip(m) => UNCHANGED <<finalized, head>>
    BY Zenon DEF RestartGossip
  <2>. QED BY <1>3, <2>1, <2>2, <2>3, <2>4, <2>5, <2>6, <2>7, <2>8, <2>9, <2>10, Zenon DEF Step
<1>. QED BY <1>1, <1>2, <1>3, Zenon DEF Next

(* A node's finality only moves to a descendant of what was final there.   *)
THEOREM FinalityOnlyExtends == Spec => FinalityExtends
<1> DEFINE Extends(n) == finalized'[n] # finalized[n] =>
                            /\ hdr'[finalized'[n]].number > FinalizedNumber(n)
                            /\ hdr'[finalized'[n]].path[FinalizedNumber(n)] = finalized[n]
<1>1. ASSUME IInv, [Next]_vars, NEW n \in Honest, finalized'[n] # finalized[n]
      PROVE  Extends(n)
  <2>1. HeadersInv /\ StoreInv /\ CommitInv /\ n \in Nodes
    BY Zenon, <1>1, Parts DEF Honest
  <2>2. OnCanonicalBlock(n)
    <3>1. PICK m \in Honest : OnCanonicalBlock(m)
      BY <1>1, Writers, Zenon
    <3>2. m = n
      BY <1>1, <2>1, <3>1, Zenon DEF OnCanonicalBlock, Committed, CommitInv
    <3>. QED BY <3>1, <3>2, Zenon
  <2>3. PICK r \in staged[n] : /\ r.carrier = adopting[n]
                               /\ r.number > FinalizedNumber(n)
                               /\ finalized' = [finalized EXCEPT ![n] = r.hash]
    BY <1>1, <2>2, Zenon DEF OnCanonicalBlock, Committed
  <2>4. hdr' = hdr /\ finalized'[n] = r.hash /\ ~Idle(n)
    BY <2>1, <2>2, <2>3, Zenon DEF OnCanonicalBlock, Committed, CommitInv
  <2>5. /\ r.carrier \in Blocks /\ r.number \in 1..hdr[r.carrier].number
        /\ Ancestor(r.carrier, r.number) = r.hash
        /\ Ancestor(r.carrier, FinalizedNumber(n)) = finalized[n]
        /\ finalized[n] \in Blocks
    BY Zenon, <2>1, <2>3, <2>4 DEF CommitInv, StagedOK, CommitOK, StoreInv
  <2>6. FinalizedNumber(n) \in Nat /\ hdr[r.carrier].number \in Nat
    BY Zenon, <2>1, <2>5, Ancestors DEF FinalizedNumber
  <2>7. /\ hdr[r.hash].number = r.number
        /\ Ancestor(r.hash, FinalizedNumber(n)) = finalized[n]
    BY <2>1, <2>3, <2>5, <2>6, Ancestors
  <2>. QED BY Zenon, <2>3, <2>4, <2>7 DEF Ancestor
<1>2. IInv /\ [Next]_vars => \A n \in Honest : Extends(n)
  BY <1>1, Zenon
<1>3. IInv /\ [Next]_vars => [\A n \in Honest : Extends(n)]_vars
  BY <1>2, Zenon
<1>. QED BY <1>3, Invariance, PTL DEF Spec, FinalityExtends

(* writeBlockAndSetHead moves the head to a new block only if that block   *)
(* descends from the finalized one.                                        *)
THEOREM NewHeadsKeepFinality == Spec => GuardedReorg
<1> DEFINE Guarded(n) == head'[n] \notin stored[n] =>
                            /\ hdr'[head'[n]].number >= FinalizedNumber(n)
                            /\ hdr'[head'[n]].path[FinalizedNumber(n)] = finalized[n]
<1>1. ASSUME IInv, [Next]_vars, NEW n \in Honest, head'[n] \notin stored[n]
      PROVE  Guarded(n)
  <2>1. HeadersInv /\ StoreInv /\ CommitInv /\ TaskInv /\ n \in Nodes /\ head[n] \in stored[n]
    BY <1>1, Parts, Zenon DEF Honest, StoreInv
  <2>2. PICK m \in Honest : \/ \E h \in Hashes, d \in Difficulties, reg \in ValidatorSets :
                                  ResultLoop(m, h, d, reg)
                            \/ \E b, fin \in Blocks : InsertBlock(m, b, fin)
                            \/ \E b \in Blocks : WriteKnownBlock(m, b)
    BY Zenon, <1>1, <2>1, Writers
  <2>3. head \in [Nodes -> Blocks] /\ m \in Nodes
    BY <2>1, Zenon DEF StoreInv, Honest
  <2>4. ASSUME NEW h \in Hashes, NEW d \in Difficulties, NEW reg \in ValidatorSets,
               ResultLoop(m, h, d, reg)
        PROVE  Guarded(n)
    <3>1. WriteBlockAndSetHead(hdr', m, h)
      BY <2>4, Zenon DEF ResultLoop
    <3>2. head'[n] # head[n]
      BY <1>1, <2>1, Zenon
    <3>3. /\ isFinalizedAncestor(hdr', h, finalized[m])
          /\ head' = [head EXCEPT ![m] = h]
      BY <3>1, <3>2, Zenon DEF WriteBlockAndSetHead
    <3>4. m = n /\ head'[n] = h
      BY <2>3, <3>2, <3>3
    <3>5. finalized[n] \in Blocks /\ hdr'[finalized[n]] = hdr[finalized[n]]
      BY Zenon, <2>1, <2>4 DEF CommitInv, ResultLoop, WithHeader, Blocks
    <3>. QED BY <3>3, <3>4, <3>5, Zenon DEF isFinalizedAncestor, FinalizedNumber
  <2>5. ASSUME NEW b \in Blocks, NEW fin \in Blocks, InsertBlock(m, b, fin)
        PROVE  Guarded(n)
    <3>1. WriteBlockAndSetHead(hdr, m, b) /\ hdr' = hdr
      BY Zenon, <2>5 DEF InsertBlock
    <3>2. head'[n] # head[n]
      BY Zenon, <1>1, <2>1
    <3>3. /\ isFinalizedAncestor(hdr, b, finalized[m])
          /\ head' = [head EXCEPT ![m] = b]
      BY Zenon, <3>1, <3>2 DEF WriteBlockAndSetHead
    <3>4. m = n /\ head'[n] = b
      BY <2>3, <3>2, <3>3
    <3>. QED BY Zenon, <3>1, <3>3, <3>4 DEF isFinalizedAncestor, FinalizedNumber
  <2>6. ASSUME NEW b \in Blocks, WriteKnownBlock(m, b)
        PROVE  Guarded(n)
    BY Zenon, <1>1, <2>1, <2>3, <2>6 DEF WriteKnownBlock
  <2>. QED BY Zenon, <2>2, <2>4, <2>5, <2>6
<1>2. IInv /\ [Next]_vars => \A n \in Honest : Guarded(n)
  BY <1>1, Zenon
<1>3. IInv /\ [Next]_vars => [\A n \in Honest : Guarded(n)]_vars
  BY <1>2, Zenon
<1>. QED BY <1>3, Invariance, PTL DEF Spec, GuardedReorg

-----------------------------------------------------------------------------
(* What sealers may build on: the votes in a pool count, and certificates  *)
(* made of them pass verification.                                         *)

(* No two envelopes of a signer at a number.                               *)
OnePerSigner(envs) ==
    \A e, f \in envs : e.number = f.number /\ e.signer = f.signer => e = f

(* Neither the cache nor the queue of unverified votes counts twice.       *)
Unique(p) == OnePerSigner(p.votes) /\ OnePerSigner(p.pending)

(* A vote for a checkpoint above genesis by one of its signers.            *)
ProperVote(e) ==
    /\ e.hash \in Blocks
    /\ hdr[e.hash].number = e.number
    /\ e.number # 0
    /\ e.signer \in SignerSet(e.hash)

PoolsCount == \A n \in Nodes : Unique(pool[n]) /\ \A e \in pool[n].votes : ProperVote(e)

(* AddVote keeps one vote per signer and number.                           *)
LEMMA AddVoteUnique ==
    ASSUME NEW S, NEW p \in Pools(S), NEW env \in S, Unique(p)
    PROVE  Unique(AddVote(p, env)) /\ AddVote(p, env).votes \subseteq p.votes \cup {env}
<1>1. CASE ExistingVote(p, env.number, env.signer) = {}
  <2>1. /\ AddVote(p, env).votes = p.votes \cup {env}
        /\ AddVote(p, env).pending = p.pending
    BY <1>1, Zenon DEF AddVote, Pools
  <2>. QED BY <1>1, <2>1, Zenon DEF Unique, OnePerSigner, ExistingVote
<1>2. CASE ExistingVote(p, env.number, env.signer) # {}
  <2>1. /\ AddVote(p, env).votes = p.votes
        /\ AddVote(p, env).pending = p.pending
    BY <1>2, Zenon DEF AddVote, Pools
  <2>. QED BY <2>1, Zenon DEF Unique
<1>. QED BY <1>1, <1>2, Zenon

(* AddPending queues one vote per signer and number and caches none.       *)
LEMMA AddPendingUnique ==
    ASSUME NEW S, NEW p \in Pools(S), NEW env \in S, Unique(p)
    PROVE  Unique(AddPending(p, env)) /\ AddPending(p, env).votes = p.votes
<1>1. CASE \/ \E e \in PendingAt(p, env.number) : e.signer = env.signer
           \/ Cardinality(PendingAt(p, env.number)) >= MaxPendingPerCheckpoint
  BY <1>1, Zenon DEF AddPending
<1>2. CASE ~(\/ \E e \in PendingAt(p, env.number) : e.signer = env.signer
             \/ Cardinality(PendingAt(p, env.number)) >= MaxPendingPerCheckpoint)
  <2>1. /\ AddPending(p, env).votes = p.votes
        /\ AddPending(p, env).pending = p.pending \cup {env}
    BY <1>2, Zenon DEF AddPending, Pools
  <2>2. \A e \in p.pending : ~(e.number = env.number /\ e.signer = env.signer)
    BY <1>2, Zenon DEF PendingAt
  <2>. QED BY <2>1, <2>2, Zenon DEF Unique, OnePerSigner
<1>. QED BY <1>1, <1>2, Zenon

(* Adding envelopes of distinct signers keeps one vote per signer and      *)
(* number.                                                                 *)
LEMMA AddVotesUnique ==
    ASSUME NEW S, NEW p \in Pools(S), NEW envs \in SUBSET S, Unique(p), OnePerSigner(envs)
    PROVE  Unique(AddVotes(p, envs)) /\ AddVotes(p, envs).votes \subseteq p.votes \cup envs
<1> DEFINE fresh == {e \in envs : ExistingVote(p, e.number, e.signer) = {}}
<1>1. /\ AddVotes(p, envs).votes = p.votes \cup fresh
      /\ AddVotes(p, envs).pending = p.pending
  BY Zenon DEF AddVotes, Pools
<1>2. OnePerSigner(p.votes \cup fresh)
  BY Zenon DEF Unique, OnePerSigner, ExistingVote
<1>. QED BY <1>1, <1>2, Zenon DEF Unique

(* Promoting pending votes counts none twice, and caches only votes of the *)
(* signer set for the given hash.                                          *)
LEMMA PromotePendingUnique ==
    ASSUME NEW S, NEW p \in Pools(S), NEW number, NEW hash, NEW signerSet, Unique(p)
    PROVE  /\ Unique(PromotePending(p, number, hash, signerSet))
           /\ \A e \in PromotePending(p, number, hash, signerSet).votes :
                 \/ e \in p.votes
                 \/ /\ e \in S
                    /\ e.number = number /\ e.hash = hash /\ e.signer \in signerSet
<1> DEFINE drained == PendingAt(p, number)
           q == [p EXCEPT !.pending = @ \ drained]
           es == {e \in drained : e.hash = hash /\ e.signer \in signerSet}
<1>1. q \in Pools(S) /\ q.votes = p.votes /\ q.pending \subseteq p.pending
  BY Zenon DEF Pools
<1>2. es \in SUBSET S /\ es \subseteq p.pending /\ \A e \in es : e.number = number
  BY Zenon DEF PendingAt, Pools
<1>3. \A e \in es : e.hash = hash /\ e.signer \in signerSet
  BY Zenon
<1> HIDE DEF q, es
<1>4. Unique(q) /\ OnePerSigner(es)
  BY <1>1, <1>2, Zenon DEF Unique, OnePerSigner
<1>5. Unique(AddVotes(q, es)) /\ AddVotes(q, es).votes \subseteq q.votes \cup es
  BY <1>1, <1>2, <1>4, AddVotesUnique, Zenon
<1>6. PromotePending(p, number, hash, signerSet) = AddVotes(q, es)
  BY Zenon DEF PromotePending, q, es
<1>. QED BY <1>1, <1>2, <1>3, <1>5, <1>6, Zenon

(* Prune only removes.                                                     *)
LEMMA PruneUnique ==
    ASSUME NEW S, NEW p \in Pools(S), NEW fin, NEW cur, Unique(p)
    PROVE  Unique(Prune(p, fin, cur)) /\ Prune(p, fin, cur).votes \subseteq p.votes
BY Zenon DEF Prune, Unique, OnePerSigner, Pools

(* The signers of a checkpoint are settled once the checkpoint is a block. *)
LEMMA SignersStay ==
    ASSUME HeadersInv, Grows
    PROVE  \A b \in Blocks : hdr[b].number # 0 => SignerSet(b)' = SignerSet(b)
<1> SUFFICES ASSUME NEW b \in Blocks, hdr[b].number # 0
             PROVE  SignerSet(b)' = SignerSet(b)
  BY Zenon
<1>1. hdr[b].number \in Nat /\ hdr[b].number - 1 \in 0..hdr[b].number
  BY Ancestors
<1>2. Ancestor(b, hdr[b].number - 1) \in Blocks
  BY <1>1, Ancestors, Zenon
<1>3. hdr'[b] = hdr[b]
  BY Zenon DEF Grows
<1>. QED BY Zenon, <1>2, <1>3 DEF Grows, SignerSet, Ancestor

(* A vote that counts goes on counting.                                    *)
LEMMA ProperStays ==
    ASSUME HeadersInv, Grows
    PROVE  \A e : ProperVote(e) => ProperVote(e)'
<1> SUFFICES ASSUME NEW e, ProperVote(e) PROVE ProperVote(e)'
  BY Zenon
<1>1. e.hash \in Blocks /\ hdr[e.hash].number = e.number /\ e.number # 0
  BY Zenon DEF ProperVote
<1>2. SignerSet(e.hash)' = SignerSet(e.hash)
  BY <1>1, SignersStay, Zenon
<1>. QED BY <1>1, <1>2, Zenon DEF ProperVote, Grows

(* A step that replaces one pool by one that counts.                       *)
LEMMA OnePoolStep ==
    ASSUME HeadersInv, PoolInv, PoolsCount, Grows, NEW n \in Nodes, NEW q,
           pool' = [pool EXCEPT ![n] = q], Unique(q),
           \A e \in q.votes : e \in pool[n].votes \/ ProperVote(e)
    PROVE  PoolsCount'
<1>1. pool'[n] = q /\ \A m \in Nodes : m # n => pool'[m] = pool[m]
  BY Zenon DEF PoolInv
<1>2. \A m \in Nodes : Unique(pool'[m]) /\ \A e \in pool'[m].votes : ProperVote(e)
  BY <1>1, Zenon DEF PoolsCount
<1>3. \A e : ProperVote(e) => ProperVote(e)'
  BY ProperStays, Zenon
<1>. QED BY <1>2, <1>3, Zenon DEF PoolsCount

(* A step that leaves the pools alone.                                     *)
LEMMA PoolsKept ==
    ASSUME HeadersInv, PoolsCount, Grows, pool' = pool
    PROVE  PoolsCount'
BY ProperStays, Zenon DEF PoolsCount

(* FinalizeAndAssemble promotes votes for a checkpoint above genesis.      *)
LEMMA FinalizeAndAssembleCounts ==
    ASSUME IInv, PoolsCount, NEW n \in Honest, NEW fin \in Blocks, FinalizeAndAssemble(n, fin)
    PROVE  PoolsCount'
<1> DEFINE parent == head[n]
           number == hdr[parent].number + 1
           open   == /\ IsCheckpointFinality(number)
                     /\ CandidateOpen(number, hdr[fin].number)
           cp     == Ancestor(parent, Candidate(number))
           p      == PromotePending(pool[n], Candidate(number), cp, SignerSet(cp))
<1>1. HeadersInv /\ NetInv /\ StoreInv /\ PoolInv /\ n \in Nodes
  BY Zenon, Parts DEF Honest
<1>2. hdr' = hdr /\ net' = net /\ pool' = IF open THEN [pool EXCEPT ![n] = p] ELSE pool
  BY Zenon DEF FinalizeAndAssemble
<1>3. Grows
  BY Zenon, <1>2, NoNewBlock
<1>4. hdr[fin].number \in Nat
  BY <1>1, Ancestors, Zenon
<1>5. pool[n] \in Pools(net) /\ Unique(pool[n])
  BY Zenon, <1>1 DEF PoolInv, PoolsCount
<1>6. Unique(p) /\ \A e \in p.votes : \/ e \in pool[n].votes
                                      \/ /\ e \in net /\ e.number = Candidate(number)
                                         /\ e.hash = cp /\ e.signer \in SignerSet(cp)
  <2> HIDE DEF cp, number
  <2>. QED BY <1>5, PromotePendingUnique
<1>7. open => Candidate(number) > hdr[fin].number
  BY Zenon DEF CandidateOpen
<1>8. ASSUME open, NEW e \in p.votes PROVE e \in pool[n].votes \/ ProperVote(e)
  <2> HIDE DEF open, p, cp, number
  <2>1. e \in net => e.hash \in Blocks /\ hdr[e.hash].number = e.number /\ e.number \in Nat
    <3>1. e \in net => e.hash \in Blocks /\ hdr[e.hash].number = e.number
      BY <1>1, Zenon DEF NetInv
    <3>. QED BY <3>1, <1>1, Ancestors, Zenon
  <2>. QED BY <2>1, <1>4, <1>6, <1>7, <1>8 DEF ProperVote
<1> HIDE DEF open, p
<1>9. CASE open
  BY Zenon, <1>1, <1>2, <1>3, <1>6, <1>8, <1>9, OnePoolStep
<1>10. CASE ~open
  BY <1>1, <1>2, <1>3, <1>10, PoolsKept, Zenon
<1>. QED BY <1>9, <1>10, Zenon

(* Seal: the vote it casts is its own, as a signer of the checkpoint.      *)
LEMMA SealCounts ==
    ASSUME IInv, PoolsCount, NEW n \in Honest, NEW fin \in Blocks, Seal(n, fin)
    PROVE  PoolsCount'
<1> DEFINE number == hdr[task[n].parent].number + 1
           cp     == VoteTarget(n, number)
           v      == VoteFor(n, cp)
           f      == hdr[fin].number
<1>1. HeadersInv /\ NetInv /\ StoreInv /\ PoolInv /\ TaskInv /\ n \in Nodes
  BY Zenon, Parts DEF Honest
<1>2. hdr' = hdr /\ task[n].parent # NoHash
  BY Zenon DEF Seal
<1>3. pool[n] \in Pools(net) /\ Unique(pool[n]) /\ f \in Nat
  BY <1>1, Ancestors, Zenon DEF PoolInv, PoolsCount
<1>4. CASE UNCHANGED <<signed, pool, net>>
  BY <1>1, <1>2, <1>4, NoNewBlock, PoolsKept, Zenon
<1>5. CASE NoVote(n, f, number)
  <2>1. pool' = [pool EXCEPT ![n] = Prune(pool[n], f, number)] /\ Grows
    BY <1>2, <1>5, NoNewBlock, Zenon DEF NoVote
  <2>2. Unique(Prune(pool[n], f, number)) /\ Prune(pool[n], f, number).votes \subseteq pool[n].votes
    BY Zenon, <1>3, PruneUnique
  <2>. QED BY Zenon, <1>1, <2>1, <2>2, OnePoolStep
<1>6. CASE /\ CandidateOpen(number, f) /\ cp # NoHash /\ n \in SignerSet(cp)
           /\ CastVote(n, cp, f, number)
  <2>1. cp \in Blocks /\ hdr[cp].number = Candidate(number) /\ Candidate(number) \in Nat
    <3>1. head[n] \in Blocks /\ hdr[head[n]].number \in Nat
      BY <1>1, Ancestors, Zenon DEF StoreInv
    <3>2. Candidate(number) \in 0..hdr[head[n]].number /\ cp = Ancestor(head[n], Candidate(number))
      <4>1. Candidate(number) <= hdr[head[n]].number /\ cp = Ancestor(head[n], Candidate(number))
        BY Zenon, <1>6 DEF VoteTarget
      <4>2. task[n].parent \in Blocks
        BY <1>1, <1>2, Zenon DEF TaskInv
      <4>3. hdr[task[n].parent].number \in Nat
        BY <4>2, <1>1, Ancestors, Zenon
      <4>4. Candidate(number) \in 0 .. number - 1
        BY <4>3, CandidateBelow
      <4>. QED BY <4>1, <4>3, <4>4, <3>1
    <3>. QED BY <3>1, <3>2, <1>1, Ancestors
  <2>2. Candidate(number) > f
    BY <1>6, Zenon DEF CandidateOpen
  <2> HIDE DEF cp, number, f
  <2>3. ProperVote(v)
    BY <1>3, <1>6, <2>1, <2>2 DEF ProperVote, VoteFor
  <2>4. /\ pool' = [pool EXCEPT ![n] = Prune(AddVote(pool[n], v), f, number)]
        /\ net' = net \cup {v}
    BY <1>6, Zenon DEF CastVote
  <2> HIDE DEF v
  <2>5. Grows
    BY <1>2, <2>4, NoNewBlock, Zenon
  <2>6. pool[n] \in Pools(net') /\ v \in net'
    BY <1>3, <2>4, Zenon DEF Pools
  <2>7. /\ AddVote(pool[n], v) \in Pools(net') /\ Unique(AddVote(pool[n], v))
        /\ AddVote(pool[n], v).votes \subseteq pool[n].votes \cup {v}
    BY Zenon, <1>3, <2>6, AddVotePools, AddVoteUnique
  <2> DEFINE q == Prune(AddVote(pool[n], v), f, number)
  <2>8. Unique(q) /\ q.votes \subseteq AddVote(pool[n], v).votes
    BY Zenon, <2>7, PruneUnique
  <2>9. \A e \in q.votes : e \in pool[n].votes \/ ProperVote(e)
    BY Zenon, <2>3, <2>7, <2>8
  <2>. QED BY Zenon, <1>1, <2>4, <2>5, <2>8, <2>9, OnePoolStep
<1>. QED BY Zenon, <1>4, <1>5, <1>6 DEF Seal, MaybeProduceCheckpointVote

(* HandleIncomingVote caches a vote only when its block is known and its   *)
(* signer is one of the checkpoint's.                                      *)
LEMMA HandleIncomingVoteCounts ==
    ASSUME IInv, PoolsCount, NEW n \in Honest, NEW env \in net, HandleIncomingVote(n, env)
    PROVE  PoolsCount'
<1> DEFINE known == env.hash \in stored[n]
           q == IF known THEN AddVote(pool[n], env) ELSE AddPending(pool[n], env)
           r == Prune(q, FinalizedNumber(n), hdr[head[n]].number)
<1>1. HeadersInv /\ NetInv /\ PoolInv /\ n \in Nodes
  BY Zenon, Parts DEF Honest
<1>2. /\ hdr' = hdr /\ net' = net /\ pool' = [pool EXCEPT ![n] = r]
      /\ env.number # 0 /\ (known => env.signer \in SignerSet(env.hash))
  BY Zenon DEF HandleIncomingVote, EligibleCheckpoint
<1>3. Grows
  BY Zenon, <1>2, NoNewBlock
<1>4. pool[n] \in Pools(net) /\ Unique(pool[n])
  BY Zenon, <1>1 DEF PoolInv, PoolsCount
<1>5. q \in Pools(net) /\ Unique(q) /\ q.votes \subseteq pool[n].votes \cup (IF known THEN {env} ELSE {})
  <2>1. CASE known
    BY <2>1, <1>4, AddVotePools, AddVoteUnique, Zenon
  <2>2. CASE ~known
    BY <2>2, <1>4, AddPendingPools, AddPendingUnique, Zenon
  <2>. QED BY <2>1, <2>2, Zenon
<1>6. known => ProperVote(env)
  BY <1>1, <1>2, Zenon DEF ProperVote, NetInv
<1> HIDE DEF q, known
<1>7. Unique(r) /\ r.votes \subseteq q.votes
  BY Zenon, <1>5, PruneUnique
<1>8. \A e \in r.votes : e \in pool[n].votes \/ ProperVote(e)
  BY <1>5, <1>6, <1>7, Zenon
<1>. QED BY Zenon, <1>1, <1>2, <1>3, <1>7, <1>8, OnePoolStep

(* RestartGossip votes once per number, as a signer of each checkpoint.    *)
LEMMA RestartGossipCounts ==
    ASSUME IInv, PoolsCount, NEW n \in Honest, RestartGossip(n)
    PROVE  PoolsCount'
<1> DEFINE unsettled == {c \in Heights :
                            /\ c > FinalizedNumber(n)
                            /\ c <= hdr[head[n]].number
                            /\ signed[n][c] = Ancestor(head[n], c)
                            /\ n \in SignerSet(signed[n][c])}
           votes == {VoteFor(n, signed[n][c]) : c \in unsettled}
<1>1. HeadersInv /\ NetInv /\ StoreInv /\ PoolInv /\ CommitInv /\ n \in Nodes
  BY Zenon, Parts DEF Honest
<1>2. /\ hdr' = hdr /\ net' = net \cup votes
      /\ pool' = [pool EXCEPT ![n] = AddVotes(pool[n], votes)]
  BY Zenon DEF RestartGossip
<1>3. Grows
  BY Zenon, <1>2, NoNewBlock
<1>4. ASSUME NEW e \in votes
      PROVE  /\ ProperVote(e)
             /\ e = [number |-> e.number, hash |-> signed[n][e.number], signer |-> n]
  <2>1. PICK c \in unsettled : e = VoteFor(n, signed[n][c])
    BY <1>4, Zenon
  <2>2. head[n] \in Blocks /\ hdr[head[n]].number \in Nat /\ FinalizedNumber(n) \in Nat
    BY <1>1, Ancestors, Zenon DEF StoreInv, CommitInv, FinalizedNumber
  <2>3. c \in Heights /\ c \in 1..hdr[head[n]].number /\ signed[n][c] = Ancestor(head[n], c)
    BY SMTT(30), <2>1, <2>2, FinalityConfigAssumption DEF Heights
  <2>4. signed[n][c] \in Blocks /\ hdr[signed[n][c]].number = c
    BY <2>2, <2>3, <1>1, Ancestors
  <2>5. n \in SignerSet(signed[n][c]) /\ c # 0
    BY <2>1, <2>3
  <2>. QED BY <2>1, <2>4, <2>5, Zenon DEF VoteFor, ProperVote
<1> HIDE DEF votes
<1>5. OnePerSigner(votes)
  BY Zenon, <1>4 DEF OnePerSigner
<1>6. pool[n] \in Pools(net') /\ votes \in SUBSET net' /\ Unique(pool[n])
  BY <1>1, <1>2, Zenon DEF PoolInv, PoolsCount, Pools
<1>7. /\ Unique(AddVotes(pool[n], votes))
      /\ AddVotes(pool[n], votes).votes \subseteq pool[n].votes \cup votes
  BY Zenon, <1>5, <1>6, AddVotesUnique
<1>8. \A e \in AddVotes(pool[n], votes).votes : e \in pool[n].votes \/ ProperVote(e)
  BY Zenon, <1>4, <1>7
<1>. QED BY Zenon, <1>1, <1>2, <1>3, <1>7, <1>8, OnePoolStep

(* Every step keeps the pools countable.                                   *)
LEMMA PoolsCountNext ==
    ASSUME IInv, PoolsCount, [Next]_vars
    PROVE  PoolsCount'
<1>1. HeadersInv /\ PoolInv
  BY Parts, Zenon
<1>2. CASE UNCHANGED vars
  BY <1>1, <1>2, NoNewBlock, PoolsKept, Zenon DEF vars
<1>3. ASSUME NEW n \in Honest, Crash(n) PROVE PoolsCount'
  <2>1. hdr' = hdr /\ net' = net /\ pool' = [pool EXCEPT ![n] = EmptyPool] /\ n \in Nodes
    BY Zenon, <1>3 DEF Crash, Honest
  <2>2. Unique(EmptyPool) /\ EmptyPool.votes = {}
    BY Zenon DEF EmptyPool, Unique, OnePerSigner
  <2>. QED BY <1>1, <2>1, <2>2, NoNewBlock, OnePoolStep, Zenon
<1>4. ASSUME Grows, pool' = pool PROVE PoolsCount'
  BY <1>1, <1>4, PoolsKept, Zenon
<1>5. ASSUME NEW n \in Honest, Step(n) PROVE PoolsCount'
  <2>1. ASSUME SealRefused(n) PROVE PoolsCount'
    BY <2>1, <1>4, NoNewBlock, Zenon DEF SealRefused
  <2>2. ASSUME NEW h \in Hashes, NEW d \in Difficulties, NEW reg \in ValidatorSets,
               ResultLoop(n, h, d, reg)
        PROVE  PoolsCount'
    <3>1. Grows /\ pool' = pool
      BY Zenon, <2>2 DEF ResultLoop, Grows, WithHeader, Blocks
    <3>. QED BY <3>1, <1>4, Zenon
  <2>3. ASSUME NEW x \in Blocks, NEW fin \in Blocks, InsertBlock(n, x, fin) PROVE PoolsCount'
    <3>1. hdr' = hdr /\ net' = net /\ pool' = pool
      BY Zenon, <2>3 DEF InsertBlock
    <3>. QED BY <3>1, <1>4, NoNewBlock, Zenon
  <2>4. ASSUME NEW x \in Blocks, WriteKnownBlock(n, x) PROVE PoolsCount'
    BY <2>4, <1>4, NoNewBlock, Zenon DEF WriteKnownBlock
  <2>5. ASSUME OnCanonicalBlock(n) PROVE PoolsCount'
    <3>1. hdr' = hdr /\ net' = net /\ pool' = pool
      BY Zenon, <2>5 DEF OnCanonicalBlock
    <3>. QED BY <3>1, <1>4, NoNewBlock, Zenon
  <2>. QED BY Zenon, <1>3, <1>5, <2>1, <2>2, <2>3, <2>4, <2>5, FinalizeAndAssembleCounts, SealCounts,
              HandleIncomingVoteCounts, RestartGossipCounts DEF Step
<1>6. ASSUME NEW v \in Faulty, FaultyStep(v) PROVE PoolsCount'
  <2>1. Grows /\ pool' = pool
    <3>1. \A x \in Blocks : FaultyVote(v, x) => Grows /\ pool' = pool
      BY NoNewBlock, Zenon DEF FaultyVote
    <3>2. \A h, parent, d, reg, cp, signers :
             FaultyBlock(v, h, parent, d, reg, cp, signers) => Grows /\ pool' = pool
      BY ZenonT(40) DEF FaultyBlock, Grows, WithHeader, Blocks
    <3>. QED BY <1>6, <3>1, <3>2, Zenon DEF FaultyStep
  <2>. QED BY <2>1, <1>4, Zenon
<1>. QED BY <1>2, <1>5, <1>6, Zenon DEF Next

(* A vote pool never offers assembleCheckpointQC a vote that was not cast, *)
(* or not by a signer, nor two votes of one signer at a number.            *)
THEOREM PoolsAreSound == Spec => []PoolSound
<1>1. Init => PoolsCount
  <2>1. Unique(EmptyPool) /\ EmptyPool.votes = {}
    BY Zenon DEF EmptyPool, Unique, OnePerSigner
  <2>. QED BY <2>1, Zenon DEF Init, PoolsCount
<1>2. IInv /\ PoolsCount => PoolSound
  <2> SUFFICES ASSUME IInv, PoolsCount, NEW n \in Honest, NEW e \in pool[n].votes
               PROVE  /\ e \in net
                      /\ e.signer \in SignerSet(e.hash)
                      /\ ExistingVote(pool[n], e.number, e.signer) = {e}
    BY Zenon DEF PoolSound
  <2>1. n \in Nodes /\ pool[n] \in Pools(net) /\ OnePerSigner(pool[n].votes) /\ ProperVote(e)
    BY Parts, Zenon DEF Honest, PoolInv, PoolsCount, Unique
  <2>. QED BY <2>1, Zenon DEF Pools, ProperVote, ExistingVote, OnePerSigner
<1>. QED BY <1>1, <1>2, PoolsCountNext, Invariance, PTL DEF Spec

(* A block sealed on parent with this certificate passes verification.     *)
CertifiedOn(qc, parent) ==
    /\ IsCheckpointFinality(hdr[parent].number + 1)
    /\ QCStructureOK(qc, hdr[parent].number + 1)
    /\ qc.number \in 1..hdr[parent].number
    /\ Ancestor(parent, qc.number) = qc.hash
    /\ SignaturesVerify(qc)
    /\ IsQuorum(qc.signers, SignerSet(qc.hash))

TasksCertified ==
    \A n \in Nodes :
        task[n].parent # NoHash /\ task[n].qc # NoQC => CertifiedOn(task[n].qc, task[n].parent)

BlocksCertified == Faulty = {} => \A b \in Blocks : HasQC(b) => ValidQC(b)

(* A certificate that passes goes on passing.                              *)
LEMMA CertifiedStays ==
    ASSUME HeadersInv, Grows
    PROVE  \A qc : \A parent \in Blocks : CertifiedOn(qc, parent) => CertifiedOn(qc, parent)'
<1> SUFFICES ASSUME NEW qc, NEW parent \in Blocks, CertifiedOn(qc, parent)
             PROVE  CertifiedOn(qc, parent)'
  BY Zenon
<1>1. hdr'[parent] = hdr[parent] /\ hdr[parent].number \in Nat
  BY Ancestors, Zenon DEF Grows
<1>2. qc.number \in 1..hdr[parent].number /\ Ancestor(parent, qc.number) = qc.hash
  BY Zenon DEF CertifiedOn
<1>3. qc.hash \in Blocks /\ hdr[qc.hash].number = qc.number /\ qc.number # 0
  BY <1>1, <1>2, Ancestors
<1>4. SignerSet(qc.hash)' = SignerSet(qc.hash)
  BY <1>3, SignersStay, Zenon
<1>5. SignaturesVerify(qc)'
  BY Zenon DEF CertifiedOn, SignaturesVerify, Grows
<1>. QED BY <1>1, <1>4, <1>5, Zenon DEF CertifiedOn, Ancestor

(* assembleCheckpointQC: a certificate made from a pool of cast votes for  *)
(* the candidate of a block passes the verification of that block.         *)
LEMMA AssembledPasses ==
    ASSUME IInv, NEW p \in Pools(net), NEW parent \in Blocks, NEW fin \in Nat,
           IsCheckpointFinality(hdr[parent].number + 1),
           CandidateOpen(hdr[parent].number + 1, fin),
           NEW cp, cp = Ancestor(parent, Candidate(hdr[parent].number + 1)),
           CertificateFrom(p, cp) # NoQC
    PROVE  CertifiedOn(CertificateFrom(p, cp), parent)
<1> DEFINE number  == hdr[parent].number + 1
           signers == {e.signer : e \in GetVotes(p, hdr[cp].number, cp)} \cap SignerSet(cp)
           qc      == [number |-> hdr[cp].number, hash |-> cp, signers |-> signers]
<1>1. HeadersInv /\ NetInv
  BY Parts, Zenon
<1>2. hdr[parent].number \in Nat /\ number \in Nat \ {0} /\ number - 1 = hdr[parent].number
  BY <1>1, Ancestors
<1>3. Candidate(number) \in 1..hdr[parent].number
  <2>1. Candidate(number) \in 0 .. number - 1 /\ Candidate(number) > fin
    BY <1>2, CandidateBelow, Zenon DEF CandidateOpen
  <2> HIDE DEF number
  <2>. QED BY <2>1, <1>2
<1>4. cp \in Blocks /\ hdr[cp].number = Candidate(number)
  BY <1>1, <1>2, <1>3, Ancestors
<1>5. /\ CertificateFrom(p, cp) = qc
      /\ Cardinality(signers) >= Quorum(Cardinality(SignerSet(cp)))
  BY Zenon DEF CertificateFrom
<1>6. SignerSet(cp) \subseteq Nodes
  <2>1. hdr[cp].number - 1 \in 0..hdr[cp].number
    BY <1>3, <1>4
  <2>2. Ancestor(cp, hdr[cp].number - 1) \in Blocks
    BY <2>1, <1>1, <1>4, Ancestors, Zenon
  <2>. QED BY <2>2, <1>1, FinalityConfigAssumption DEF SignerSet, HeadersInv, HeaderOK
<1>7. signers # {}
  <2>1. Cardinality(SignerSet(cp)) \in Nat
    BY <1>6, FS_Subset, FS_CardinalityType, FinalityConfigAssumption, Zenon
  <2>2. Quorum(Cardinality(SignerSet(cp))) >= 1
    BY <2>1 DEF Quorum
  <2> HIDE DEF signers
  <2>3. signers = {} => Cardinality(signers) = 0
    BY FS_EmptySet, Zenon
  <2>4. Cardinality(signers) >= 1
    <3> DEFINE N == Quorum(Cardinality(SignerSet(cp)))
    <3>1. N \in Nat /\ N >= 1 /\ Cardinality(signers) >= N
      BY <1>5, <2>1, <2>2, QuorumIsTwoThirds, Zenon
    <3>2. Cardinality(signers) \in Nat
      BY <1>6, FS_Subset, FS_CardinalityType, FinalityConfigAssumption, Zenon DEF signers
    <3> HIDE DEF N
    <3>. QED BY <3>1, <3>2
  <2>. QED BY <2>3, <2>4
<1>8. SignaturesVerify(qc)
  <2> SUFFICES ASSUME NEW s \in signers
               PROVE  [number |-> hdr[cp].number, hash |-> cp, signer |-> s] \in net
    BY Zenon DEF SignaturesVerify
  <2>1. PICK e \in GetVotes(p, hdr[cp].number, cp) : e.signer = s
    BY Zenon
  <2>2. e \in net /\ e.number = hdr[cp].number /\ e.hash = cp
    BY <2>1, Zenon DEF GetVotes, Pools
  <2>3. e = [number |-> e.number, hash |-> e.hash, signer |-> e.signer]
    BY <2>2, <1>1, Zenon DEF NetInv, Envelope
  <2>. QED BY <2>1, <2>2, <2>3, Zenon
<1>9. signers \subseteq SignerSet(cp)
  BY Zenon
<1>10. QCStructureOK(qc, number)
  <2> HIDE DEF signers, number
  <2>1. CandidateOpen(number, fin)
    BY Zenon DEF number
  <2>. QED BY <1>2, <1>4, <1>7, <2>1, CandidatePassesStructure, Zenon
<1> HIDE DEF signers
<1>11. IsQuorum(qc.signers, SignerSet(qc.hash))
  BY <1>5, <1>9, Zenon DEF IsQuorum
<1>12. /\ IsCheckpointFinality(number) /\ qc.number \in 1..hdr[parent].number
       /\ Ancestor(parent, qc.number) = qc.hash
  BY <1>3, <1>4, Zenon
<1>. QED BY <1>5, <1>8, <1>10, <1>11, <1>12, Zenon DEF CertifiedOn

(* FinalizeAndAssemble puts only such a certificate into a task.           *)
LEMMA FinalizeAndAssembleCertifies ==
    ASSUME IInv, TasksCertified, NEW n \in Honest, NEW fin \in Blocks, FinalizeAndAssemble(n, fin)
    PROVE  TasksCertified'
<1> DEFINE parent == head[n]
           number == hdr[parent].number + 1
           open   == /\ IsCheckpointFinality(number)
                     /\ CandidateOpen(number, hdr[fin].number)
           cp     == Ancestor(parent, Candidate(number))
           p      == PromotePending(pool[n], Candidate(number), cp, SignerSet(cp))
           qc     == IF open THEN CertificateFrom(p, cp) ELSE NoQC
           new    == [parent |-> parent, sealed |-> FALSE, qc |-> qc]
<1>1. HeadersInv /\ NetInv /\ StoreInv /\ PoolInv /\ TaskInv /\ n \in Nodes
  BY Zenon, Parts DEF Honest
<1>2. hdr' = hdr /\ net' = net /\ task' = [task EXCEPT ![n] = new]
  BY Zenon DEF FinalizeAndAssemble
<1>3. parent \in Blocks /\ hdr[fin].number \in Nat
  BY <1>1, Ancestors, Zenon DEF StoreInv
<1>4. p \in Pools(net)
  BY <1>1, PromotePendingPools, Zenon DEF PoolInv
<1>5. qc # NoQC => CertifiedOn(qc, parent)
  <2> HIDE DEF p
  <2>1. SUFFICES ASSUME qc # NoQC PROVE CertifiedOn(qc, parent)
    BY Zenon
  <2>2. open /\ qc = CertificateFrom(p, cp)
    BY <2>1, Zenon
  <2> HIDE DEF qc
  <2>. QED BY <1>3, <1>4, <2>1, <2>2, AssembledPasses, Zenon
<1> HIDE DEF qc
<1>6. task'[n] = new /\ \A m \in Nodes : m # n => task'[m] = task[m]
  BY <1>1, <1>2, Zenon DEF TaskInv
<1>7. \A m \in Nodes :
         task'[m].parent # NoHash /\ task'[m].qc # NoQC => CertifiedOn(task'[m].qc, task'[m].parent)
  BY <1>5, <1>6 DEF TasksCertified
<1>. QED BY <1>2, <1>7, Zenon DEF TasksCertified, CertifiedOn, SignaturesVerify, SignerSet, Ancestor

(* The other steps keep, release or drop the tasks.                        *)
LEMMA TasksKept ==
    ASSUME IInv, TasksCertified, Grows,
           \A m \in Nodes : \/ task'[m] = NoTask
                            \/ task'[m].parent = task[m].parent /\ task'[m].qc = task[m].qc
    PROVE  TasksCertified'
<1>1. HeadersInv /\ TaskInv
  BY Parts, Zenon
<1>2. \A qc : \A parent \in Blocks : CertifiedOn(qc, parent) => CertifiedOn(qc, parent)'
  BY <1>1, CertifiedStays, Zenon
<1>3. \A m \in Nodes : task[m].parent # NoHash => task[m].parent \in Blocks
  BY <1>1, Zenon DEF TaskInv
<1>. QED BY <1>2, <1>3 DEF TasksCertified, NoTask

(* Sealing a block sends at most one vote more.                            *)
LEMMA SealSends ==
    ASSUME NEW n, NEW fin, Seal(n, fin)
    PROVE  hdr' = hdr /\ net \subseteq net' /\ task' = [task EXCEPT ![n].sealed = TRUE]
<1>1. \A cp, f, k : CastVote(n, cp, f, k) => net \subseteq net'
  BY Zenon DEF CastVote
<1>2. \A f, k : NoVote(n, f, k) => net \subseteq net'
  BY Zenon DEF NoVote
<1>3. \A f, k : MaybeProduceCheckpointVote(n, k, f) => net \subseteq net'
  BY <1>1, <1>2, Zenon DEF MaybeProduceCheckpointVote
<1>4. net \subseteq net'
  BY <1>3, Zenon DEF Seal
<1>5. hdr' = hdr /\ task' = [task EXCEPT ![n].sealed = TRUE]
  BY Zenon DEF Seal
<1>. QED BY <1>4, <1>5, Zenon

(* Every step keeps the certificates of tasks good.                        *)
LEMMA TasksCertifiedNext ==
    ASSUME IInv, TasksCertified, [Next]_vars
    PROVE  TasksCertified'
<1>1. HeadersInv /\ TaskInv
  BY Parts, Zenon
<1>2. ASSUME Grows, task' = task PROVE TasksCertified'
  BY <1>2, TasksKept, Zenon
<1>3. ASSUME Grows, NEW n \in Nodes, task' = [task EXCEPT ![n] = NoTask] PROVE TasksCertified'
  <2>1. \A m \in Nodes : task'[m] = NoTask \/ task'[m] = task[m]
    BY Zenon, <1>1, <1>3 DEF TaskInv
  <2>. QED BY <2>1, <1>3, TasksKept, Zenon
<1>4. CASE UNCHANGED vars
  BY <1>2, <1>4, NoNewBlock, Zenon DEF vars
<1>5. ASSUME NEW n \in Honest, Step(n) PROVE TasksCertified'
  <2>1. n \in Nodes
    BY Zenon DEF Honest
  <2>2. ASSUME NEW fin \in Blocks, Seal(n, fin) PROVE TasksCertified'
    <3>1. hdr' = hdr /\ net \subseteq net' /\ task' = [task EXCEPT ![n].sealed = TRUE]
      BY <2>2, SealSends, Zenon
    <3>2. \A m \in Nodes : task'[m].parent = task[m].parent /\ task'[m].qc = task[m].qc
      BY Zenon, <1>1, <3>1 DEF TaskInv
    <3>. QED BY <3>1, <3>2, NoNewBlock, TasksKept, Zenon
  <2>3. ASSUME SealRefused(n) PROVE TasksCertified'
    BY <2>1, <2>3, <1>3, NoNewBlock, Zenon DEF SealRefused
  <2>4. ASSUME NEW h \in Hashes, NEW d \in Difficulties, NEW reg \in ValidatorSets,
               ResultLoop(n, h, d, reg)
        PROVE  TasksCertified'
    <3>1. Grows /\ task' = [task EXCEPT ![n] = NoTask]
      BY Zenon, <2>4 DEF ResultLoop, Grows, WithHeader, Blocks
    <3>. QED BY <3>1, <2>1, <1>3, Zenon
  <2>5. ASSUME NEW x \in Blocks, NEW fin \in Blocks, InsertBlock(n, x, fin) PROVE TasksCertified'
    <3>1. hdr' = hdr /\ net' = net /\ task' = task
      BY Zenon, <2>5 DEF InsertBlock
    <3>. QED BY <3>1, <1>2, NoNewBlock, Zenon
  <2>6. ASSUME NEW x \in Blocks, WriteKnownBlock(n, x) PROVE TasksCertified'
    BY <2>6, <1>2, NoNewBlock, Zenon DEF WriteKnownBlock
  <2>7. ASSUME OnCanonicalBlock(n) PROVE TasksCertified'
    <3>1. hdr' = hdr /\ net' = net /\ task' = task
      BY Zenon, <2>7 DEF OnCanonicalBlock
    <3>. QED BY <3>1, <1>2, NoNewBlock, Zenon
  <2>8. ASSUME NEW env \in net, HandleIncomingVote(n, env) PROVE TasksCertified'
    <3>1. hdr' = hdr /\ net' = net /\ task' = task
      BY Zenon, <2>8 DEF HandleIncomingVote
    <3>. QED BY <3>1, <1>2, NoNewBlock, Zenon
  <2>9. ASSUME Crash(n) PROVE TasksCertified'
    BY <2>1, <2>9, <1>3, NoNewBlock, Zenon DEF Crash
  <2>10. ASSUME RestartGossip(n) PROVE TasksCertified'
    <3>1. hdr' = hdr /\ net \subseteq net' /\ task' = task
      BY Zenon, <2>10 DEF RestartGossip
    <3>. QED BY <3>1, <1>2, NoNewBlock, Zenon
  <2>. QED BY Zenon, <1>5, <2>2, <2>3, <2>4, <2>5, <2>6, <2>7, <2>8, <2>9, <2>10,
              FinalizeAndAssembleCertifies DEF Step
<1>6. ASSUME NEW v \in Faulty, FaultyStep(v) PROVE TasksCertified'
  <2>1. Grows /\ task' = task
    <3>1. \A x \in Blocks : FaultyVote(v, x) => Grows /\ task' = task
      BY NoNewBlock, Zenon DEF FaultyVote
    <3>2. \A h, parent, d, reg, cp, signers :
             FaultyBlock(v, h, parent, d, reg, cp, signers) => Grows /\ task' = task
      BY ZenonT(40) DEF FaultyBlock, Grows, WithHeader, Blocks
    <3>. QED BY <1>6, <3>1, <3>2, Zenon DEF FaultyStep
  <2>. QED BY <2>1, <1>2, Zenon
<1>. QED BY <1>4, <1>5, <1>6, Zenon DEF Next

(* Who adds a block: a node that releases a sealed task, or a faulty       *)
(* validator.                                                              *)
LEMMA OnlySealersAddBlocks ==
    ASSUME [Next]_vars, Faulty = {}
    PROVE  \/ hdr' = hdr /\ net \subseteq net'
           \/ \E n \in Honest, h \in Hashes, d \in Difficulties, reg \in ValidatorSets :
                 ResultLoop(n, h, d, reg)
<1> DEFINE same == hdr' = hdr /\ net \subseteq net'
<1>1. CASE UNCHANGED vars
  BY <1>1, Zenon DEF vars
<1>2. ASSUME NEW n \in Honest, Step(n)
      PROVE  same \/ \E h \in Hashes, d \in Difficulties, reg \in ValidatorSets :
                        ResultLoop(n, h, d, reg)
  <2>1. \A fin : FinalizeAndAssemble(n, fin) => same
    BY Zenon DEF FinalizeAndAssemble
  <2>2. ASSUME NEW fin, Seal(n, fin) PROVE same
    BY <2>2, SealSends, Zenon
  <2>3. SealRefused(n) => same
    BY Zenon DEF SealRefused
  <2>4. \A x, fin : InsertBlock(n, x, fin) => same
    BY Zenon DEF InsertBlock
  <2>5. \A x : WriteKnownBlock(n, x) => same
    BY Zenon DEF WriteKnownBlock
  <2>6. OnCanonicalBlock(n) => same
    BY Zenon DEF OnCanonicalBlock
  <2>7. \A env : HandleIncomingVote(n, env) => same
    BY Zenon DEF HandleIncomingVote
  <2>8. Crash(n) => same
    BY Zenon DEF Crash
  <2>9. RestartGossip(n) => same
    BY Zenon DEF RestartGossip
  <2> HIDE DEF same
  <2>. QED BY Zenon, <1>2, <2>1, <2>2, <2>3, <2>4, <2>5, <2>6, <2>7, <2>8, <2>9 DEF Step
<1>. QED BY <1>1, <1>2, Zenon DEF Next

(* With honest sealers every certificate on the chain verifies.            *)
LEMMA BlocksCertifiedNext ==
    ASSUME IInv, TasksCertified, BlocksCertified, [Next]_vars
    PROVE  BlocksCertified'
<1> SUFFICES ASSUME Faulty = {}, NEW b \in Blocks', HasQC(b)' PROVE ValidQC(b)'
  BY Zenon DEF BlocksCertified
<1>1. HeadersInv /\ TaskInv /\ TypeOK
  BY Parts, Zenon DEF IInv
<1>2. ASSUME Grows, b \in Blocks PROVE ValidQC(b)'
  <2>1. hdr'[b] = hdr[b]
    BY <1>2, Zenon DEF Grows
  <2>2. HasQC(b)
    BY <2>1, Zenon DEF HasQC
  <2>3. ValidQC(b)
    BY <2>2, <1>2, Zenon DEF BlocksCertified
  <2>. QED BY <2>3, <1>1, <1>2, ValidQCStable, Zenon
<1>3. CASE hdr' = hdr /\ net \subseteq net'
  BY <1>2, <1>3, NoNewBlock, Zenon DEF Blocks
<1>4. ASSUME NEW n \in Honest, NEW h \in Hashes, NEW d \in Difficulties,
             NEW reg \in ValidatorSets, ResultLoop(n, h, d, reg)
      PROVE  ValidQC(b)'
  <2> DEFINE t == task[n]
  <2>1. /\ t.sealed /\ h \notin Blocks /\ net' = net
        /\ hdr' = WithHeader(h, SealedHeader(h, t.parent, d, reg, t.qc))
    BY <1>4, Zenon DEF ResultLoop
  <2>2. n \in Nodes /\ t.parent \in Blocks /\ t.parent # NoHash
    BY <1>1, <2>1, FinalityConfigAssumption, Zenon DEF Honest, TaskInv, TaskOK, HeadersInv
  <2>3. Grows /\ Blocks' = Blocks \cup {h}
    BY Zenon, <2>1 DEF Grows, WithHeader, Blocks
  <2>4. CASE b \in Blocks
    BY <1>2, <2>3, <2>4, Zenon
  <2>5. CASE b = h
    <3>1. SUFFICES ASSUME NEW q, q = t.qc, NEW parent \in Blocks, parent = t.parent
                   PROVE  ValidQC(b)'
      BY <2>2, Zenon
    <3> DEFINE num == hdr[parent].number + 1
    <3>2. hdr[parent].number \in Nat
      BY <1>1, Ancestors, Zenon
    <3>3. /\ hdr'[b].qc = q /\ hdr'[b].number = num
          /\ \A i \in 0..hdr[parent].number : hdr'[b].path[i] = Ancestor(parent, i)
      <4>1. hdr'[b] = SealedHeader(b, parent, d, reg, q)
        BY Zenon, <2>1, <2>5, <3>1 DEF WithHeader
      <4>2. 0..hdr[parent].number \subseteq 0..num
            /\ \A i \in 0..hdr[parent].number : i # num
        BY <3>2
      <4> HIDE DEF t, num
      <4>. QED BY <4>1, <4>2 DEF SealedHeader, num
    <3>4. CertifiedOn(q, parent)
      BY <2>2, <3>1, <3>3, Zenon DEF TasksCertified, HasQC
    <3>5. CertifiedOn(q, parent)' /\ hdr'[parent] = hdr[parent]
      BY <1>1, <2>3, <3>4, CertifiedStays, Zenon DEF Grows
    <3> HIDE DEF t
    <3>6. q.number \in 1..hdr[parent].number /\ q.number # 0
      BY <3>4 DEF CertifiedOn
    <3>7. Ancestor(b, q.number)' = q.hash
      BY <3>2, <3>3, <3>4, <3>6 DEF CertifiedOn, Ancestor
    <3>8. QCFullOK(b)'
      BY <3>3, <3>5, <3>6, <3>7, Zenon DEF QCFullOK, CertifiedOn
    <3>. QED BY <3>3, <3>5, <3>8, Zenon DEF ValidQC, CertifiedOn
  <2>. QED BY <2>3, <2>4, <2>5, Zenon
<1>. QED BY <1>3, <1>4, OnlySealersAddBlocks, Zenon

(* The certificate in a block that an honest node sealed is accepted by    *)
(* every honest node that holds the parent, whatever that node finalized:  *)
(* for any number of honest validators, with one validator set.            *)
THEOREM HonestSealersAreAccepted == Spec => []HonestBlocksAccepted
<1>1. Init => TasksCertified /\ BlocksCertified
  <2>1. Init => TasksCertified
    BY DEF Init, TasksCertified, NoTask
  <2>2. Init => BlocksCertified
    BY DEF Init, BlocksCertified, HasQC, Blocks, GenesisHeader
  <2>. QED BY <2>1, <2>2, Zenon
<1>2. IInv /\ BlocksCertified => HonestBlocksAccepted
  <2> SUFFICES ASSUME IInv, BlocksCertified, NEW n \in Honest, NEW b \in Blocks \ {Genesis},
                      Faulty = {}, ValidatorSets = {GenesisSet}, Parent(b) \in stored[n],
                      NEW fin \in SnapFinalized(n, Parent(b)), HasQC(b)
               PROVE  ValidQC(b) /\ AgreesWithFinality(fin, b)
    BY Zenon DEF HonestBlocksAccepted, Acceptable
  <2>1. HeadersInv /\ StoreInv /\ CommitInv /\ Agreement /\ n \in Nodes
    BY Zenon, Parts, InvAgreement DEF Honest
  <2>2. ValidQC(b)
    BY Zenon DEF BlocksCertified
  <2>3. fin \in wasFinal[n]
    BY <2>1, Zenon DEF SnapFinalized, CommitInv, CommitOK
  <2>4. ASSUME hdr[fin].number = hdr[b].qc.number PROVE fin = hdr[b].qc.hash
    <3>1. fin # Genesis
      BY <2>1, <2>2, <2>4, ValidQCFacts DEF HeadersInv
    <3>2. PICK c \in stored[n] : ValidQC(c) /\ hdr[c].qc.hash = fin
      BY <2>1, <2>3, <3>1, Zenon DEF CommitInv, CommitOK
    <3>3. c \in Blocks
      BY <2>1, Zenon DEF StoreInv
    <3>4. hdr[c].qc.number = hdr[fin].number
      BY <2>1, <3>2, <3>3, ValidQCFacts, Zenon
    <3> DEFINE A == SignerSet(hdr[b].qc.hash)
    <3>5. A = GenesisSet /\ SignerSet(hdr[c].qc.hash) = GenesisSet
      BY <2>1, <2>2, <3>2, <3>3, ValidQCFacts, Zenon
    <3>6. A # {}
      <4>1. hdr[b].qc.signers # {} /\ hdr[b].qc.signers \subseteq A
        BY <2>2, Zenon DEF ValidQC, QCStructureOK, QCFullOK, IsQuorum
      <4>. QED BY <4>1, Zenon
    <3>7. Overlap(A, A)
      <4>1. A \in ValidatorSets /\ IsFiniteSet(A)
        BY <3>5, FS_Subset, FinalityConfigAssumption, Zenon
      <4>2. Cardinality(A \cap Faulty) = 0
        BY FS_EmptySet, Zenon
      <4>3. Cardinality(A) \in Nat /\ Cardinality(A) # 0
        BY <3>6, <4>1, FS_CardinalityType, FS_EmptySet, Zenon
      <4> HIDE DEF A
      <4>. QED BY <4>1, <4>2, <4>3, FewFaultyOverlap
    <3>8. hdr[b].qc.hash = hdr[c].qc.hash
      BY <2>1, <2>2, <2>4, <3>2, <3>3, <3>4, <3>5, <3>7, Zenon DEF Agreement
    <3>. QED BY <3>2, <3>8, Zenon
  <2>. QED BY <2>2, <2>4, Zenon DEF AgreesWithFinality
<1>. QED BY <1>1, <1>2, TasksCertifiedNext, BlocksCertifiedNext, Invariance, PTL DEF Spec
=============================================================================
