--------------------------- MODULE RegistryProofs ---------------------------
(***************************************************************************)
(* Proofs about the validator registry and the lease registry, for any     *)
(* number of accounts, stakes, contracts, leases, limits and blocks.       *)
(***************************************************************************)
EXTENDS ValidatorRegistry, LeaseRegistry, Arithmetic

Metas == [expireAt : Nat, graceUntil : Nat, deposit : Nat, pruneEpoch : Nat, pruneSeq : Nat]

MetaTables == UNION {[D -> Metas] : D \in SUBSET LeaseAddrs}

LeaseType ==
    /\ metas \in MetaTables
    /\ IsFiniteSet(DOMAIN metas)
    /\ entries \in [Epochs -> Seq(LeaseAddrs)]
    /\ cursor \in [Epochs -> Nat]
    /\ head \in 0 .. LastEpoch
    /\ leaseBalance \in Nat
    /\ currentBlock \in 1 .. LastLeaseBlock
    /\ sweeping \in BOOLEAN
    /\ epoch \in Nat /\ at \in Nat /\ swept \in Nat

TimedMeta(m) ==
    /\ m.pruneEpoch = PruneEpoch(m.graceUntil)
    /\ m.pruneEpoch \in Epochs
    /\ m.graceUntil = m.expireAt + GraceBlocks \/ m.deposit = 0

Timed == \A a \in DOMAIN metas : TimedMeta(metas[a])

Buried == DOMAIN metas \cap tombs = {}

Cursors == \A e \in Epochs : cursor[e] <= Len(entries[e])

SweepAt ==
    sweeping => /\ head # 0
                /\ epoch \in 1 .. currentEpoch + 1
                /\ at >= cursor[epoch]
                /\ currentBlock < LastLeaseBlock

LeaseInv ==
    LeaseType /\ Timed /\ Buried /\ Cursors /\ SweepAt /\ EveryLeaseQueued /\ DepositsHeld

-----------------------------------------------------------------------------
(* The deposit is a number.                                                *)
LEMMA DepositType ==
    ASSUME NEW b \in LeaseBlocks
    PROVE  DepositFor(b) \in Nat
<1>1. b \in Nat /\ ByteGas * b \in Nat
  BY LeaseAssumption
<1>2. (ByteGas * b) \div ReferenceBlocks \in Nat
  BY <1>1, LeaseAssumption, Division, Zenon
<1> QED BY <1>2, Zenon DEF DepositFor

(* What is refunded is at most the deposit.                                *)
LEMMA RefundBound ==
    ASSUME NEW d \in Nat
    PROVE  RefundFor(d) \in Nat /\ RefundFor(d) <= d
  BY LeaseAssumption, ShareBound, Zenon DEF RefundFor

(* A lease is queued for the first epoch that begins after its grace.      *)
LEMMA EpochAfterGrace ==
    ASSUME NEW g \in Nat
    PROVE  /\ PruneEpoch(g) \in Nat \ {0}
           /\ g < PruneEpoch(g) * EpochLength
<1> DEFINE q == g \div EpochLength
<1>1. q \in Nat /\ g < EpochLength * q + EpochLength /\ EpochLength \in Nat
  BY LeaseAssumption, Division, Zenon
<1>2. PruneEpoch(g) = q + 1
  BY Zenon DEF PruneEpoch
<1> HIDE DEF q
<1>3. (q + 1) * EpochLength = EpochLength * q + EpochLength
  BY <1>1
<1> QED BY <1>1, <1>2, <1>3

(* A block lies in epoch currentEpoch.                                     *)
LEMMA BlockInEpoch ==
    ASSUME LeaseType, NEW e \in Nat
    PROVE  /\ currentEpoch \in Nat
           /\ e <= currentEpoch <=> currentBlock >= e * EpochLength
<1> DEFINE q == currentEpoch
<1>1. /\ q \in Nat /\ EpochLength * q <= currentBlock /\ currentBlock < EpochLength * q + EpochLength
      /\ currentBlock \in Nat /\ EpochLength \in Nat \ {0}
  BY LeaseAssumption, Division DEF LeaseType, currentEpoch
<1> HIDE DEF q
<1>2. ASSUME e <= q PROVE currentBlock >= e * EpochLength
  <2>1. EpochLength * e <= EpochLength * q /\ EpochLength * e = e * EpochLength
    BY <1>1, <1>2, TimesOrder
  <2> QED BY <1>1, <2>1
<1>3. ASSUME q + 1 <= e PROVE currentBlock < e * EpochLength
  <2>1. EpochLength * (q + 1) <= EpochLength * e /\ EpochLength * e = e * EpochLength
    BY <1>1, <1>3, TimesOrder
  <2>2. EpochLength * (q + 1) = EpochLength * q + EpochLength
    BY <1>1
  <2> QED BY <1>1, <2>1, <2>2
<1>4. e \in Int /\ e * EpochLength \in Int
  BY <1>1
<1> QED BY <1>1, <1>2, <1>3, <1>4 DEF q

(* The sweep stays within the epochs of the model.                         *)
LEMMA EpochBound ==
    ASSUME LeaseType
    PROVE  currentEpoch + 1 \in Epochs
<1>1. currentBlock \div EpochLength <= LastLeaseBlock \div EpochLength
  BY LeaseAssumption, DivisionOrder DEF LeaseType
<1>2. currentEpoch \in Nat /\ LastLeaseBlock \div EpochLength \in Nat
  BY BlockInEpoch, LeaseAssumption, Division, Zenon
<1> QED BY <1>1, <1>2, LeaseAssumption DEF Epochs, currentEpoch

-----------------------------------------------------------------------------
Held(ms) == SumFunction([a \in DOMAIN ms |-> ms[a].deposit])

WithMeta(ms, addr, m) == [a \in DOMAIN ms \cup {addr} |-> IF a = addr THEN m ELSE ms[a]]
WithoutMeta(ms, addr) == [a \in DOMAIN ms \ {addr} |-> ms[a]]

DepositOf(ms, addr) == IF addr \in DOMAIN ms THEN ms[addr].deposit ELSE 0

(* The fields of a lease record.                                           *)
LEMMA TableFields ==
    ASSUME NEW ms \in MetaTables, NEW a \in DOMAIN ms
    PROVE  /\ a \in LeaseAddrs /\ ms[a] \in Metas
           /\ ms[a].deposit \in Nat /\ ms[a].pruneEpoch \in Nat /\ ms[a].pruneSeq \in Nat
           /\ ms[a].graceUntil \in Nat /\ ms[a].expireAt \in Nat
<1>1. a \in LeaseAddrs /\ ms[a] \in Metas
  BY Zenon DEF MetaTables
<1> QED BY <1>1, Zenon DEF Metas

(* The deposits on record add up to a number.                              *)
LEMMA HeldType ==
    ASSUME NEW ms \in MetaTables, IsFiniteSet(DOMAIN ms)
    PROVE  Held(ms) \in Nat
<1> DEFINE f == [a \in DOMAIN ms |-> ms[a].deposit]
<1>1. \A a \in DOMAIN ms : f[a] \in Nat
  BY TableFields, Zenon
<1>2. DOMAIN f = DOMAIN ms
  BY Zenon
<1> HIDE DEF f
<1>3. SumFunctionOnSet(f, DOMAIN ms) \in Nat
  BY <1>1, SumNat, Zenon
<1> QED BY <1>2, <1>3, Zenon DEF Held, SumFunction, f

(* Clearing a record takes its deposit away.                               *)
LEMMA HeldWithout ==
    ASSUME NEW ms \in MetaTables, IsFiniteSet(DOMAIN ms), NEW addr \in DOMAIN ms
    PROVE  /\ WithoutMeta(ms, addr) \in MetaTables
           /\ DOMAIN WithoutMeta(ms, addr) = DOMAIN ms \ {addr}
           /\ IsFiniteSet(DOMAIN ms \ {addr})
           /\ Held(WithoutMeta(ms, addr)) = Held(ms) - ms[addr].deposit
<1> DEFINE f == [a \in DOMAIN ms |-> ms[a].deposit]
           us == WithoutMeta(ms, addr)
           g == [a \in DOMAIN us |-> us[a].deposit]
<1>1. DOMAIN us = DOMAIN ms \ {addr} /\ \A a \in DOMAIN us : us[a] = ms[a]
  BY Zenon DEF WithoutMeta
<1>2. us \in MetaTables
  <2>1. us \in [DOMAIN us -> Metas] /\ DOMAIN us \in SUBSET LeaseAddrs
    BY <1>1, TableFields, Zenon DEF WithoutMeta
  <2> QED BY <2>1, Zenon DEF MetaTables
<1>3. IsFiniteSet(DOMAIN us)
  BY <1>1, FS_Subset, Zenon
<1>4. \A a \in DOMAIN ms : f[a] \in Int
  BY TableFields
<1>5. \A a \in DOMAIN us : f[a] \in Int /\ g[a] = f[a]
  BY <1>1, <1>4, Zenon
<1>6. DOMAIN f = DOMAIN ms /\ DOMAIN g = DOMAIN us /\ f[addr] = ms[addr].deposit
  BY Zenon
<1> HIDE DEF f, g, us
<1>7. SumFunctionOnSet(f, DOMAIN ms) = f[addr] + SumFunctionOnSet(f, DOMAIN ms \ {addr})
  BY <1>4, SumRemove
<1>8. SumFunctionOnSet(g, DOMAIN us) = SumFunctionOnSet(f, DOMAIN us)
  BY <1>3, <1>5, SumEqual, Zenon
<1>9. SumFunctionOnSet(f, DOMAIN us) \in Int /\ f[addr] \in Int
  BY <1>3, <1>4, <1>5, SumType, Zenon
<1>10. Held(ms) = SumFunctionOnSet(f, DOMAIN ms) /\ Held(us) = SumFunctionOnSet(g, DOMAIN us)
  BY <1>6, Zenon DEF Held, SumFunction, f, g
<1>11. Held(us) = Held(ms) - ms[addr].deposit
  BY <1>1, <1>6, <1>7, <1>8, <1>9, <1>10
<1> QED BY <1>1, <1>2, <1>3, <1>11, Zenon DEF us

(* Writing a record replaces its deposit.                                  *)
LEMMA HeldWith ==
    ASSUME NEW ms \in MetaTables, IsFiniteSet(DOMAIN ms), NEW addr \in LeaseAddrs, NEW m \in Metas
    PROVE  /\ WithMeta(ms, addr, m) \in MetaTables
           /\ DOMAIN WithMeta(ms, addr, m) = DOMAIN ms \cup {addr}
           /\ IsFiniteSet(DOMAIN ms \cup {addr})
           /\ Held(WithMeta(ms, addr, m)) = Held(ms) - DepositOf(ms, addr) + m.deposit
<1> DEFINE us == WithMeta(ms, addr, m)
           vs == WithoutMeta(us, addr)
           ws == WithoutMeta(ms, addr)
<1>1. DOMAIN us = DOMAIN ms \cup {addr}
  BY Zenon DEF WithMeta
<1>2. us \in MetaTables
  <2>1. us \in [DOMAIN us -> Metas]
    BY <1>1, TableFields, Zenon DEF WithMeta
  <2>2. DOMAIN us \in SUBSET LeaseAddrs
    BY <1>1, TableFields, Zenon
  <2> QED BY <2>1, <2>2, Zenon DEF MetaTables
<1>3. IsFiniteSet(DOMAIN us)
  BY <1>1, FS_AddElement, Zenon
<1>4. us[addr] = m /\ addr \in DOMAIN us
  BY Zenon DEF WithMeta
<1>5. vs = ws
  BY Zenon DEF WithMeta, WithoutMeta
<1>6. Held(us) \in Nat /\ Held(ms) \in Nat /\ m.deposit \in Nat
  BY <1>2, <1>3, HeldType, Zenon DEF Metas
<1>7. Held(vs) = Held(us) - m.deposit
  BY <1>2, <1>3, <1>4, HeldWithout, Zenon
<1>8. Held(ws) = Held(ms) - DepositOf(ms, addr) /\ DepositOf(ms, addr) \in Nat
  <2>1. CASE addr \in DOMAIN ms
    BY <2>1, HeldWithout, TableFields, Zenon DEF DepositOf
  <2>2. CASE addr \notin DOMAIN ms
    <3>1. ws = ms
      <4>1. DOMAIN ms \ {addr} = DOMAIN ms /\ ms = [a \in DOMAIN ms |-> ms[a]]
        BY <2>2, Zenon DEF MetaTables
      <4> QED BY <4>1, Zenon DEF WithoutMeta
    <3> QED BY <1>6, <2>2, <3>1 DEF DepositOf
  <2> QED BY <2>1, <2>2, Zenon
<1> HIDE DEF us, vs, ws
<1>9. Held(us) = Held(ms) - DepositOf(ms, addr) + m.deposit
  BY <1>5, <1>6, <1>7, <1>8
<1> QED BY <1>1, <1>2, <1>3, <1>9, Zenon DEF us

(* The deposits on record cover each of them.                              *)
LEMMA HeldPart ==
    ASSUME NEW ms \in MetaTables, IsFiniteSet(DOMAIN ms), NEW addr \in DOMAIN ms
    PROVE  Held(ms) >= ms[addr].deposit
<1>1. WithoutMeta(ms, addr) \in MetaTables /\ IsFiniteSet(DOMAIN WithoutMeta(ms, addr))
      /\ Held(WithoutMeta(ms, addr)) = Held(ms) - ms[addr].deposit
  BY HeldWithout, Zenon
<1>2. Held(WithoutMeta(ms, addr)) \in Nat /\ Held(ms) \in Nat /\ ms[addr].deposit \in Nat
  BY <1>1, HeldType, TableFields, Zenon
<1> QED BY <1>1, <1>2

(* DepositsHeld in terms of the table.                                     *)
LEMMA HeldIs == DepositsHeld <=> leaseBalance >= Held(metas)
  BY Zenon DEF DepositsHeld, Held, LeaseDeposits

(* The invariant of the leases holds at first.                             *)
LEMMA LeaseInitHolds == LeaseInit => LeaseInv
<1> SUFFICES ASSUME LeaseInit PROVE LeaseInv
  BY Zenon
<1>1. DOMAIN metas = {} /\ metas \in MetaTables /\ IsFiniteSet(DOMAIN metas)
  <2>1. DOMAIN metas = {} /\ metas \in [{} -> Metas]
    BY DEF LeaseInit
  <2> QED BY <2>1, FS_EmptySet, Zenon DEF MetaTables
<1>2. LeaseType
  <2>1. entries \in [Epochs -> Seq(LeaseAddrs)] /\ cursor \in [Epochs -> Nat]
    BY DEF LeaseInit
  <2>2. head \in 0 .. LastEpoch /\ currentBlock \in 1 .. LastLeaseBlock /\ leaseBalance \in Nat
    BY LeaseAssumption DEF LeaseInit
  <2> QED BY <1>1, <2>1, <2>2, Zenon DEF LeaseInit, LeaseType
<1>3. DepositsHeld
  <2>1. DOMAIN [a \in DOMAIN metas |-> metas[a].deposit] = {}
    BY <1>1, Zenon
  <2>2. Held(metas) = 0
    BY <2>1, SumEmpty, Zenon DEF Held, SumFunction
  <2> QED BY <2>2, HeldIs DEF LeaseInit
<1> QED BY <1>1, <1>2, <1>3
        DEF LeaseInit, LeaseInv, Timed, Buried, Cursors, SweepAt, EveryLeaseQueued

-----------------------------------------------------------------------------
(* Deploying, renewing and closing: the record moves to the end of the     *)
(* list of the epoch its grace ends in.                                    *)
LEMMA ScheduleHolds ==
    ASSUME LeaseInv, ~sweeping, NEW addr \in LeaseAddrs, addr \notin tombs, NEW m \in Metas,
           m.graceUntil = m.expireAt + GraceBlocks \/ m.deposit = 0,
           ScheduleMeta(addr, m),
           leaseBalance' \in Nat,
           leaseBalance' >= leaseBalance - DepositOf(metas, addr) + m.deposit,
           UNCHANGED <<tombs, currentBlock, sweepVars>>
    PROVE  LeaseInv'
<1> DEFINE e == PruneEpoch(m.graceUntil)
           p == Placed(m)
<1>1. /\ LeaseType /\ Timed /\ Buried /\ Cursors /\ EveryLeaseQueued /\ leaseBalance >= Held(metas)
  BY HeldIs, Zenon DEF LeaseInv
<1>2. /\ e \in Epochs /\ entries' = [entries EXCEPT ![e] = Append(@, addr)]
      /\ head' = (IF head = 0 \/ e < head THEN e ELSE head)
      /\ cursor' = cursor /\ metas' = WithMeta(metas, addr, p)
  BY Zenon DEF ScheduleMeta, WriteMeta, WithMeta
<1>3. /\ metas \in MetaTables /\ IsFiniteSet(DOMAIN metas)
      /\ entries \in [Epochs -> Seq(LeaseAddrs)] /\ cursor \in [Epochs -> Nat]
      /\ head \in 0 .. LastEpoch
  BY <1>1, Zenon DEF LeaseType
<1>4. /\ entries[e] \in Seq(LeaseAddrs) /\ Len(entries[e]) \in Nat /\ e \in Nat \ {0}
      /\ cursor[e] \in Nat /\ cursor[e] <= Len(entries[e])
  BY <1>1, <1>2, <1>3 DEF Cursors, Epochs
<1>5. /\ p \in Metas /\ p.pruneEpoch = e /\ p.pruneSeq = Len(entries[e])
      /\ p.graceUntil = m.graceUntil /\ p.expireAt = m.expireAt /\ p.deposit = m.deposit
  BY <1>4, Zenon DEF Placed, Metas
<1>6. TimedMeta(p)
  BY <1>2, <1>5, Zenon DEF TimedMeta
<1> HIDE DEF p
<1>7. /\ metas' \in MetaTables /\ IsFiniteSet(DOMAIN metas')
      /\ DOMAIN metas' = DOMAIN metas \cup {addr}
      /\ Held(metas') = Held(metas) - DepositOf(metas, addr) + m.deposit
  <2>1. metas \in MetaTables /\ IsFiniteSet(DOMAIN metas) /\ p \in Metas
    BY <1>3, <1>5, Zenon
  <2>2. /\ WithMeta(metas, addr, p) \in MetaTables
        /\ DOMAIN WithMeta(metas, addr, p) = DOMAIN metas \cup {addr}
        /\ IsFiniteSet(DOMAIN metas \cup {addr})
        /\ Held(WithMeta(metas, addr, p)) = Held(metas) - DepositOf(metas, addr) + p.deposit
    BY <2>1, HeldWith, Zenon
  <2> QED BY <1>2, <1>5, <2>2, Zenon
<1>8. metas'[addr] = p /\ \A a \in DOMAIN metas \ {addr} : metas'[a] = metas[a]
  BY <1>2, Zenon DEF WithMeta
<1>9. /\ entries' \in [Epochs -> Seq(LeaseAddrs)]
      /\ entries'[e] = Append(entries[e], addr)
      /\ \A d \in Epochs : d # e => entries'[d] = entries[d]
  BY <1>2, <1>3
<1>10. /\ Len(entries'[e]) = Len(entries[e]) + 1
       /\ entries'[e][Len(entries[e]) + 1] = addr
       /\ \A i \in 1 .. Len(entries[e]) : entries'[e][i] = entries[e][i]
  BY <1>4, <1>9
<1>11. head' \in 0 .. LastEpoch /\ head' # 0 /\ head' <= e /\ (head # 0 => head' <= head)
  BY <1>2, <1>3, <1>4 DEF Epochs
<1>12. UNCHANGED <<sweeping, epoch, at, swept, currentBlock, tombs>>
  BY Zenon DEF sweepVars
<1>13. LeaseType'
  BY <1>1, <1>2, <1>3, <1>7, <1>9, <1>11, <1>12, Zenon DEF LeaseType
<1>14. Timed' /\ Buried'
  BY <1>1, <1>6, <1>7, <1>8, <1>12, Zenon DEF Timed, Buried
<1>15. Cursors' /\ SweepAt'
  BY <1>1, <1>2, <1>3, <1>4, <1>9, <1>10, <1>12 DEF Cursors, SweepAt
<1>16. EveryLeaseQueued'
  <2> SUFFICES ASSUME NEW a \in DOMAIN metas'
               PROVE  LET d == metas'[a].pruneEpoch
                      IN  /\ head' # 0 /\ d >= head'
                          /\ metas'[a].pruneSeq \in cursor'[d] .. Len(entries'[d]) - 1
                          /\ entries'[d][metas'[a].pruneSeq + 1] = a
    BY <1>12, Zenon DEF EveryLeaseQueued
  <2>1. CASE a = addr
    BY <1>2, <1>4, <1>5, <1>8, <1>10, <1>11, <2>1
  <2>2. CASE a # addr
    <3> DEFINE d == metas[a].pruneEpoch
               i == metas[a].pruneSeq
    <3>1. a \in DOMAIN metas /\ metas'[a] = metas[a]
      BY <1>7, <1>8, <2>2, Zenon
    <3>2. d \in Epochs /\ i \in Nat /\ head # 0 /\ d >= head
          /\ i \in cursor[d] .. Len(entries[d]) - 1 /\ entries[d][i + 1] = a
      BY <1>1, <1>3, <3>1, TableFields, Zenon DEF EveryLeaseQueued, Timed, TimedMeta
    <3>3. d >= head'
      BY <1>3, <1>4, <1>11, <3>2 DEF Epochs
    <3>4. Len(entries[d]) \in Nat /\ cursor[d] \in Nat
      BY <1>3, <3>2
    <3> HIDE DEF d, i
    <3>5. i \in cursor'[d] .. Len(entries'[d]) - 1 /\ entries'[d][i + 1] = a
      <4>1. CASE d = e
        BY <1>2, <1>4, <1>10, <3>2, <3>4, <4>1
      <4>2. CASE d # e
        BY <1>2, <1>9, <3>2, <4>2, Zenon
      <4> QED BY <4>1, <4>2, Zenon
    <3> QED BY <1>11, <3>1, <3>3, <3>5, Zenon DEF d, i
  <2> QED BY <2>1, <2>2, Zenon
<1>17. DepositsHeld'
  <2>1. leaseBalance' >= Held(metas')
    <3>1. leaseBalance \in Nat /\ Held(metas) \in Nat /\ DepositOf(metas, addr) \in Nat /\ m.deposit \in Nat
      BY <1>1, <1>3, HeldType, TableFields, Zenon DEF LeaseType, DepositOf, Metas
    <3> QED BY <1>1, <1>7, <3>1
  <2> QED BY <2>1, Zenon DEF DepositsHeld, Held, LeaseDeposits
<1> QED BY <1>13, <1>14, <1>15, <1>16, <1>17, Zenon DEF LeaseInv

(* LEASE_DEPLOY keeps the invariant.                                       *)
LEMMA DeployHolds ==
    ASSUME LeaseInv, NEW addr \in LeaseAddrs, NEW b \in LeaseBlocks, Deploy(addr, b)
    PROVE  LeaseInv'
<1> DEFINE m == [expireAt |-> currentBlock + b,
                 graceUntil |-> currentBlock + b + GraceBlocks,
                 deposit |-> DepositFor(b), pruneEpoch |-> 0, pruneSeq |-> 0]
<1>1. DepositFor(b) \in Nat /\ b \in Nat /\ currentBlock \in Nat /\ GraceBlocks \in Nat
      /\ leaseBalance \in Nat
  BY DepositType, LeaseAssumption DEF LeaseInv, LeaseType
<1>2. m \in Metas /\ m.graceUntil = m.expireAt + GraceBlocks /\ m.deposit = DepositFor(b)
  BY <1>1 DEF Metas
<1>3. ScheduleMeta(addr, m)
  BY Zenon DEF Deploy
<1> HIDE DEF m
<1>4. DepositOf(metas, addr) = 0
  BY Zenon DEF Deploy, DepositOf
<1>5. leaseBalance' \in Nat /\ leaseBalance' >= leaseBalance - DepositOf(metas, addr) + m.deposit
  BY <1>1, <1>2, <1>4 DEF Deploy
<1> QED BY <1>2, <1>3, <1>5, ScheduleHolds, Zenon DEF Deploy

(* The record of a renewed lease.                                          *)
LEMMA RenewRecord ==
    ASSUME LeaseType, NEW meta \in Metas, NEW b \in LeaseBlocks
    PROVE  /\ RenewMeta(meta, b) \in Metas
           /\ RenewMeta(meta, b).graceUntil = RenewMeta(meta, b).expireAt + GraceBlocks
           /\ RenewMeta(meta, b).deposit = meta.deposit + DepositFor(b)
<1>1. /\ DepositFor(b) \in Nat /\ b \in Nat /\ currentBlock \in Nat /\ GraceBlocks \in Nat
      /\ meta.expireAt \in Nat /\ meta.deposit \in Nat
  BY DepositType, LeaseAssumption DEF LeaseType, Metas
<1>2. RenewFrom(meta) + b \in Nat /\ RenewFrom(meta) + b + GraceBlocks \in Nat
  BY <1>1 DEF RenewFrom
<1>3. meta.deposit + DepositFor(b) \in Nat
  BY <1>1
<1> HIDE DEF RenewFrom
<1> QED BY <1>2, <1>3, Zenon DEF RenewMeta, Metas

(* LEASE_RENEW keeps the invariant.                                        *)
LEMMA RenewHolds ==
    ASSUME LeaseInv, NEW addr \in LeaseAddrs, NEW b \in LeaseBlocks, handleRenew(addr, b)
    PROVE  LeaseInv'
<1> DEFINE m == RenewMeta(metas[addr], b)
<1>1. /\ LeaseType /\ DepositFor(b) \in Nat /\ leaseBalance \in Nat /\ addr \in DOMAIN metas
      /\ metas[addr] \in Metas /\ metas[addr].deposit \in Nat
  BY DepositType, TableFields, Zenon DEF LeaseInv, LeaseType, handleRenew
<1>2. m \in Metas /\ m.graceUntil = m.expireAt + GraceBlocks
      /\ m.deposit = metas[addr].deposit + DepositFor(b)
  BY <1>1, RenewRecord, Zenon
<1>3. ScheduleMeta(addr, m)
  BY Zenon DEF handleRenew
<1> HIDE DEF m
<1>4. DepositOf(metas, addr) = metas[addr].deposit
  BY <1>1, Zenon DEF DepositOf
<1>5. leaseBalance' \in Nat /\ leaseBalance' >= leaseBalance - DepositOf(metas, addr) + m.deposit
  BY <1>1, <1>2, <1>4 DEF handleRenew
<1> QED BY <1>2, <1>3, <1>5, ScheduleHolds, Zenon DEF handleRenew

(* LEASE_CLOSE keeps the invariant.                                        *)
LEMMA CloseHolds ==
    ASSUME LeaseInv, NEW addr \in LeaseAddrs, handleClose(addr)
    PROVE  LeaseInv'
<1> DEFINE m == CloseMeta(metas[addr])
<1>1. /\ LeaseType /\ leaseBalance \in Nat /\ addr \in DOMAIN metas
      /\ metas[addr] \in Metas /\ metas[addr].deposit \in Nat /\ currentBlock \in Nat
  BY TableFields DEF LeaseInv, LeaseType, handleClose
<1>2. m \in Metas /\ m.deposit = 0
  BY <1>1, Zenon DEF CloseMeta, Metas
<1>3. ScheduleMeta(addr, m)
  BY Zenon DEF handleClose
<1> HIDE DEF m
<1>4. DepositOf(metas, addr) = metas[addr].deposit
  BY <1>1, Zenon DEF DepositOf
<1>5. RefundFor(metas[addr].deposit) \in Nat /\ RefundFor(metas[addr].deposit) <= metas[addr].deposit
  BY <1>1, RefundBound, Zenon
<1>6. leaseBalance >= RefundFor(metas[addr].deposit)
      /\ leaseBalance' = leaseBalance - RefundFor(metas[addr].deposit)
  BY Zenon DEF handleClose
<1>7. leaseBalance' \in Nat /\ leaseBalance' >= leaseBalance - DepositOf(metas, addr) + m.deposit
  BY <1>1, <1>2, <1>4, <1>5, <1>6
<1> QED BY <1>2, <1>3, <1>7, ScheduleHolds, Zenon DEF handleClose

-----------------------------------------------------------------------------
(* The block number moves on, between sweeps.                              *)
LEMMA EndBlockHolds ==
    ASSUME LeaseInv, EndLeaseBlock
    PROVE  LeaseInv'
<1>1. UNCHANGED <<metas, tombs, leaseBalance, entries, cursor, head, sweeping, epoch, at, swept>>
  BY Zenon DEF EndLeaseBlock, queueVars, sweepVars
<1>2. ~sweeping /\ currentBlock' = currentBlock + 1 /\ currentBlock < LastLeaseBlock
  BY Zenon DEF EndLeaseBlock
<1>3. LeaseType'
  BY <1>1, <1>2, LeaseAssumption DEF LeaseInv, LeaseType
<1>4. SweepAt'
  BY <1>1, <1>2, Zenon DEF SweepAt
<1> QED BY <1>1, <1>3, <1>4, Zenon
        DEF LeaseInv, Timed, Buried, Cursors, EveryLeaseQueued, DepositsHeld, LeaseDeposits

(* The start of a sweep keeps the invariant.                               *)
LEMMA StartHolds ==
    ASSUME LeaseInv, StartSweep
    PROVE  LeaseInv'
<1>1. UNCHANGED <<metas, tombs, leaseBalance, entries, cursor, head, currentBlock>>
  BY Zenon DEF StartSweep, queueVars
<1>2. /\ ~sweeping /\ sweeping' /\ sweeping' \in BOOLEAN
      /\ epoch' = head /\ at' = cursor[head] /\ swept' = 0
      /\ head # 0 /\ head <= currentEpoch /\ currentBlock < LastLeaseBlock
  BY Zenon DEF StartSweep, SweepDue
<1>3. LeaseType /\ head \in Epochs /\ cursor[head] \in Nat /\ currentEpoch \in Nat
  BY <1>2, BlockInEpoch DEF LeaseInv, LeaseType, Epochs
<1>4. LeaseType'
  BY <1>1, <1>2, <1>3 DEF LeaseType, Epochs
<1>5. SweepAt'
  BY <1>1, <1>2, <1>3 DEF SweepAt, currentEpoch, Epochs
<1>6. EveryLeaseQueued'
  BY <1>1, <1>2, Zenon DEF LeaseInv, EveryLeaseQueued
<1> QED BY <1>1, <1>4, <1>5, <1>6, Zenon
        DEF LeaseInv, Timed, Buried, Cursors, DepositsHeld, LeaseDeposits

(* The lease of an entry that the sweep meets can be pruned: the epoch     *)
(* began after its grace.                                                  *)
LEMMA MetIsPrunable ==
    ASSUME LeaseType, NEW m \in Metas, TimedMeta(m), m.pruneEpoch <= currentEpoch
    PROVE  EffectiveStatus(m, currentBlock) = "Prunable"
<1>1. m.graceUntil \in Nat /\ m.pruneEpoch \in Nat /\ currentBlock \in Nat /\ EpochLength \in Nat
  BY LeaseAssumption DEF Metas, LeaseType
<1>2. currentBlock >= m.pruneEpoch * EpochLength
  BY <1>1, BlockInEpoch, Zenon
<1>3. m.graceUntil < m.pruneEpoch * EpochLength
  BY <1>1, EpochAfterGrace, Zenon DEF TimedMeta
<1>4. m.pruneEpoch * EpochLength \in Nat
  BY <1>1
<1>5. currentBlock >= m.graceUntil
  BY <1>1, <1>2, <1>3, <1>4
<1> QED BY <1>2, <1>5, Zenon DEF EffectiveStatus

(* The lease the sweep passes is pruned: no other lease is at that place.  *)
LEMMA Passed ==
    ASSUME LeaseInv, Waiting, NEW a \in DOMAIN metas,
           metas[a].pruneEpoch = epoch, metas[a].pruneSeq = at
    PROVE  Current(EntryAddr) /\ a = EntryAddr
<1>1. sweeping /\ epoch <= currentEpoch
  BY Zenon DEF Waiting
<1>2. a = EntryAddr
  BY <1>1, Zenon DEF LeaseInv, EveryLeaseQueued, EntryAddr
<1>3. metas[a] \in Metas /\ TimedMeta(metas[a]) /\ LeaseType
  BY TableFields, Zenon DEF LeaseInv, LeaseType, Timed
<1>4. EffectiveStatus(metas[a], currentBlock) = "Prunable"
  BY <1>1, <1>3, MetIsPrunable, Zenon
<1> QED BY <1>2, <1>4, Zenon DEF Current

(* Processing an entry keeps the invariant: the one lease it passes is     *)
(* pruned.                                                                 *)
LEMMA PruneHolds ==
    ASSUME LeaseInv, PruneEntry
    PROVE  LeaseInv'
<1>1. /\ Waiting /\ sweeping /\ epoch <= currentEpoch /\ at' = at + 1 /\ swept' = swept + 1
      /\ UNCHANGED <<currentBlock, entries, cursor, head, sweeping, epoch>>
  BY Zenon DEF PruneEntry, queueVars, Waiting
<1>2. LeaseType /\ Timed /\ Buried /\ Cursors /\ SweepAt /\ EveryLeaseQueued
      /\ leaseBalance >= Held(metas) /\ metas \in MetaTables /\ IsFiniteSet(DOMAIN metas)
      /\ leaseBalance \in Nat /\ at \in Nat
  BY HeldIs, Zenon DEF LeaseInv, LeaseType
<1>3. /\ metas' \in MetaTables /\ IsFiniteSet(DOMAIN metas') /\ leaseBalance' \in Nat
      /\ leaseBalance' >= Held(metas')
      /\ DOMAIN metas' \subseteq DOMAIN metas
      /\ \A a \in DOMAIN metas' : metas'[a] = metas[a]
      /\ DOMAIN metas' \cap tombs' = {}
      /\ Current(EntryAddr) => EntryAddr \notin DOMAIN metas'
  <2>1. CASE ~Current(EntryAddr)
    <3>1. UNCHANGED <<metas, tombs, leaseBalance>>
      BY <2>1, Zenon DEF PruneEntry
    <3> QED BY <1>2, <2>1, <3>1, Zenon DEF Buried
  <2>2. CASE Current(EntryAddr)
    <3> DEFINE x == EntryAddr
               d == metas[x].deposit
    <3>1. x \in DOMAIN metas /\ Prune(x)
      BY <2>2, Zenon DEF PruneEntry, Current
    <3> HIDE DEF x
    <3>2. metas' = WithoutMeta(metas, x) /\ tombs' = tombs \cup {x}
      BY <3>1, Zenon DEF Prune, WithoutMeta
    <3>3. /\ WithoutMeta(metas, x) \in MetaTables
          /\ DOMAIN WithoutMeta(metas, x) = DOMAIN metas \ {x}
          /\ IsFiniteSet(DOMAIN metas \ {x})
          /\ Held(WithoutMeta(metas, x)) = Held(metas) - d
      BY <1>2, <3>1, HeldWithout, Zenon
    <3>4. Held(metas) \in Nat /\ d \in Nat /\ d <= Held(metas)
      BY <1>2, <3>1, HeldType, HeldPart, TableFields, Zenon
    <3>5. RefundFor(d) \in Nat /\ RefundFor(d) <= d
      BY <3>4, RefundBound, Zenon
    <3>6. leaseBalance' = leaseBalance - (IF leaseBalance < RefundFor(d) THEN leaseBalance ELSE RefundFor(d))
      BY <3>1, Zenon DEF Prune
    <3> HIDE DEF d
    <3>7. leaseBalance' \in Nat /\ leaseBalance' >= Held(metas) - d
      BY <1>2, <3>4, <3>5, <3>6
    <3>8. \A a \in DOMAIN metas \ {x} : WithoutMeta(metas, x)[a] = metas[a]
      BY Zenon DEF WithoutMeta
    <3> QED BY <1>2, <3>2, <3>3, <3>7, <3>8, Zenon DEF Buried, x
  <2> QED BY <2>1, <2>2, Zenon
<1>4. LeaseType'
  BY <1>1, <1>2, <1>3 DEF LeaseType
<1>5. Timed' /\ Buried' /\ Cursors'
  BY <1>1, <1>2, <1>3, Zenon DEF Timed, Buried, Cursors
<1>6. SweepAt'
  <2>1. cursor[epoch] \in Nat
    <3>1. currentEpoch \in Nat /\ currentEpoch + 1 \in Epochs
      BY <1>2, BlockInEpoch, EpochBound, Zenon
    <3>2. epoch \in Epochs
      BY <1>1, <1>2, <3>1, LeaseAssumption DEF SweepAt, Epochs
    <3> QED BY <1>2, <3>2, Zenon DEF LeaseType
  <2>2. at' >= cursor'[epoch']
    BY <1>1, <1>2, <2>1 DEF SweepAt
  <2> QED BY <1>1, <1>2, <2>2, Zenon DEF SweepAt, currentEpoch
<1>7. EveryLeaseQueued'
  <2> SUFFICES ASSUME NEW a \in DOMAIN metas'
               PROVE  LET e == metas'[a].pruneEpoch
                      IN  /\ head' # 0 /\ e >= epoch'
                          /\ metas'[a].pruneSeq \in
                               (IF e = epoch' THEN at' ELSE cursor'[e]) .. Len(entries'[e]) - 1
                          /\ entries'[e][metas'[a].pruneSeq + 1] = a
    BY <1>1, Zenon DEF EveryLeaseQueued
  <2> DEFINE e == metas[a].pruneEpoch
             i == metas[a].pruneSeq
  <2>1. a \in DOMAIN metas /\ metas'[a] = metas[a]
    BY <1>3, Zenon
  <2>2. /\ e \in Epochs /\ i \in Nat /\ head # 0 /\ e >= epoch
        /\ i \in (IF e = epoch THEN at ELSE cursor[e]) .. Len(entries[e]) - 1
        /\ entries[e][i + 1] = a
    BY <1>1, <1>2, <2>1, TableFields, Zenon DEF EveryLeaseQueued, Timed, TimedMeta
  <2>3. ~(e = epoch /\ i = at)
    BY <1>1, <1>3, <2>1, Passed, Zenon
  <2>4. Len(entries[e]) \in Nat
    BY <1>2, <2>2 DEF LeaseType
  <2> HIDE DEF e, i
  <2>5. i \in (IF e = epoch THEN at + 1 ELSE cursor[e]) .. Len(entries[e]) - 1
    BY <1>2, <2>2, <2>3, <2>4
  <2> QED BY <1>1, <2>1, <2>2, <2>5, Zenon DEF e, i
<1>8. DepositsHeld'
  BY <1>3, Zenon DEF DepositsHeld, Held, LeaseDeposits
<1> QED BY <1>4, <1>5, <1>6, <1>7, <1>8, Zenon DEF LeaseInv

(* Clearing an epoch keeps the invariant: no lease names it any more.      *)
LEMMA ClearHolds ==
    ASSUME LeaseInv, ClearPruneEpoch
    PROVE  LeaseInv'
<1>1. /\ sweeping /\ epoch <= currentEpoch /\ at >= Len(entries[epoch])
      /\ entries' = [entries EXCEPT ![epoch] = <<>>]
      /\ cursor' = [cursor EXCEPT ![epoch] = 0]
      /\ epoch' = epoch + 1 /\ at' = cursor[epoch + 1]
      /\ UNCHANGED <<metas, tombs, leaseBalance, currentBlock, head, sweeping, swept>>
  BY Zenon DEF ClearPruneEpoch
<1>2. LeaseType /\ Timed /\ Buried /\ Cursors /\ SweepAt /\ EveryLeaseQueued
      /\ metas \in MetaTables /\ at \in Nat
  BY Zenon DEF LeaseInv, LeaseType
<1>3. /\ epoch \in Epochs /\ epoch + 1 \in Epochs /\ currentEpoch \in Nat
      /\ epoch + 1 <= currentEpoch + 1
  <2>1. currentEpoch \in Nat /\ currentEpoch + 1 \in Epochs
    BY <1>2, BlockInEpoch, EpochBound, Zenon
  <2> QED BY <1>1, <1>2, <2>1, LeaseAssumption DEF SweepAt, Epochs
<1>4. /\ entries \in [Epochs -> Seq(LeaseAddrs)] /\ cursor \in [Epochs -> Nat]
      /\ Len(entries[epoch]) \in Nat
  BY <1>2, <1>3 DEF LeaseType
<1>5. /\ entries'[epoch] = <<>> /\ cursor'[epoch] = 0
      /\ \A e \in Epochs : e # epoch => entries'[e] = entries[e] /\ cursor'[e] = cursor[e]
      /\ entries' \in [Epochs -> Seq(LeaseAddrs)] /\ cursor' \in [Epochs -> Nat]
  BY <1>1, <1>3, <1>4
<1>6. LeaseType'
  BY <1>1, <1>2, <1>3, <1>4, <1>5 DEF LeaseType, Epochs
<1>7. Cursors'
  BY <1>2, <1>4, <1>5 DEF Cursors
<1>8. SweepAt'
  <2>1. at' >= cursor'[epoch']
    <3>1. cursor'[epoch + 1] = cursor[epoch + 1] /\ cursor[epoch + 1] \in Nat
      BY <1>3, <1>4, <1>5 DEF Epochs
    <3> QED BY <1>1, <3>1
  <2>2. epoch' \in 1 .. currentEpoch' + 1
    BY <1>1, <1>3 DEF currentEpoch, Epochs
  <2> QED BY <1>1, <1>2, <2>1, <2>2, Zenon DEF SweepAt
<1>9. EveryLeaseQueued'
  <2> SUFFICES ASSUME NEW a \in DOMAIN metas
               PROVE  LET e == metas[a].pruneEpoch
                      IN  /\ head # 0 /\ e >= epoch + 1
                          /\ metas[a].pruneSeq \in
                               (IF e = epoch + 1 THEN cursor[epoch + 1] ELSE cursor'[e])
                                   .. Len(entries'[e]) - 1
                          /\ entries'[e][metas[a].pruneSeq + 1] = a
    BY <1>1, Zenon DEF EveryLeaseQueued
  <2> DEFINE e == metas[a].pruneEpoch
             i == metas[a].pruneSeq
  <2>1. /\ e \in Epochs /\ i \in Nat /\ head # 0 /\ e >= epoch
        /\ i \in (IF e = epoch THEN at ELSE cursor[e]) .. Len(entries[e]) - 1
        /\ entries[e][i + 1] = a
    BY <1>1, <1>2, TableFields, Zenon DEF EveryLeaseQueued, Timed, TimedMeta
  <2> HIDE DEF e, i
  <2>2. e # epoch
    BY <1>1, <1>2, <1>4, <2>1
  <2>3. e >= epoch + 1 /\ entries'[e] = entries[e] /\ cursor'[e] = cursor[e]
    BY <1>3, <1>5, <2>1, <2>2 DEF Epochs
  <2> QED BY <2>1, <2>2, <2>3, Zenon DEF e, i
<1> QED BY <1>1, <1>2, <1>6, <1>7, <1>8, <1>9, Zenon
        DEF LeaseInv, Timed, Buried, DepositsHeld, LeaseDeposits

(* The end of a sweep keeps the invariant, whether it is done or its       *)
(* budget used up.                                                         *)
LEMMA EndHolds ==
    ASSUME LeaseInv, sweeping, EndSweep,
           cursor' = cursor \/ (Waiting /\ cursor' = [cursor EXCEPT ![epoch] = at])
    PROVE  LeaseInv'
<1>1. /\ head' = epoch /\ sweeping' = FALSE /\ epoch' = 0 /\ at' = 0 /\ swept' = 0
      /\ currentBlock' = currentBlock + 1
      /\ UNCHANGED <<metas, tombs, leaseBalance, entries>>
  BY Zenon DEF EndSweep
<1>2. /\ LeaseType /\ Timed /\ Cursors /\ SweepAt /\ EveryLeaseQueued /\ metas \in MetaTables
      /\ currentBlock < LastLeaseBlock /\ currentBlock \in 1 .. LastLeaseBlock
  BY Zenon DEF LeaseInv, LeaseType, SweepAt
<1>3. epoch \in Epochs
  <2>1. currentEpoch \in Nat /\ currentEpoch + 1 \in Epochs
    BY <1>2, BlockInEpoch, EpochBound, Zenon
  <2> QED BY <1>2, <2>1, LeaseAssumption DEF SweepAt, Epochs
<1>4. /\ entries \in [Epochs -> Seq(LeaseAddrs)] /\ cursor \in [Epochs -> Nat] /\ at \in Nat
      /\ \A e \in Epochs : Len(entries[e]) \in Nat
  BY <1>2 DEF LeaseType
<1>5. /\ cursor' \in [Epochs -> Nat]
      /\ \A e \in Epochs : e # epoch => cursor'[e] = cursor[e]
      /\ cursor'[epoch] = cursor[epoch] \/ (cursor'[epoch] = at /\ at < Len(entries[epoch]))
  BY <1>3, <1>4, Zenon DEF Waiting
<1>6. LeaseType'
  <2>1. head' \in 0 .. LastEpoch /\ currentBlock' \in 1 .. LastLeaseBlock
    BY <1>1, <1>2, <1>3, LeaseAssumption DEF Epochs
  <2>2. epoch' \in Nat /\ at' \in Nat /\ swept' \in Nat /\ sweeping' \in BOOLEAN
    BY <1>1, Zenon
  <2> QED BY <1>1, <1>2, <1>5, <2>1, <2>2, Zenon DEF LeaseType
<1>7. Cursors'
  BY <1>1, <1>2, <1>3, <1>4, <1>5 DEF Cursors
<1>8. SweepAt'
  BY <1>1, Zenon DEF SweepAt
<1>9. EveryLeaseQueued'
  <2> SUFFICES ASSUME NEW a \in DOMAIN metas
               PROVE  LET e == metas[a].pruneEpoch
                      IN  /\ epoch # 0 /\ e >= epoch
                          /\ metas[a].pruneSeq \in cursor'[e] .. Len(entries[e]) - 1
                          /\ entries[e][metas[a].pruneSeq + 1] = a
    BY <1>1, Zenon DEF EveryLeaseQueued
  <2> DEFINE e == metas[a].pruneEpoch
             i == metas[a].pruneSeq
  <2>1. /\ e \in Epochs /\ i \in Nat /\ e >= epoch
        /\ i \in (IF e = epoch THEN at ELSE cursor[e]) .. Len(entries[e]) - 1
        /\ entries[e][i + 1] = a
    BY <1>2, TableFields, Zenon DEF EveryLeaseQueued, Timed, TimedMeta
  <2> HIDE DEF e, i
  <2>2. i \in cursor'[e] .. Len(entries[e]) - 1
    <3>1. CASE e # epoch
      BY <1>5, <2>1, <3>1, Zenon
    <3>2. CASE e = epoch /\ cursor'[e] = at
      BY <2>1, <3>2, Zenon
    <3>3. CASE e = epoch /\ cursor' = cursor
      <4>1. at >= cursor[epoch] /\ cursor[epoch] \in Nat
        BY <1>2, <1>3, <1>4, Zenon DEF SweepAt
      <4> QED BY <1>4, <2>1, <3>3, <4>1
    <3> QED BY <1>3, <1>4, <3>1, <3>2, <3>3, Zenon
  <2> QED BY <1>3, <2>1, <2>2 DEF e, i, Epochs
<1> QED BY <1>1, <1>2, <1>6, <1>7, <1>8, <1>9, Zenon
        DEF LeaseInv, Timed, Buried, DepositsHeld, LeaseDeposits

(* Every step keeps the invariant.                                         *)
LEMMA LeaseNextHolds == LeaseInv /\ [LeaseNext]_leaseVars => LeaseInv'
<1> SUFFICES ASSUME LeaseInv, [LeaseNext]_leaseVars PROVE LeaseInv'
  BY Zenon
<1>1. ASSUME NEW a \in LeaseAddrs, NEW b \in LeaseBlocks, Deploy(a, b) PROVE LeaseInv'
  BY <1>1, DeployHolds, Zenon
<1>2. ASSUME NEW a \in LeaseAddrs, NEW b \in LeaseBlocks, handleRenew(a, b) PROVE LeaseInv'
  BY <1>2, RenewHolds, Zenon
<1>3. ASSUME NEW a \in LeaseAddrs, handleClose(a) PROVE LeaseInv'
  BY <1>3, CloseHolds, Zenon
<1>4. CASE EndLeaseBlock
  BY <1>4, EndBlockHolds, Zenon
<1>5. CASE StartSweep
  BY <1>5, StartHolds, Zenon
<1>6. CASE PruneEntry
  BY <1>6, PruneHolds, Zenon
<1>7. CASE ClearPruneEpoch
  BY <1>7, ClearHolds, Zenon
<1>8. CASE StopSweep
  BY <1>8, EndHolds, Zenon DEF StopSweep, Waiting
<1>9. CASE FinishSweep
  BY <1>9, EndHolds, Zenon DEF FinishSweep
<1>10. CASE UNCHANGED leaseVars
  BY <1>10, Zenon DEF leaseVars, queueVars, sweepVars, LeaseInv, LeaseType, Timed, Buried, Cursors, SweepAt,
     currentEpoch, EveryLeaseQueued, DepositsHeld, LeaseDeposits
<1> QED BY <1>1, <1>2, <1>3, <1>4, <1>5, <1>6, <1>7, <1>8, <1>9, <1>10, Zenon
        DEF LeaseNext, runPruneSweep, LeaseReverted

(* For all lease durations, budgets, epochs and grace windows: no lease    *)
(* escapes the prune queue, through any renewals, closes and interrupted   *)
(* sweeps, and the registry can pay every refund (lease.ScheduleMeta,      *)
(* runPruneSweep, handleClose).                                            *)
THEOREM LeasesAreSound == LeaseSpec => []LeasesSound
<1>1. LeaseInv => LeasesSound
  BY Zenon DEF LeaseInv, LeasesSound
<1> QED BY <1>1, LeaseInitHolds, LeaseNextHolds, PTL DEF LeaseSpec

-----------------------------------------------------------------------------
(* What a step never does.                                                 *)

(* A step prunes only leases past their grace.                             *)
LEMMA GraceStep ==
    ASSUME LeaseInv, [LeaseNext]_leaseVars
    PROVE  PrunedAfterGrace
<1> SUFFICES ASSUME NEW a \in tombs' \ tombs
             PROVE  metas[a].deposit = 0 \/ currentBlock >= metas[a].expireAt + GraceBlocks
  BY Zenon DEF PrunedAfterGrace
<1>1. PruneEntry /\ Current(EntryAddr) /\ a = EntryAddr
  BY Zenon DEF LeaseNext, leaseVars, Deploy, handleRenew, handleClose, EndLeaseBlock, runPruneSweep,
         StartSweep, PruneEntry, ClearPruneEpoch, StopSweep, FinishSweep, EndSweep, LeaseReverted, Prune
<1>2. a \in DOMAIN metas /\ EffectiveStatus(metas[a], currentBlock) = "Prunable"
  BY <1>1, Zenon DEF Current
<1>3. currentBlock >= metas[a].graceUntil
  BY <1>2, Zenon DEF EffectiveStatus
<1>4. metas[a].graceUntil = metas[a].expireAt + GraceBlocks \/ metas[a].deposit = 0
  BY <1>2, Zenon DEF LeaseInv, Timed, TimedMeta
<1> QED BY <1>3, <1>4, Zenon

(* A lease that can be pruned stays so while time passes.                  *)
LEMMA StaysPrunable ==
    ASSUME NEW m \in Metas, NEW b \in Nat, EffectiveStatus(m, b) = "Prunable"
    PROVE  EffectiveStatus(m, b + 1) = "Prunable"
<1>1. b >= m.pruneEpoch * EpochLength /\ b >= m.graceUntil
  BY Zenon DEF EffectiveStatus
<1>2. m.pruneEpoch * EpochLength \in Nat /\ m.graceUntil \in Nat
  BY LeaseAssumption DEF Metas
<1>3. b + 1 >= m.pruneEpoch * EpochLength /\ b + 1 >= m.graceUntil
  BY <1>1, <1>2
<1> QED BY <1>3, Zenon DEF EffectiveStatus

(* A lease that was just closed waits for the next epoch.                  *)
LEMMA ClosedIsExpired ==
    ASSUME LeaseType, NEW m \in Metas
    PROVE  EffectiveStatus(Placed(CloseMeta(m)), currentBlock) = "Expired"
<1> DEFINE p == Placed(CloseMeta(m))
<1>1. currentBlock \in Nat
  BY LeaseAssumption DEF LeaseType
<1>2. /\ p.pruneEpoch = PruneEpoch(currentBlock) /\ p.graceUntil = currentBlock
      /\ p.expireAt = currentBlock
  BY Zenon DEF Placed, CloseMeta, Metas
<1>3. currentBlock < PruneEpoch(currentBlock) * EpochLength
      /\ PruneEpoch(currentBlock) * EpochLength \in Nat
  BY <1>1, EpochAfterGrace, LeaseAssumption
<1> HIDE DEF p
<1> QED BY <1>1, <1>2, <1>3 DEF EffectiveStatus, p

(* No step revives a lease that can be pruned.                             *)
LEMMA ResurrectionStep ==
    ASSUME LeaseInv, [LeaseNext]_leaseVars
    PROVE  NoResurrection
<1>1. LeaseInv'
  BY LeaseNextHolds, Zenon
<1>2. tombs \subseteq tombs' /\ DOMAIN metas' \cap tombs' = {}
  <2>1. tombs \subseteq tombs'
    BY Zenon DEF LeaseNext, leaseVars, Deploy, handleRenew, handleClose, EndLeaseBlock, runPruneSweep,
         StartSweep, PruneEntry, ClearPruneEpoch, StopSweep, FinishSweep, EndSweep, LeaseReverted, Prune
  <2> QED BY <1>1, <2>1, Zenon DEF LeaseInv, Buried
<1>3. ASSUME NEW a \in DOMAIN metas \cap DOMAIN metas',
             EffectiveStatus(metas[a], currentBlock) = "Prunable"
      PROVE  EffectiveStatus(metas'[a], currentBlock') \in {"Expired", "Prunable"}
  <2>1. metas[a] \in Metas /\ currentBlock \in Nat /\ LeaseType
    BY TableFields, LeaseAssumption DEF LeaseInv, LeaseType
  <2>2. CASE metas'[a] = metas[a] /\ currentBlock' = currentBlock
    BY <1>3, <2>2, Zenon
  <2>3. CASE metas'[a] = metas[a] /\ currentBlock' = currentBlock + 1
    BY <1>3, <2>1, <2>3, StaysPrunable, Zenon
  <2>4. ASSUME NEW x \in LeaseAddrs, NEW b \in LeaseBlocks, Deploy(x, b)
        PROVE  metas'[a] = metas[a] /\ currentBlock' = currentBlock
    BY <1>3, <2>4, Zenon DEF Deploy, ScheduleMeta, WriteMeta
  <2>5. ASSUME NEW x \in LeaseAddrs, NEW b \in LeaseBlocks, handleRenew(x, b)
        PROVE  metas'[a] = metas[a] /\ currentBlock' = currentBlock
    <3>1. x # a
      BY <1>3, <2>5, Zenon DEF handleRenew, Renewable
    <3> QED BY <1>3, <2>5, <3>1, Zenon DEF handleRenew, ScheduleMeta, WriteMeta
  <2>6. ASSUME NEW x \in LeaseAddrs, handleClose(x)
        PROVE  EffectiveStatus(metas'[a], currentBlock') \in {"Expired", "Prunable"}
    <3>1. CASE x = a
      <4>1. metas'[a] = Placed(CloseMeta(metas[a])) /\ currentBlock' = currentBlock
        BY <2>6, <3>1, Zenon DEF handleClose, ScheduleMeta, WriteMeta
      <4> QED BY <2>1, <4>1, ClosedIsExpired, Zenon
    <3>2. CASE x # a
      <4>1. metas'[a] = metas[a] /\ currentBlock' = currentBlock
        BY <1>3, <2>6, <3>2, Zenon DEF handleClose, ScheduleMeta, WriteMeta
      <4> QED BY <2>2, <4>1, Zenon
    <3> QED BY <3>1, <3>2, Zenon
  <2>7. CASE PruneEntry
    <3>1. metas'[a] = metas[a] /\ currentBlock' = currentBlock
      BY <1>3, <2>7, Zenon DEF PruneEntry, Prune
    <3> QED BY <2>2, <3>1, Zenon
  <2>8. CASE StartSweep \/ ClearPruneEpoch \/ UNCHANGED leaseVars
    BY <2>2, <2>8, Zenon DEF StartSweep, ClearPruneEpoch, leaseVars
  <2>9. CASE EndLeaseBlock \/ StopSweep \/ FinishSweep
    BY <2>3, <2>9, Zenon DEF EndLeaseBlock, StopSweep, FinishSweep, EndSweep
  <2> QED BY <2>2, <2>4, <2>5, <2>6, <2>7, <2>8, <2>9, Zenon DEF LeaseNext, runPruneSweep, LeaseReverted
<1> QED BY <1>2, <1>3, Zenon DEF NoResurrection

(* A lease queued for a later epoch cannot be pruned yet.                  *)
LEMMA LaterIsNotPrunable ==
    ASSUME LeaseType, NEW m \in Metas, m.pruneEpoch > currentEpoch
    PROVE  EffectiveStatus(m, currentBlock) # "Prunable"
<1>1. m.pruneEpoch \in Nat /\ currentEpoch \in Nat
      /\ (m.pruneEpoch <= currentEpoch <=> currentBlock >= m.pruneEpoch * EpochLength)
  BY BlockInEpoch, Zenon DEF Metas
<1> QED BY <1>1 DEF EffectiveStatus

(* A sweep that ends below its budget has met every lease it had to.       *)
LEMMA CompleteStep ==
    ASSUME LeaseInv, [LeaseNext]_leaseVars
    PROVE  SweepIsComplete
<1> SUFFICES ASSUME sweeping, ~sweeping', swept < Budget, NEW a \in DOMAIN metas'
             PROVE  EffectiveStatus(metas'[a], currentBlock) # "Prunable"
  BY Zenon DEF SweepIsComplete
<1>1. FinishSweep
  <2>1. StopSweep \/ FinishSweep
    BY Zenon DEF LeaseNext, leaseVars, sweepVars, Deploy, handleRenew, handleClose, EndLeaseBlock,
           runPruneSweep, StartSweep, PruneEntry, ClearPruneEpoch, LeaseReverted
  <2>2. ~StopSweep
    BY LeaseAssumption DEF StopSweep, SweepLimit, LeaseInv, LeaseType
  <2> QED BY <2>1, <2>2, Zenon
<1>2. metas' = metas /\ epoch > currentEpoch
  BY <1>1, Zenon DEF FinishSweep, EndSweep
<1>3. /\ metas[a] \in Metas /\ LeaseType /\ metas[a].pruneEpoch \in Nat /\ epoch \in Nat
      /\ currentEpoch \in Nat
  BY <1>2, TableFields, BlockInEpoch, Zenon DEF LeaseInv, LeaseType
<1>4. metas[a].pruneEpoch >= epoch
  BY <1>2, Zenon DEF LeaseInv, EveryLeaseQueued
<1>5. metas[a].pruneEpoch > currentEpoch
  BY <1>2, <1>3, <1>4
<1> QED BY <1>2, <1>3, <1>5, LaterIsNotPrunable, Zenon

(* Every step of the registry, for all constants: pruning waits for the    *)
(* grace window, a prunable or pruned lease never comes back, and a sweep  *)
(* below its budget is complete (runPruneSweep, handleRenew,               *)
(* EffectiveStatus).                                                       *)
THEOREM LeaseStepsHold == LeaseSpec => LeaseSteps
<1>1. LeaseInv /\ [LeaseNext]_leaseVars => [PrunedAfterGrace /\ NoResurrection /\ SweepIsComplete]_leaseVars
  BY GraceStep, ResurrectionStep, CompleteStep, Zenon
<1> QED BY <1>1, LeaseInitHolds, LeaseNextHolds, PTL DEF LeaseSpec, LeaseSteps

-----------------------------------------------------------------------------
RegistryInv == TypeOK /\ RegistryCoherent

(* The statuses are different.                                             *)
LEMMA StatusesDiffer ==
    /\ Inactive # Active
    /\ Inactive # Maintenance
    /\ Active # Maintenance
    /\ MaintenanceExpired \notin {Inactive, Active, Maintenance}
  BY Zenon DEF Inactive, Active, Maintenance, MaintenanceExpired

\* Appending an address that is not listed keeps the list free of duplicates
\* and adds just that address to it.
LEMMA AppendFresh ==
    ASSUME NEW S, NEW list \in Seq(S), NEW v \in S,
           IsInjective(list), v \notin Range(list)
    PROVE  /\ Append(list, v) \in Seq(S)
           /\ Range(Append(list, v)) = Range(list) \cup {v}
           /\ IsInjective(Append(list, v))
<1> DEFINE new == Append(list, v)
<1>1. /\ new \in Seq(S) /\ DOMAIN list = 1 .. Len(list) /\ Len(list) \in Nat
      /\ DOMAIN new = 1 .. (Len(list) + 1)
      /\ new[Len(list) + 1] = v
      /\ \A i \in 1 .. Len(list) : new[i] = list[i]
  OBVIOUS
<1> HIDE DEF new
<1>2. Range(new) = Range(list) \cup {v}
  <2>1. ASSUME NEW x \in Range(new) PROVE x \in Range(list) \cup {v}
    <3>1. PICK i \in 1 .. (Len(list) + 1) : x = new[i]
      BY <1>1, <2>1, Zenon DEF Range
    <3>2. CASE i = Len(list) + 1
      BY <1>1, <3>1, <3>2, Zenon
    <3>3. CASE i \in 1 .. Len(list)
      BY <1>1, <3>1, <3>3, Zenon DEF Range
    <3> QED BY <1>1, <3>1, <3>2, <3>3
  <2>2. ASSUME NEW x \in Range(list) PROVE x \in Range(new)
    <3>1. PICK i \in 1 .. Len(list) : x = list[i]
      BY <1>1, <2>2, Zenon DEF Range
    <3>2. i \in 1 .. (Len(list) + 1) /\ x = new[i]
      BY <1>1, <3>1
    <3> QED BY <1>1, <3>2, Zenon DEF Range
  <2>3. v \in Range(new)
    <3>1. Len(list) + 1 \in 1 .. (Len(list) + 1)
      BY <1>1
    <3> QED BY <1>1, <3>1, Zenon DEF Range
  <2> QED BY <2>1, <2>2, <2>3, Zenon
<1>3. ASSUME NEW i \in DOMAIN new, NEW j \in DOMAIN new, new[i] = new[j]
      PROVE  i = j
  <2>1. ASSUME NEW k \in 1 .. Len(list) PROVE list[k] # v
    BY <1>1, <2>1, Zenon DEF Range
  <2>2. CASE i \in 1 .. Len(list) /\ j \in 1 .. Len(list)
    BY <1>1, <1>3, <2>2, Zenon DEF IsInjective
  <2>3. CASE i = Len(list) + 1
    BY <1>1, <1>3, <2>1, <2>3
  <2>4. CASE j = Len(list) + 1
    BY <1>1, <1>3, <2>1, <2>4
  <2> QED BY <1>1, <2>2, <2>3, <2>4
<1>4. IsInjective(new)
  BY <1>3, Zenon DEF IsInjective
<1> QED BY <1>1, <1>2, <1>4, Zenon DEF new

(* The invariant holds at first.                                           *)
LEMMA InitInv == Init => RegistryInv
<1> SUFFICES ASSUME Init PROVE RegistryInv
  BY Zenon
<1>1. TypeOK
  <2>1. fellBack \in BOOLEAN
    BY Zenon DEF Init
  <2>2. /\ balance \in [Addresses -> Nat] /\ vault \in Nat /\ selfStake \in [Addresses -> Nat]
        /\ status \in [Addresses -> {Inactive, Active, Maintenance}]
        /\ maintenanceSince \in [Addresses -> Nat]
    BY RegistryConfigAssumption, Zenon DEF Init
  <2>3. /\ registered \in SUBSET Addresses /\ validatorList \in Seq(Addresses)
        /\ number \in Nat \ {0} /\ proposers \in SUBSET Addresses
    BY RegistryConfigAssumption DEF Init
  <2> QED BY <2>1, <2>2, <2>3, Zenon DEF TypeOK
<1>2. Range(validatorList) = registered /\ IsInjective(validatorList)
  BY DEF Init, Range, IsInjective
<1>3. RegistryCoherent
  BY <1>1, <1>2, StatusesDiffer DEF Init, RegistryCoherent, TypeOK
<1> QED BY <1>1, <1>3, Zenon DEF RegistryInv

(* VALIDATOR_REGISTER keeps it.                                            *)
LEMMA RegisterInv ==
    ASSUME RegistryInv, NEW v \in Addresses, NEW value \in Values, handleRegister(v, value)
    PROVE  RegistryInv'
<1>1. value \in Nat /\ value >= MinValidatorStake /\ MinValidatorStake \in Nat \ {0}
  BY RegistryConfigAssumption, Zenon DEF handleRegister
<1>2. balance' \in [Addresses -> Nat] /\ vault' \in Nat
  <2>1. balance[v] \in Nat /\ balance[v] - value \in Nat
    BY <1>1 DEF handleRegister, CanTransfer, RegistryInv, TypeOK
  <2> QED BY <1>1, <2>1 DEF handleRegister, RegistryInv, TypeOK
<1>3. /\ validatorList' \in Seq(Addresses) /\ registered' = registered \cup {v}
      /\ Range(validatorList') = registered' /\ IsInjective(validatorList')
  <2>1. CASE v \in registered
    BY <2>1, Zenon DEF handleRegister, AppendOnce, RegistryInv, TypeOK, RegistryCoherent
  <2>2. CASE v \notin registered
    <3>1. validatorList' = Append(validatorList, v) /\ registered' = registered \cup {v}
      BY <2>2, Zenon DEF handleRegister, AppendOnce
    <3>2. validatorList \in Seq(Addresses) /\ IsInjective(validatorList)
          /\ Range(validatorList) = registered
      BY Zenon DEF RegistryInv, TypeOK, RegistryCoherent
    <3> QED BY <2>2, <3>1, <3>2, AppendFresh
  <2> QED BY <2>1, <2>2, Zenon
<1>4. TypeOK'
  BY <1>1, <1>2, <1>3, Zenon DEF handleRegister, RegistryInv, TypeOK
<1>5. ASSUME NEW w \in Addresses
      PROVE  /\ status'[w] # Inactive <=> selfStake'[w] # 0
             /\ selfStake'[w] # 0 => selfStake'[w] >= MinValidatorStake /\ w \in registered'
             /\ maintenanceSince'[w] # 0 <=> status'[w] = Maintenance
             /\ maintenanceSince'[w] <= number'
  <2>1. CASE w = v
    BY <1>1, <1>3, <2>1, StatusesDiffer DEF handleRegister, RegistryInv, TypeOK
  <2>2. CASE w # v
    BY <1>3, <2>2, Zenon DEF handleRegister, RegistryInv, TypeOK, RegistryCoherent
  <2> QED BY <2>1, <2>2, Zenon
<1>6. RegistryCoherent'
  BY <1>3, <1>5, Zenon DEF RegistryCoherent
<1> QED BY <1>4, <1>6, Zenon DEF RegistryInv

(* VALIDATOR_WITHDRAW keeps it.                                            *)
LEMMA WithdrawInv ==
    ASSUME RegistryInv, NEW v \in Addresses, handleWithdraw(v)
    PROVE  RegistryInv'
<1>1. balance' \in [Addresses -> Nat] /\ vault' \in Nat
  BY DEF handleWithdraw, RegistryInv, TypeOK
<1>2. TypeOK'
  BY <1>1, Zenon DEF handleWithdraw, StakeCleared, RegistryInv, TypeOK
<1>3. ASSUME NEW w \in Addresses
      PROVE  /\ status'[w] # Inactive <=> selfStake'[w] # 0
             /\ selfStake'[w] # 0 => selfStake'[w] >= MinValidatorStake /\ w \in registered'
             /\ maintenanceSince'[w] # 0 <=> status'[w] = Maintenance
             /\ maintenanceSince'[w] <= number'
  <2>1. CASE w = v
    BY <2>1, StatusesDiffer DEF handleWithdraw, StakeCleared, RegistryInv, TypeOK
  <2>2. CASE w # v
    BY <2>2, Zenon DEF handleWithdraw, StakeCleared, RegistryInv, TypeOK, RegistryCoherent
  <2> QED BY <2>1, <2>2, Zenon
<1>4. Range(validatorList') = registered' /\ IsInjective(validatorList')
  BY Zenon DEF handleWithdraw, RegistryInv, RegistryCoherent
<1> QED BY <1>2, <1>3, <1>4, Zenon DEF RegistryInv, RegistryCoherent

\* Entering and leaving maintenance change a status and the block it dates from.
LEMMA MaintenanceInv ==
    ASSUME RegistryInv, NEW v \in Addresses,
           handleEnterMaintenance(v) \/ handleExitMaintenance(v)
    PROVE  RegistryInv'
<1>1. /\ UNCHANGED <<balance, vault, selfStake, registered, validatorList, number, proposers, fellBack>>
      /\ status[v] # Inactive
      /\ \/ /\ status' = [status EXCEPT ![v] = Maintenance]
            /\ maintenanceSince' = [maintenanceSince EXCEPT ![v] = number]
         \/ /\ status' = [status EXCEPT ![v] = Active]
            /\ maintenanceSince' = [maintenanceSince EXCEPT ![v] = 0]
  BY StatusesDiffer, Zenon DEF handleEnterMaintenance, handleExitMaintenance, MayExit
<1>2. number \in Nat \ {0}
  BY Zenon DEF RegistryInv, TypeOK
<1>3. TypeOK'
  <2>1. status' \in [Addresses -> {Inactive, Active, Maintenance}]
    BY <1>1, Zenon DEF RegistryInv, TypeOK
  <2>2. maintenanceSince' \in [Addresses -> Nat]
    <3>1. maintenanceSince \in [Addresses -> Nat]
      BY Zenon DEF RegistryInv, TypeOK
    <3>2. CASE maintenanceSince' = [maintenanceSince EXCEPT ![v] = number]
      BY <1>2, <3>1, <3>2, Zenon
    <3>3. CASE maintenanceSince' = [maintenanceSince EXCEPT ![v] = 0]
      BY <3>1, <3>3, Zenon
    <3> QED BY <1>1, <3>2, <3>3, Zenon
  <2> QED BY <1>1, <2>1, <2>2, Zenon DEF RegistryInv, TypeOK
<1>4. ASSUME NEW w \in Addresses
      PROVE  /\ status'[w] # Inactive <=> selfStake'[w] # 0
             /\ selfStake'[w] # 0 => selfStake'[w] >= MinValidatorStake /\ w \in registered'
             /\ maintenanceSince'[w] # 0 <=> status'[w] = Maintenance
             /\ maintenanceSince'[w] <= number'
  <2>1. CASE w = v
    BY <1>1, <1>2, <2>1, StatusesDiffer DEF RegistryInv, TypeOK, RegistryCoherent
  <2>2. CASE w # v
    BY <1>1, <2>2, Zenon DEF RegistryInv, TypeOK, RegistryCoherent
  <2> QED BY <2>1, <2>2, Zenon
<1>5. Range(validatorList') = registered' /\ IsInjective(validatorList')
  BY <1>1, Zenon DEF RegistryInv, RegistryCoherent
<1> QED BY <1>3, <1>4, <1>5, Zenon DEF RegistryInv, RegistryCoherent

(* A transfer keeps it.                                                    *)
LEMMA TransferInv ==
    ASSUME RegistryInv, NEW v \in Addresses, NEW value \in Values, Transfer(v, value)
    PROVE  RegistryInv'
<1>1. balance' \in [Addresses -> Nat] /\ vault' \in Nat
  <2>1. value \in Nat /\ balance[v] - value \in Nat
    BY RegistryConfigAssumption DEF Transfer, CanTransfer, RegistryInv, TypeOK
  <2> QED BY <2>1 DEF Transfer, RegistryInv, TypeOK
<1> QED BY <1>1, Zenon DEF Transfer, RegistryInv, TypeOK, RegistryCoherent

(* The next block keeps it.                                                *)
LEMMA NextBlockInv ==
    ASSUME RegistryInv, NextBlock
    PROVE  RegistryInv'
<1>1. proposers' \in SUBSET Addresses /\ fellBack' \in BOOLEAN
  <2>1. CASE number' % Epoch = 0
    <3>1. Range(validatorList) \subseteq Addresses
      BY Zenon DEF RegistryInv, TypeOK, RegistryCoherent
    <3>2. ReadActiveValidatorsAtBlock(number') \subseteq Range(validatorList)
      BY Zenon DEF ReadActiveValidatorsAtBlock
    <3>3. expectedEpochValidators(number') \subseteq Addresses
      BY <3>1, <3>2, Zenon DEF expectedEpochValidators, RegistryInv, TypeOK
    <3> QED BY <2>1, <3>3, Zenon DEF NextBlock
  <2>2. CASE number' % Epoch # 0
    BY <2>2, Zenon DEF NextBlock, RegistryInv, TypeOK
  <2> QED BY <2>1, <2>2, Zenon
<1>2. number' \in Nat \ {0} /\ number' > number
  BY DEF NextBlock, RegistryInv, TypeOK
<1>3. UNCHANGED <<balance, vault, selfStake, status, maintenanceSince, registered, validatorList>>
  BY Zenon DEF NextBlock
<1>4. TypeOK'
  BY <1>1, <1>2, <1>3, Zenon DEF RegistryInv, TypeOK
<1>5. RegistryCoherent'
  BY <1>2, <1>3 DEF RegistryInv, TypeOK, RegistryCoherent
<1> QED BY <1>4, <1>5, Zenon DEF RegistryInv

(* Every step keeps it.                                                    *)
LEMMA NextInv == RegistryInv /\ [Next]_vars => RegistryInv'
<1> SUFFICES ASSUME RegistryInv, [Next]_vars PROVE RegistryInv'
  BY Zenon
<1>1. CASE NextBlock
  BY <1>1, NextBlockInv, Zenon
<1>2. CASE UNCHANGED vars
  BY <1>2, Zenon DEF vars, RegistryInv, TypeOK, RegistryCoherent
<1>3. ASSUME NEW v \in Addresses, SystemAction(v) PROVE RegistryInv'
  BY <1>3, RegisterInv, WithdrawInv, MaintenanceInv, TransferInv, Zenon DEF SystemAction
<1> QED BY <1>1, <1>2, <1>3, Zenon DEF Next, Reverted

-----------------------------------------------------------------------------
(* Theorems about every behaviour. *)

(* It is an invariant.                                                     *)
LEMMA Invariance == Spec => []RegistryInv
  BY InitInv, NextInv, PTL DEF Spec

\* Balances, stakes and the registry's account never go negative and every
\* field keeps its shape.
THEOREM TypeCorrect == Spec => []TypeOK
<1>1. RegistryInv => TypeOK
  BY Zenon DEF RegistryInv
<1> QED BY <1>1, Invariance, PTL

\* Stake, status, maintenance block, registered flag and the append-only list
\* agree after any sequence of registrations, withdrawals and maintenance.
THEOREM RegistryStaysCoherent == Spec => []RegistryCoherent
<1>1. RegistryInv => RegistryCoherent
  BY Zenon DEF RegistryInv
<1> QED BY <1>1, Invariance, PTL

\* A maintenance that overstayed its window is final: no step makes the
\* validator active again, short of a withdrawal and a new registration.
THEOREM ExpiryIsFinal == Spec => ExpiredStaysOut
<1> DEFINE Out == \A v \in Addresses :
                     status[v] = Maintenance /\ number >= maintenanceSince[v] + MaintenanceMaxBlocks
                         => status'[v] # Active
<1>1. RegistryInv /\ [Next]_vars => Out
  <2> SUFFICES ASSUME RegistryInv, [Next]_vars, NEW v \in Addresses,
                      status[v] = Maintenance,
                      number >= maintenanceSince[v] + MaintenanceMaxBlocks,
                      status'[v] = Active
               PROVE  FALSE
    BY Zenon
  <2>1. /\ selfStake[v] # 0 /\ maintenanceSince[v] # 0
        /\ maintenanceSince[v] \in Nat /\ number \in Nat \ {0}
        /\ MaintenanceMaxBlocks \in Nat \ {0}
        /\ status \in [Addresses -> {Inactive, Active, Maintenance}]
    BY StatusesDiffer, RegistryConfigAssumption, Zenon DEF RegistryInv, TypeOK, RegistryCoherent
  <2>2. ReadEffectiveValidatorStatus(v, number) = MaintenanceExpired
    BY <2>1 DEF ReadEffectiveValidatorStatus
  <2>3. status' # status
    BY StatusesDiffer, Zenon
  <2>4. PICK w \in Addresses : SystemAction(w)
    BY <2>3, Zenon DEF Next, NextBlock, Reverted, vars
  <2>5. ASSUME NEW value \in Values, handleRegister(w, value) PROVE FALSE
    <3>1. w = v
      BY <2>1, <2>5, StatusesDiffer, Zenon DEF handleRegister
    <3> QED BY <2>1, <2>5, <3>1, Zenon DEF handleRegister
  <2>6. CASE handleWithdraw(w)
    BY <2>1, <2>6, StatusesDiffer, Zenon DEF handleWithdraw
  <2>7. CASE handleEnterMaintenance(w)
    BY <2>1, <2>7, StatusesDiffer, Zenon DEF handleEnterMaintenance
  <2>8. CASE handleExitMaintenance(w)
    <3>1. w = v
      BY <2>1, <2>8, StatusesDiffer, Zenon DEF handleExitMaintenance
    <3> QED BY <2>2, <2>8, <3>1, Zenon DEF handleExitMaintenance, MayExit
  <2>9. ASSUME NEW value \in Values, Transfer(w, value) PROVE FALSE
    BY <2>3, <2>9, Zenon DEF Transfer
  <2> QED BY <2>4, <2>5, <2>6, <2>7, <2>8, <2>9, Zenon DEF SystemAction
<1>2. Spec => [][Out]_vars
  BY <1>1, Invariance, PTL DEF Spec
<1> QED BY <1>2, Zenon DEF ExpiredStaysOut

-----------------------------------------------------------------------------
(* The registry's account covers the stakes: vault - total never drops.    *)

(* No stake is owed at first.                                              *)
LEMMA StakeBackedInit == Init => StakeBacked
<1> SUFFICES ASSUME Init PROVE StakeBacked
  BY Zenon
<1> DEFINE zero == [v \in Addresses |-> 0]
<1>1. IsFiniteSet(Addresses) /\ selfStake = zero /\ vault = 0
  BY RegistryConfigAssumption, Zenon DEF Init
<1>2. SumFunctionOnSet(zero, Addresses) = 0
  BY <1>1, SumZero, Zenon
<1>3. SumFunctionOnSet(selfStake, Addresses) = SumFunctionOnSet(zero, Addresses)
  BY <1>1, Zenon
<1> QED BY <1>1, <1>2, <1>3 DEF StakeBacked

(* Every step keeps the stakes backed.                                     *)
LEMMA StakeBackedNext ==
    ASSUME RegistryInv, StakeBacked, [Next]_vars
    PROVE  StakeBacked'
<1> DEFINE total == SumFunctionOnSet(selfStake, Addresses)
           totalNext == SumFunctionOnSet(selfStake', Addresses)
<1>1. /\ IsFiniteSet(Addresses) /\ selfStake \in [Addresses -> Nat] /\ vault \in Nat
      /\ Values \subseteq Nat
  BY RegistryConfigAssumption, Zenon DEF RegistryInv, TypeOK
<1>2. total \in Nat
  BY <1>1, SumNat, Zenon
<1>3. vault >= total
  BY Zenon DEF StakeBacked
<1>4. ASSUME NEW v \in Addresses, NEW amount \in Nat,
             selfStake' = [selfStake EXCEPT ![v] = amount]
      PROVE  totalNext = total - selfStake[v] + amount
  <2>1. /\ \A w \in Addresses : selfStake[w] \in Int /\ selfStake'[w] \in Int
        /\ \A w \in Addresses \ {v} : selfStake'[w] = selfStake[w]
        /\ selfStake'[v] = amount
    BY <1>1, <1>4
  <2> HIDE DEF total, totalNext
  <2>2. SumFunctionOnSet(selfStake', Addresses) =
            SumFunctionOnSet(selfStake, Addresses) - selfStake[v] + selfStake'[v]
    BY <1>1, <2>1, SumChange
  <2> QED BY <2>1, <2>2, Zenon DEF total, totalNext
<1> HIDE DEF total, totalNext
<1>5. ASSUME NEW v \in Addresses, NEW value \in Values, handleRegister(v, value)
      PROVE  vault' >= totalNext
  <2>1. selfStake[v] = 0 /\ vault' = vault + value /\ selfStake' = [selfStake EXCEPT ![v] = value]
    BY <1>5, Zenon DEF handleRegister
  <2>2. totalNext = total - 0 + value
    BY <1>1, <1>4, <2>1, Zenon
  <2> QED BY <1>1, <1>2, <1>3, <2>1, <2>2
<1>6. ASSUME NEW v \in Addresses, handleWithdraw(v)
      PROVE  vault' >= totalNext
  <2>1. vault' = vault - selfStake[v] /\ selfStake' = [selfStake EXCEPT ![v] = 0]
    BY <1>6, Zenon DEF handleWithdraw, StakeCleared
  <2>2. totalNext = total - selfStake[v] + 0
    BY <1>4, <2>1, Zenon
  <2>3. selfStake[v] \in Nat
    BY <1>1, Zenon
  <2> QED BY <1>1, <1>2, <1>3, <2>1, <2>2, <2>3
<1>7. ASSUME selfStake' = selfStake, vault' \in Nat, vault' >= vault PROVE vault' >= totalNext
  <2>1. totalNext = total
    BY <1>7, Zenon DEF total, totalNext
  <2> QED BY <1>1, <1>2, <1>3, <1>7, <2>1
<1>8. ASSUME NEW v \in Addresses, NEW value \in Values, Transfer(v, value)
      PROVE  selfStake' = selfStake /\ vault' \in Nat /\ vault' >= vault
  BY <1>1, <1>8 DEF Transfer
<1>9. ASSUME NextBlock \/ UNCHANGED vars
             \/ \E v \in Addresses : handleEnterMaintenance(v) \/ handleExitMaintenance(v)
      PROVE  selfStake' = selfStake /\ vault' \in Nat /\ vault' >= vault
  BY <1>1, <1>9 DEF NextBlock, vars, handleEnterMaintenance, handleExitMaintenance
<1>10. vault' >= totalNext
  BY <1>5, <1>6, <1>7, <1>8, <1>9, Zenon DEF Next, Reverted, SystemAction
<1> QED BY <1>10, Zenon DEF StakeBacked, totalNext

-----------------------------------------------------------------------------
(* The order of the sort is strict and total, so that the truncated list   *)
(* has at most MaxValidators entries.                                      *)

(* The order of ReadActiveValidatorsAtBlock is a strict total order.       *)
LEMMA OrderIsTotal ==
    ASSUME TypeOK
    PROVE  /\ \A v, w \in Addresses : v = w \/ Precedes(v, w) \/ Precedes(w, v)
           /\ \A u, v, w \in Addresses : Precedes(u, v) /\ Precedes(v, w) => Precedes(u, w)
           /\ \A v \in Addresses : ~Precedes(v, v)
<1>1. Addresses \subseteq Nat /\ \A v \in Addresses : selfStake[v] \in Nat
  BY RegistryConfigAssumption, Zenon DEF TypeOK
<1>2. \A v, w \in Addresses : v = w \/ Precedes(v, w) \/ Precedes(w, v)
  BY <1>1 DEF Precedes
<1>3. ASSUME NEW u \in Addresses, NEW v \in Addresses, NEW w \in Addresses,
             Precedes(u, v), Precedes(v, w)
      PROVE  Precedes(u, w)
  BY <1>1, <1>3 DEF Precedes
<1>4. \A v \in Addresses : ~Precedes(v, v)
  BY <1>1 DEF Precedes
<1> QED BY <1>2, <1>3, <1>4, Zenon

\* Some entry comes last.
LEMMA LastEntry ==
    ASSUME TypeOK, NEW S, S \subseteq Addresses, S # {}
    PROVE  \E v \in S : \A w \in S : w = v \/ Precedes(w, v)
<1> DEFINE HasLast(U) == \E v \in U : \A w \in U : w = v \/ Precedes(w, v)
           B == {U \in SUBSET Addresses : U # {} /\ ~HasLast(U)}
<1> SUFFICES ASSUME B # {} PROVE FALSE
  BY Zenon
<1>1. IsFiniteSet(Addresses) /\ B \subseteq SUBSET Addresses
  BY RegistryConfigAssumption, Zenon
<1>2. PICK U \in B : \A V \in B : ~(V \subseteq U /\ V # U)
  <2> HIDE DEF B
  <2> QED BY <1>1, SmallestSet
<1>3. PICK e \in U : TRUE
  BY Zenon
<1>4. CASE U \ {e} = {}
  <2>1. \A w \in U : w = e
    BY <1>4, Zenon
  <2> QED BY <1>3, <2>1, Zenon
<1>5. CASE U \ {e} # {}
  <2>1. U \ {e} \in SUBSET Addresses /\ U \ {e} \subseteq U /\ U \ {e} # U
    BY <1>3, Zenon
  <2>2. HasLast(U \ {e})
    BY <1>2, <1>5, <2>1, Zenon
  <2>3. PICK v \in U \ {e} : \A w \in U \ {e} : w = v \/ Precedes(w, v)
    BY <2>2, Zenon
  <2>4. v \in Addresses /\ e \in Addresses /\ U \subseteq Addresses
    BY Zenon
  <2>5. CASE Precedes(e, v)
    BY <2>3, <2>5, Zenon
  <2>6. CASE Precedes(v, e)
    <3>1. \A w \in U : w = e \/ Precedes(w, e)
      BY <2>3, <2>4, <2>6, OrderIsTotal, Zenon
    <3> QED BY <1>3, <3>1, Zenon
  <2> QED BY <2>4, <2>5, <2>6, OrderIsTotal, Zenon
<1> QED BY <1>4, <1>5, Zenon

(* At most MaxValidators are selected.                                     *)
LEMMA SelectionBounded ==
    ASSUME RegistryInv, NEW n
    PROVE  Cardinality(ReadActiveValidatorsAtBlock(n)) <= MaxValidators
<1> DEFINE actives == {v \in Range(validatorList) : ReadEffectiveValidatorStatus(v, n) = Active}
           before(v) == {w \in actives : Precedes(w, v)}
           chosen == {v \in actives : Cardinality(before(v)) < MaxValidators}
<1>1. /\ actives \subseteq Addresses /\ chosen \subseteq Addresses
      /\ IsFiniteSet(Addresses) /\ MaxValidators \in Nat \ {0}
      /\ ReadActiveValidatorsAtBlock(n) = chosen
  BY RegistryConfigAssumption, Zenon
     DEF RegistryInv, TypeOK, RegistryCoherent, ReadActiveValidatorsAtBlock
<1>2. IsFiniteSet(actives) /\ IsFiniteSet(chosen)
  BY <1>1, FS_Subset, Zenon
<1>3. CASE chosen = {}
  <2>1. Cardinality(chosen) = 0
    BY <1>3, FS_EmptySet, Zenon
  <2> QED BY <1>1, <2>1
<1>4. CASE chosen # {}
  <2>1. PICK v \in chosen : \A w \in chosen : w = v \/ Precedes(w, v)
    <3> HIDE DEF chosen
    <3> QED BY <1>1, <1>4, LastEntry, Zenon DEF RegistryInv
  <2>2. chosen \ {v} \subseteq before(v)
    BY <2>1, Zenon
  <2>3. IsFiniteSet(before(v))
    <3>1. before(v) \subseteq actives
      BY Zenon
    <3> QED BY <1>2, <3>1, FS_Subset, Zenon
  <2>4. Cardinality(before(v)) \in Nat /\ Cardinality(before(v)) < MaxValidators
    <3>1. Cardinality(before(v)) < MaxValidators
      BY <2>1, Zenon
    <3> QED BY <2>3, <3>1, FS_CardinalityType, Zenon
  <2> HIDE DEF chosen, before
  <2>5. /\ Cardinality(chosen \ {v}) \in Nat
        /\ Cardinality(chosen \ {v}) <= Cardinality(before(v))
    BY <2>2, <2>3, FS_Subset, FS_CardinalityType, Zenon
  <2>6. Cardinality(chosen \ {v}) = Cardinality(chosen) - 1 /\ Cardinality(chosen) \in Nat
    BY <1>2, <2>1, FS_RemoveElement, FS_CardinalityType, Zenon
  <2> QED BY <1>1, <2>4, <2>5, <2>6
<1> QED BY <1>3, <1>4, Zenon

(* Every step leaves proposers, and not too many.                          *)
LEMMA ProposersBoundedNext ==
    ASSUME RegistryInv, ProposersBounded, [Next]_vars
    PROVE  ProposersBounded'
<1>1. CASE proposers' = proposers
  BY <1>1, Zenon DEF ProposersBounded
<1>2. CASE NextBlock /\ number' % Epoch = 0
  <2>1. proposers' = expectedEpochValidators(number')
    BY <1>2, Zenon DEF NextBlock
  <2>2. CASE ReadActiveValidatorsAtBlock(number') = {}
    BY <1>1, <2>1, <2>2, Zenon DEF expectedEpochValidators
  <2>3. CASE ReadActiveValidatorsAtBlock(number') # {}
    <3>1. proposers' = ReadActiveValidatorsAtBlock(number')
      BY <2>1, <2>3, Zenon DEF expectedEpochValidators
    <3>2. Cardinality(ReadActiveValidatorsAtBlock(number')) <= MaxValidators
      BY SelectionBounded, Zenon
    <3>3. Cardinality(proposers') = Cardinality(ReadActiveValidatorsAtBlock(number'))
      BY <3>1, Zenon
    <3> QED BY <2>3, <3>1, <3>2, <3>3, Zenon DEF ProposersBounded
  <2> QED BY <2>2, <2>3, Zenon
<1>3. \/ proposers' = proposers
      \/ NextBlock /\ number' % Epoch = 0
  BY Zenon DEF Next, NextBlock, vars, Reverted, SystemAction, handleRegister, handleWithdraw,
         handleEnterMaintenance, handleExitMaintenance, Transfer
<1> QED BY <1>1, <1>2, <1>3, Zenon

-----------------------------------------------------------------------------
(* The first block of an epoch, number - number % Epoch, changes only when *)
(* an epoch block begins.                                                  *)

(* Every step keeps validators in maintenance drained.                     *)
LEMMA DrainedNext ==
    ASSUME RegistryInv, DrainedByEpoch, [Next]_vars
    PROVE  DrainedByEpoch'
<1> SUFFICES ASSUME NEW v \in Addresses,
                    status'[v] = Maintenance,
                    maintenanceSince'[v] < number' - (number' % Epoch),
                    ~fellBack'
             PROVE  v \notin proposers'
  BY Zenon DEF DrainedByEpoch
<1>1. /\ number \in Nat \ {0} /\ Epoch \in Nat \ {0}
      /\ status \in [Addresses -> {Inactive, Active, Maintenance}]
      /\ maintenanceSince \in [Addresses -> Nat]
  BY RegistryConfigAssumption, Zenon DEF RegistryInv, TypeOK
<1>2. CASE UNCHANGED <<status, maintenanceSince, number, proposers, fellBack>>
  BY <1>2, Zenon DEF DrainedByEpoch
<1>3. CASE NextBlock /\ number' % Epoch = 0
  <2>1. /\ proposers' = expectedEpochValidators(number')
        /\ ReadActiveValidatorsAtBlock(number') # {}
        /\ status' = status
    BY <1>3, Zenon DEF NextBlock
  <2>2. proposers' = ReadActiveValidatorsAtBlock(number')
    BY <2>1, Zenon DEF expectedEpochValidators
  <2>3. ReadEffectiveValidatorStatus(v, number') # Active
    BY <2>1, StatusesDiffer, Zenon DEF ReadEffectiveValidatorStatus
  <2> QED BY <2>2, <2>3, Zenon DEF ReadActiveValidatorsAtBlock
<1>4. CASE NextBlock /\ number' % Epoch # 0
  <2>1. number' = number + 1 /\ UNCHANGED <<status, maintenanceSince, proposers, fellBack>>
    BY <1>4, Zenon DEF NextBlock
  <2>2. (number + 1) - ((number + 1) % Epoch) = number - (number % Epoch)
    BY <1>1, <1>4, <2>1, SameEpoch, Zenon
  <2>3. maintenanceSince[v] < number - (number % Epoch) /\ status[v] = Maintenance /\ ~fellBack
    BY <2>1, <2>2, Zenon
  <2> QED BY <2>1, <2>3, Zenon DEF DrainedByEpoch
<1>5. ASSUME NEW w \in Addresses, NEW s, NEW m,
             /\ status' = [status EXCEPT ![w] = s]
             /\ maintenanceSince' = [maintenanceSince EXCEPT ![w] = m]
             /\ UNCHANGED <<number, proposers, fellBack>>
             /\ s # Maintenance \/ m = number
      PROVE  v \notin proposers'
  <2>1. CASE w = v
    <3>1. s = Maintenance /\ maintenanceSince'[v] = number /\ number' = number
      BY <1>1, <1>5, <2>1, Zenon
    <3>2. number % Epoch >= 0 /\ number % Epoch \in Int
      BY <1>1
    <3> QED BY <1>1, <3>1, <3>2
  <2>2. CASE w # v
    BY <1>1, <1>5, <2>2, Zenon DEF DrainedByEpoch
  <2> QED BY <2>1, <2>2, Zenon
<1>6. ASSUME NEW w \in Addresses, SystemAction(w) PROVE v \notin proposers'
  <2>1. ASSUME NEW value \in Values, handleRegister(w, value) PROVE v \notin proposers'
    BY <1>5, <2>1, StatusesDiffer, Zenon DEF handleRegister
  <2>2. CASE handleWithdraw(w)
    BY <1>5, <2>2, StatusesDiffer, Zenon DEF handleWithdraw
  <2>3. CASE handleEnterMaintenance(w)
    BY <1>5, <2>3, Zenon DEF handleEnterMaintenance
  <2>4. CASE handleExitMaintenance(w)
    BY <1>5, <2>4, StatusesDiffer, Zenon DEF handleExitMaintenance
  <2>5. ASSUME NEW value \in Values, Transfer(w, value) PROVE v \notin proposers'
    BY <1>2, <2>5, Zenon DEF Transfer
  <2> QED BY <1>6, <2>1, <2>2, <2>3, <2>4, <2>5, Zenon DEF SystemAction
<1> QED BY <1>2, <1>3, <1>4, <1>6, Zenon DEF Next, vars, Reverted

\* Every withdrawal can be paid, an epoch's proposers are between one and
\* MaxValidators (or those of the genesis), and a validator in maintenance
\* since before the epoch block is not among them.
THEOREM StakesCount == Spec => []StakeCounts
<1>1. Init => StakeCounts
  <2> SUFFICES ASSUME Init PROVE StakeCounts
    BY Zenon
  <2>1. ProposersBounded
    BY RegistryConfigAssumption, Zenon DEF Init, ProposersBounded
  <2>2. DrainedByEpoch
    BY StatusesDiffer, Zenon DEF Init, DrainedByEpoch
  <2> QED BY <2>1, <2>2, StakeBackedInit, Zenon DEF StakeCounts
<1>2. RegistryInv /\ StakeCounts /\ [Next]_vars => StakeCounts'
  BY StakeBackedNext, ProposersBoundedNext, DrainedNext, Zenon DEF StakeCounts
<1> QED BY <1>1, <1>2, Invariance, PTL DEF Spec

=============================================================================
