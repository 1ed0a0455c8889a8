-------------------------- MODULE ConsensusProofs ---------------------------
(***************************************************************************)
(* Proofs about the engine: DPoSTurns, for every validator set, period,    *)
(* turn length, epoch length and recent-signer window, and VoteEvidence,   *)
(* for any signers, checkpoints, handlers and retention.                   *)
(***************************************************************************)
EXTENDS DPoSTurns, VoteEvidence, Arithmetic

\* A slot is a natural number, one more per whole period.
LEMMA SlotBounds ==
    ASSUME NEW t \in Nat
    PROVE  /\ headerSlot(t) \in Nat
           /\ PeriodMs * headerSlot(t) <= t
           /\ t < PeriodMs * headerSlot(t) + PeriodMs
  BY TurnsAssumption, Z3 DEF headerSlot

\* verifyCascadingFields' comment calls its Rule 1, "slot must strictly advance",
\* "redundant with interval check": a header at least one period after its
\* parent is in a later slot, whatever the period.
THEOREM IntervalAdvancesSlot ==
    ASSUME NEW s \in Nat, NEW t \in Nat, t >= s + PeriodMs
    PROVE  headerSlot(t) > headerSlot(s)
<1> DEFINE p == PeriodMs
           a == headerSlot(s)
           b == headerSlot(t)
<1>1. p \in Nat \ {0} /\ a \in Nat /\ b \in Nat
  BY TurnsAssumption, SlotBounds, Zenon
<1>2. p * a <= s /\ t < p * b + p
  BY SlotBounds, Zenon
<1>3. ASSUME b <= a PROVE p * b <= p * a
  <2>1. PICK d \in Nat : a = b + d
    <3>1. a - b \in Nat /\ a = b + (a - b)
      BY <1>1, <1>3
    <3>2. QED BY <3>1, Zenon
  <2>2. p * a = p * b + p * d
    BY <1>1, <2>1, Z3
  <2>3. p * d \in Nat
    BY <1>1, <2>1, Z3
  <2>4. p * b \in Nat
    BY <1>1, Z3
  <2> QED BY <2>2, <2>3, <2>4
<1>4. p * a \in Nat /\ p * b \in Nat
  BY <1>1, Z3
<1> HIDE DEF p, a, b
<1>5. a < b
  BY <1>1, <1>2, <1>3, <1>4 DEF p
<1> QED BY <1>1, <1>5, Zenon DEF a, b

-----------------------------------------------------------------------------
(* Verification and replay agree. *)

\* Eviction keeps exactly the slots that the recency check looks at.
LEMMA EvictKeepsWindow ==
    ASSUME NEW s, NEW slot, NEW v
    PROVE  /\ Evict(s, slot).Validators = s.Validators
           /\ SeenSlots(Evict(s, slot), slot, v) = SeenSlots(s, slot, v)
<1> DEFINE kept == {t \in DOMAIN s.Recents : t > slot - WindowOf(s)}
           e == Evict(s, slot)
<1>1. e.Validators = s.Validators /\ e.Recents = [t \in kept |-> s.Recents[t]]
  BY Zenon DEF Evict
<1>2. WindowOf(e) = WindowOf(s)
  BY <1>1, Zenon DEF WindowOf
<1>3. DOMAIN e.Recents = kept /\ \A t \in kept : e.Recents[t] = s.Recents[t]
  BY <1>1, Zenon
<1> HIDE DEF e
<1>4. SeenSlots(e, slot, v) = SeenSlots(s, slot, v)
  BY <1>2, <1>3, Zenon DEF SeenSlots
<1> QED BY <1>1, <1>4, Zenon DEF e

\* A seal that verifySeal accepts on the parent snapshot is one that
\* Snapshot.apply accepts after its eviction.
THEOREM VerifiedSealApplies ==
    ASSUME NEW s, NEW h, verifySeal(s, h)
    PROVE  applies(s, h)
<1> DEFINE slot == headerSlot(h.time)
<1>1. /\ Evict(s, slot).Validators = s.Validators
      /\ SeenSlots(Evict(s, slot), slot, h.signer) = SeenSlots(s, slot, h.signer)
  BY EvictKeepsWindow, Zenon
<1> QED BY <1>1, Zenon DEF verifySeal, applies, recentlySignedAt

-----------------------------------------------------------------------------
(* The inductive invariant. *)

TurnsInv == TypeOK /\ PendingFits

\* What Prepare fills in is a header.
LEMMA PreparedType ==
    ASSUME TypeOK, NEW v \in Addresses, NEW time \in Nat
    PROVE  Prepared(v, time) \in
             [sealed : {TRUE}, signer : Addresses, time : Nat,
              difficulty : {diffInTurn, diffNoTurn}, extra : SUBSET Addresses]
<1>1. ExpectedExtra \in SUBSET Addresses
  BY Zenon DEF TypeOK, ExpectedExtra
<1>2. calcDifficultySlot(snap, time, v) \in {diffInTurn, diffNoTurn}
  BY Zenon DEF calcDifficultySlot
<1> QED BY <1>1, <1>2, Zenon DEF Prepared

\* A task that is not idle is a header.
LEMMA SealedHeader ==
    ASSUME TypeOK, NEW v \in Addresses, work[v].sealed
    PROVE  /\ work[v].time \in Nat /\ work[v].signer \in Addresses
           /\ work[v].difficulty \in {diffInTurn, diffNoTurn}
<1>1. Idle.sealed = FALSE
  BY Zenon DEF Idle
<1>2. work[v] # Idle
  BY <1>1, Zenon
<1>3. work[v] \in [sealed : {TRUE}, signer : Addresses, time : Nat,
                   difficulty : {diffInTurn, diffNoTurn}, extra : SUBSET Addresses]
  BY <1>2, Zenon DEF TypeOK
<1> QED BY <1>3, Zenon

\* Prepare leaves a period after the parent.
LEMMA PreparedTimeOK ==
    ASSUME TypeOK
    PROVE  PreparedTime \in Nat /\ PreparedTime >= parent.time + PeriodMs
  BY TurnsAssumption DEF TypeOK, PreparedTime

\* Eviction leaves a snapshot.
LEMMA EvictType ==
    ASSUME NEW s, NEW slot,
           DOMAIN s.Recents \subseteq Nat, s.Recents \in [DOMAIN s.Recents -> Addresses]
    PROVE  LET e == Evict(s, slot)
           IN  /\ e = [Validators |-> e.Validators, Recents |-> e.Recents]
               /\ e.Validators = s.Validators
               /\ DOMAIN e.Recents \subseteq Nat
               /\ e.Recents \in [DOMAIN e.Recents -> Addresses]
  BY Zenon DEF Evict

\* Recording a signer leaves a snapshot.
LEMMA RecordType ==
    ASSUME NEW s, NEW slot \in Nat, NEW v \in Addresses,
           DOMAIN s.Recents \subseteq Nat, s.Recents \in [DOMAIN s.Recents -> Addresses]
    PROVE  LET e == Record(s, slot, v)
           IN  /\ e = [Validators |-> e.Validators, Recents |-> e.Recents]
               /\ e.Validators = s.Validators
               /\ DOMAIN e.Recents \subseteq Nat
               /\ e.Recents \in [DOMAIN e.Recents -> Addresses]
  BY Zenon DEF Record

\* Adopting a well-formed header with the expected epoch list keeps the
\* invariant: an epoch never leaves the snapshot without validators.
LEMMA AdoptInv ==
    ASSUME TypeOK, NEW h, h.time \in Nat, h.signer \in Addresses,
           h.extra = ExpectedExtra, Adopt(h)
    PROVE  TurnsInv'
<1> DEFINE slot == headerSlot(h.time)
           e == Evict(snap, slot)
           c == Record(e, slot, h.signer)
           n == [Validators |-> h.extra, Recents |-> c.Recents]
           x == Evict(n, slot)
<1>1. slot \in Nat
  BY SlotBounds, Zenon
<1>2. /\ e.Validators = snap.Validators /\ DOMAIN e.Recents \subseteq Nat
      /\ e.Recents \in [DOMAIN e.Recents -> Addresses]
  BY EvictType, Zenon DEF TypeOK
<1>3. /\ c = [Validators |-> c.Validators, Recents |-> c.Recents]
      /\ c.Validators = snap.Validators /\ DOMAIN c.Recents \subseteq Nat
      /\ c.Recents \in [DOMAIN c.Recents -> Addresses]
  <2> HIDE DEF e, slot
  <2> QED BY <1>1, <1>2, RecordType
<1>4. /\ x = [Validators |-> x.Validators, Recents |-> x.Recents]
      /\ x.Validators = h.extra /\ DOMAIN x.Recents \subseteq Nat
      /\ x.Recents \in [DOMAIN x.Recents -> Addresses]
  <2>1. n.Recents = c.Recents /\ n.Validators = h.extra
    BY Zenon
  <2> HIDE DEF c, n
  <2> QED BY <1>3, <2>1, EvictType, Zenon
<1>5. snap' = IF NextNumber % Epoch = 0 THEN x ELSE c
  BY Zenon DEF Adopt, apply
<1>6. NextNumber % Epoch = 0 => h.extra \in (SUBSET Addresses) \ {{}}
  BY Zenon DEF ExpectedExtra, TypeOK
<1> HIDE DEF c, x
<1>7. /\ snap' = [Validators |-> snap'.Validators, Recents |-> snap'.Recents]
      /\ snap'.Validators \in (SUBSET Addresses) \ {{}}
      /\ DOMAIN snap'.Recents \subseteq Nat
      /\ snap'.Recents \in [DOMAIN snap'.Recents -> Addresses]
  <2>1. CASE NextNumber % Epoch = 0
    BY <1>4, <1>5, <1>6, <2>1, Zenon
  <2>2. CASE NextNumber % Epoch # 0
    BY <1>3, <1>5, <2>2, Zenon DEF TypeOK
  <2> QED BY <2>1, <2>2, Zenon
<1>8. parent' \in [number : Nat, time : Nat] /\ now' \in Nat
  BY DEF Adopt, NextNumber, TypeOK
<1>9. signed' \in Seq([slot : Nat, signer : Addresses, set : SUBSET Addresses])
  BY <1>1 DEF Adopt, TypeOK
<1>10. registry' \in SUBSET Addresses /\ todo' \subseteq Online
  BY TurnsAssumption, Zenon DEF Adopt
<1>11. work' = [v \in Addresses |-> Idle]
  BY Zenon DEF Adopt
<1>12. PendingFits'
  BY <1>11, Zenon DEF PendingFits, Idle
<1> QED BY <1>7, <1>8, <1>9, <1>10, <1>11, <1>12, Zenon DEF TurnsInv, TypeOK

\* The invariant holds at genesis.
LEMMA InitInv == Init => TurnsInv
<1> SUFFICES ASSUME Init PROVE TurnsInv
  BY Zenon
<1>1. now \in Nat /\ parent \in [number : Nat, time : Nat] /\ registry \in SUBSET Addresses
  BY TurnsAssumption, Zenon DEF Init
<1>2. signed \in Seq([slot : Nat, signer : Addresses, set : SUBSET Addresses])
  BY DEF Init
<1>3. /\ snap = [Validators |-> snap.Validators, Recents |-> snap.Recents]
      /\ snap.Validators \in (SUBSET Addresses) \ {{}}
      /\ DOMAIN snap.Recents \subseteq Nat
      /\ snap.Recents \in [DOMAIN snap.Recents -> Addresses]
  BY TurnsAssumption, Zenon DEF Init
<1>4. todo \subseteq Online /\ work = [v \in Addresses |-> Idle]
  BY Zenon DEF Init
<1>5. PendingFits
  BY <1>4, Zenon DEF PendingFits, Idle
<1> QED BY <1>1, <1>2, <1>3, <1>4, <1>5, Zenon DEF TurnsInv, TypeOK

\* A task stays fit for the head as long as only the clock and the event
\* queue move.
LEMMA PendingStable ==
    ASSUME PendingFits, UNCHANGED <<parent, snap, registry, work>>
    PROVE  PendingFits'
<1>1. ExpectedExtra' = ExpectedExtra
  BY Zenon DEF ExpectedExtra, NextNumber
<1>2. ASSUME NEW w \in Addresses, work'[w].sealed
      PROVE  work'[w] = work[w] /\ work[w].signer = w /\ verifyCascadingFields(work[w])
  BY <1>2, Zenon DEF PendingFits
<1>3. ASSUME NEW w \in Addresses, work'[w] = work[w], verifyCascadingFields(work[w])
      PROVE  verifyCascadingFields(work[w])'
  BY <1>1, <1>3, Zenon DEF verifyCascadingFields, verifySeal, recentlySignedAt, SeenSlots,
            WindowOf, RecentSignerWindowSize, calcDifficultySlot, inturnSlot, Turn, headerSlot,
            diffInTurn, diffNoTurn
<1> QED BY <1>2, <1>3, Zenon DEF PendingFits

\* Preparing and signing a block keeps the invariant: the task fits the head.
LEMMA SealInv ==
    ASSUME TurnsInv, NEW v \in Online, Seal(v)
    PROVE  TurnsInv'
<1> DEFINE h == Prepared(v, PreparedTime)
<1>1. v \in Addresses /\ PreparedTime \in Nat /\ PreparedTime >= parent.time + PeriodMs
  BY TurnsAssumption, PreparedTimeOK, Zenon DEF TurnsInv
<1>2. h \in [sealed : {TRUE}, signer : Addresses, time : Nat,
              difficulty : {diffInTurn, diffNoTurn}, extra : SUBSET Addresses]
  BY <1>1, PreparedType, Zenon DEF TurnsInv
<1>3. h.signer = v /\ h.time = PreparedTime /\ h.extra = ExpectedExtra
      /\ h.difficulty = calcDifficultySlot(snap, PreparedTime, v)
  BY Zenon DEF Prepared
<1>4. headerSlot(PreparedTime) > headerSlot(parent.time)
  BY <1>1, IntervalAdvancesSlot, Zenon DEF TurnsInv, TypeOK
<1>5. verifyCascadingFields(h)
  BY <1>1, <1>3, <1>4, Zenon DEF Seal, verifyCascadingFields, verifySeal
<1> HIDE DEF h
<1>6. work' = [work EXCEPT ![v] = h]
  BY Zenon DEF Seal, h
<1>7. UNCHANGED <<now, parent, signed, snap, registry>> /\ todo' = todo \ {v}
  BY Zenon DEF Seal
<1>8. TypeOK'
  BY <1>1, <1>2, <1>6, <1>7, Zenon DEF TurnsInv, TypeOK, Idle, diffInTurn, diffNoTurn
<1>9. ASSUME NEW w \in Addresses, work'[w].sealed
      PROVE  work'[w].signer = w /\ verifyCascadingFields(work'[w])
  <2>1. CASE w = v
    BY <1>1, <1>3, <1>5, <1>6, <2>1, Zenon DEF TurnsInv, TypeOK
  <2>2. CASE w # v
    BY <1>6, <1>9, <2>2, Zenon DEF TurnsInv, TypeOK, PendingFits
  <2> QED BY <2>1, <2>2, Zenon
<1>10. ExpectedExtra' = ExpectedExtra
  BY <1>7, Zenon DEF ExpectedExtra, NextNumber
<1>11. ASSUME NEW w \in Addresses, work'[w].sealed, verifyCascadingFields(work'[w])
       PROVE  verifyCascadingFields(work[w])'
  BY <1>7, <1>10, <1>11, Zenon DEF verifyCascadingFields, verifySeal, recentlySignedAt, SeenSlots,
            WindowOf, RecentSignerWindowSize, calcDifficultySlot, inturnSlot, Turn, headerSlot,
            diffInTurn, diffNoTurn
<1>12. PendingFits'
  BY <1>9, <1>11, Zenon DEF PendingFits
<1> QED BY <1>8, <1>12, Zenon DEF TurnsInv

\* A refused Seal keeps the invariant.
LEMMA SealRefusedInv ==
    ASSUME TurnsInv, NEW v \in Online, SealRefused(v)
    PROVE  TurnsInv'
<1>1. v \in Addresses /\ work' = [work EXCEPT ![v] = Idle]
  BY TurnsAssumption, Zenon DEF SealRefused
<1>2. UNCHANGED <<now, parent, signed, snap, registry>> /\ todo' = todo \ {v}
  BY Zenon DEF SealRefused
<1>3. TypeOK'
  BY <1>1, <1>2, Zenon DEF TurnsInv, TypeOK, Idle, diffInTurn, diffNoTurn
<1>4. ExpectedExtra' = ExpectedExtra
  BY <1>2, Zenon DEF ExpectedExtra, NextNumber
<1>5. ASSUME NEW w \in Addresses, work'[w].sealed
      PROVE  work'[w] = work[w] /\ work[w].signer = w /\ verifyCascadingFields(work[w])
  BY <1>1, <1>5, Zenon DEF TurnsInv, TypeOK, PendingFits, Idle
<1>6. ASSUME NEW w \in Addresses, work'[w] = work[w], verifyCascadingFields(work[w])
      PROVE  verifyCascadingFields(work[w])'
  BY <1>2, <1>4, <1>6, Zenon DEF verifyCascadingFields, verifySeal, recentlySignedAt, SeenSlots,
            WindowOf, RecentSignerWindowSize, calcDifficultySlot, inturnSlot, Turn, headerSlot,
            diffInTurn, diffNoTurn
<1>7. PendingFits'
  BY <1>5, <1>6, Zenon DEF PendingFits
<1> QED BY <1>3, <1>7, Zenon DEF TurnsInv

\* Every step keeps the invariant.
LEMMA NextInv == TurnsInv /\ [Next]_vars => TurnsInv'
<1> SUFFICES ASSUME TurnsInv, [Next]_vars PROVE TurnsInv'
  BY Zenon
<1>1. CASE Tick
  <2>1. TypeOK'
    <3>1. now' \in Nat
      BY <1>1 DEF Tick, TurnsInv, TypeOK
    <3>2. UNCHANGED <<parent, signed, snap, registry, todo, work>>
      BY <1>1, Zenon DEF Tick
    <3> QED BY <3>1, <3>2, Zenon DEF TurnsInv, TypeOK, Idle, diffInTurn, diffNoTurn
  <2>2. PendingFits'
    BY <1>1, PendingStable, Zenon DEF Tick, TurnsInv
  <2> QED BY <2>1, <2>2, Zenon DEF TurnsInv
<1>2. ASSUME NEW v \in Online, Seal(v) PROVE TurnsInv'
  BY <1>2, SealInv, Zenon
<1>3. ASSUME NEW v \in Online, SealRefused(v) PROVE TurnsInv'
  BY <1>3, SealRefusedInv, Zenon
<1>4. ASSUME NEW v \in Online, Release(v) PROVE TurnsInv'
  <2>1. v \in Addresses /\ work[v].sealed /\ Adopt(work[v])
    BY <1>4, TurnsAssumption, Zenon DEF Release
  <2>2. work[v].extra = ExpectedExtra
    BY <2>1, Zenon DEF TurnsInv, PendingFits, verifyCascadingFields
  <2>3. work[v].time \in Nat /\ work[v].signer \in Addresses
    BY <2>1, SealedHeader, Zenon DEF TurnsInv
  <2> QED BY <2>1, <2>2, <2>3, AdoptInv, Zenon DEF TurnsInv
<1>5. ASSUME NEW v \in Online, NewTxs(v) PROVE TurnsInv'
  <2>1. TypeOK'
    BY <1>5, Zenon DEF NewTxs, TurnsInv, TypeOK, Idle, diffInTurn, diffNoTurn
  <2>2. PendingFits'
    BY <1>5, PendingStable, Zenon DEF NewTxs, TurnsInv
  <2> QED BY <2>1, <2>2, Zenon DEF TurnsInv
<1>6. ASSUME NEW v \in Faulty, NEW time \in 0 .. (now + 2 * PeriodMs), ForeignHeader(v, time)
      PROVE  TurnsInv'
  <2>1. v \in Addresses /\ time \in Nat
    BY TurnsAssumption DEF TurnsInv, TypeOK
  <2>2. /\ Prepared(v, time).time \in Nat /\ Prepared(v, time).signer \in Addresses
        /\ Prepared(v, time).extra = ExpectedExtra
    BY <2>1, Zenon DEF Prepared
  <2> QED BY <1>6, <2>2, AdoptInv, Zenon DEF TurnsInv, ForeignHeader
<1>7. CASE UNCHANGED vars
  <2>1. TypeOK'
    BY <1>7, Zenon DEF vars, TurnsInv, TypeOK, Idle, diffInTurn, diffNoTurn
  <2>2. PendingFits'
    BY <1>7, PendingStable, Zenon DEF vars, TurnsInv
  <2> QED BY <2>1, <2>2, Zenon DEF TurnsInv
<1> QED BY <1>1, <1>2, <1>3, <1>4, <1>5, <1>6, <1>7, Zenon DEF Next

-----------------------------------------------------------------------------
(* Theorems about every behaviour. *)

\* The invariant holds in every behaviour.
LEMMA Invariance == Spec => []TurnsInv
  BY InitInv, NextInv, PTL DEF Spec

\* Every variable keeps its shape, and the snapshot always has validators.
THEOREM TypeCorrect == Spec => []TypeOK
<1>1. TurnsInv => TypeOK
  BY Zenon DEF TurnsInv
<1> QED BY <1>1, Invariance, PTL

\* Whatever Prepare and Seal produce passes verifyHeader by the time Seal's delay
\* is over: an honest block is never rejected for its slot, difficulty, epoch
\* list or recency.
THEOREM SealedBlocksVerify == Spec => []SealedVerifies
<1>1. TurnsInv => SealedVerifies
  <2> SUFFICES ASSUME TurnsInv, NEW v \in Online, work[v].sealed, now >= work[v].time
               PROVE  verifyHeader(work[v])
    BY Zenon DEF SealedVerifies
  <2>1. v \in Addresses
    BY TurnsAssumption, Zenon
  <2>2. verifyCascadingFields(work[v])
    BY <2>1, Zenon DEF TurnsInv, PendingFits
  <2>3. work[v].time \in Nat /\ work[v].difficulty \in {diffInTurn, diffNoTurn}
    BY <2>1, SealedHeader, Zenon DEF TurnsInv
  <2>4. work[v].time <= now + 2 * PeriodMs
    <3>1. now \in Nat /\ PeriodMs \in Nat
      BY TurnsAssumption, Zenon DEF TurnsInv, TypeOK
    <3> QED BY <2>3, <3>1
  <2> QED BY <2>2, <2>3, <2>4, Zenon DEF verifyHeader
<1> QED BY <1>1, Invariance, PTL

\* Header verification never accepts a header on which Snapshot.apply fails.
THEOREM VerifiedHeadersApply == Spec => []VerifiedApplies
<1>1. VerifiedApplies
  <2> SUFFICES ASSUME NEW v \in Addresses, NEW time \in parent.time .. (now + 2 * PeriodMs),
                      verifyHeader(Prepared(v, time))
               PROVE  applies(snap, Prepared(v, time))
    BY Zenon DEF VerifiedApplies
  <2>1. verifySeal(snap, Prepared(v, time))
    BY Zenon DEF verifyHeader, verifyCascadingFields
  <2> QED BY <2>1, VerifiedSealApplies, Zenon
<1> QED BY <1>1, PTL

-----------------------------------------------------------------------------
(* The quota. *)

\* The window that a set of validators has.
Window(set) == RecentSignerWindowSize(Cardinality(set))

\* Slots grow along the branch, and none is later than the head's.
SlotsAscend ==
    /\ \A k \in 1 .. Len(signed) : signed[k].slot <= headerSlot(parent.time)
    /\ \A j \in 1 .. Len(signed), k \in 1 .. Len(signed) :
          j < k => signed[j].slot < signed[k].slot
    /\ \A t \in DOMAIN snap.Recents : t <= headerSlot(parent.time)

\* Block k lies in the last n slots, and no window since was narrower.
InForce(k, n) ==
    /\ signed[k].slot > headerSlot(parent.time) - n
    /\ \A j \in k .. Len(signed) : Window(signed[j].set) >= n
    /\ WindowOf(snap) >= n

\* The snapshot has not forgotten such a block.
Remembered(n) ==
    \A k \in 1 .. Len(signed) :
        InForce(k, n) => /\ signed[k].slot \in DOMAIN snap.Recents
                         /\ snap.Recents[signed[k].slot] = signed[k].signer

\* The same for windows of any width.
Memory == \A n \in Nat : Remembered(n)

\* A window is a number of slots.
LEMMA WindowType ==
    ASSUME NEW set \in SUBSET Addresses
    PROVE  Window(set) \in Int /\ IsFiniteSet(set) /\ Cardinality(set) \in Nat
<1>1. IsFiniteSet(set) /\ Cardinality(set) \in Nat
  BY TurnsAssumption, FS_Subset, FS_CardinalityType, Zenon
<1> DEFINE n == Cardinality(set)
<1>2. n \div 2 \in Int
  BY <1>1
<1>3. ((n \div 2) + 1) * TurnLength \in Int
  <2> DEFINE q == n \div 2
  <2> HIDE DEF q
  <2>1. q \in Int
    BY <1>2, Zenon DEF q
  <2>2. (q + 1) * TurnLength \in Int
    BY <2>1, TurnsAssumption
  <2> QED BY <2>2, Zenon DEF q
<1> QED BY <1>1, <1>3, TurnsAssumption DEF Window, RecentSignerWindowSize

\* Snapshot.apply: what the new snapshot remembers of the old one's slots,
\* and of the new block's.
LEMMA ApplyRecents ==
    ASSUME TypeOK, NEW h, h.time \in Nat, Adopt(h),
           NEW slot \in Nat, slot = headerSlot(h.time)
    PROVE  /\ \A t \in DOMAIN snap'.Recents : t = slot \/ t \in DOMAIN snap.Recents
           /\ \A t \in DOMAIN snap.Recents :
                 /\ t # slot
                 /\ t > slot - WindowOf(snap)
                 /\ t > slot - WindowOf(snap')
                 => t \in DOMAIN snap'.Recents /\ snap'.Recents[t] = snap.Recents[t]
           /\ slot > slot - WindowOf(snap')
                 => slot \in DOMAIN snap'.Recents /\ snap'.Recents[slot] = h.signer
<1> DEFINE e == Evict(snap, slot)
           c == Record(e, slot, h.signer)
           n == [Validators |-> h.extra, Recents |-> c.Recents]
           x == Evict(n, slot)
<1>1. snap' = IF NextNumber % Epoch = 0 THEN x ELSE c
  BY Zenon DEF Adopt, apply
<1>2. /\ DOMAIN e.Recents = {t \in DOMAIN snap.Recents : t > slot - WindowOf(snap)}
      /\ \A t \in DOMAIN e.Recents : e.Recents[t] = snap.Recents[t]
  BY Zenon DEF Evict
<1>3. /\ DOMAIN c.Recents = DOMAIN e.Recents \cup {slot}
      /\ c.Recents[slot] = h.signer
      /\ \A t \in DOMAIN e.Recents : t # slot => c.Recents[t] = e.Recents[t]
  <2> HIDE DEF e
  <2> QED BY Zenon DEF Record
<1>4. /\ x.Validators = h.extra
      /\ DOMAIN x.Recents = {t \in DOMAIN c.Recents : t > slot - WindowOf(n)}
      /\ \A t \in DOMAIN x.Recents : x.Recents[t] = c.Recents[t]
  <2>1. n.Recents = c.Recents /\ n.Validators = h.extra
    BY Zenon
  <2> HIDE DEF n, c
  <2> QED BY <2>1, Zenon DEF Evict
<1>5. WindowOf(n) = WindowOf(x)
  BY <1>4, Zenon DEF WindowOf
<1> HIDE DEF e, c, n, x
<1>6. CASE NextNumber % Epoch = 0
  <2>1. snap' = x
    BY <1>1, <1>6, Zenon
  <2>2. WindowOf(snap') = WindowOf(n)
    BY <1>5, <2>1, Zenon
  <2> QED BY <1>2, <1>3, <1>4, <2>1, <2>2, Zenon
<1>7. CASE NextNumber % Epoch # 0
  <2>1. snap' = c
    BY <1>1, <1>7, Zenon
  <2> QED BY <1>2, <1>3, <2>1, Zenon
<1> QED BY <1>6, <1>7, Zenon

\* What a verified header adds to the branch.
LEMMA AdoptAppends ==
    ASSUME TypeOK, NEW h, h.time \in Nat, h.signer \in Addresses, verifyCascadingFields(h),
           Adopt(h)
    PROVE  LET slot == headerSlot(h.time)
               L == Len(signed)
           IN
           /\ slot \in Nat /\ headerSlot(parent.time) \in Nat /\ L \in Nat
           /\ slot > headerSlot(parent.time) /\ headerSlot(parent'.time) = slot
           /\ Len(signed') = L + 1
           /\ \A k \in 1 .. L : signed'[k] = signed[k]
           /\ signed'[L + 1].slot = slot /\ signed'[L + 1].signer = h.signer
           /\ signed'[L + 1].set = snap.Validators
           /\ \A k \in 1 .. L : /\ signed[k].slot \in Nat /\ signed[k].signer \in Addresses
                                /\ signed[k].set \in SUBSET Addresses
<1> DEFINE slot == headerSlot(h.time)
           L == Len(signed)
<1>1. slot \in Nat /\ headerSlot(parent.time) \in Nat
  BY SlotBounds, Zenon DEF TypeOK
<1>2. slot > headerSlot(parent.time)
  BY Zenon DEF verifyCascadingFields
<1>3. parent'.time = h.time
  BY Zenon DEF Adopt
<1> DEFINE b == [slot |-> slot, signer |-> h.signer, set |-> snap.Validators]
           Blocks == [slot : Nat, signer : Addresses, set : SUBSET Addresses]
<1>4. signed' = Append(signed, b)
  BY Zenon DEF Adopt
<1>5. signed \in Seq(Blocks) /\ b \in Blocks
  BY <1>1, Zenon DEF TypeOK
<1>6. b.slot = slot /\ b.signer = h.signer /\ b.set = snap.Validators
  BY Zenon
<1>7. \A r \in Blocks : r.slot \in Nat /\ r.signer \in Addresses /\ r.set \in SUBSET Addresses
  BY Zenon
<1> HIDE DEF b, Blocks, slot
<1>8. /\ L \in Nat /\ Len(signed') = L + 1
      /\ \A k \in 1 .. L : signed'[k] = signed[k] /\ signed[k] \in Blocks
      /\ signed'[L + 1] = b
  BY <1>4, <1>5
<1> QED BY <1>1, <1>2, <1>3, <1>6, <1>7, <1>8, Zenon DEF slot

\* A verified header lies in a later slot than all blocks before it.
LEMMA AdoptSlots ==
    ASSUME TypeOK, SlotsAscend, NEW h, h.time \in Nat, h.signer \in Addresses,
           verifyCascadingFields(h), Adopt(h)
    PROVE  SlotsAscend'
<1> DEFINE slot == headerSlot(h.time)
           p == headerSlot(parent.time)
           q == headerSlot(parent'.time)
           L == Len(signed)
<1>1. /\ slot \in Nat /\ p \in Nat /\ L \in Nat /\ slot > p /\ q = slot
      /\ Len(signed') = L + 1
      /\ \A k \in 1 .. L : signed'[k] = signed[k] /\ signed[k].slot \in Nat
      /\ signed'[L + 1].slot = slot
  BY AdoptAppends, Zenon
<1>2. \A t \in DOMAIN snap'.Recents : t = slot \/ t \in DOMAIN snap.Recents
  BY <1>1, ApplyRecents, Zenon
<1>3. /\ \A k \in 1 .. L : signed[k].slot <= p
      /\ \A j \in 1 .. L, k \in 1 .. L : j < k => signed[j].slot < signed[k].slot
      /\ \A t \in DOMAIN snap.Recents : t <= p /\ t \in Nat
  BY Zenon DEF SlotsAscend, TypeOK
<1> HIDE DEF slot, p, q, L
<1>4. \A k \in 1 .. L + 1 : signed'[k].slot <= q
  BY <1>1, <1>3
<1>5. \A j \in 1 .. L + 1, k \in 1 .. L + 1 : j < k => signed'[j].slot < signed'[k].slot
  BY <1>1, <1>3
<1>6. \A t \in DOMAIN snap'.Recents : t <= q
  BY <1>1, <1>2, <1>3
<1> QED BY <1>1, <1>4, <1>5, <1>6, Zenon DEF SlotsAscend, q

\* Neither the eviction of apply nor the trim at an epoch forgets a block
\* that lies in every window since.
LEMMA AdoptRemembers ==
    ASSUME TypeOK, TypeOK', SlotsAscend, NEW n \in Nat, Remembered(n),
           NEW h, h.time \in Nat, h.signer \in Addresses,
           verifyCascadingFields(h), Adopt(h)
    PROVE  Remembered(n)'
<1> DEFINE slot == headerSlot(h.time)
           p == headerSlot(parent.time)
           q == headerSlot(parent'.time)
           L == Len(signed)
           w == WindowOf(snap)
           x == WindowOf(snap')
<1>1. /\ slot \in Nat /\ p \in Nat /\ L \in Nat /\ slot > p /\ q = slot
      /\ Len(signed') = L + 1
      /\ \A k \in 1 .. L : signed'[k] = signed[k] /\ signed[k].slot \in Nat
      /\ signed'[L + 1].slot = slot /\ signed'[L + 1].signer = h.signer
      /\ signed'[L + 1].set = snap.Validators
  BY AdoptAppends, Zenon
<1>2. /\ \A t \in DOMAIN snap.Recents :
            t # slot /\ t > slot - w /\ t > slot - x
               => t \in DOMAIN snap'.Recents /\ snap'.Recents[t] = snap.Recents[t]
      /\ slot > slot - x => slot \in DOMAIN snap'.Recents /\ snap'.Recents[slot] = h.signer
  BY <1>1, ApplyRecents, Zenon
<1>3. w \in Int /\ x \in Int
  <2>1. Window(snap.Validators) \in Int /\ Window(snap'.Validators) \in Int
    BY WindowType, Zenon DEF TypeOK
  <2> QED BY <2>1, Zenon DEF Window, WindowOf
<1>4. Window(signed'[L + 1].set) = w
  BY <1>1, Zenon DEF Window, WindowOf
<1>5. \A k \in 1 .. L : signed[k].slot <= p
  BY Zenon DEF SlotsAscend
<1>6. SUFFICES ASSUME NEW k \in 1 .. L + 1,
                      signed'[k].slot > q - n,
                      \A j \in k .. L + 1 : Window(signed'[j].set) >= n,
                      x >= n
               PROVE  /\ signed'[k].slot \in DOMAIN snap'.Recents
                      /\ snap'.Recents[signed'[k].slot] = signed'[k].signer
  BY <1>1, Zenon DEF Remembered, InForce, Window, WindowOf, RecentSignerWindowSize, headerSlot
<1> HIDE DEF slot, p, q, L, w, x
<1>7. CASE k = L + 1
  BY <1>1, <1>2, <1>3, <1>6, <1>7
<1>8. CASE k \in 1 .. L
  <2>1. signed[k].slot > p - n /\ signed[k].slot \in Nat
    BY <1>1, <1>5, <1>6, <1>8
  <2>2. \A j \in k .. L : Window(signed[j].set) >= n
    BY <1>1, <1>6, <1>8
  <2>3. w >= n
    BY <1>1, <1>4, <1>6, <1>8
  <2>4. signed[k].slot \in DOMAIN snap.Recents /\ snap.Recents[signed[k].slot] = signed[k].signer
    BY <1>8, <2>1, <2>2, <2>3, Zenon DEF Remembered, InForce, p, L, w
  <2>5. /\ signed[k].slot # slot /\ signed[k].slot > slot - w /\ signed[k].slot > slot - x
    BY <1>1, <1>3, <1>5, <1>6, <1>8, <2>1, <2>3
  <2> QED BY <1>1, <1>2, <1>8, <2>4, <2>5, Zenon
<1> QED BY <1>1, <1>7, <1>8

\* The blocks of block i's signer in the last n slots, and its quota.
Own(i, n) == {k \in InLastSlots(i, n) : signed[k].signer = signed[i].signer}

QuotaAt(i) ==
    \A n \in 1 .. Window(signed[i].set) :
        /\ Cardinality(signed[i].set) > 1
        /\ \A k \in InLastSlots(i, n) : Window(signed[k].set) >= n
        => Cardinality(Own(i, n)) <= TurnLength

\* The quota, block by block.
LEMMA QuotaByBlock == TurnQuota <=> \A i \in 1 .. Len(signed) : QuotaAt(i)
  BY Zenon DEF TurnQuota, QuotaAt, Own, Window

\* The blocks on the branch keep their quota when it grows.
LEMMA QuotaStays ==
    ASSUME TypeOK, NEW i \in 1 .. Len(signed), QuotaAt(i),
           \A k \in 1 .. Len(signed) : signed'[k] = signed[k]
    PROVE  QuotaAt(i)'
<1>0. Len(signed) \in Nat
  BY DEF TypeOK
<1>1. \A n : InLastSlots(i, n)' = InLastSlots(i, n)
  BY <1>0 DEF InLastSlots
<1>2. \A n : InLastSlots(i, n) \subseteq 1 .. Len(signed)
  BY <1>0 DEF InLastSlots
<1>3. \A n : Own(i, n)' = Own(i, n)
  BY <1>1, <1>2, Zenon DEF Own
<1>4. \A n : \A k \in InLastSlots(i, n) : signed'[k] = signed[k]
  BY <1>2, Zenon
<1>5. signed'[i] = signed[i]
  BY Zenon
<1>6. SUFFICES ASSUME NEW n \in 1 .. Window(signed[i].set),
                      Cardinality(signed[i].set) > 1,
                      \A k \in InLastSlots(i, n) : Window(signed[k].set) >= n
               PROVE  Cardinality(Own(i, n)) <= TurnLength
  BY <1>1, <1>3, <1>4, <1>5 DEF QuotaAt, Window, RecentSignerWindowSize
<1> QED BY <1>6, Zenon DEF QuotaAt

\* The slots that the recency check counts are finitely many, in the last
\* window before the slot.
LEMMA SeenFinite ==
    ASSUME TypeOK, SlotsAscend, NEW slot \in Nat, NEW v
    PROVE  /\ IsFiniteSet(SeenSlots(snap, slot, v))
           /\ Cardinality(SeenSlots(snap, slot, v)) \in Nat
           /\ SeenSlots(snap, slot, v)
                \subseteq (slot - WindowOf(snap) + 1) .. headerSlot(parent.time)
<1> DEFINE p == headerSlot(parent.time)
           S == SeenSlots(snap, slot, v)
           w == WindowOf(snap)
<1>1. p \in Nat /\ w \in Int
  <2>1. Window(snap.Validators) \in Int
    BY WindowType, Zenon DEF TypeOK
  <2> QED BY <2>1, SlotBounds, Zenon DEF Window, WindowOf, TypeOK
<1>2. \A t \in S : t \in Nat /\ t <= p /\ t > slot - w
  BY Zenon DEF SeenSlots, TypeOK, SlotsAscend
<1> HIDE DEF p, w
<1>3. S \subseteq 0 .. p /\ S \subseteq (slot - w + 1) .. p
  <2> HIDE DEF S
  <2> QED BY <1>1, <1>2
<1>4. IsFiniteSet(0 .. p)
  BY <1>1, FS_Interval
<1> HIDE DEF S
<1>5. IsFiniteSet(S) /\ Cardinality(S) \in Nat
  BY <1>3, <1>4, FS_Subset, FS_CardinalityType, Zenon
<1> QED BY <1>3, <1>5, Zenon DEF S, p, w

\* A block that passed the recency check is within its signer's quota: the
\* signer's earlier blocks of the window are all remembered.
LEMMA NewQuota ==
    ASSUME TypeOK, SlotsAscend, Memory, NEW N, N = Len(signed) + 1,
           NEW h, h.time \in Nat, h.signer \in Addresses,
           verifyCascadingFields(h), Adopt(h)
    PROVE  QuotaAt(N)'
<1> DEFINE slot == headerSlot(h.time)
           p == headerSlot(parent.time)
           L == Len(signed)
<1>1. /\ slot \in Nat /\ p \in Nat /\ L \in Nat /\ slot > p
      /\ Len(signed') = L + 1
      /\ \A k \in 1 .. L : signed'[k] = signed[k] /\ signed[k].slot \in Nat
      /\ signed'[L + 1].slot = slot /\ signed'[L + 1].signer = h.signer
      /\ signed'[L + 1].set = snap.Validators
  BY AdoptAppends, Zenon
<1> DEFINE w == WindowOf(snap)
           v == h.signer
           Seen == SeenSlots(snap, slot, v)
<1>0. N = L + 1
  BY Zenon
<1>2. w \in Int /\ Window(snap.Validators) = w
  <2>1. Window(snap.Validators) \in Int
    BY WindowType, Zenon DEF TypeOK
  <2> QED BY <2>1, Zenon DEF Window, WindowOf
<1>3. Cardinality(snap.Validators) > 1 => ~(Cardinality(Seen) >= TurnLength)
  BY Zenon DEF verifyCascadingFields, verifySeal, recentlySignedAt
<1>4. IsFiniteSet(Seen) /\ Cardinality(Seen) \in Nat
  BY <1>1, SeenFinite, Zenon
<1>5. /\ \A k \in 1 .. L : signed[k].slot <= p
      /\ \A j \in 1 .. L, k \in 1 .. L : j < k => signed[j].slot < signed[k].slot
  BY Zenon DEF SlotsAscend
<1>6. \A t \in DOMAIN snap.Recents : t > slot - w /\ snap.Recents[t] = v => t \in Seen
  BY Zenon DEF SeenSlots
<1> DEFINE In(n) == {k \in 1 .. L + 1 : signed'[k].slot > slot - n}
           Mine(n) == {k \in In(n) : signed'[k].signer = v}
<1>7. \A n : InLastSlots(N, n)' = In(n) /\ Own(N, n)' = Mine(n)
  BY <1>0, <1>1, Zenon DEF InLastSlots, Own
<1>8. ASSUME NEW n \in 1 .. w, Cardinality(snap.Validators) > 1,
             \A k \in In(n) : Window(signed'[k].set) >= n
      PROVE  Cardinality(Mine(n)) <= TurnLength
  <2> DEFINE K == {k \in 1 .. L : signed[k].slot > slot - n /\ signed[k].signer = v}
             f == [k \in K |-> signed[k].slot]
  <2>0. n \in Nat \ {0} /\ n <= w
    BY <1>2
  <2>1. ASSUME NEW k \in K PROVE signed[k].slot \in Seen
    <3>1. k \in 1 .. L /\ signed[k].slot > slot - n /\ signed[k].signer = v /\ signed[k].slot \in Nat
      BY <1>1, <2>1, Zenon
    <3>2. \A j \in k .. L : Window(signed[j].set) >= n
      <4> SUFFICES ASSUME NEW j \in k .. L PROVE Window(signed[j].set) >= n
        BY Zenon
      <4> HIDE DEF slot, p, L, w, v, Seen, K
      <4>1. j \in 1 .. L /\ signed[j].slot >= signed[k].slot /\ signed[j].slot \in Nat
        <5>1. j \in 1 .. L /\ (j = k \/ k < j) /\ signed[j].slot \in Nat
          BY <1>1, <3>1
        <5> QED BY <1>1, <1>5, <3>1, <5>1
      <4>2. j \in In(n)
        BY <1>1, <2>0, <3>1, <4>1
      <4> HIDE DEF In
      <4> QED BY <1>1, <1>8, <4>1, <4>2, Zenon
    <3>3. InForce(k, n)
      <4>1. signed[k].slot > p - n /\ w >= n
        <5> HIDE DEF slot, p, L, w, v, Seen, K
        <5> QED BY <1>1, <1>2, <2>0, <3>1
      <4> QED BY <3>2, <4>1, Zenon DEF InForce
    <3>4. signed[k].slot \in DOMAIN snap.Recents /\ snap.Recents[signed[k].slot] = v
      BY <2>0, <3>1, <3>3, Zenon DEF Memory, Remembered
    <3>5. signed[k].slot > slot - w
      <4> HIDE DEF slot, p, L, w, v, Seen, K
      <4> QED BY <1>1, <1>2, <2>0, <3>1
    <3> HIDE DEF slot, w, v, Seen, K
    <3> QED BY <1>6, <3>4, <3>5, Zenon
  <2>2. f \in Injection(K, Seen)
    <3>1. f \in [K -> Seen]
      <4> HIDE DEF Seen, K
      <4> QED BY <2>1, Zenon
    <3>2. ASSUME NEW j \in K, NEW k \in K, f[j] = f[k] PROVE j = k
      <4>1. j \in 1 .. L /\ k \in 1 .. L /\ signed[j].slot = signed[k].slot
        BY <3>2, Zenon
      <4> HIDE DEF slot, p, L, w, v, Seen, K, f
      <4> QED BY <1>1, <1>5, <4>1
    <3> HIDE DEF f, K, Seen
    <3> QED BY <3>1, <3>2, Zenon DEF Injection, IsInjective
  <2>3. IsFiniteSet(K) /\ Cardinality(K) <= Cardinality(Seen) /\ Cardinality(K) \in Nat
    <3> HIDE DEF f, K, Seen
    <3> QED BY <1>4, <2>2, FS_Injection, FS_CardinalityType, Zenon
  <2>4. Mine(n) = K \cup {L + 1}
    <3>1. Mine(n) = {k \in 1 .. L + 1 : signed'[k].slot > slot - n /\ signed'[k].signer = v}
      BY Zenon
    <3>2. 1 .. L + 1 = (1 .. L) \cup {L + 1} /\ slot > slot - n
      BY <1>1, <2>0
    <3>3. signed'[L + 1].signer = v
      BY <1>1, Zenon
    <3> HIDE DEF slot, p, w, v, Seen, L, Mine
    <3> QED BY <1>1, <3>1, <3>2, <3>3, Zenon
  <2>5. L + 1 \notin K
    BY <1>1
  <2>6. Cardinality(K \cup {L + 1}) = Cardinality(K) + 1
    <3> HIDE DEF K
    <3> QED BY <2>3, <2>5, FS_AddElement, Zenon
  <2>7. TurnLength \in Nat
    BY TurnsAssumption, Zenon
  <2> HIDE DEF K, Mine, Seen
  <2> QED BY <1>3, <1>4, <1>8, <2>3, <2>4, <2>6, <2>7
<1>9. QuotaAt(N)'
  <2>1. Window(signed'[N].set) = w /\ signed'[N].set = snap.Validators
    BY <1>0, <1>1, <1>2, Zenon
  <2>2. SUFFICES ASSUME NEW n \in 1 .. w, Cardinality(snap.Validators) > 1,
                        \A k \in In(n) : Window(signed'[k].set) >= n
                 PROVE  Cardinality(Mine(n)) <= TurnLength
    <3> HIDE DEF In, Mine, w, L
    <3> QED BY <1>7, <2>1, Zenon DEF QuotaAt, Window, RecentSignerWindowSize
  <2> HIDE DEF In, Mine
  <2> QED BY <1>8, <2>2, Zenon
<1> QED BY <1>9, Zenon

\* With the derived window, the slots in it have room for the quotas of
\* half of the validators only.
LEMMA FewBlocked ==
    ASSUME TypeOK, SlotsAscend
    PROVE  BlockedMinority
<1> SUFFICES ASSUME RecentSignerWindow = 0,
                    NEW slot \in (headerSlot(parent.time) + 1) .. (headerSlot(parent.time) + 3)
             PROVE  Cardinality({v \in snap.Validators : recentlySignedAt(snap, slot, v)})
                       <= Cardinality(snap.Validators) \div 2
  BY Zenon DEF BlockedMinority
<1> DEFINE p == headerSlot(parent.time)
           w == WindowOf(snap)
           V == snap.Validators
           S == {v \in V : recentlySignedAt(snap, slot, v)}
           F == [v \in S |-> SeenSlots(snap, slot, v)]
           U == (slot - w + 1) .. p
           d == Cardinality(V) \div 2
           t == TurnLength
<1>1. p \in Nat /\ slot \in Nat /\ slot > p /\ t \in Nat \ {0}
  <2>1. parent.time \in Nat /\ t \in Nat \ {0}
    BY TurnsAssumption, Zenon DEF TypeOK
  <2>2. p \in Nat
    BY <2>1, SlotBounds, Zenon
  <2> HIDE DEF t
  <2> QED BY <2>1, <2>2
<1>2. IsFiniteSet(V) /\ Cardinality(V) \in Nat /\ w \in Int /\ w = ((d + 1) * t) - 1 /\ d \in Nat
  <2>1. IsFiniteSet(V) /\ Cardinality(V) \in Nat /\ Window(V) \in Int
    BY WindowType, Zenon DEF TypeOK
  <2>2. d \in Nat
    BY <2>1
  <2> QED BY <2>1, <2>2 DEF Window, WindowOf, RecentSignerWindowSize
<1>3. \A v \in S : F[v] \subseteq U /\ Cardinality(F[v]) >= t
  <2> SUFFICES ASSUME NEW v \in S PROVE F[v] \subseteq U /\ Cardinality(F[v]) >= t
    BY Zenon
  <2>1. F[v] = SeenSlots(snap, slot, v) /\ recentlySignedAt(snap, slot, v)
    BY Zenon
  <2> QED BY <1>1, <2>1, SeenFinite, Zenon DEF recentlySignedAt
<1>4. \A v \in S, u \in S : v # u => F[v] \cap F[u] = {}
  BY Zenon DEF SeenSlots
<1>5. IsFiniteSet(S) /\ Cardinality(S) \in Nat
  <2>1. S \subseteq V
    BY Zenon
  <2> HIDE DEF S, V
  <2> QED BY <1>2, <2>1, FS_Subset, FS_CardinalityType, Zenon
<1> HIDE DEF p, w, V, S, F, d, t
<1>6. /\ IsFiniteSet(U) /\ Cardinality(U) \in Nat
      /\ Cardinality(U) = IF slot - w + 1 > p THEN 0 ELSE p - (slot - w + 1) + 1
  <2> DEFINE a == slot - w + 1
  <2>1. a \in Int /\ p \in Int
    BY <1>1, <1>2
  <2>2. IsFiniteSet(a .. p) /\ Cardinality(a .. p) = IF a > p THEN 0 ELSE p - a + 1
    <3> HIDE DEF a
    <3> QED BY <2>1, FS_Interval, Zenon
  <2>3. IsFiniteSet(U) /\ Cardinality(U) \in Nat
    BY <2>2, FS_CardinalityType, Zenon
  <2> QED BY <2>2, <2>3, Zenon
<1> HIDE DEF U
<1>7. t * Cardinality(S) <= Cardinality(U)
  BY <1>1, <1>3, <1>4, <1>5, <1>6, Pigeonhole, Zenon
<1> DEFINE c == Cardinality(S)
           u == Cardinality(U)
<1>8. SUFFICES c <= d
  BY Zenon DEF S, V, d
<1>9. c \in Nat /\ u \in Nat /\ t * c <= u
  BY <1>5, <1>6, <1>7, Zenon
<1>10. u < w \/ u = 0
  BY <1>1, <1>2, <1>6
<1> HIDE DEF c, u
<1>11. SUFFICES ASSUME d + 1 <= c PROVE FALSE
  BY <1>2, <1>9
<1>12. t * (d + 1) <= t * c /\ t * (d + 1) = (d + 1) * t /\ t * (d + 1) >= t
  <2>1. t * (d + 1) <= t * c
    BY <1>1, <1>2, <1>9, <1>11, TimesOrder
  <2>2. t * (d + 1) = (d + 1) * t
    BY <1>1, <1>2
  <2>3. t * 1 <= t * (d + 1)
    BY <1>1, <1>2, TimesOrder
  <2> QED BY <1>1, <2>1, <2>2, <2>3
<1> DEFINE m == t * (d + 1)
           k == t * c
<1>13. m \in Int /\ k \in Int /\ m <= k /\ w = m - 1 /\ k <= u /\ m >= t
  <2>1. m \in Int /\ k \in Int
    BY <1>1, <1>2, <1>9
  <2> QED BY <1>2, <1>9, <1>12, <2>1, Zenon
<1> HIDE DEF m, k
<1> QED BY <1>1, <1>9, <1>10, <1>13

\* The invariant with which the quota is kept.
QuotaInv == TurnsInv /\ SlotsAscend /\ Memory /\ TurnQuota

\* The invariant holds at genesis.
LEMMA QuotaInit == Init => QuotaInv
<1> SUFFICES ASSUME Init PROVE QuotaInv
  BY Zenon
<1>1. signed = <<>> /\ Len(signed) = 0 /\ DOMAIN snap.Recents = {}
  BY Zenon DEF Init
<1>2. SlotsAscend /\ Memory /\ TurnQuota
  BY <1>1 DEF SlotsAscend, Memory, Remembered, TurnQuota
<1> QED BY <1>2, InitInv, Zenon DEF QuotaInv

\* A verified header keeps the invariant.
LEMMA QuotaAdopt ==
    ASSUME QuotaInv, TypeOK', NEW h, h.time \in Nat, h.signer \in Addresses,
           verifyCascadingFields(h), Adopt(h)
    PROVE  SlotsAscend' /\ Memory' /\ TurnQuota'
<1>1. TypeOK /\ SlotsAscend /\ Memory /\ TurnQuota
  BY Zenon DEF QuotaInv, TurnsInv
<1>2. SlotsAscend'
  BY <1>1, AdoptSlots, Zenon
<1>3. ASSUME NEW n \in Nat PROVE Remembered(n)'
  <2>1. Remembered(n)
    BY <1>1, Zenon DEF Memory
  <2> QED BY <1>1, <2>1, AdoptRemembers, Zenon
<1>4. Memory'
  BY <1>3, Zenon DEF Memory
<1>5. /\ Len(signed) \in Nat /\ Len(signed') = Len(signed) + 1
      /\ \A k \in 1 .. Len(signed) : signed'[k] = signed[k]
  BY <1>1, AdoptAppends, Zenon
<1>6. ASSUME NEW i \in 1 .. Len(signed) PROVE QuotaAt(i)'
  <2>1. QuotaAt(i)
    BY <1>1, QuotaByBlock, Zenon
  <2> QED BY <1>1, <1>5, <2>1, QuotaStays, Zenon
<1>7. ASSUME NEW i \in 1 .. Len(signed'), i \notin 1 .. Len(signed) PROVE QuotaAt(i)'
  <2>1. i = Len(signed) + 1
    BY <1>5, <1>7
  <2> QED BY <1>1, <2>1, NewQuota, Zenon
<1>8. \A i \in 1 .. Len(signed') : QuotaAt(i)'
  BY <1>6, <1>7, Zenon
<1>9. TurnQuota'
  BY <1>8, Zenon DEF TurnQuota, QuotaAt, Own, Window
<1> QED BY <1>2, <1>4, <1>9, Zenon

\* Every step keeps the invariant.
LEMMA QuotaNext == QuotaInv /\ [Next]_vars => QuotaInv'
<1> SUFFICES ASSUME QuotaInv, [Next]_vars PROVE QuotaInv'
  BY Zenon
<1>1. TurnsInv /\ TurnsInv' /\ TypeOK'
  BY NextInv, Zenon DEF QuotaInv, TurnsInv
<1>2. CASE UNCHANGED <<parent, signed, snap>>
  <2>1. SlotsAscend'
    BY <1>2, Zenon DEF QuotaInv, SlotsAscend, headerSlot
  <2>2. Memory'
    BY <1>2, Zenon DEF QuotaInv, Memory, Remembered, InForce, Window, WindowOf, RecentSignerWindowSize,
                headerSlot
  <2>3. TurnQuota'
    BY <1>2 DEF QuotaInv, TurnQuota, InLastSlots, RecentSignerWindowSize
  <2> QED BY <1>1, <2>1, <2>2, <2>3, Zenon DEF QuotaInv
<1>3. ASSUME NEW v \in Online, Release(v) PROVE QuotaInv'
  <2>1. v \in Addresses /\ work[v].sealed /\ Adopt(work[v])
    BY <1>3, TurnsAssumption, Zenon DEF Release
  <2>2. verifyCascadingFields(work[v])
    BY <1>1, <2>1, Zenon DEF TurnsInv, PendingFits
  <2>3. work[v].time \in Nat /\ work[v].signer \in Addresses
    BY <1>1, <2>1, SealedHeader, Zenon DEF TurnsInv
  <2> QED BY <1>1, <2>1, <2>2, <2>3, QuotaAdopt, Zenon DEF QuotaInv
<1>4. ASSUME NEW v \in Faulty, NEW time \in 0 .. (now + 2 * PeriodMs), ForeignHeader(v, time)
      PROVE  QuotaInv'
  <2>1. v \in Addresses /\ time \in Nat
    BY <1>1, TurnsAssumption DEF TurnsInv, TypeOK
  <2>2. Prepared(v, time).time \in Nat /\ Prepared(v, time).signer \in Addresses
    BY <2>1, Zenon DEF Prepared
  <2>3. Adopt(Prepared(v, time)) /\ verifyCascadingFields(Prepared(v, time))
    BY <1>4, Zenon DEF ForeignHeader, verifyHeader
  <2> QED BY <1>1, <2>2, <2>3, QuotaAdopt, Zenon DEF QuotaInv
<1>5. CASE Tick
  BY <1>2, <1>5, Zenon DEF Tick
<1>6. ASSUME NEW v \in Online, Seal(v) \/ SealRefused(v) \/ NewTxs(v) PROVE QuotaInv'
  BY <1>2, <1>6, Zenon DEF Seal, SealRefused, NewTxs
<1>7. CASE UNCHANGED vars
  BY <1>2, <1>7, Zenon DEF vars
<1> QED BY <1>3, <1>4, <1>5, <1>6, <1>7, Zenon DEF Next

\* Within any window of slots, whatever epochs do to the validator set, nobody
\* signs more blocks than TurnLength, and at most half of the validators are
\* refused at a later slot (Snapshot.apply, recentlySignedAt).
THEOREM QuotaIsKept == Spec => []QuotaKept
<1>1. QuotaInv => QuotaKept
  BY FewBlocked, Zenon DEF QuotaInv, TurnsInv, QuotaKept
<1>2. Spec => []QuotaInv
  BY QuotaInit, QuotaNext, PTL DEF Spec
<1> QED BY <1>1, <1>2, PTL

-----------------------------------------------------------------------------
(* Vote evidence.                                                          *)
Handlers ==
    [pc : {"idle", "lookup", "add", "journal"}, source : {"p2p", "pending"},
     queue : SUBSET Envelopes, env : Envelopes \cup {None}, prev : Envelopes \cup {None},
     equivocation : BOOLEAN]
ConflictRecords == [day : Nat, previous : Envelopes \cup {None}, current : Envelopes]
OffenseRecords == [evidence : Evidences, offense : Signers \X Numbers]

EvidenceType ==
    /\ signatures \subseteq Envelopes /\ day \in Nat
    /\ pool \in Pools(Envelopes)
    /\ thread \in [Threads -> Handlers]
    /\ journal \in Seq(ConflictRecords)
    /\ records \in Seq(OffenseRecords)

(* All that a node holds was signed.                                       *)
HandlerSigned(h) ==
    /\ h.queue \subseteq signatures
    /\ h.env \in signatures \cup {None} /\ h.prev \in signatures \cup {None}
    /\ h.pc \in {"add", "journal"} => h.env \in signatures
RecordSigned(rec) == rec.current \in signatures /\ rec.previous \in signatures \cup {None}
SignedOnly ==
    /\ pool.votes \subseteq signatures /\ pool.pending \subseteq signatures
    /\ \A t \in Threads : HandlerSigned(thread[t])
    /\ \A i \in DOMAIN journal : RecordSigned(journal[i])
    /\ reported \subseteq signatures

HonestOnce ==
    \A e, f \in signatures :
        e.signer \in Honest /\ f.signer = e.signer /\ f.number = e.number => f.hash = e.hash

(* What is exported or on chain was made of two conflicting votes.         *)
Founded ==
    /\ \A e \in outbox : Validate(e)
    /\ \A i \in DOMAIN records :
          /\ Validate(records[i].evidence)
          /\ records[i].offense = <<records[i].evidence.signer, records[i].evidence.number>>

EvidenceInv == EvidenceType /\ SignedOnly /\ HonestOnce /\ Founded /\ OneRecordPerOffense

(* The operations of the pool neither invent votes nor lose their shape.   *)
LEMMA PoolAdds ==
    ASSUME NEW p \in Pools(Envelopes), NEW e \in Envelopes
    PROVE  /\ AddVote(p, e) \in Pools(Envelopes)
           /\ AddVote(p, e).votes \subseteq p.votes \cup {e} /\ AddVote(p, e).pending = p.pending
           /\ AddPending(p, e) \in Pools(Envelopes)
           /\ AddPending(p, e).pending \subseteq p.pending \cup {e} /\ AddPending(p, e).votes = p.votes
<1>1. /\ p.votes \subseteq Envelopes /\ p.equivocations \subseteq Envelopes /\ p.pending \subseteq Envelopes
  BY Zenon DEF Pools
<1>2. \/ AddVote(p, e) = [p EXCEPT !.votes = @ \cup {e}]
      \/ AddVote(p, e) = p
      \/ AddVote(p, e) = [p EXCEPT !.equivocations = @ \cup {e}]
  BY Zenon DEF AddVote
<1>3. AddPending(p, e) = p \/ AddPending(p, e) = [p EXCEPT !.pending = @ \cup {e}]
  BY Zenon DEF AddPending
<1> QED BY <1>1, <1>2, <1>3 DEF Pools

(* Pruning a vote pool only removes votes.                                 *)
LEMMA PoolPrunes ==
    ASSUME NEW p \in Pools(Envelopes), NEW f, NEW h
    PROVE  /\ Prune(p, f, h) \in Pools(Envelopes)
           /\ Prune(p, f, h).votes \subseteq p.votes /\ Prune(p, f, h).pending \subseteq p.pending
<1> DEFINE Kept(envs) == {e \in envs : e.number > f /\ e.number > WindowFloor(h)}
<1>1. Prune(p, f, h) = [votes |-> Kept(p.votes), equivocations |-> Kept(p.equivocations),
                        pending |-> Kept(p.pending)]
  BY Zenon DEF Prune
<1>2. \A envs : Kept(envs) \subseteq envs
  BY Zenon
<1> HIDE DEF Kept
<1> QED BY <1>1, <1>2 DEF Pools

(* Dropping old files leaves records that were there; all of them when     *)
(* none is old.                                                            *)
LEMMA WithoutOld ==
    ASSUME NEW R, NEW j \in Seq(R), NEW b, NEW w, w = Without(j, b)
    PROVE  /\ w \in Seq(R)
           /\ \A i \in DOMAIN w : \E k \in DOMAIN j : w[i] = j[k]
           /\ (\A i \in DOMAIN j : ~(j[i].day < b)) => w = j
<1> DEFINE old == {i \in DOMAIN j : j[i].day < b}
           c == Cardinality(old)
<1>1. DOMAIN j = 1..Len(j) /\ Len(j) \in Nat
  OBVIOUS
<1>2. IsFiniteSet(1..Len(j)) /\ Cardinality(1..Len(j)) = Len(j)
  BY <1>1, FS_Interval
<1>3. IsFiniteSet(old) /\ c <= Len(j)
  BY <1>1, <1>2, FS_Subset
<1>4. c \in Nat
  BY <1>3, FS_CardinalityType, Zenon
<1>5. w = SubSeq(j, 1 + c, Len(j))
  BY Zenon DEF Without
<1>6. (\A i \in DOMAIN j : ~(j[i].day < b)) => c = 0
  <2> SUFFICES ASSUME \A i \in DOMAIN j : ~(j[i].day < b) PROVE c = 0
    BY Zenon
  <2>1. old = {}
    BY Zenon
  <2> QED BY <2>1, FS_EmptySet, Zenon
<1> HIDE DEF c
<1>7. w \in Seq(R) /\ \A i \in DOMAIN w : w[i] = j[i + c] /\ i + c \in DOMAIN j
  BY <1>1, <1>3, <1>4, <1>5
<1>8. c = 0 => w = j
  BY <1>1, <1>5
<1> QED BY <1>6, <1>7, <1>8, Zenon

(* NewMaliciousVoteEvidence shows the two envelopes it was given.          *)
LEMMA EvidenceOfTwo ==
    ASSUME NEW a \in Envelopes, NEW b \in Envelopes, NEW e, e = NewMaliciousVoteEvidence(a, b), e # None
    PROVE  /\ e \in Evidences /\ e.signer = a.signer /\ e.number = a.number
           /\ {EnvelopeOf(e, e.first), EnvelopeOf(e, e.second)} = {a, b}
           /\ NewMaliciousVoteEvidence(EnvelopeOf(e, e.first), EnvelopeOf(e, e.second)) = e
<1>1. a.signer = b.signer /\ a.number = b.number /\ a.hash # b.hash
  BY Zenon DEF NewMaliciousVoteEvidence
<1>2. /\ a = [number |-> a.number, hash |-> a.hash, signer |-> a.signer]
      /\ b = [number |-> b.number, hash |-> b.hash, signer |-> b.signer]
      /\ a.hash \in Nat /\ b.hash \in Nat
      /\ a.hash \in Hashes /\ b.hash \in Hashes /\ a.number \in Numbers /\ a.signer \in Signers
  BY EvidenceAssumption, Zenon DEF Envelopes
<1>3. CASE b.hash < a.hash
  <2>1. e = [number |-> a.number, signer |-> a.signer, first |-> b.hash, second |-> a.hash]
    BY <1>1, <1>3, Zenon DEF NewMaliciousVoteEvidence
  <2>2. EnvelopeOf(e, e.first) = b /\ EnvelopeOf(e, e.second) = a
    BY <1>1, <1>2, <2>1 DEF EnvelopeOf
  <2>3. NewMaliciousVoteEvidence(b, a) = e
    BY <1>1, <1>2, <1>3, <2>1 DEF NewMaliciousVoteEvidence
  <2> QED BY <1>2, <2>1, <2>2, <2>3 DEF Evidences
<1>4. CASE ~(b.hash < a.hash)
  <2>1. e = [number |-> a.number, signer |-> a.signer, first |-> a.hash, second |-> b.hash]
    BY <1>1, <1>4, Zenon DEF NewMaliciousVoteEvidence
  <2>2. EnvelopeOf(e, e.first) = a /\ EnvelopeOf(e, e.second) = b
    BY <1>1, <1>2, <2>1 DEF EnvelopeOf
  <2>3. NewMaliciousVoteEvidence(EnvelopeOf(e, e.first), EnvelopeOf(e, e.second)) = e
    BY <2>2, Zenon
  <2> QED BY <1>2, <2>1, <2>2, <2>3 DEF Evidences
<1> QED BY <1>3, <1>4, Zenon

(* Two signed votes that make evidence make evidence that validates.       *)
LEMMA TwoVotesValidate ==
    ASSUME signatures \subseteq Envelopes, NEW a \in signatures, NEW b \in signatures,
           NEW e, e = NewMaliciousVoteEvidence(a, b), e # None
    PROVE  Validate(e) /\ e \in Evidences
<1>1. a \in Envelopes /\ b \in Envelopes
  BY Zenon
<1> QED BY <1>1, EvidenceOfTwo DEF Validate

(* Evidence that validates goes on validating: signatures are never        *)
(* unmade.                                                                 *)
LEMMA ValidStays ==
    ASSUME NEW e, Validate(e), signatures \subseteq signatures'
    PROVE  Validate(e)'
BY Zenon DEF Validate

(* What export finds is made of two signed votes.                          *)
LEMMA ExportsSigned ==
    ASSUME EvidenceInv, NEW n, NEW v, FirstEvidence(n, v) # None
    PROVE  Validate(FirstEvidence(n, v))
<1> DEFINE S == FirstRecord(n, v)
           rec == CHOOSE x \in S : TRUE
<1>1. S # {} /\ FirstEvidence(n, v) = NewMaliciousVoteEvidence(rec.previous, rec.current)
  BY Zenon DEF FirstEvidence
<1>2. rec \in S
  BY <1>1, Zenon
<1> HIDE DEF rec
<1>3. PICK i \in DOMAIN journal : rec = journal[i] /\ Exportable(journal[i], n, v)
  BY <1>2, Zenon DEF FirstRecord
<1>4. rec.previous \in signatures /\ rec.current \in signatures /\ signatures \subseteq Envelopes
  BY <1>3, Zenon DEF Exportable, EvidenceInv, SignedOnly, RecordSigned, EvidenceType
<1> QED BY <1>1, <1>4, TwoVotesValidate, Zenon

(* The parts of the invariant that a step which signs nothing can disturb. *)
LEMMA EvidenceKept ==
    ASSUME EvidenceInv, UNCHANGED signatures, EvidenceType', SignedOnly',
           UNCHANGED <<outbox, records>>
    PROVE  EvidenceInv'
<1>1. HonestOnce'
  BY Zenon DEF EvidenceInv, HonestOnce
<1>2. \A e : Validate(e)' = Validate(e)
  BY Zenon DEF Validate, NewMaliciousVoteEvidence, EnvelopeOf
<1>3. Founded'
  BY <1>2, Zenon DEF EvidenceInv, Founded
<1>4. OneRecordPerOffense'
  BY Zenon DEF EvidenceInv, OneRecordPerOffense
<1> QED BY <1>1, <1>3, <1>4, Zenon DEF EvidenceInv

(* A step of one handler.                                                  *)
LEMMA HandlerStep ==
    ASSUME EvidenceInv, UNCHANGED <<signatures, outbox, records>>, NEW t \in Threads,
           NEW h \in Handlers, HandlerSigned(h), thread' = [thread EXCEPT ![t] = h],
           pool' \in Pools(Envelopes), pool'.votes \subseteq signatures, pool'.pending \subseteq signatures,
           day' \in Nat, journal' \in Seq(ConflictRecords),
           \A i \in DOMAIN journal' : RecordSigned(journal'[i]),
           reported' \subseteq signatures
    PROVE  EvidenceInv'
<1>1. EvidenceType'
  BY Zenon DEF EvidenceInv, EvidenceType
<1>2. \A u \in Threads : thread'[u] = IF u = t THEN h ELSE thread[u]
  BY Zenon DEF EvidenceInv, EvidenceType
<1>3. \A u \in Threads : HandlerSigned(thread[u])
  BY Zenon DEF EvidenceInv, SignedOnly
<1>4. \A u \in Threads : HandlerSigned(thread'[u])
  BY <1>2, <1>3, Zenon
<1>5. \A u \in Threads : HandlerSigned(thread[u])'
  BY <1>4, Zenon DEF HandlerSigned
<1>6. \A i \in DOMAIN journal' : RecordSigned(journal[i])'
  BY Zenon DEF RecordSigned
<1>7. SignedOnly'
  BY <1>5, <1>6, Zenon DEF SignedOnly
<1> QED BY <1>1, <1>7, EvidenceKept, Zenon

(* Pruning the journal by age leaves records that were in it.              *)
LEMMA JournalPruned ==
    ASSUME EvidenceInv, NEW w, w = pruneOldFiles(journal) \/ w = Without(journal, Cutoff)
    PROVE  /\ w \in Seq(ConflictRecords) /\ \A i \in DOMAIN w : RecordSigned(w[i])
           /\ \A i \in DOMAIN w : \E k \in DOMAIN journal : w[i] = journal[k]
<1>1. journal \in Seq(ConflictRecords) /\ \A i \in DOMAIN journal : RecordSigned(journal[i])
  BY Zenon DEF EvidenceInv, EvidenceType, SignedOnly
<1>2. CASE w = journal
  BY <1>1, <1>2, Zenon
<1>3. CASE w = Without(journal, Cutoff)
  <2>1. /\ w \in Seq(ConflictRecords)
        /\ \A i \in DOMAIN w : \E k \in DOMAIN journal : w[i] = journal[k]
    BY <1>1, <1>3, WithoutOld
  <2> QED BY <1>1, <2>1, Zenon
<1> QED BY <1>2, <1>3, Zenon DEF pruneOldFiles

(* The fields of a vote handler.                                           *)
LEMMA HandlerFields ==
    ASSUME NEW h \in Handlers
    PROVE  /\ h.queue \subseteq Envelopes /\ h.env \in Envelopes \cup {None}
           /\ h.prev \in Envelopes \cup {None} /\ h.equivocation \in BOOLEAN
           /\ h.source \in {"p2p", "pending"}
BY Zenon DEF Handlers

(* A handler with nothing to do is one.                                    *)
LEMMA IdleIsHandler == IdleHandler \in Handlers /\ HandlerSigned(IdleHandler)
BY Zenon DEF IdleHandler, Handlers, HandlerSigned

(* A vote from the network keeps the invariant.                            *)
LEMMA HandleKeeps ==
    ASSUME EvidenceInv, NEW t \in Threads, NEW e \in Envelopes, HandleIncomingVote(t, e)
    PROVE  EvidenceInv'
<1>1. /\ e \in signatures /\ UNCHANGED <<signatures, outbox, records, day, reported>>
  BY Zenon DEF HandleIncomingVote, fileVars, chainVars
<1>2. /\ pool \in Pools(Envelopes) /\ pool.votes \subseteq signatures /\ pool.pending \subseteq signatures
      /\ journal \in Seq(ConflictRecords) /\ day \in Nat /\ reported \subseteq signatures
      /\ \A i \in DOMAIN journal : RecordSigned(journal[i])
      /\ thread \in [Threads -> Handlers] /\ \A u \in Threads : HandlerSigned(thread[u])
  BY Zenon DEF EvidenceInv, EvidenceType, SignedOnly
<1>3. CASE <<e.hash, e.number>> \in known
  <2> DEFINE h == [IdleHandler EXCEPT !.pc = "lookup", !.queue = {e}]
  <2>1. thread' = [thread EXCEPT ![t] = h] /\ UNCHANGED <<pool, journal>>
    BY <1>3, Zenon DEF HandleIncomingVote, fileVars
  <2>2. h \in Handlers /\ HandlerSigned(h)
    BY <1>1, Zenon DEF IdleHandler, Handlers, HandlerSigned
  <2> HIDE DEF h
  <2> QED BY <1>1, <1>2, <2>1, <2>2, HandlerStep, Zenon
<1>4. CASE <<e.hash, e.number>> \notin known
  <2> DEFINE p == AddPending(pool, e)
  <2>1. /\ pool' = Prune(p, finalized, head) /\ journal' = pruneOldFiles(journal) /\ UNCHANGED thread
    BY <1>4, Zenon DEF HandleIncomingVote
  <2>2. p \in Pools(Envelopes) /\ p.pending \subseteq pool.pending \cup {e} /\ p.votes = pool.votes
    BY <1>2, PoolAdds, Zenon
  <2> HIDE DEF p
  <2>3. pool' \in Pools(Envelopes) /\ pool'.votes \subseteq p.votes /\ pool'.pending \subseteq p.pending
    BY <2>1, <2>2, PoolPrunes, Zenon
  <2>4. journal' \in Seq(ConflictRecords) /\ \A i \in DOMAIN journal' : RecordSigned(journal'[i])
    BY <2>1, JournalPruned, Zenon
  <2>5. thread' = [thread EXCEPT ![t] = thread[t]] /\ thread[t] \in Handlers /\ HandlerSigned(thread[t])
    BY <1>2, <2>1, Zenon
  <2>6. pool'.votes \subseteq signatures /\ pool'.pending \subseteq signatures
    BY <1>1, <1>2, <2>2, <2>3, Zenon
  <2> QED BY <1>1, <1>2, <2>3, <2>4, <2>5, <2>6, HandlerStep, Zenon
<1> QED BY <1>3, <1>4, Zenon

(* Promoting the pending votes of a checkpoint keeps the invariant.        *)
LEMMA AssembleKeeps ==
    ASSUME EvidenceInv, NEW t \in Threads, NEW hash, NEW number, AssembleCheckpointQC(t, hash, number)
    PROVE  EvidenceInv' /\ pool'.votes = pool.votes
<1>1. UNCHANGED <<signatures, outbox, records, day, journal, reported>>
  BY Zenon DEF AssembleCheckpointQC, fileVars, chainVars
<1>2. /\ pool \in Pools(Envelopes) /\ pool.votes \subseteq signatures /\ pool.pending \subseteq signatures
      /\ journal \in Seq(ConflictRecords) /\ day \in Nat /\ reported \subseteq signatures
      /\ \A i \in DOMAIN journal : RecordSigned(journal[i])
      /\ signatures \subseteq Envelopes
  BY Zenon DEF EvidenceInv, EvidenceType, SignedOnly
<1> DEFINE verified == {e \in PendingAt(pool, number) : e.hash = hash}
           k == [IdleHandler EXCEPT !.pc = "lookup", !.source = "pending", !.queue = verified]
<1>3. verified \subseteq signatures
  BY <1>2, Zenon DEF PendingAt
<1>4. PICK h : thread' = [thread EXCEPT ![t] = h] /\ (h = IdleHandler \/ h = k)
  BY Zenon DEF AssembleCheckpointQC
<1> HIDE DEF verified
<1>5. k \in Handlers /\ HandlerSigned(k)
  BY <1>2, <1>3, Zenon DEF IdleHandler, Handlers, HandlerSigned
<1> HIDE DEF k
<1>6. h \in Handlers /\ HandlerSigned(h)
  BY <1>4, <1>5, IdleIsHandler, Zenon
<1>7. /\ pool' \in Pools(Envelopes) /\ pool'.votes = pool.votes /\ pool'.pending \subseteq pool.pending
  BY <1>2, Zenon DEF AssembleCheckpointQC, Pools
<1> QED BY <1>1, <1>2, <1>4, <1>6, <1>7, HandlerStep, Zenon

(* The earlier vote a lookup finds was signed, by the same signer for the  *)
(* same number.                                                            *)
LEMMA PreviousSigned ==
    ASSUME EvidenceInv, NEW e
    PROVE  /\ Previous(e) \in signatures \cup {None}
           /\ Previous(e) # None => Previous(e).number = e.number /\ Previous(e).signer = e.signer
<1> DEFINE prev == ExistingVote(pool, e.number, e.signer)
<1>1. CASE prev = {}
  BY <1>1, Zenon DEF Previous
<1>2. CASE prev # {}
  <2> DEFINE p == CHOOSE x \in prev : TRUE
  <2>1. Previous(e) = p
    BY <1>2, Zenon DEF Previous
  <2>2. p \in prev
    BY <1>2, Zenon
  <2> HIDE DEF p
  <2>3. p \in pool.votes /\ p.number = e.number /\ p.signer = e.signer
    BY <2>2, Zenon DEF ExistingVote
  <2> QED BY <2>1, <2>3, Zenon DEF EvidenceInv, SignedOnly
<1> QED BY <1>1, <1>2, Zenon

(* Looking up the earlier vote keeps the invariant.                        *)
LEMMA LookupKeeps ==
    ASSUME EvidenceInv, NEW t \in Threads, Lookup(t)
    PROVE  EvidenceInv'
<1>1. UNCHANGED <<signatures, outbox, records, day, journal, reported, pool>>
  BY Zenon DEF Lookup, fileVars, chainVars
<1>2. /\ pool \in Pools(Envelopes) /\ pool.votes \subseteq signatures /\ pool.pending \subseteq signatures
      /\ journal \in Seq(ConflictRecords) /\ day \in Nat /\ reported \subseteq signatures
      /\ \A i \in DOMAIN journal : RecordSigned(journal[i])
      /\ thread[t] \in Handlers /\ HandlerSigned(thread[t]) /\ signatures \subseteq Envelopes
  BY Zenon DEF EvidenceInv, EvidenceType, SignedOnly
<1>3. PICK e \in thread[t].queue : thread' = [thread EXCEPT ![t] =
          [thread[t] EXCEPT !.pc = "add", !.queue = thread[t].queue \ {e}, !.env = e, !.prev = Previous(e)]]
  BY Zenon DEF Lookup
<1> DEFINE x == Previous(e)
           q == thread[t].queue \ {e}
           h == [thread[t] EXCEPT !.pc = "add", !.queue = q, !.env = e, !.prev = x]
<1>4. x \in signatures \cup {None} /\ e \in signatures /\ q \subseteq signatures
  BY <1>2, PreviousSigned, Zenon DEF HandlerSigned
<1> HIDE DEF x
<1>5. thread' = [thread EXCEPT ![t] = h]
  BY <1>3, Zenon DEF x
<1>6. h \in Handlers /\ HandlerSigned(h)
  BY <1>2, <1>4, Zenon DEF Handlers, HandlerSigned
<1> HIDE DEF h
<1> QED BY <1>1, <1>2, <1>5, <1>6, HandlerStep, Zenon

(* What Add does to the handler.                                           *)
LEMMA AddActs ==
    ASSUME EvidenceInv, NEW t \in Threads, Add(t)
    PROVE  \E b \in BOOLEAN :
             /\ thread' = [thread EXCEPT ![t] = [thread[t] EXCEPT !.pc = "journal", !.equivocation = b]]
             /\ b = TRUE => /\ Previous(thread[t].env) # None
                            /\ Previous(thread[t].env).hash # thread[t].env.hash
<1> DEFINE e == thread[t].env
<1>1. PICK b \in BOOLEAN :
          /\ thread' = [thread EXCEPT ![t].pc = "journal", ![t].equivocation = b]
          /\ b = TRUE => Previous(e) # None /\ Previous(e).hash # e.hash
  BY Zenon DEF Add
<1>2. thread \in [Threads -> Handlers] /\ thread[t] \in Handlers
  BY Zenon DEF EvidenceInv, EvidenceType
<1> HIDE DEF e
<1>3. thread' = [thread EXCEPT ![t] = [thread[t] EXCEPT !.pc = "journal", !.equivocation = b]]
  BY <1>1, <1>2, Zenon DEF Handlers
<1> QED BY <1>1, <1>3, Zenon DEF e

(* Adding the vote to the pool keeps the invariant.                        *)
LEMMA AddKeeps ==
    ASSUME EvidenceInv, NEW t \in Threads, Add(t)
    PROVE  EvidenceInv'
<1>1. UNCHANGED <<signatures, outbox, records, day, journal, reported>>
  BY Zenon DEF Add, fileVars, chainVars
<1>2. /\ pool \in Pools(Envelopes) /\ pool.votes \subseteq signatures /\ pool.pending \subseteq signatures
      /\ journal \in Seq(ConflictRecords) /\ day \in Nat /\ reported \subseteq signatures
      /\ \A i \in DOMAIN journal : RecordSigned(journal[i])
      /\ thread[t] \in Handlers /\ HandlerSigned(thread[t]) /\ signatures \subseteq Envelopes
  BY Zenon DEF EvidenceInv, EvidenceType, SignedOnly
<1> DEFINE e == thread[t].env
<1>3. e \in signatures /\ e \in Envelopes /\ pool' = AddVote(pool, e)
  BY <1>2, Zenon DEF Add, HandlerSigned
<1>4. PICK b \in BOOLEAN :
          thread' = [thread EXCEPT ![t] = [thread[t] EXCEPT !.pc = "journal", !.equivocation = b]]
  BY AddActs, Zenon
<1> DEFINE h == [thread[t] EXCEPT !.pc = "journal", !.equivocation = b]
<1>5. h \in Handlers /\ HandlerSigned(h)
  BY <1>2, <1>3, Zenon DEF Handlers, HandlerSigned
<1> HIDE DEF h, e
<1>6. /\ pool' \in Pools(Envelopes) /\ pool'.votes \subseteq pool.votes \cup {e} /\ pool'.pending = pool.pending
  BY <1>2, <1>3, PoolAdds, Zenon
<1>7. pool'.votes \subseteq signatures /\ pool'.pending \subseteq signatures
  BY <1>2, <1>3, <1>6, Zenon
<1>8. thread' = [thread EXCEPT ![t] = h]
  BY <1>4, Zenon DEF h
<1> QED BY <1>1, <1>2, <1>5, <1>6, <1>7, <1>8, HandlerStep, Zenon

(* What Journal appends.                                                   *)
LEMMA JournalActs ==
    ASSUME EvidenceInv, NEW t \in Threads, Journal(t)
    PROVE  /\ \/ /\ thread[t].equivocation
                 /\ journal' = Append(pruneOldFiles(journal),
                        [day |-> day, previous |-> thread[t].prev, current |-> thread[t].env])
                 /\ reported' = reported \cup {thread[t].env}
              \/ journal' = pruneOldFiles(journal) /\ UNCHANGED reported
           /\ thread[t].env \in signatures /\ thread[t].prev \in signatures \cup {None}
           /\ UNCHANGED <<signatures, outbox, records, day>>
<1>1. HandlerSigned(thread[t]) /\ thread[t].pc = "journal"
  BY Zenon DEF Journal, EvidenceInv, SignedOnly
<1>2. thread[t].env \in signatures /\ thread[t].prev \in signatures \cup {None}
  BY <1>1, Zenon DEF HandlerSigned
<1>3. UNCHANGED <<signatures, outbox, records, day>>
  BY Zenon DEF Journal, chainVars
<1>4. \/ /\ thread[t].equivocation
         /\ journal' = Append(pruneOldFiles(journal),
                [day |-> day, previous |-> thread[t].prev, current |-> thread[t].env])
         /\ reported' = reported \cup {thread[t].env}
      \/ journal' = pruneOldFiles(journal) /\ UNCHANGED reported
  BY Zenon DEF Journal, RecordConflict
<1> QED BY <1>2, <1>3, <1>4, Zenon

(* Writing the conflict to the journal keeps the invariant.                *)
LEMMA JournalKeeps ==
    ASSUME EvidenceInv, NEW t \in Threads, Journal(t)
    PROVE  EvidenceInv'
<1> DEFINE e == thread[t].env
           rec == [day |-> day, previous |-> thread[t].prev, current |-> e]
           w == pruneOldFiles(journal)
           k == [thread[t] EXCEPT !.pc = "lookup", !.env = None, !.prev = None, !.equivocation = FALSE]
<1>1. /\ UNCHANGED <<signatures, outbox, records, day>>
      /\ e \in signatures /\ thread[t].prev \in signatures \cup {None}
  BY JournalActs, Zenon
<1>2. /\ pool \in Pools(Envelopes) /\ pool.votes \subseteq signatures /\ pool.pending \subseteq signatures
      /\ day \in Nat /\ reported \subseteq signatures
      /\ thread[t] \in Handlers /\ HandlerSigned(thread[t]) /\ signatures \subseteq Envelopes
  BY Zenon DEF EvidenceInv, EvidenceType, SignedOnly
<1>3. PICK h : thread' = [thread EXCEPT ![t] = h] /\ (h = IdleHandler \/ h = k)
  BY Zenon DEF Journal
<1>4. k \in Handlers /\ HandlerSigned(k)
  BY <1>2, Zenon DEF Handlers, HandlerSigned
<1> HIDE DEF k
<1>5. h \in Handlers /\ HandlerSigned(h)
  BY <1>3, <1>4, IdleIsHandler, Zenon
<1>6. pool' \in Pools(Envelopes) /\ pool'.votes \subseteq signatures /\ pool'.pending \subseteq signatures
  <2>1. pool' = pool \/ pool' = Prune(pool, finalized, head)
    BY Zenon DEF Journal
  <2>2. /\ Prune(pool, finalized, head) \in Pools(Envelopes)
        /\ Prune(pool, finalized, head).votes \subseteq pool.votes
        /\ Prune(pool, finalized, head).pending \subseteq pool.pending
    BY <1>2, PoolPrunes, Zenon
  <2> QED BY <1>2, <2>1, <2>2, Zenon
<1>7. w \in Seq(ConflictRecords) /\ \A i \in DOMAIN w : RecordSigned(w[i])
  BY JournalPruned, Zenon
<1> HIDE DEF w
<1>8. rec \in ConflictRecords /\ RecordSigned(rec)
  BY <1>1, <1>2, Zenon DEF ConflictRecords, RecordSigned
<1>9. (journal' = Append(w, rec) /\ reported' = reported \cup {e}) \/ (journal' = w /\ reported' = reported)
  BY JournalActs, Zenon DEF w
<1> HIDE DEF rec
<1>10. journal' \in Seq(ConflictRecords) /\ \A i \in DOMAIN journal' : RecordSigned(journal'[i])
  BY <1>7, <1>8, <1>9
<1>11. reported' \subseteq signatures
  BY <1>1, <1>2, <1>9, Zenon
<1> QED BY <1>1, <1>2, <1>3, <1>5, <1>6, <1>10, <1>11, HandlerStep, Zenon

(* A restart, which loses the pool, keeps the invariant.                   *)
LEMMA RestartKeeps ==
    ASSUME EvidenceInv, Restart
    PROVE  EvidenceInv'
<1>1. UNCHANGED <<signatures, outbox, records, day, reported>> /\ pool' = EmptyPool
      /\ thread' = [t \in Threads |-> IdleHandler] /\ journal' = Without(journal, Cutoff)
  BY Zenon DEF Restart, chainVars
<1>2. journal' \in Seq(ConflictRecords) /\ \A i \in DOMAIN journal' : RecordSigned(journal'[i])
  BY <1>1, JournalPruned, Zenon
<1>3. EvidenceType'
  BY <1>1, <1>2, IdleIsHandler, Zenon DEF EvidenceInv, EvidenceType, EmptyPool, Pools
<1>4. \A i \in DOMAIN journal' : RecordSigned(journal[i])'
  BY <1>1, <1>2, Zenon DEF RecordSigned
<1>5. \A t \in Threads : HandlerSigned(thread[t])'
  BY <1>1, IdleIsHandler, Zenon DEF HandlerSigned
<1>6. SignedOnly'
  BY <1>1, <1>4, <1>5, Zenon DEF SignedOnly, EvidenceInv, EmptyPool
<1> QED BY <1>1, <1>3, <1>6, EvidenceKept, Zenon

(* A new signature keeps the invariant.                                    *)
LEMMA SignKeeps ==
    ASSUME EvidenceInv, NEW e \in Envelopes, Sign(e)
    PROVE  EvidenceInv'
<1>1. /\ signatures' = signatures \cup {e} /\ MaySign(e)
      /\ UNCHANGED <<pool, thread, day, journal, reported, outbox, records>>
  BY Zenon DEF Sign, nodeVars, fileVars, chainVars
<1>2. EvidenceType'
  BY <1>1, Zenon DEF EvidenceInv, EvidenceType
<1>3. \A t \in Threads : HandlerSigned(thread[t])'
  BY <1>1, Zenon DEF EvidenceInv, SignedOnly, HandlerSigned
<1>4. SignedOnly'
  BY <1>1, <1>3, Zenon DEF EvidenceInv, SignedOnly, RecordSigned
<1>5. HonestOnce'
  BY <1>1 DEF EvidenceInv, HonestOnce, MaySign
<1>6. \A x : Validate(x) => Validate(x)'
  BY <1>1, ValidStays, Zenon
<1>7. Founded'
  <2>1. \A x \in outbox' : Validate(x)'
    BY <1>1, <1>6, Zenon DEF EvidenceInv, Founded
  <2>2. \A i \in DOMAIN records' : /\ Validate(records[i].evidence)'
            /\ records'[i].offense = <<records'[i].evidence.signer, records'[i].evidence.number>>
    BY <1>1, <1>6, Zenon DEF EvidenceInv, Founded, Validate
  <2> QED BY <2>1, <2>2, Zenon DEF Founded
<1>8. OneRecordPerOffense'
  BY <1>1, Zenon DEF EvidenceInv, OneRecordPerOffense
<1> QED BY <1>2, <1>4, <1>5, <1>7, <1>8, Zenon DEF EvidenceInv

(* Exporting evidence from the journal keeps the invariant: it is of two   *)
(* signatures.                                                             *)
LEMMA ExportKeeps ==
    ASSUME EvidenceInv, NEW n, NEW v, ExportMaliciousVoteEvidence(n, v)
    PROVE  EvidenceInv'
<1> DEFINE x == FirstEvidence(n, v)
<1>1. /\ outbox' = outbox \cup {x} /\ x # None
      /\ UNCHANGED <<signatures, pool, thread, day, journal, reported, records>>
  BY Zenon DEF ExportMaliciousVoteEvidence, nodeVars, chainVars
<1>2. Validate(x)
  BY <1>1, ExportsSigned, Zenon
<1> HIDE DEF x
<1>3. EvidenceType' /\ SignedOnly'
  BY <1>1, Zenon DEF EvidenceInv, EvidenceType, SignedOnly, HandlerSigned, RecordSigned
<1>4. HonestOnce' /\ OneRecordPerOffense'
  BY <1>1, Zenon DEF EvidenceInv, HonestOnce, OneRecordPerOffense
<1>5. \A y : Validate(y) => Validate(y)'
  BY <1>1, ValidStays, Zenon
<1>6. Founded'
  <2>1. \A y \in outbox' : Validate(y)'
    BY <1>1, <1>2, <1>5, Zenon DEF EvidenceInv, Founded
  <2>2. \A i \in DOMAIN records' : /\ Validate(records[i].evidence)'
            /\ records'[i].offense = <<records'[i].evidence.signer, records'[i].evidence.number>>
    BY <1>1, <1>5, Zenon DEF EvidenceInv, Founded, Validate
  <2> QED BY <2>1, <2>2, Zenon DEF Founded
<1> QED BY <1>3, <1>4, <1>6, Zenon DEF EvidenceInv

(* Submitting evidence to the slash indicator keeps the invariant.         *)
LEMMA ExecuteKeeps ==
    ASSUME EvidenceInv, NEW a \in signatures, NEW b \in signatures, Execute(a, b)
    PROVE  EvidenceInv'
<1> DEFINE e == NewMaliciousVoteEvidence(a, b)
           o == <<e.signer, e.number>>
           r == [evidence |-> e, offense |-> o]
<1>1. /\ e # None /\ Validate(e) /\ ~HasRecordedMaliciousVoteOffense(e.signer, e.number)
      /\ records' = Append(records, r)
      /\ UNCHANGED <<signatures, pool, thread, day, journal, reported, outbox>>
  BY Zenon DEF Execute, nodeVars, fileVars
<1>2. e \in Evidences
  <2>1. signatures \subseteq Envelopes
    BY Zenon DEF EvidenceInv, EvidenceType
  <2> QED BY <1>1, <2>1, TwoVotesValidate, Zenon
<1> HIDE DEF e
<1>3. r \in OffenseRecords /\ r.evidence = e /\ r.offense = o
  BY <1>2, Zenon DEF OffenseRecords, Evidences
<1>4. \A i \in DOMAIN records : records[i].offense # o
  BY <1>1, Zenon DEF HasRecordedMaliciousVoteOffense
<1> HIDE DEF r
<1>5. /\ records \in Seq(OffenseRecords) /\ records' \in Seq(OffenseRecords)
      /\ DOMAIN records = 1..Len(records) /\ DOMAIN records' = 1..(Len(records) + 1)
      /\ Len(records) \in Nat
      /\ records'[Len(records) + 1] = r /\ \A i \in DOMAIN records : records'[i] = records[i]
  BY <1>1, <1>3 DEF EvidenceInv, EvidenceType
<1>6. EvidenceType' /\ SignedOnly'
  BY <1>1, <1>5, Zenon DEF EvidenceInv, EvidenceType, SignedOnly, HandlerSigned, RecordSigned
<1>7. HonestOnce'
  BY <1>1, Zenon DEF EvidenceInv, HonestOnce
<1>8. \A y : Validate(y) => Validate(y)'
  BY <1>1, ValidStays, Zenon
<1>9. \A i \in DOMAIN records :
          Validate(records[i].evidence) /\ records[i].offense = <<records[i].evidence.signer, records[i].evidence.number>>
  BY Zenon DEF EvidenceInv, Founded
<1>10. \A i \in DOMAIN records' :
           Validate(records'[i].evidence) /\ records'[i].offense = <<records'[i].evidence.signer, records'[i].evidence.number>>
  <2> TAKE i \in DOMAIN records'
  <2>1. CASE i \in DOMAIN records
    BY <1>5, <1>9, <2>1, Zenon
  <2>2. CASE i = Len(records) + 1
    BY <1>1, <1>3, <1>5, <2>2, Zenon
  <2> QED BY <1>5, <2>1, <2>2
<1>11. Founded'
  <2>1. \A y \in outbox' : Validate(y)'
    BY <1>1, <1>8, Zenon DEF EvidenceInv, Founded
  <2>2. \A i \in DOMAIN records' : Validate(records[i].evidence)'
    BY <1>1, <1>10, Zenon DEF Validate
  <2> QED BY <1>10, <2>1, <2>2, Zenon DEF Founded
<1>12. OneRecordPerOffense'
  <2> SUFFICES ASSUME NEW i \in DOMAIN records', NEW j \in DOMAIN records',
                      records'[i].evidence.signer = records'[j].evidence.signer,
                      records'[i].evidence.number = records'[j].evidence.number
               PROVE  i = j
    BY Zenon DEF OneRecordPerOffense
  <2>1. records'[i].offense = records'[j].offense
    BY <1>10, Zenon
  <2>2. CASE i \in DOMAIN records /\ j \in DOMAIN records
    BY <1>5, <2>2, Zenon DEF EvidenceInv, OneRecordPerOffense
  <2>3. CASE i = Len(records) + 1 /\ j \in DOMAIN records
    BY <1>3, <1>4, <1>5, <2>1, <2>3, Zenon
  <2>4. CASE j = Len(records) + 1 /\ i \in DOMAIN records
    BY <1>3, <1>4, <1>5, <2>1, <2>4, Zenon
  <2> QED BY <1>5, <2>2, <2>3, <2>4
<1> QED BY <1>6, <1>7, <1>11, <1>12, Zenon DEF EvidenceInv

(* The invariant holds at first.                                           *)
LEMMA EvidenceStarts == EvidenceInit => EvidenceInv
<1> SUFFICES ASSUME EvidenceInit PROVE EvidenceInv
  BY Zenon
<1>1. EvidenceType
  BY IdleIsHandler DEF EvidenceInit, EvidenceType, EmptyPool, Pools
<1>2. SignedOnly
  BY IdleIsHandler DEF EvidenceInit, SignedOnly, EmptyPool
<1> QED BY <1>1, <1>2 DEF EvidenceInit, EvidenceInv, HonestOnce, Founded, OneRecordPerOffense

(* Every step keeps the invariant.                                         *)
LEMMA EvidenceSteps ==
    ASSUME EvidenceInv, [EvidenceNext]_evidenceVars
    PROVE  EvidenceInv'
<1> DEFINE Same == UNCHANGED <<signatures, pool, thread, journal, reported, outbox, records>>
<1>1. ASSUME Same, day' \in Nat
      PROVE  EvidenceInv'
  <2>1. EvidenceType' /\ SignedOnly'
    BY <1>1, Zenon DEF EvidenceInv, EvidenceType, SignedOnly, HandlerSigned, RecordSigned
  <2> QED BY <1>1, <2>1, EvidenceKept, Zenon
<1>2. day \in Nat
  BY Zenon DEF EvidenceInv, EvidenceType
<1>3. CASE NewDay
  <2>1. Same /\ day' = day + 1
    BY <1>3, Zenon DEF NewDay, nodeVars, chainVars
  <2> QED BY <1>1, <1>2, <2>1
<1>4. CASE NewHead \/ (\E hash \in Hashes, n \in Numbers : Learn(hash, n))
  <2>1. Same /\ day' = day
    BY <1>4, Zenon DEF NewHead, Learn, fileVars, chainVars
  <2> QED BY <1>1, <1>2, <2>1, Zenon
<1>5. CASE \E v \in Signers : Register(v) \/ Withdraw(v)
  <2>1. Same /\ day' = day
    BY <1>5, Zenon DEF Register, Withdraw, nodeVars, fileVars
  <2> QED BY <1>1, <1>2, <2>1, Zenon
<1>6. CASE UNCHANGED evidenceVars
  <2>1. Same /\ day' = day
    BY <1>6, Zenon DEF evidenceVars, nodeVars, fileVars, chainVars
  <2> QED BY <1>1, <1>2, <2>1, Zenon
<1> QED BY <1>3, <1>4, <1>5, <1>6, RestartKeeps, SignKeeps, HandleKeeps, AssembleKeeps, LookupKeeps,
           AddKeeps, JournalKeeps, ExportKeeps, ExecuteKeeps, Zenon DEF EvidenceNext

(* The invariant gives the properties of accusations and exports.          *)
LEMMA EvidenceFair ==
    EvidenceInv => OnlyEquivocatorsAccused /\ OneRecordPerOffense /\ ExportsAreValid
<1> SUFFICES ASSUME EvidenceInv PROVE OnlyEquivocatorsAccused /\ OneRecordPerOffense /\ ExportsAreValid
  BY Zenon
<1>1. ASSUME NEW i \in DOMAIN records
      PROVE  /\ records[i].evidence.signer \notin Honest
             /\ \E a, b \in signatures : /\ a.signer = records[i].evidence.signer /\ b.signer = a.signer
                                         /\ a.number = b.number /\ a.hash # b.hash
  <2> DEFINE e == records[i].evidence
             a == EnvelopeOf(e, e.first)
             b == EnvelopeOf(e, e.second)
  <2>1. /\ e # None /\ NewMaliciousVoteEvidence(a, b) = e /\ a \in signatures /\ b \in signatures
    BY <1>1, Zenon DEF EvidenceInv, Founded, Validate
  <2>2. a.signer = e.signer /\ b.signer = e.signer /\ a.number = b.number
    BY Zenon DEF EnvelopeOf
  <2> HIDE DEF a, b, e
  <2>3. a.hash # b.hash
    BY <2>1, Zenon DEF NewMaliciousVoteEvidence
  <2>4. e.signer \notin Honest
    BY <2>1, <2>2, <2>3, Zenon DEF EvidenceInv, HonestOnce
  <2> QED BY <2>1, <2>2, <2>3, <2>4, Zenon DEF e
<1> QED BY <1>1, Zenon DEF OnlyEquivocatorsAccused, ExportsAreValid, EvidenceInv, Founded

(* With one handler, what it looked up is still in the pool when it adds   *)
(* its vote, so every report has its two votes in the journal.             *)
Conflict(a, b) == a # None /\ a.signer = b.signer /\ a.number = b.number /\ a.hash # b.hash
LookupCurrent ==
    \A t \in Threads :
        /\ thread[t].pc = "add" => thread[t].prev = Previous(thread[t].env)
        /\ thread[t].pc = "journal" /\ thread[t].equivocation => Conflict(thread[t].prev, thread[t].env)
JournalConflicts == \A i \in DOMAIN journal : Conflict(journal[i].previous, journal[i].current)
ReportsKept ==
    day < RetentionDays =>
        \A e \in reported : \E i \in DOMAIN journal :
            journal[i].current.signer = e.signer /\ journal[i].current.number = e.number
ReportInv == LookupCurrent /\ JournalConflicts /\ ReportsKept

(* The earlier vote is by the same signer and for the same number.         *)
LEMMA PreviousVote ==
    ASSUME NEW e, Previous(e) # None
    PROVE  Previous(e).signer = e.signer /\ Previous(e).number = e.number
BY Zenon DEF Previous, ExistingVote

(* Pruning keeps no record that was not there, and within the retention it *)
(* removes none.                                                           *)
LEMMA PruneKeeps ==
    ASSUME EvidenceInv, JournalConflicts,
           NEW w, w = journal \/ w = pruneOldFiles(journal) \/ w = Without(journal, Cutoff)
    PROVE  /\ w \in Seq(ConflictRecords)
           /\ \A i \in DOMAIN w : Conflict(w[i].previous, w[i].current)
           /\ day < RetentionDays => w = journal
<1>1. journal \in Seq(ConflictRecords) /\ day \in Nat
  BY Zenon DEF EvidenceInv, EvidenceType
<1>2. CASE w = journal
  BY <1>1, <1>2, Zenon DEF JournalConflicts
<1>3. CASE w = Without(journal, Cutoff)
  <2>1. /\ w \in Seq(ConflictRecords)
        /\ \A i \in DOMAIN w : \E k \in DOMAIN journal : w[i] = journal[k]
        /\ (\A i \in DOMAIN journal : ~(journal[i].day < Cutoff)) => w = journal
    BY <1>1, <1>3, WithoutOld
  <2>2. ASSUME day < RetentionDays, NEW i \in DOMAIN journal
        PROVE  ~(journal[i].day < Cutoff)
    <3>2. journal[i] \in ConflictRecords
      BY <1>1, <2>2
    <3>1. journal[i].day \in Nat
      BY <3>2, Zenon DEF ConflictRecords
    <3> QED BY <1>1, <2>2, <3>1, EvidenceAssumption DEF Cutoff
  <2>3. \A i \in DOMAIN w : Conflict(w[i].previous, w[i].current)
    BY <2>1, Zenon DEF JournalConflicts
  <2> QED BY <2>1, <2>2, <2>3, Zenon
<1> QED BY <1>2, <1>3, Zenon DEF pruneOldFiles

(* What was reported stays in the journal when it is pruned or a day       *)
(* passes.                                                                 *)
LEMMA ReportsStay ==
    ASSUME EvidenceInv, ReportInv, LookupCurrent', UNCHANGED reported,
           \/ /\ day' = day
              /\ journal' = journal \/ journal' = pruneOldFiles(journal) \/ journal' = Without(journal, Cutoff)
           \/ day' = day + 1 /\ journal' = journal
    PROVE  ReportInv'
<1>1. /\ \A i \in DOMAIN journal' : Conflict(journal'[i].previous, journal'[i].current)
      /\ day < RetentionDays => journal' = journal
  BY PruneKeeps, Zenon DEF ReportInv
<1>2. JournalConflicts'
  BY <1>1, Zenon DEF JournalConflicts, Conflict
<1>3. day' < RetentionDays => day < RetentionDays
  BY EvidenceAssumption DEF EvidenceInv, EvidenceType
<1>4. ReportsKept'
  BY <1>1, <1>3 DEF ReportInv, ReportsKept
<1> QED BY <1>2, <1>4, Zenon DEF ReportInv

(* No handler holds a vote that is not in the pool yet.                    *)
LEMMA AtRest ==
    ASSUME \A u \in Threads : thread'[u].pc \in {"idle", "lookup"}
    PROVE  LookupCurrent'
BY Zenon DEF LookupCurrent

(* With one handler, a vote from the network keeps every report in the     *)
(* journal.                                                                *)
LEMMA HandleReports ==
    ASSUME EvidenceInv, ReportInv, \A t, u \in Threads : t = u,
           NEW t \in Threads, NEW e \in Envelopes, HandleIncomingVote(t, e)
    PROVE  ReportInv'
<1>1. thread \in [Threads -> Handlers] /\ thread[t].pc = "idle"
  BY Zenon DEF EvidenceInv, EvidenceType, HandleIncomingVote
<1>2. \/ thread' = [thread EXCEPT ![t] = [IdleHandler EXCEPT !.pc = "lookup", !.queue = {e}]]
      \/ thread' = thread
  BY Zenon DEF HandleIncomingVote
<1>3. thread'[t].pc \in {"idle", "lookup"}
  BY <1>1, <1>2, Zenon DEF IdleHandler
<1>4. LookupCurrent'
  BY <1>3, AtRest, Zenon
<1>5. UNCHANGED <<reported, day>> /\ (journal' = journal \/ journal' = pruneOldFiles(journal))
  BY Zenon DEF HandleIncomingVote, fileVars
<1> QED BY <1>4, <1>5, ReportsStay, Zenon

(* With one handler, promoting pending votes keeps every report in the     *)
(* journal.                                                                *)
LEMMA AssembleReports ==
    ASSUME EvidenceInv, ReportInv, \A t, u \in Threads : t = u,
           NEW t \in Threads, NEW hash \in Hashes, NEW n \in Numbers, AssembleCheckpointQC(t, hash, n)
    PROVE  ReportInv'
<1>1. thread \in [Threads -> Handlers] /\ thread[t].pc = "idle"
  BY Zenon DEF EvidenceInv, EvidenceType, AssembleCheckpointQC
<1>2. PICK q : \/ thread' = [thread EXCEPT ![t] =
                     [IdleHandler EXCEPT !.pc = "lookup", !.source = "pending", !.queue = q]]
               \/ thread' = [thread EXCEPT ![t] = IdleHandler]
  BY Zenon DEF AssembleCheckpointQC
<1>6. \/ thread'[t] = [IdleHandler EXCEPT !.pc = "lookup", !.source = "pending", !.queue = q]
      \/ thread'[t] = IdleHandler
  BY <1>1, <1>2, Zenon
<1>7. IdleHandler.pc = "idle"
  BY Zenon DEF IdleHandler
<1>8. [IdleHandler EXCEPT !.pc = "lookup", !.source = "pending", !.queue = q].pc = "lookup"
  BY Zenon DEF IdleHandler
<1>3. thread'[t].pc \in {"idle", "lookup"}
  BY <1>6, <1>7, <1>8, Zenon
<1>4. LookupCurrent'
  BY <1>3, AtRest, Zenon
<1>5. UNCHANGED <<reported, day, journal>>
  BY Zenon DEF AssembleCheckpointQC, fileVars
<1> QED BY <1>4, <1>5, ReportsStay, Zenon

(* With one handler, the earlier vote just looked up is the one in the     *)
(* pool.                                                                   *)
LEMMA LookupReports ==
    ASSUME EvidenceInv, ReportInv, \A t, u \in Threads : t = u, NEW t \in Threads, Lookup(t)
    PROVE  ReportInv'
<1>1. thread \in [Threads -> Handlers] /\ UNCHANGED <<reported, day, journal, pool>>
  BY Zenon DEF EvidenceInv, EvidenceType, Lookup, fileVars
<1>2. PICK e \in thread[t].queue : thread' = [thread EXCEPT ![t] =
          [thread[t] EXCEPT !.pc = "add", !.queue = thread[t].queue \ {e}, !.env = e, !.prev = Previous(e)]]
  BY Zenon DEF Lookup
<1>3. Previous(e)' = Previous(e)
  BY <1>1 DEF Previous
<1> DEFINE x == Previous(e)
<1> HIDE DEF x
<1>4. thread'[t].pc = "add" /\ thread'[t].env = e /\ thread'[t].prev = x
  <2>1. thread'[t] = [thread[t] EXCEPT !.pc = "add", !.queue = thread[t].queue \ {e}, !.env = e, !.prev = x]
    BY <1>1, <1>2, Zenon DEF x
  <2>2. thread[t] \in Handlers
    BY <1>1, Zenon
  <2> QED BY <2>1, <2>2, Zenon DEF Handlers
<1>5. LookupCurrent'
  <2>1. \A u \in Threads : u = t
    BY Zenon
  <2>2. thread'[t].prev = Previous(thread[t].env)'
    BY <1>1, <1>3, <1>4, Zenon DEF x, Previous
  <2> QED BY <1>4, <2>1, <2>2, Zenon DEF LookupCurrent
<1> QED BY <1>1, <1>5, ReportsStay, Zenon

(* With one handler, the vote refused as an equivocation differs from the  *)
(* one looked up.                                                          *)
LEMMA AddReports ==
    ASSUME EvidenceInv, ReportInv, \A t, u \in Threads : t = u, NEW t \in Threads, Add(t)
    PROVE  ReportInv'
<1>1. thread[t] \in Handlers /\ thread \in [Threads -> Handlers] /\ UNCHANGED <<reported, day, journal>>
  BY Zenon DEF EvidenceInv, EvidenceType, Add, fileVars
<1> DEFINE e == thread[t].env
           x == Previous(e)
<1>2. thread[t].prev = x
  BY Zenon DEF Add, ReportInv, LookupCurrent
<1>3. PICK b \in BOOLEAN :
          /\ thread' = [thread EXCEPT ![t] = [thread[t] EXCEPT !.pc = "journal", !.equivocation = b]]
          /\ b = TRUE => x # None /\ x.hash # e.hash
  BY AddActs, Zenon
<1>4. x # None => x.signer = e.signer /\ x.number = e.number
  BY PreviousVote, Zenon
<1> HIDE DEF x, e
<1>5. thread'[t].pc = "journal" /\ thread'[t].equivocation = b /\ thread'[t].env = e /\ thread'[t].prev = x
  BY <1>1, <1>2, <1>3, Zenon DEF Handlers, e
<1>6. b = TRUE => Conflict(x, e)
  BY <1>3, <1>4, Zenon DEF Conflict
<1>7. \A u \in Threads : u = t
  BY Zenon
<1>8. thread'[t].equivocation => Conflict(thread'[t].prev, thread'[t].env)
  BY <1>5, <1>6, Zenon
<1>9. LookupCurrent'
  BY <1>5, <1>7, <1>8, Zenon DEF LookupCurrent, Conflict
<1> QED BY <1>1, <1>9, ReportsStay, Zenon

(* With one handler, what is answered as an equivocation is in the         *)
(* journal.                                                                *)
LEMMA JournalReports ==
    ASSUME EvidenceInv, ReportInv, \A t, u \in Threads : t = u, NEW t \in Threads, Journal(t)
    PROVE  ReportInv'
<1> DEFINE e == thread[t].env
           p == thread[t].prev
           rec == [day |-> day, previous |-> p, current |-> e]
           w == pruneOldFiles(journal)
<1>1. thread \in [Threads -> Handlers] /\ thread[t] \in Handlers /\ day \in Nat
  BY Zenon DEF EvidenceInv, EvidenceType
<1>2. LookupCurrent'
  <2>1. \/ thread' = [thread EXCEPT ![t] = IdleHandler]
        \/ thread' = [thread EXCEPT ![t] =
               [thread[t] EXCEPT !.pc = "lookup", !.env = None, !.prev = None, !.equivocation = FALSE]]
    BY Zenon DEF Journal
  <2>3. \/ thread'[t] = IdleHandler
        \/ thread'[t] = [thread[t] EXCEPT !.pc = "lookup", !.env = None, !.prev = None, !.equivocation = FALSE]
    BY <1>1, <2>1, Zenon
  <2>4. IdleHandler.pc = "idle"
    BY Zenon DEF IdleHandler
  <2>5. [thread[t] EXCEPT !.pc = "lookup", !.env = None, !.prev = None, !.equivocation = FALSE].pc = "lookup"
    BY <1>1, Zenon DEF Handlers
  <2>2. thread'[t].pc \in {"idle", "lookup"}
    BY <2>3, <2>4, <2>5, Zenon
  <2> QED BY <2>2, AtRest, Zenon
<1>3. CASE journal' = w /\ UNCHANGED reported
  <2>1. day' = day
    BY JournalActs, Zenon
  <2> QED BY <1>2, <1>3, <2>1, ReportsStay, Zenon
<1>4. CASE thread[t].equivocation /\ journal' = Append(w, rec) /\ reported' = reported \cup {e}
  <2>1. Conflict(p, e)
    BY <1>4, Zenon DEF Journal, ReportInv, LookupCurrent
  <2>2. /\ w \in Seq(ConflictRecords) /\ \A i \in DOMAIN w : Conflict(w[i].previous, w[i].current)
        /\ day < RetentionDays => w = journal
    BY PruneKeeps, Zenon DEF ReportInv
  <2>3. rec.previous = p /\ rec.current = e
    BY Zenon
  <2> HIDE DEF rec, w, e, p
  <2>4. /\ DOMAIN journal' = 1..(Len(w) + 1) /\ Len(w) \in Nat /\ DOMAIN w = 1..Len(w)
        /\ journal'[Len(w) + 1] = rec /\ \A i \in DOMAIN w : journal'[i] = w[i]
    BY <1>4, <2>2
  <2>5. JournalConflicts'
    <3> SUFFICES ASSUME NEW i \in DOMAIN journal'
                 PROVE  Conflict(journal'[i].previous, journal'[i].current)
      BY Zenon DEF JournalConflicts, Conflict
    <3>1. CASE i \in DOMAIN w
      BY <2>2, <2>4, <3>1, Zenon
    <3>2. CASE i = Len(w) + 1
      BY <2>1, <2>3, <2>4, <3>2, Zenon
    <3> QED BY <2>4, <3>1, <3>2
  <2>6. ReportsKept'
    <3> SUFFICES ASSUME day < RetentionDays, NEW f \in reported \cup {e}
                 PROVE  \E i \in DOMAIN journal' :
                            journal'[i].current.signer = f.signer /\ journal'[i].current.number = f.number
      <4>1. day' = day
        BY JournalActs, Zenon
      <4> QED BY <1>4, <4>1, Zenon DEF ReportsKept
    <3>1. CASE f = e
      <4>1. Len(w) + 1 \in DOMAIN journal'
        BY <2>4
      <4> QED BY <2>3, <2>4, <3>1, <4>1, Zenon
    <3>2. CASE f \in reported
      <4>1. PICK i \in DOMAIN w : w[i].current.signer = f.signer /\ w[i].current.number = f.number
        BY <2>2, <3>2, Zenon DEF ReportInv, ReportsKept
      <4>2. i \in DOMAIN journal'
        BY <2>4
      <4> QED BY <2>4, <4>1, <4>2, Zenon
    <3> QED BY <3>1, <3>2, Zenon
  <2> QED BY <1>2, <2>5, <2>6, Zenon DEF ReportInv
<1> QED BY <1>3, <1>4, JournalActs, Zenon

(* With one handler, every step keeps the reports in the journal.          *)
LEMMA ReportSteps ==
    ASSUME EvidenceInv, ReportInv, \A t, u \in Threads : t = u, [EvidenceNext]_evidenceVars
    PROVE  ReportInv'
<1> DEFINE Same == UNCHANGED <<pool, thread, journal, reported>>
<1>1. ASSUME Same, day' = day \/ day' = day + 1
      PROVE  ReportInv'
  <2>1. LookupCurrent'
    BY <1>1, Zenon DEF ReportInv, LookupCurrent, Previous, Conflict
  <2> QED BY <1>1, <2>1, ReportsStay, Zenon
<1>2. CASE Restart
  <2>1. UNCHANGED <<reported, day>> /\ journal' = Without(journal, Cutoff)
        /\ thread' = [t \in Threads |-> IdleHandler]
    BY <1>2, Zenon DEF Restart
  <2>2. LookupCurrent'
    BY <2>1, AtRest, Zenon DEF IdleHandler
  <2> QED BY <2>1, <2>2, ReportsStay, Zenon
<1>3. CASE NewDay
  BY <1>1, <1>3, Zenon DEF NewDay, nodeVars
<1>4. CASE NewHead \/ (\E hash \in Hashes, n \in Numbers : Learn(hash, n)) \/ (\E e \in Envelopes : Sign(e))
  BY <1>1, <1>4, Zenon DEF NewHead, Learn, Sign, fileVars, nodeVars
<1>5. CASE \/ \E v \in Signers : Register(v) \/ Withdraw(v)
           \/ \E a, b \in signatures : Execute(a, b)
           \/ \E n \in Numbers, v \in Signers : ExportMaliciousVoteEvidence(n, v)
  BY <1>1, <1>5, Zenon DEF Register, Withdraw, Execute, ExportMaliciousVoteEvidence, nodeVars, fileVars
<1>6. CASE UNCHANGED evidenceVars
  BY <1>1, <1>6, Zenon DEF evidenceVars, nodeVars, fileVars
<1> QED BY <1>2, <1>3, <1>4, <1>5, <1>6, HandleReports, AssembleReports, LookupReports, AddReports,
           JournalReports, Zenon DEF EvidenceNext

(* The first record with both votes of a conflict gives evidence.          *)
LEMMA ReportsExport == EvidenceInv /\ ReportInv => ReportedIsExportable
<1> SUFFICES ASSUME EvidenceInv, ReportInv, day < RetentionDays, NEW e \in reported
             PROVE  FirstEvidence(e.number, e.signer) # None
  BY Zenon DEF ReportedIsExportable
<1> DEFINE found == {i \in DOMAIN journal : Exportable(journal[i], e.number, e.signer)}
           first == FirstRecord(e.number, e.signer)
<1>1. journal \in Seq(ConflictRecords) /\ DOMAIN journal \subseteq Nat
  BY DEF EvidenceInv, EvidenceType
<1>2. found # {}
  BY Zenon DEF ReportInv, ReportsKept, JournalConflicts, Conflict, Exportable
<1>3. PICK k \in found : \A l \in found : k <= l
  <2>1. found \subseteq Nat
    BY <1>1, Zenon
  <2> HIDE DEF found
  <2>2. PICK k \in found : \A l \in found : ~(l < k)
    BY <1>2, <2>1, LeastNat, Zenon
  <2> QED BY <2>1, <2>2
<1>4. journal[k] \in first
  BY <1>3, Zenon DEF FirstRecord
<1>5. \A r \in first : \E i \in DOMAIN journal : r = journal[i]
  BY Zenon DEF FirstRecord
<1> DEFINE rec == CHOOSE x \in first : TRUE
<1>6. rec \in first
  BY <1>4, Zenon
<1>7. FirstEvidence(e.number, e.signer) = NewMaliciousVoteEvidence(rec.previous, rec.current)
  BY <1>4, Zenon DEF FirstEvidence
<1> HIDE DEF rec, first
<1>8. PICK i \in DOMAIN journal : rec = journal[i]
  BY <1>5, <1>6, Zenon
<1>9. Conflict(rec.previous, rec.current) /\ rec \in ConflictRecords /\ rec.previous # None
  <2>1. Conflict(rec.previous, rec.current)
    BY <1>8, Zenon DEF ReportInv, JournalConflicts
  <2>2. rec \in ConflictRecords
    BY <1>1, <1>8
  <2> QED BY <2>1, <2>2, Zenon DEF Conflict
<1>10. rec.previous \in Envelopes /\ rec.current \in Envelopes
  BY <1>9, Zenon DEF ConflictRecords
<1> DEFINE a == rec.previous
           b == rec.current
<1>11. NewMaliciousVoteEvidence(a, b) # None
  <2>1. a.signer = b.signer /\ a.number = b.number /\ a.hash # b.hash /\ a \in Envelopes /\ b \in Envelopes
    BY <1>9, <1>10, Zenon DEF Conflict
  <2> HIDE DEF a, b
  <2>2. NewMaliciousVoteEvidence(a, b) \in Evidences
    BY <2>1, Zenon DEF NewMaliciousVoteEvidence, Envelopes, Evidences
  <2> QED BY <2>2, EvidenceAssumption, Zenon
<1> QED BY <1>7, <1>11, Zenon

(* For any handlers, interleaved in any way, with days, restarts and       *)
(* withdrawals: the journal and the system contract never accuse a signer  *)
(* that did not sign two hashes for the checkpoint, one offence has one    *)
(* record on chain, and every exported file is valid evidence.             *)
THEOREM AccusationsAreFair ==
    EvidenceSpec => [](OnlyEquivocatorsAccused /\ OneRecordPerOffense /\ ExportsAreValid)
<1>1. EvidenceInit => EvidenceInv
  BY EvidenceStarts, Zenon
<1>2. EvidenceInv /\ [EvidenceNext]_evidenceVars => EvidenceInv'
  BY EvidenceSteps, Zenon
<1>3. EvidenceInv => OnlyEquivocatorsAccused /\ OneRecordPerOffense /\ ExportsAreValid
  BY EvidenceFair, Zenon
<1> QED BY <1>1, <1>2, <1>3, PTL DEF EvidenceSpec

(* When votes are admitted by one handler at a time, what the pool has     *)
(* reported can also be exported from the journal while the retention      *)
(* lasts, across restarts and prunings.                                    *)
THEOREM EvidenceIsSound ==
    ASSUME \A t, u \in Threads : t = u
    PROVE  EvidenceSpec => []EvidenceSound
<1>1. EvidenceInit => EvidenceInv /\ ReportInv
  <2> SUFFICES ASSUME EvidenceInit PROVE ReportInv
    BY EvidenceStarts, Zenon
  <2>1. LookupCurrent
    <3>1. \A t \in Threads : thread[t] = IdleHandler
      BY Zenon DEF EvidenceInit
    <3>2. IdleHandler.pc = "idle"
      BY DEF IdleHandler
    <3>3. "idle" # "add" /\ "idle" # "journal"
      OBVIOUS
    <3> QED BY <3>1, <3>2, <3>3, Zenon DEF LookupCurrent
  <2>2. DOMAIN journal = {} /\ reported = {}
    BY DEF EvidenceInit
  <2> QED BY <2>1, <2>2, Zenon DEF ReportInv, JournalConflicts, ReportsKept
<1>2. EvidenceInv /\ ReportInv /\ [EvidenceNext]_evidenceVars => (EvidenceInv /\ ReportInv)'
  BY EvidenceSteps, ReportSteps, Zenon
<1>3. EvidenceInv /\ ReportInv => EvidenceSound
  BY EvidenceFair, ReportsExport, Zenon DEF EvidenceSound
<1> QED BY <1>1, <1>2, <1>3, PTL DEF EvidenceSpec
=============================================================================
