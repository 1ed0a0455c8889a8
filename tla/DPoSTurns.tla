------------------------------ MODULE DPoSTurns ------------------------------
(***************************************************************************)
(* Block production in grouped turns: the slot clock, the in-turn          *)
(* schedule, the recent-signer rule of Snapshot, header verification, and  *)
(* the sealing cycle of the miner's worker.                                *)
(*                                                                         *)
(* The model follows one branch of the block tree, the one every node is   *)
(* extending.  A sealed block whose parent is no longer the head belongs   *)
(* to another branch and is dropped.  The clock is global, in milliseconds *)
(* since the genesis timestamp.                                            *)
(***************************************************************************)
EXTENDS Integers, FiniteSets, Sequences

CONSTANTS
    Addresses,          \* validator addresses, as numbers: the registry sorts them
    GenesisValidators,  \* validators in the genesis Extra
    Registries,         \* active sets the state of an adopted block may hold
    Online,             \* addresses whose node is mining and follows the code
    Faulty,             \* addresses whose headers are checked but not prepared by the code
    PeriodMs, TurnLength, Epoch,
    RecentSignerWindow, \* 0: derived from the size of the validator set
    MaxBlocks,          \* bound: blocks on the branch
    MaxLag              \* bound: milliseconds the clock runs past the head's time

ASSUME TurnsAssumption ==
    /\ Addresses \subseteq Nat /\ IsFiniteSet(Addresses)
    /\ GenesisValidators \subseteq Addresses /\ GenesisValidators # {}
    /\ Registries \subseteq SUBSET Addresses /\ Registries # {}
    /\ Online \subseteq Addresses /\ Faulty \subseteq Addresses
    /\ PeriodMs \in Nat \ {0} /\ TurnLength \in Nat \ {0} /\ Epoch \in Nat \ {0}
    /\ Epoch % TurnLength = 0
    /\ RecentSignerWindow \in Nat /\ MaxBlocks \in Nat /\ MaxLag \in Nat

VARIABLES
    now,       \* time.Now(), relative to the genesis time
    parent,    \* the head of the branch: its number and time
    signed,    \* history: slot, signer and validator set in force of every block
    snap,      \* Snapshot at the head: Validators and Recents
    registry,  \* active validators in the head's state
    todo,      \* nodes with an unserved startCh, chainHeadCh or newTxs event
    work       \* the header a node has signed and is waiting to release

vars == <<now, parent, signed, snap, registry, todo, work>>

Idle == [sealed |-> FALSE]

diffInTurn == 2

diffNoTurn == 1

\* The number of the block that will follow the head.
NextNumber == parent.number + 1

-----------------------------------------------------------------------------
(* Snapshot: schedule and recency. *)

headerSlot(time) == time \div PeriodMs

\* Mutant: the window is two slots wider than the quota allows for.
WindowOneTooWide(n) == (((n \div 2) + 1) * TurnLength) + 1

RecentSignerWindowSize(n) ==
    IF RecentSignerWindow > 0 THEN RecentSignerWindow
    ELSE (((n \div 2) + 1) * TurnLength) - 1

WindowOf(s) == RecentSignerWindowSize(Cardinality(s.Validators))

\* The validator whose turn a slot is: sorted list indexed by group of slots.
Turn(s, slot) ==
    ((slot - 1) \div TurnLength) % Cardinality(s.Validators)

inturnSlot(s, slot, v) ==
    /\ slot # 0
    /\ v \in s.Validators
    /\ Cardinality({w \in s.Validators : w < v}) = Turn(s, slot)

\* The slots in the active window, exclusive on the left, that v signed.
SeenSlots(s, slot, v) ==
    {t \in DOMAIN s.Recents : t > slot - WindowOf(s) /\ s.Recents[t] = v}

recentlySignedAt(s, slot, v) ==
    /\ Cardinality(s.Validators) > 1
    /\ Cardinality(SeenSlots(s, slot, v)) >= TurnLength

\* Snapshot.apply drops the slots that left the window.
Evict(s, slot) ==
    LET kept == {t \in DOMAIN s.Recents : t > slot - WindowOf(s)}
    IN  [Validators |-> s.Validators, Recents |-> [t \in kept |-> s.Recents[t]]]

\* snap.Recents[slot] = signer
Record(s, slot, v) ==
    [Validators |-> s.Validators,
     Recents |-> [t \in DOMAIN s.Recents \cup {slot} |->
                    IF t = slot THEN v ELSE s.Recents[t]]]

\* What apply checks once it has evicted: membership and recency.
applies(s, h) ==
    LET e == Evict(s, headerSlot(h.time))
    IN  /\ h.signer \in e.Validators
        /\ ~recentlySignedAt(e, headerSlot(h.time), h.signer)

\* Mutant: an epoch starts with an empty history.
FreshAtEpoch(s, h, number) ==
    LET slot == headerSlot(h.time)
    IN  IF number % Epoch = 0
        THEN [Validators |-> h.extra, Recents |-> [t \in {} |-> 0]]
        ELSE Record(Evict(s, slot), slot, h.signer)

\* An epoch header replaces the validator set and trims to the new window.
apply(s, h, number) ==
    LET slot == headerSlot(h.time)
        recorded == Record(Evict(s, slot), slot, h.signer)
    IN  IF number % Epoch = 0
        THEN Evict([Validators |-> h.extra, Recents |-> recorded.Recents], slot)
        ELSE recorded

-----------------------------------------------------------------------------
(* The engine: header verification and preparation. *)

calcDifficultySlot(s, time, v) ==
    IF inturnSlot(s, headerSlot(time), v) THEN diffInTurn ELSE diffNoTurn

\* Mutant: an empty registry leaves an epoch without validators.
RegistryAsIs ==
    IF NextNumber % Epoch # 0 THEN {} ELSE registry

\* The Extra list of the next block: empty away from an epoch boundary, where
\* an empty registry falls back to the validators of the snapshot.
ExpectedExtra ==
    IF NextNumber % Epoch # 0 THEN {}
    ELSE IF registry # {} THEN registry ELSE snap.Validators

\* Mutant: verification does not look at the recent signers.
SealWithoutRecency(s, h) ==
    /\ h.signer \in s.Validators
    /\ h.difficulty = calcDifficultySlot(s, h.time, h.signer)

verifySeal(s, h) ==
    /\ h.signer \in s.Validators
    /\ ~recentlySignedAt(s, headerSlot(h.time), h.signer)
    /\ h.difficulty = calcDifficultySlot(s, h.time, h.signer)

verifyCascadingFields(h) ==
    /\ h.time >= parent.time + PeriodMs
    /\ headerSlot(h.time) > headerSlot(parent.time)
    /\ h.extra = ExpectedExtra
    /\ verifySeal(snap, h)

verifyHeader(h) ==
    /\ h.time <= now + 2 * PeriodMs
    /\ h.difficulty \in {diffInTurn, diffNoTurn}
    /\ verifyCascadingFields(h)

\* Mutant: the timestamp ignores the parent's.
ClockTime == now

PreparedTime ==
    IF parent.time + PeriodMs < now THEN now ELSE parent.time + PeriodMs

\* Prepare and FinalizeAndAssemble: the header v builds on the head at a time.
Prepared(v, time) ==
    [sealed |-> TRUE, signer |-> v, time |-> time,
     difficulty |-> calcDifficultySlot(snap, time, v),
     extra |-> ExpectedExtra]

\* Mutant: the worker misses the chain head event of a block it wrote itself.
AdoptUnannounced(h) ==
    /\ parent.number < MaxBlocks
    /\ parent' = [number |-> NextNumber, time |-> h.time]
    /\ signed' = Append(signed, [slot |-> headerSlot(h.time), signer |-> h.signer,
                                 set |-> snap.Validators])
    /\ snap' = apply(snap, h, NextNumber)
    /\ registry' \in Registries
    /\ work' = [v \in Addresses |-> Idle]
    /\ UNCHANGED <<now, todo>>

\* The head moves to h: the snapshot follows, every node is told of the new
\* head and abandons the block it was about to release.
Adopt(h) ==
    /\ parent.number < MaxBlocks
    /\ parent' = [number |-> NextNumber, time |-> h.time]
    /\ signed' = Append(signed, [slot |-> headerSlot(h.time), signer |-> h.signer,
                                 set |-> snap.Validators])
    /\ snap' = apply(snap, h, NextNumber)
    /\ registry' \in Registries
    /\ todo' = Online
    /\ work' = [v \in Addresses |-> Idle]
    /\ UNCHANGED now

-----------------------------------------------------------------------------
(* Actions. *)

Init ==
    /\ now = 0
    /\ parent = [number |-> 0, time |-> 0]
    /\ signed = <<>>
    /\ snap = [Validators |-> GenesisValidators, Recents |-> [t \in {} |-> 0]]
    /\ registry \in Registries
    /\ todo = Online
    /\ work = [v \in Addresses |-> Idle]

Tick ==
    /\ now < parent.time + MaxLag
    /\ now' = now + 1
    /\ UNCHANGED <<parent, signed, snap, registry, todo, work>>

\* The worker serves an event: it interrupts the task in flight, prepares a
\* block on the head and hands it to Seal, which signs it.
Seal(v) ==
    /\ v \in todo
    /\ v \in snap.Validators
    /\ ~recentlySignedAt(snap, headerSlot(PreparedTime), v)
    /\ work' = [work EXCEPT ![v] = Prepared(v, PreparedTime)]
    /\ todo' = todo \ {v}
    /\ UNCHANGED <<now, parent, signed, snap, registry>>

\* Seal refuses: the error is logged and nothing retries until the next event.
SealRefused(v) ==
    /\ v \in todo
    /\ \/ v \notin snap.Validators
       \/ recentlySignedAt(snap, headerSlot(PreparedTime), v)
    /\ work' = [work EXCEPT ![v] = Idle]
    /\ todo' = todo \ {v}
    /\ UNCHANGED <<now, parent, signed, snap, registry>>

\* The delay of Seal is over: the block is written without being verified by
\* its own node and becomes the head.
Release(v) ==
    /\ work[v].sealed
    /\ now >= work[v].time
    /\ Adopt(work[v])

\* The resubmission timer starts a new cycle, only if transactions arrived.
NewTxs(v) ==
    /\ v \in Online \ todo
    /\ todo' = todo \cup {v}
    /\ UNCHANGED <<now, parent, signed, snap, registry, work>>

\* A header from a node that does not run this worker: any timestamp the
\* verification accepts.
ForeignHeader(v, time) ==
    /\ verifyHeader(Prepared(v, time))
    /\ Adopt(Prepared(v, time))

Next ==
    \/ Tick
    \/ \E v \in Online : Seal(v) \/ SealRefused(v) \/ Release(v) \/ NewTxs(v)
    \/ \E v \in Faulty, time \in 0 .. (now + 2 * PeriodMs) : ForeignHeader(v, time)

Spec == Init /\ [][Next]_vars

\* The runtime schedules every goroutine and the clock advances; nothing is
\* assumed of transactions or of faulty validators.
Fairness ==
    /\ WF_vars(Tick)
    /\ \A v \in Online : WF_vars(Seal(v) \/ SealRefused(v)) /\ WF_vars(Release(v))

FairSpec == Spec /\ Fairness

-----------------------------------------------------------------------------
(* Properties. *)

\* Every variable keeps its shape: a snapshot is a set of validators and a map
\* from slots to signers, a task is idle or a header on the current head.
TypeOK ==
    /\ now \in Nat
    /\ parent \in [number : Nat, time : Nat]
    /\ signed \in Seq([slot : Nat, signer : Addresses, set : SUBSET Addresses])
    /\ snap = [Validators |-> snap.Validators, Recents |-> snap.Recents]
    /\ snap.Validators \in (SUBSET Addresses) \ {{}}
    /\ DOMAIN snap.Recents \subseteq Nat
    /\ snap.Recents \in [DOMAIN snap.Recents -> Addresses]
    /\ registry \in SUBSET Addresses
    /\ todo \subseteq Online
    /\ work \in [Addresses -> {Idle} \cup
                   [sealed : {TRUE}, signer : Addresses, time : Nat,
                    difficulty : {diffInTurn, diffNoTurn}, extra : SUBSET Addresses]]

\* What a task waiting for its delay holds: a header for the current head that
\* verification accepts but for its distance to the clock.
PendingFits ==
    \A v \in Addresses :
        work[v].sealed => work[v].signer = v /\ verifyCascadingFields(work[v])

\* A block the worker prepared and Seal signed passes verifyHeader at every
\* other node by the time it is released: its timestamp, slot, difficulty, epoch
\* list and recency are the ones verification recomputes.
SealedVerifies ==
    \A v \in Online :
        work[v].sealed /\ now >= work[v].time => verifyHeader(work[v])

\* A header that verifySeal accepts on the parent snapshot is accepted by
\* Snapshot.apply, which evicts old slots before it checks: no verified chain
\* is left without a snapshot.
VerifiedApplies ==
    \A v \in Addresses, time \in parent.time .. (now + 2 * PeriodMs) :
        verifyHeader(Prepared(v, time)) => applies(snap, Prepared(v, time))

\* Blocks of the branch, up to index i, in the last w slots before block i's.
InLastSlots(i, w) ==
    {k \in 1 .. i : signed[k].slot > signed[i].slot - w}

\* A validator signs at most TurnLength of the blocks in any window of the
\* branch, where a window is as wide as the narrowest one in force since its
\* first slot: eviction and the trim at an epoch never let one sign more.
TurnQuota ==
    \A i \in 1 .. Len(signed) :
        LET w == RecentSignerWindowSize(Cardinality(signed[i].set))
        IN  \A n \in 1 .. w :
              /\ Cardinality(signed[i].set) > 1
              /\ \A k \in InLastSlots(i, n) :
                    RecentSignerWindowSize(Cardinality(signed[k].set)) >= n
              => Cardinality({k \in InLastSlots(i, n) : signed[k].signer = signed[i].signer})
                    <= TurnLength

\* With the derived window, at most half of the validators are refused at any
\* later slot: a majority of them always holds one that may seal.
BlockedMinority ==
    RecentSignerWindow = 0 =>
        \A slot \in (headerSlot(parent.time) + 1) .. (headerSlot(parent.time) + 3) :
            Cardinality({v \in snap.Validators : recentlySignedAt(snap, slot, v)})
                <= Cardinality(snap.Validators) \div 2

\* No validator signs more than its turns within a window, whatever the epochs
\* do to the set, and the rule that sees to it never stops a majority
\* (Snapshot.apply, recentlySignedAt).
QuotaKept == TurnQuota /\ BlockedMinority

\* Without a single transaction to wake the resubmission timer, the branch keeps
\* growing when a majority of every validator set is online.
Growth == <>(parent.number = MaxBlocks)

\* "a validator may sign all slots in its own turn group" (docs/turnLength.md):
\* recentlySignedAt never refuses the validator whose turn the next slot is.
InTurnMaySign ==
    \A v \in snap.Validators :
        LET slot == headerSlot(parent.time) + 1
        IN  inturnSlot(snap, slot, v) => ~recentlySignedAt(snap, slot, v)

=============================================================================
