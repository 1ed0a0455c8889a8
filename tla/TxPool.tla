------------------------------- MODULE TxPool -------------------------------
(***************************************************************************)
(* core/tx_pool.go: the transaction pool.  Transactions enter through      *)
(* AddLocal / AddRemote under the pool lock, wait in the queue, and are    *)
(* promoted to pending by a background run that scheduleReorgLoop launches.*)
(* A chain head event asks for a reset; while a run is active, requests    *)
(* are merged for the next one, and transactions keep arriving between the *)
(* launch of a run and the moment it takes the lock.                       *)
(*                                                                         *)
(* The lists of an account are sets of transactions with one transaction   *)
(* per nonce.  All SignerTx pay the protocol price, so replacement needs   *)
(* no price bump and a full pool has no cheaper remote transaction.        *)
(* A chain is the sequence of its blocks: [txs, poor], the transactions    *)
(* included and the accounts that can no longer pay.                       *)
(***************************************************************************)
EXTENDS Integers, Sequences, FiniteSets, FiniteSetsExt, SequencesExt

CONSTANTS Txs,           \* [id, from, nonce, sponsor, snonce]; sponsor may be None
          None,
          GlobalSlots, AccountSlots, GlobalQueue, AccountQueue,
          LocalSenders,  \* the accounts whose transactions may arrive by RPC
          PoorSets,      \* what a block may do to the balances
          MaxDepth,      \* 64 in reset
          MaxHeads,      \* bound: chain head events
          MaxChain,      \* bound: length of the chain
          MaxAdds,       \* bound: arrivals
          MaxTimers,     \* bound: evictions, price changes and journal rotations
          MaxRestarts    \* bound: crashes of the node

VARIABLES pool,      \* the fields guarded by pool.mu, and the journal file
          head,      \* the canonical chain
          want,      \* scheduleReorgLoop's reset, dirtyAccounts, launchNextRun
          job,       \* the arguments of the run in progress, or None
          events,    \* queuedEvents
          announced, \* pooled transactions sent to txFeed
          count      \* bounds

vars == <<pool, head, want, job, events, announced, count>>

TxPoolAssumption ==
  /\ GlobalSlots \in Nat \ {0} /\ GlobalQueue \in Nat
  /\ \A t \in Txs : t.nonce \in Nat /\ t.snonce \in Nat

Senders == {t.from : t \in Txs}
Sponsors == {t.sponsor : t \in Txs} \ {None}
Sponsored(t) == t.sponsor # None

----------------------------------------------------------------------------
\* The state a chain leads to.

Included(c) == UNION {c[i].txs : i \in DOMAIN c}
StateNonce(c, a) == Cardinality({t \in Included(c) : t.from = a})
SponsorNonce(c, s) == Cardinality({t \in Included(c) : t.sponsor = s})
Poor(c) == IF c = <<>> THEN {} ELSE Last(c).poor

txUnpayable(c, t) == (IF Sponsored(t) THEN t.sponsor ELSE t.from) \in Poor(c)

----------------------------------------------------------------------------
\* The lists.

Of(S, a) == {t \in S : t.from = a}
Slot(S, t) == {o \in S : o.from = t.from /\ o.nonce = t.nonce}
All(p) == p.locs \cup p.rems
Forget(p, T) == [p EXCEPT !.locs = @ \ T, !.rems = @ \ T]

\* The transactions of L with consecutive nonces from n on.
Run(L, n) == {t \in L : t.nonce >= n /\ \A m \in n .. t.nonce : \E o \in L : o.nonce = m}

Ready(L, start) ==
  IF L = {} \/ (\A t \in L : t.nonce > start) THEN {} ELSE Run(L, Min({t.nonce : t \in L}))

\* list.Cap: all but the n lowest nonces.
Cap(L, n) == {t \in L : Cardinality({o \in L : o.nonce < t.nonce}) >= n}

(* Mutant: what is replaced in the queue stays in the lookup. *)
EnqueueOnly(p, T) ==
  [p EXCEPT !.queue = (@ \ UNION {Slot(@, t) : t \in T}) \cup T]

\* enqueueTx of transactions of the pool: whatever held their slots is forgotten.
Enqueue(p, T) ==
  LET old == (UNION {Slot(p.queue, t) : t \in T}) \ T
  IN  Forget([p EXCEPT !.queue = (@ \ old) \cup T], old)

LowerNonce(p, T) ==
  [p EXCEPT !.nonces = [a \in Senders |-> Min({@[a]} \cup {t.nonce : t \in Of(T, a)})]]

\* rebuildSponsorPendingNoncesLocked: the contiguous prefix from the chain state.
Frontier(p, s) ==
  LET used == {t.snonce : t \in {o \in p.pending : o.sponsor = s}}
      base == SponsorNonce(p.cur, s)
  IN  CHOOSE n \in base .. base + Cardinality(used) :
         n \notin used /\ \A m \in base .. n - 1 : m \in used

Rebuild(p) == [p EXCEPT !.snonces = [s \in Sponsors |-> Frontier(p, s)]]

\* normalizeSponsoredPendingLocked: one pass, with the frontier of its start.
Normalized(q) ==
  LET gap == {t \in q.pending : Sponsored(t) /\ t.snonce >= q.snonces[t.sponsor]}
      out == {t \in q.pending : \E g \in Of(gap, t.from) : g.nonce <= t.nonce}
  IN  IF out = {} THEN q
      ELSE Rebuild(Enqueue(LowerNonce([q EXCEPT !.pending = @ \ out], out), out))

Normalize(p) == Normalized(Rebuild(p))

\* removeTx: a pending transaction takes its successors back to the queue.
removeTx(p, t) ==
  IF t \notin All(p) THEN p ELSE
  IF Slot(p.pending, t) # {}
  THEN LET later == {o \in Of(p.pending, t.from) : o.nonce > t.nonce}
           q == [Forget(p, {t}) EXCEPT !.pending = (@ \ Slot(@, t)) \ later]
       IN  Normalize(LowerNonce(Enqueue(q, later), {t}))
  ELSE [Forget(p, {t}) EXCEPT !.queue = @ \ Slot(@, t)]

RemoveAll(p, T) == FoldSet(LAMBDA t, q : removeTx(q, t), p, T)

promoteTx(p, t) ==
  LET old == Slot(p.pending, t) \ {t}
      q == Forget([p EXCEPT !.pending = (@ \ old) \cup {t}, !.queue = @ \ {t},
                            !.nonces[t.from] = t.nonce + 1], old)
  IN  IF Sponsored(t) THEN [q EXCEPT !.snonces[t.sponsor] = t.snonce + 1] ELSE q

----------------------------------------------------------------------------
\* Arrivals.

\* validateTxWithState; the size, signature and intrinsic gas checks say nothing here.
Valid(p, t) ==
  /\ t.nonce >= StateNonce(p.cur, t.from)
  /\ ~txUnpayable(p.cur, t)
  /\ Sponsored(t) => \/ t.snonce >= p.snonces[t.sponsor]
                     \/ \E o \in Slot(p.pending, t) : o.sponsor = t.sponsor /\ o.snonce = t.snonce

canDirectlyReplacePendingTx(o, t) ==
  ~Sponsored(t) \/ (o.sponsor = t.sponsor /\ o.snonce = t.snonce)

Full(p) == Cardinality(All(p)) + 1 > GlobalSlots + GlobalQueue

\* The remote transactions priced.Discard may pick: it takes the floating heap in an
\* order that depends on its history, every price being equal.
Discards(p) ==
  LET need == Min({Cardinality(p.rems), Cardinality(All(p)) + 1 - GlobalSlots - GlobalQueue})
  IN  {D \in SUBSET p.rems : Cardinality(D) = need}

Store(p, t, isLocal) ==
  IF isLocal THEN [p EXCEPT !.locs = @ \cup {t}] ELSE [p EXCEPT !.rems = @ \cup {t}]

journalTx(p, t) == IF t.from \in p.locals THEN [p EXCEPT !.journal = Append(@, t)] ELSE p

\* addValidatedTx, once room has been made: replacement of a pending transaction.
ReplacePending(p, t, isLocal) ==
  LET o == CHOOSE x \in Slot(p.pending, t) : TRUE
      q == journalTx(Store(Forget([p EXCEPT !.pending = (@ \ {o}) \cup {t}], {o}), t, isLocal), t)
  IN  IF Sponsored(o) \/ Sponsored(t) THEN Normalize(q) ELSE q

\* addValidatedTx: a transaction that waits in the queue; a first local one marks its
\* sender and moves the sender's remote transactions.
QueueNew(p, t, local, isLocal) ==
  LET q == Store(Enqueue(p, {t}), t, isLocal)
      m == IF local /\ t.from \notin p.locals
           THEN [q EXCEPT !.locals = @ \cup {t.from},
                          !.locs = @ \cup Of(q.rems, t.from), !.rems = @ \ Of(@, t.from)]
           ELSE q
  IN  journalTx(m, t)

\* The outcome of add: [pool, dirty (the sender needs a promotion), event].
Added(q, t, local) ==
  LET isLocal == local \/ t.from \in q.locals
      slot == Slot(q.pending, t)
  IN  IF slot # {}
      THEN IF \A o \in slot : canDirectlyReplacePendingTx(o, t)
           THEN [pool |-> ReplacePending(q, t, isLocal), dirty |-> {}, event |-> {t}]
           ELSE [pool |-> q, dirty |-> {}, event |-> {}]
      ELSE [pool |-> QueueNew(q, t, local, isLocal), event |-> {},
            dirty |-> IF Slot(q.queue, t) = {} THEN {t.from} ELSE {}]

Add(p, t, local, D) ==
  Added([RemoveAll(p, D) EXCEPT !.changes = @ + Cardinality(D)], t, local)

Refused(p) == [pool |-> p, dirty |-> {}, event |-> {}]

\* addTxsLocked for one transaction: the outcomes it can have.
Additions(p, t, local) ==
  LET isLocal == local \/ t.from \in p.locals
  IN  IF t \in All(p) \/ ~Valid(p, t) \/ (~isLocal /\ p.dear) THEN {Refused(p)}
      ELSE IF ~Full(p) THEN {Add(p, t, local, {})}
      ELSE IF ~isLocal \/ p.changes > GlobalSlots \div 4 THEN {Refused(p)}
      ELSE {Add(p, t, local, D) : D \in Discards(p)}

AddTxs ==
  /\ count.adds < MaxAdds
  /\ \E t \in Txs \ All(pool), local \in BOOLEAN :
       /\ local => t.from \in LocalSenders
       /\ \E o \in Additions(pool, t, local) :
            /\ pool' = o.pool
            /\ events' = events \cup o.event
            /\ announced' = announced \cap All(o.pool)
            /\ want' = [want EXCEPT !.dirty = @ \cup o.dirty, !.launch = TRUE]
  /\ count' = [count EXCEPT !.adds = @ + 1]
  /\ UNCHANGED <<head, job>>

----------------------------------------------------------------------------
\* The background run.

CommonPrefix(c, d) ==
  Max({n \in 0 .. Min({Len(c), Len(d)}) : SubSeq(c, 1, n) = SubSeq(d, 1, n)})

\* reset: what the abandoned blocks held and the new ones do not.
Reinject(old, new) ==
  LET n == CommonPrefix(old, new)
      depth == IF Len(old) > Len(new) THEN Len(old) - Len(new) ELSE Len(new) - Len(old)
      after(c) == UNION {c[i].txs : i \in n + 1 .. Len(c)}
  IN  IF depth > MaxDepth THEN {} ELSE after(old) \ after(new)

\* Discarded blocks are walked from their head back, so a higher nonce may come first.
AddBack(p, order) ==
  FoldLeft(LAMBDA r, t : CHOOSE x \in {[pool |-> o.pool, event |-> r.event \cup o.event] :
                                         o \in Additions(r.pool, t, FALSE)} : TRUE,
           [pool |-> p, event |-> {}], order)

reset(p, old, new, order) ==
  LET moved == [p EXCEPT !.cur = new,
                         !.nonces = [a \in Senders |-> StateNonce(new, a)],
                         !.snonces = [s \in Sponsors |-> SponsorNonce(new, s)]]
  IN  [AddBack(moved, order) EXCEPT !.pool = Normalize(@)]

\* promoteExecutables, first loop: stale and unpayable transactions go, plain ready
\* ones are promoted (sponsored ones are put back), the rest is capped.
PromotePlain(p, a) ==
  LET L == Of(p.queue, a)
      gone == {t \in L : t.nonce < StateNonce(p.cur, a) \/ txUnpayable(p.cur, t)}
      kept == L \ gone
      plain == {t \in Ready(kept, p.nonces[a]) : ~Sponsored(t)}
      q == FoldLeft(promoteTx, Forget([p EXCEPT !.queue = @ \ gone], gone),
                    SetToSortSeq(plain, LAMBDA x, y : x.nonce < y.nonce))
      over == IF a \in p.locals THEN {} ELSE Cap(kept \ plain, AccountQueue)
  IN  Forget([q EXCEPT !.queue = @ \ over], over)

(* Mutant: a sponsored transaction does not wait for its sponsor nonce. *)
PromoteReady(p, a) ==
  FoldLeft(promoteTx, p,
           SetToSortSeq(Run(Of(p.queue, a), p.nonces[a]), LAMBDA x, y : x.nonce < y.nonce))

\* Second loop, one account: sender-ready transactions until one waits for its sponsor.
PromoteSponsored(p, a) ==
  FoldLeft(LAMBDA r, t :
             IF r.stop \/ (Sponsored(t) /\ t.snonce # r.pool.snonces[t.sponsor])
             THEN [r EXCEPT !.stop = TRUE] ELSE [r EXCEPT !.pool = promoteTx(r.pool, t)],
           [pool |-> p, stop |-> FALSE],
           SetToSortSeq(Run(Of(p.queue, a), p.nonces[a]), LAMBDA x, y : x.nonce < y.nonce)).pool

RECURSIVE FixedPoint(_, _)
FixedPoint(p, order) ==
  LET q == FoldLeft(PromoteSponsored, p, order) IN IF q = p THEN p ELSE FixedPoint(q, order)

promoteExecutables(p, order) == FixedPoint(FoldLeft(PromotePlain, p, order), order)

\* demoteUnexecutables: stale and unpayable transactions go, their successors and
\* whatever has a gap in front return to the queue.
demoteUnexecutables(p) ==
  LET gone(a) == {t \in Of(p.pending, a) : t.nonce < StateNonce(p.cur, a) \/ txUnpayable(p.cur, t)}
      bad(a) == {t \in gone(a) : t.nonce >= StateNonce(p.cur, a)}
      after(a) == {t \in Of(p.pending, a) \ gone(a) : \E b \in bad(a) : b.nonce < t.nonce}
      left(a) == (Of(p.pending, a) \ gone(a)) \ after(a)
      gapped(a) == IF \E t \in left(a) : t.nonce = StateNonce(p.cur, a) THEN {} ELSE left(a)
      out == UNION {gone(a) : a \in Senders}
      back == UNION {after(a) \cup gapped(a) : a \in Senders}
      q == Enqueue(Forget([p EXCEPT !.pending = (@ \ out) \ back], out), back)
  IN  IF out \cup back = {} THEN p ELSE Normalize(q)

\* runReorg after a reset: every account at its last pending nonce.
LatestNonces(p) ==
  Rebuild([p EXCEPT !.nonces = [a \in Senders |->
     Max({StateNonce(p.cur, a)} \cup {t.nonce + 1 : t \in Of(p.pending, a)})]])

\* truncatePending: the offenders in S lose their last transaction.
Shrink(p, S) ==
  LET T == UNION {Cap(Of(p.pending, a), Cardinality(Of(p.pending, a)) - 1) : a \in S}
  IN  LowerNonce(Forget([p EXCEPT !.pending = @ \ T], T), T)

RECURSIVE Level(_, _, _, _)
Level(p, S, a, floor) ==
  IF Cardinality(p.pending) > GlobalSlots /\ Cardinality(Of(p.pending, a)) > floor
  THEN Level(Shrink(p, S), S, a, floor) ELSE p

(* Mutant: local accounts are penalised like any other. *)
AnySpammers(p) == {a \in Senders : Cardinality(Of(p.pending, a)) > AccountSlots}

Spammers(p) == {a \in Senders \ p.locals : Cardinality(Of(p.pending, a)) > AccountSlots}

RECURSIVE Equalize(_, _, _)
Equalize(p, offenders, rest) ==
  IF rest = <<>> \/ Cardinality(p.pending) <= GlobalSlots
  THEN IF offenders = <<>> THEN p ELSE Level(p, ToSet(offenders), Last(offenders), AccountSlots)
  ELSE LET a == Head(rest)
           q == IF offenders = <<>> THEN p
                ELSE Level(p, ToSet(offenders), Last(offenders), Cardinality(Of(p.pending, a)))
       IN  Equalize(q, Append(offenders, a), Tail(rest))

truncatePending(p, order) ==
  LET bySize == SortSeq(SelectSeq(order, LAMBDA a : a \in Spammers(p)),
                        LAMBDA a, b : Cardinality(Of(p.pending, a)) > Cardinality(Of(p.pending, b)))
      q == Equalize(p, <<>>, bySize)
  IN  IF q = p THEN p ELSE Normalize(q)

(* Mutant: the queue is left as it is. *)
KeepQueue(p, order) == p

\* truncateQueue: the account that was quiet the longest first, its last transactions
\* first when it has more than has to go.
truncateQueue(p, order) ==
  FoldLeft(LAMBDA q, a :
             LET drop == Cardinality(q.queue) - GlobalQueue
                 L == Of(q.queue, a)
             IN  IF drop <= 0 \/ a \in q.locals THEN q
                 ELSE RemoveAll(q, Cap(L, Max({0, Cardinality(L) - drop}))),
           p, order)

(* Mutant: the events queued so far are dropped. *)
LaunchSilent ==
  /\ job = None /\ want.launch
  /\ job' = [reset |-> want.reset, dirty |-> want.dirty, events |-> {}]
  /\ want' = [reset |-> None, dirty |-> {}, launch |-> FALSE]
  /\ events' = {}
  /\ UNCHANGED <<pool, head, announced, count>>

\* scheduleReorgLoop launches the next run with everything asked for so far.
Launch ==
  /\ job = None /\ want.launch
  /\ job' = [reset |-> want.reset, dirty |-> want.dirty, events |-> events]
  /\ want' = [reset |-> None, dirty |-> {}, launch |-> FALSE]
  /\ events' = {}
  /\ UNCHANGED <<pool, head, announced, count>>

\* runReorg, from the promoted pool q on; r is what the reset left.
Truncated(r, q, order) ==
  LET d == IF job.reset = None THEN q ELSE LatestNonces(demoteUnexecutables(q))
      live == IF job.reset = None THEN job.events
              ELSE {t \in job.events : t.nonce >= r.pool.nonces[t.from]}
  IN  [pool |-> [truncateQueue(truncatePending(d, order), order) EXCEPT !.changes = 0],
       event |-> r.event, sent |-> live \cup (q.pending \ r.pool.pending)]

Promoted(r, order) ==
  LET accounts == IF job.reset = None THEN job.dirty ELSE {t.from : t \in r.pool.queue}
  IN  Truncated(r, promoteExecutables(r.pool, SelectSeq(order, LAMBDA a : a \in accounts)), order)

Reorgs(p, order, back) ==
  Promoted(IF job.reset = None THEN [pool |-> p, event |-> {}]
           ELSE reset(p, job.reset.old, job.reset.new, back), order)

\* runReorg: map iteration and heartbeats give the accounts in any order.
RunReorg ==
  /\ job # None
  /\ \E order \in SetToSeqs(Senders),
        back \in SetToSeqs(IF job.reset = None THEN {} ELSE Reinject(job.reset.old, job.reset.new)) :
       \E r \in {Reorgs(pool, order, back)} :
           /\ pool' = r.pool
           /\ events' = events \cup r.event
           /\ announced' = (announced \cup r.sent) \cap All(r.pool)
  /\ job' = None
  /\ UNCHANGED <<head, want, count>>

----------------------------------------------------------------------------
\* The chain, and the pool's timers.

Executable(c) ==
  {t \in Txs : /\ t.nonce = StateNonce(c, t.from) /\ ~txUnpayable(c, t)
               /\ Sponsored(t) => t.snonce = SponsorNonce(c, t.sponsor)}

Blocks(c) == {[txs |-> T, poor |-> P] : T \in {{}} \cup {{t} : t \in Executable(c)}, P \in PoorSets}

(* Mutant: a merged request forgets the head it started from. *)
MergedForgetting(old, new) ==
  [want EXCEPT !.reset = [old |-> old, new |-> new], !.launch = TRUE]

\* scheduleReorgLoop: a pending request keeps its old head.
Merged(old, new) ==
  [want EXCEPT !.reset = [old |-> IF @ = None THEN old ELSE @.old, new |-> new], !.launch = TRUE]

\* loop: a chain head event.  The new head extends the old one or replaces its last block(s).
NewHead ==
  /\ count.heads < MaxHeads
  /\ \E n \in 0 .. Len(head) : \E b \in Blocks(SubSeq(head, 1, n)) :
       LET new == Append(SubSeq(head, 1, n), b)
       IN  /\ Len(new) >= Len(head) /\ Len(new) <= MaxChain /\ new # head
           /\ head' = new
           /\ want' = Merged(head, new)
  /\ count' = [count EXCEPT !.heads = @ + 1]
  /\ UNCHANGED <<pool, job, events, announced>>

\* loop: accounts whose queue has been quiet for Lifetime.
Evict ==
  /\ count.timers < MaxTimers
  /\ \E a \in {t.from : t \in pool.queue} \ pool.locals :
       \E p \in {RemoveAll(pool, Of(pool.queue, a))} :
           pool' = p /\ announced' = announced \cap All(p)
  /\ count' = [count EXCEPT !.timers = @ + 1]
  /\ UNCHANGED <<head, want, job, events>>

\* SetTxPrice above the protocol price: no remote transaction pays it.
SetTxPrice ==
  /\ count.timers < MaxTimers
  /\ \E dear \in BOOLEAN \ {pool.dear} :
       LET p == [(IF dear THEN RemoveAll(pool, pool.rems) ELSE pool) EXCEPT !.dear = dear]
       IN  pool' = p /\ announced' = announced \cap All(p)
  /\ count' = [count EXCEPT !.timers = @ + 1]
  /\ UNCHANGED <<head, want, job, events>>

\* pool.local(), as rotate writes it.
LocalTxs(p) ==
  SetToSortSeq({t \in p.pending \cup p.queue : t.from \in p.locals},
               LAMBDA x, y : x.from = y.from /\ x.nonce < y.nonce)

Rotate ==
  /\ count.timers < MaxTimers
  /\ pool.journal # LocalTxs(pool)
  /\ pool' = [pool EXCEPT !.journal = LocalTxs(pool)]
  /\ count' = [count EXCEPT !.timers = @ + 1]
  /\ UNCHANGED <<head, want, job, events, announced>>

EmptyPool(c, journal) ==
  [pending |-> {}, queue |-> {}, locs |-> {}, rems |-> {}, locals |-> {},
   nonces |-> [a \in Senders |-> StateNonce(c, a)],
   snonces |-> [s \in Sponsors |-> SponsorNonce(c, s)],
   cur |-> c, changes |-> 0, dear |-> FALSE, journal |-> journal]

(* Mutant: the journal is loaded as remote transactions. *)
LoadRemote(c, journal) ==
  LET p == FoldLeft(LAMBDA q, t : (CHOOSE o \in Additions(q, t, FALSE) : TRUE).pool,
                    EmptyPool(c, <<>>), journal)
  IN  [p EXCEPT !.journal = LocalTxs(p)]

\* NewTxPool: the journal is loaded through AddLocals (the writer discards what it is
\* given meanwhile) and rewritten.
Load(c, journal) ==
  LET p == FoldLeft(LAMBDA q, t : (CHOOSE o \in Additions(q, t, TRUE) : TRUE).pool,
                    EmptyPool(c, <<>>), journal)
  IN  [p EXCEPT !.journal = LocalTxs(p)]

Restart ==
  /\ count.restarts < MaxRestarts
  /\ pool' = Load(head, pool.journal)
  /\ want' = [reset |-> None, dirty |-> {t.from : t \in All(pool')}, launch |-> TRUE]
  /\ job' = None /\ events' = {} /\ announced' = {}
  /\ count' = [count EXCEPT !.restarts = @ + 1]
  /\ UNCHANGED head

----------------------------------------------------------------------------
Init ==
  /\ pool = EmptyPool(<<>>, <<>>)
  /\ head = <<>>
  /\ want = [reset |-> None, dirty |-> {}, launch |-> FALSE]
  /\ job = None /\ events = {} /\ announced = {}
  /\ count = [heads |-> 0, adds |-> 0, timers |-> 0, restarts |-> 0]

\* Nothing is asked for and nothing runs.
Idle == job = None /\ ~want.launch /\ UNCHANGED vars

Next ==
  AddTxs \/ Launch \/ RunReorg \/ NewHead \/ Evict \/ SetTxPrice \/ Rotate \/ Restart \/ Idle

Spec == Init /\ [][Next]_vars

----------------------------------------------------------------------------
(* The three indexes of the pool agree: the lookup holds exactly the       *)
(* pending and the queued transactions, and no two pooled transactions     *)
(* share a nonce, so removeTx, which searches the lists by nonce, removes  *)
(* the transaction it was given.                                           *)
LookupMatches ==
  /\ All(pool) = pool.pending \cup pool.queue
  /\ pool.locs \cap pool.rems = {}
  /\ \A t \in All(pool) : Slot(All(pool), t) = {t}

(* What Pending() serves to the miner can be executed in order: an         *)
(* account's pending nonces are consecutive from the state the pool is at, *)
(* its sponsored transactions use consecutive sponsor nonces (the          *)
(* invariant normalizeSponsoredPendingLocked restores), and pool.Nonce is  *)
(* the next free nonce.                                                    *)
PendingProcessable ==
  /\ \A a \in Senders :
       /\ {t.nonce : t \in Of(pool.pending, a)} = StateNonce(pool.cur, a) .. pool.nonces[a] - 1
       /\ pool.nonces[a] >= StateNonce(pool.cur, a)
  /\ \A s \in Sponsors :
       {t.snonce : t \in {o \in pool.pending : o.sponsor = s}}
          = SponsorNonce(pool.cur, s) .. pool.snonces[s] - 1

(* A transaction of an abandoned block is not lost: after the reset it is  *)
(* pooled again or on the new chain, unless the new state refuses it,      *)
(* another pooled transaction has its nonce or its sponsor nonce, or the   *)
(* pool is full or closed to remote transactions.  Requests merged while a *)
(* run was active count too (scheduleReorgLoop, reset).                    *)
ReorgedNotLost ==
  (job # None /\ job' = None /\ job.reset # None /\ count'.restarts = count.restarts) =>
    \A t \in Included(pool.cur) \ Included(job.reset.new) :
      \/ t \in All(pool')
      \/ t.nonce < StateNonce(job.reset.new, t.from) \/ txUnpayable(job.reset.new, t)
      \/ Sponsored(t) /\ t.snonce < pool'.snonces[t.sponsor]
      \/ Slot(All(pool'), t) # {}
      \/ pool.dear \/ Cardinality(All(pool)) + Cardinality(Included(pool.cur)) > GlobalSlots + GlobalQueue
      \/ Cardinality(Of(All(pool), t.from)) >= AccountQueue
      \/ Len(job.reset.new) - Len(job.reset.old) > MaxDepth

(* The transactions of an account marked local are never dropped to make   *)
(* room, to enforce a limit or for their age: they leave the pool only     *)
(* when they are mined or replaced, or when nobody can pay for them.       *)
LocalsKept ==
  count'.restarts = count.restarts =>
    \A t \in All(pool) \ All(pool') :
      t.from \in pool.locals =>
        \/ t.nonce < StateNonce(pool'.cur, t.from) \/ txUnpayable(pool'.cur, t)
        \/ Slot(All(pool'), t) # {}

(* After a run the pool is within its limits: more than GlobalSlots        *)
(* pending only while every remote account is down to AccountSlots, more   *)
(* than GlobalQueue queued only for local accounts (truncatePending,       *)
(* truncateQueue).                                                         *)
WithinLimits ==
  (job # None /\ job' = None /\ count'.restarts = count.restarts) =>
    /\ \/ Cardinality(pool'.pending) <= GlobalSlots
       \/ Spammers(pool') = {}
    /\ \/ Cardinality(pool'.queue) <= GlobalQueue
       \/ {t.from : t \in pool'.queue} \subseteq pool'.locals

(* No executable transaction is kept from the network: when no run is      *)
(* active or asked for, whatever is pending has been sent to txFeed or     *)
(* waits in queuedEvents for the next run.                                 *)
PendingAnnounced ==
  (job = None /\ ~want.launch) => pool.pending \subseteq announced \cup events

(* A crash loses no transaction that was journalled: after the restart the *)
(* journalled transactions that the chain still accepts are pooled as      *)
(* local ones, the last one of a nonce winning (journal.load, AddLocals).  *)
JournalRestored ==
  count'.restarts > count.restarts =>
    \A t \in ToSet(pool.journal) :
      \/ t \in pool'.locs
      \/ t.nonce < StateNonce(head, t.from) \/ txUnpayable(head, t)
      \/ Slot(pool'.locs, t) # {}
      \/ Sponsored(t) /\ t.snonce < SponsorNonce(head, t.sponsor)
=============================================================================
