----------------------------- MODULE ChainStore -----------------------------
(***************************************************************************)
(* core/blockchain.go, core/headerchain.go and core/rawdb: what is on disk *)
(* while blocks are imported, reorganised, rewound and frozen.             *)
(*                                                                         *)
(* db is the disk: the key-value store and the ancient store.  mem is the  *)
(* process: the current markers and the state tries that were not flushed. *)
(* The operation that holds chainmu is the sequence ops of what it still   *)
(* has to do, and each step of it is one atomic database write; the        *)
(* freezer runs beside it.  The process may stop between any two writes.   *)
(*                                                                         *)
(* A block stands for its hash, header and state root; body and receipts   *)
(* are written together.  Blocks have different state roots.  State        *)
(* snapshots are off.  The blocks of Blocks are valid.                     *)
(***************************************************************************)
EXTENDS Integers, Sequences, FiniteSets, FiniteSetsExt, SequencesExt

CONSTANTS Blocks, Genesis, None,
          Parent,            \* Blocks \ {Genesis} -> Blocks
          Td,                \* total difficulties
          TxsOf,             \* the transactions of a block
          TriesInMemory,     \* 128
          Archive,           \* TrieDirtyDisabled
          Threshold,         \* FullImmutabilityThreshold
          TxLookupLimit,     \* 0 keeps all indices
          Pivot,             \* the stored pivot of a snap sync, or None
          AncientLimit,      \* snap sync: blocks up to it go to the ancient store
          Snap,              \* whether the node is snap syncing
          MaxCrashes,        \* bound: crashes
          MaxImports,        \* bound: imports
          MaxFuture,         \* bound: blocks that wait for their time
          MaxRewinds,        \* bound: calls of SetHead
          MaxIndexings       \* bound: runs of the transaction indexer

VARIABLES db,      \* the disk
          mem,     \* the process
          ops,     \* what the holder of chainmu still has to do
          frz,     \* the freezer
          rcp,     \* InsertReceiptChain, which runs beside the holder of chainmu
          idx,     \* the transaction indexer
          up, count

vars == <<db, mem, ops, frz, rcp, idx, up, count>>

Path[b \in Blocks] == IF b = Genesis THEN <<b>> ELSE Append(Path[Parent[b]], b)
Num(b) == Len(Path[b]) - 1
MaxNum == Max({Num(b) : b \in Blocks})
At(b, n) == Path[b][n + 1]
IsOn(a, b) == Num(a) <= Num(b) /\ At(b, Num(a)) = a
Txs == UNION {TxsOf[b] : b \in Blocks}

ChainAssumption ==
    /\ Genesis \in Blocks /\ None \notin Blocks
    /\ \A b \in Blocks \ {Genesis} : Td[b] > Td[Parent[b]]
    /\ TriesInMemory > 0 /\ Threshold > 0

----------------------------------------------------------------------------
\* Reading the database: the ancient store is asked first.

Frozen(d) == Len(d.ancients)
InAncients(d, b) == Num(b) < Frozen(d) /\ d.ancients[Num(b) + 1] = b
ReadCanonicalHash(d, n) == IF n < Frozen(d) THEN d.ancients[n + 1] ELSE d.canon[n]
HasHeader(d, b) == b \in d.headers \/ InAncients(d, b)
HasBlock(d, b) == (b \in d.headers /\ b \in d.bodies) \/ InAncients(d, b)
HasState(d, m, b) == b \in d.states \cup m.tries
ReadAllHashes(d, n) == {b \in d.headers : Num(b) = n}

Delete(d, B) == [d EXCEPT !.headers = @ \ B, !.bodies = @ \ B]
Unmap(d, N) == [d EXCEPT !.canon = [n \in DOMAIN @ |-> IF n \in N THEN None ELSE @[n]]]
Unlook(d, T) == [d EXCEPT !.lookup = [t \in DOMAIN @ |-> IF t \in T THEN None ELSE @[t]]]
Look(d, b) == [d EXCEPT !.lookup = [t \in DOMAIN @ |-> IF t \in TxsOf[b] THEN Num(b) ELSE @[t]]]

----------------------------------------------------------------------------
\* What an operation still has to do.

Import(b, trim) == [do |-> "import", block |-> b, trim |-> trim]
Store(b)        == [do |-> "store", block |-> b]
StoreOnly(b)    == [do |-> "storeOnly", block |-> b]
Decide(b, top)  == [do |-> "decide", block |-> b, top |-> top]
Canon(b)        == [do |-> "canon", block |-> b]
Unindex(n, T)   == [do |-> "unindex", number |-> n, txs |-> T]
Rewind(n)       == [do |-> "rewind", head |-> n, origin |-> TRUE, frozen |-> Frozen(db),
                    cut |-> None, dels |-> {}, nums |-> {}]
Repair          == [do |-> "repair"]
Trim            == [do |-> "trim"]
Booted          == [do |-> "booted"]

Each(s, Op(_)) == [i \in DOMAIN s |-> Op(s[i])]

(* The outcomes of the fork choice: a tie is broken at random. *)
ReorgNeeded(cur, b) ==
    CASE Td[b] > Td[cur] -> {TRUE}
      [] Td[b] < Td[cur] -> {FALSE}
      [] OTHER -> IF Num(b) = Num(cur) THEN BOOLEAN ELSE {Num(b) < Num(cur)}

CommonBlock(a, b) == At(a, Max({n \in 0 .. Num(a) : n <= Num(b) /\ At(a, n) = At(b, n)}))
Above(b, n) == SubSeq(Path[b], n + 2, Num(b) + 1)
TxsIn(s) == UNION {TxsOf[s[i]] : i \in DOMAIN s}

(* Mutant: the transactions added by the new chain lose their index as well. *)
DroppedAll(oldChain, newChain) == TxsIn(oldChain)

(* HashDifference(deletedTxs, addedTxs): the head of the new chain is not  *)
(* counted, its indices are written afterwards.                            *)
DroppedTxs(oldChain, newChain) == TxsIn(oldChain) \ TxsIn(Front(newChain))

(* Mutant: only the hash of the new head is written. *)
reorgHeadOnly(old, new) ==
    <<Unindex(Num(CommonBlock(old, new)), TxsIn(Above(old, Num(CommonBlock(old, new)))))>>

reorg(old, new) ==
    LET base == CommonBlock(old, new)
        oldChain == Above(old, Num(base))
        newChain == Above(new, Num(base))
    IN  IF newChain = <<>> THEN <<Unindex(Num(base), TxsIn(oldChain))>>
        ELSE Each(Front(newChain), Canon)
             \o <<Unindex(Num(new) - 1, DroppedTxs(oldChain, newChain))>>

(* Both chains can be read down to their common block. *)
Linked(d, a, b) ==
    \A x \in {CommonBlock(a, b)} \cup ToSet(Above(a, Num(CommonBlock(a, b))))
                                \cup ToSet(Above(b, Num(CommonBlock(a, b)))) :
        x \in {a, b} \/ HasBlock(d, x)

(* The head moves to b, by a reorganisation if b does not extend it. *)
SetHeadTo(cur, b) == (IF Parent[b] = cur THEN <<>> ELSE reorg(cur, b)) \o <<Canon(b)>>
MaySetHead(cur, b) == Parent[b] = cur \/ Linked(db, cur, b)

----------------------------------------------------------------------------
Frozen0 == [pc |-> "idle", first |-> 0, blocks |-> <<>>]
Idle == [pc |-> "idle"]

Init ==
    /\ db = [headers |-> {Genesis}, bodies |-> {Genesis},
             canon |-> [n \in 0 .. MaxNum + 1 |-> IF n = 0 THEN Genesis ELSE None],
             head |-> Genesis, headHeader |-> Genesis, headFast |-> Genesis,
             lookup |-> [t \in Txs |-> None], tail |-> None,
             states |-> {Genesis}, ancients |-> <<>>, synced |-> 0]
    /\ mem = [current |-> Genesis, header |-> Genesis, fast |-> Genesis,
              tries |-> {}, future |-> {}, rolledBack |-> FALSE]
    /\ ops = <<>>
    /\ frz = Frozen0 /\ rcp = Idle /\ idx = Idle
    /\ up = TRUE
    /\ count = [crashes |-> 0, imports |-> 0, rewinds |-> 0, indexings |-> 0, torn |-> FALSE]

Free == up /\ ops = <<>>
Tick(c) == /\ count' = [count EXCEPT ![c] = @ + 1]
           /\ UNCHANGED up

----------------------------------------------------------------------------
\* Importing blocks.

(* A block may come alone or with the one before it.  A call with no known *)
(* or waiting parent changes nothing.                                      *)
Segments(b) == {<<b>>} \cup (IF Num(b) > 1 THEN {<<Parent[b], b>>} ELSE {})

(* Assumed of the network: no block comes that is as old as the frozen     *)
(* ones, or of a branch that left the chain below them.                    *)
Recent(b) ==
    /\ Num(b) > Num(mem.current) - Threshold
    /\ Num(CommonBlock(mem.current, b)) > Num(mem.current) - Threshold

(* A snap syncing node imports blocks once its pivot is the head. *)
Importing ==
    /\ Free /\ count.imports < MaxImports
    /\ Snap => Num(mem.current) >= Pivot

InsertChain(b) ==
    /\ Importing
    /\ \E s \in Segments(b) :
          /\ Recent(s[1])
          /\ HasHeader(db, Parent[s[1]]) \/ Parent[s[1]] \in mem.future
          /\ ops' = Each(s, LAMBDA x : Import(x, TRUE))
    /\ Tick("imports")
    /\ UNCHANGED <<db, mem, frz, rcp, idx>>

(* The clock of the sealer is ahead: the block waits in futureBlocks. *)
addFutureBlock(b) ==
    /\ Importing /\ Cardinality(mem.future) < MaxFuture
    /\ HasHeader(db, Parent[b]) \/ Parent[b] \in mem.future
    /\ Recent(b)
    /\ mem' = [mem EXCEPT !.future = @ \cup {b}]
    /\ Tick("imports")
    /\ UNCHANGED <<db, ops, frz, rcp, idx>>

procFutureBlocks ==
    /\ Free /\ mem.future # {} /\ \A b \in mem.future : Recent(b)
    /\ LET sorted == SetToSortSeq(mem.future, LAMBDA x, y : Num(x) < Num(y))
       IN  ops' = Each(sorted, LAMBDA x : [Import(x, TRUE) EXCEPT !.do = "future"])
    /\ UNCHANGED <<db, mem, frz, rcp, idx, up, count>>

Rest == Tail(ops)
Imports(o) == o.do \in {"import", "future"}
Do(what) == up /\ ops # <<>> /\ Head(ops).do = what

(* The following blocks of the call are no longer trimmed. *)
Trimmed(s) == Each(s, LAMBDA o : IF o.do = "import" THEN [o EXCEPT !.trim = FALSE] ELSE o)

(* An error ends the call; blocks from the future queue are calls of their own. *)
Abandon(s) == SelectSeq(s, LAMBDA o : o.do = "future")

(* The following blocks of the same call. *)
CallBlocks == Each(SelectSeq(Rest, LAMBDA o : o.do = "import"), LAMBDA o : o.block)

KnownBlock(b) == HasBlock(db, b) /\ HasState(db, mem, b)

(* ErrUnknownAncestor: the call ends, its blocks wait if the parent does.  *)
ImportUnknown(b) ==
    /\ ~HasHeader(db, Parent[b]) \/ (~HasBlock(db, Parent[b]) /\ ~KnownBlock(b))
    /\ ops' = Abandon(Rest)
    /\ mem' = [mem EXCEPT !.future = IF Parent[b] \in @ THEN @ \cup {b} \cup ToSet(CallBlocks)
                                     ELSE @ \ {b}]

(* Known blocks behind the head are left out, the ones after the first     *)
(* that is not are written without asking the fork choice.                 *)
WritesKnown(b, trim) ==
    IF ~trim THEN {TRUE}
    ELSE {r /\ (Num(b) > Num(mem.current) \/ ReadCanonicalHash(db, Num(b)) # b) :
             r \in ReorgNeeded(mem.current, b)}

ImportKnown(b, trim) ==
    /\ HasHeader(db, Parent[b]) /\ KnownBlock(b)
    /\ \E write \in WritesKnown(b, trim) :
          ops' = IF ~write THEN Rest
                 ELSE IF MaySetHead(mem.current, b)
                      THEN SetHeadTo(mem.current, b) \o Trimmed(Rest)
                      ELSE Abandon(Rest)
    /\ UNCHANGED mem

(* ErrPrunedAncestor: insertSideChain stores the blocks of the call up to  *)
(* the first that is known, passing over the canonical ones.               *)
Unpruned(s) == IF \E i \in DOMAIN s : KnownBlock(s[i])
               THEN SubSeq(s, 1, Min({i \in DOMAIN s : KnownBlock(s[i])}) - 1) ELSE s

ImportPruned(b) ==
    /\ HasBlock(db, Parent[b]) /\ ~HasState(db, mem, Parent[b]) /\ ~KnownBlock(b)
    /\ LET chain == Unpruned(<<b>> \o CallBlocks)
           side == SelectSeq(chain, LAMBDA x : \/ ReadCanonicalHash(db, Num(x)) # x
                                              \/ Num(x) > Num(mem.current))
           new == SelectSeq(side, LAMBDA x : ~HasBlock(db, x))
       IN  ops' = Each(new, StoreOnly)
                  \o <<Decide(IF side = <<>> THEN b ELSE Last(side), Last(chain))>>
                  \o SelectSeq(Rest, LAMBDA o : o.do # "import")
    /\ UNCHANGED mem

(* The block is executed on the state of its parent. *)
ImportExecuted(b) ==
    /\ HasBlock(db, Parent[b]) /\ HasState(db, mem, Parent[b]) /\ ~KnownBlock(b)
    /\ \E r \in ReorgNeeded(mem.current, b) :
          ops' = <<Store(b)>> \o (IF ~r THEN Trimmed(Rest)
                                  ELSE IF MaySetHead(mem.current, b)
                                       THEN SetHeadTo(mem.current, b) \o Trimmed(Rest)
                                       ELSE Abandon(Rest))
    /\ mem' = [mem EXCEPT !.future = @ \ {b}]

insertChain ==
    /\ up /\ ops # <<>> /\ Imports(Head(ops))
    /\ LET b == Head(ops).block
       IN  \/ ImportUnknown(b)
           \/ ImportKnown(b, Head(ops).trim)
           \/ ImportPruned(b)
           \/ ImportExecuted(b)
    /\ UNCHANGED <<db, frz, rcp, idx, up, count>>

(* insertSideChain, once the blocks are stored: if the branch wins, its    *)
(* blocks without state are executed from the last one that has it.        *)
insertSideChain ==
    /\ Do("decide")
    /\ LET top == Head(ops).top
           base == Max({n \in 0 .. Num(top) : HasState(db, mem, At(top, n))})
       IN  \E r \in ReorgNeeded(mem.current, Head(ops).block) :
             ops' = (IF r THEN Each(Above(top, base), LAMBDA x : Import(x, TRUE)) ELSE <<>>) \o Rest
    /\ UNCHANGED <<db, mem, frz, rcp, idx, up, count>>

writeBlockWithoutState ==
    /\ Do("storeOnly")
    /\ db' = [db EXCEPT !.headers = @ \cup {Head(ops).block}, !.bodies = @ \cup {Head(ops).block}]
    /\ ops' = Rest
    /\ UNCHANGED <<mem, frz, rcp, idx, up, count>>

(* The tries of blocks TriesInMemory behind are dropped, the canonical one *)
(* among them flushed when the time allowance is used up.                  *)
Collect(d, m, chosen, flush) ==
    LET old == {x \in m.tries : Num(x) <= chosen}
        due == {ReadCanonicalHash(d, chosen)} \cap old
    IN  <<[d EXCEPT !.states = @ \cup (IF flush THEN due ELSE {})], [m EXCEPT !.tries = @ \ old]>>

writeBlockWithState ==
    /\ Do("store")
    /\ LET b == Head(ops).block
           d == [db EXCEPT !.headers = @ \cup {b}, !.bodies = @ \cup {b}]
       IN  \/ /\ Archive
              /\ db' = [d EXCEPT !.states = @ \cup {b}]
              /\ UNCHANGED mem
           \/ /\ ~Archive
              /\ LET m == [mem EXCEPT !.tries = @ \cup {b}]
                 IN  IF Num(b) > TriesInMemory
                     THEN \E flush \in BOOLEAN : 
                             LET dm == Collect(d, m, Num(b) - TriesInMemory, flush)
                             IN  db' = dm[1] /\ mem' = dm[2]
                     ELSE db' = d /\ mem' = m
    /\ ops' = Rest
    /\ UNCHANGED <<frz, rcp, idx, up, count>>

(* One batch: the markers, the canonical hash and the transaction indices. *)
writeHeadBlock ==
    /\ Do("canon")
    /\ LET b == Head(ops).block
       IN  /\ db' = [Look(db, b) EXCEPT !.head = b, !.headHeader = b, !.headFast = b,
                                        !.canon = [@ EXCEPT ![Num(b)] = b]]
           /\ mem' = [mem EXCEPT !.current = b, !.header = b, !.fast = b]
    /\ ops' = Rest
    /\ UNCHANGED <<frz, rcp, idx, up, count>>

(* The numbers from n on that have a canonical hash, without a gap. *)
MappedFrom(d, n) ==
    {k \in n .. MaxNum : \A i \in n .. k : ReadCanonicalHash(d, i) # None}

reorgIndexes ==
    /\ Do("unindex")
    /\ LET o == Head(ops)
       IN  db' = Unmap(Unlook(db, o.txs), MappedFrom(db, o.number + 1))
    /\ ops' = Rest
    /\ UNCHANGED <<mem, frz, rcp, idx, up, count>>

----------------------------------------------------------------------------
\* Rewinding.

(* Mutant: the head may be a block without state. *)
RewoundAnyway(d, m, b) == b

(* The closest block from b down that has its state, the genesis block if  *)
(* a block is missing on the way or the pivot is passed.                   *)
Rewound(d, m, b) ==
    LET found == {n \in 0 .. Num(b) : HasState(d, m, At(b, n))}
        to == Max(found)
        reached == \A n \in to .. Num(b) :
                      /\ HasBlock(d, At(b, n))
                      /\ n > to /\ Pivot # None => n > Pivot
    IN  IF reached THEN At(b, to) ELSE Genesis

(* updateFn: the markers of the full and the fast block for a header chain *)
(* that ends at h.                                                         *)
NewCurrent(d, m, h) == IF Num(h) <= Num(m.current) THEN Rewound(d, m, h) ELSE m.current
NewFast(d, m, h) ==
    IF Num(h) >= Num(m.fast) THEN m.fast ELSE IF HasBlock(d, h) THEN h ELSE Genesis
Wipe(c, frozen) == Num(c) + 1 < frozen /\ (Pivot = None \/ Num(c) >= Pivot)

Marked(d, m, h) ==
    <<[d EXCEPT !.head = NewCurrent(d, m, h), !.headFast = NewFast(d, m, h)],
      [m EXCEPT !.current = NewCurrent(d, m, h), !.fast = NewFast(d, m, h)]>>

(* loadLastState *)
Loaded(d, tries) ==
    [current |-> d.head,
     header |-> IF HasHeader(d, d.headHeader) THEN d.headHeader ELSE d.head,
     fast |-> IF HasBlock(d, d.headFast) THEN d.headFast ELSE d.head,
     tries |-> tries, future |-> {}, rolledBack |-> FALSE]

SetHead(n) ==
    /\ Free /\ frz.pc = "idle" /\ count.rewinds < MaxRewinds
    /\ n < Num(mem.header)
    /\ ops' = <<Rewind(n)>>
    /\ mem' = [mem EXCEPT !.rolledBack = Snap]
    /\ Tick("rewinds")
    /\ UNCHANGED <<db, frz, rcp, idx>>

(* One header: the markers are lowered in one batch before any data goes.  *)
rewindMarkers ==
    /\ Do("rewind") /\ Head(ops).cut = None /\ Num(mem.header) > Head(ops).head
    /\ LET o == Head(ops)
           hdr == mem.header
           parent == IF HasHeader(db, Parent[hdr]) THEN Parent[hdr] ELSE Genesis
           dm == Marked(db, mem, parent)
           low == Num(dm[2].current)
       IN  /\ db' = [dm[1] EXCEPT !.headHeader = parent]
           /\ mem' = [dm[2] EXCEPT !.header = parent]
           /\ ops' = <<[o EXCEPT !.cut = hdr,
                                 !.head = IF Wipe(dm[2].current, o.frozen) THEN Min({@, low}) ELSE @]>>
                     \o Rest
    /\ UNCHANGED <<frz, rcp, idx, up, count>>

(* The data of that height, and of the heights left above the first one:   *)
(* ancient data is cut off now, the rest when all headers are done.        *)
rewindCut ==
    /\ Do("rewind") /\ Head(ops).cut # None
    /\ LET o == Head(ops)
           n == Num(o.cut)
           left == {k \in n + 1 .. MaxNum : \A i \in n + 1 .. k : ReadAllHashes(db, i) # {}}
           nums == {n} \cup (IF o.origin THEN left ELSE {})
           gone == {o.cut} \cup UNION {ReadAllHashes(db, k) : k \in nums}
       IN  /\ db' = IF n < Frozen(db)
                    THEN [db EXCEPT !.ancients = SubSeq(@, 1, n), !.synced = Min({@, n})]
                    ELSE db
           /\ ops' = <<[o EXCEPT !.cut = None, !.origin = FALSE, !.dels = @ \cup gone,
                                 !.nums = @ \cup nums]>> \o Rest
    /\ UNCHANGED <<mem, frz, rcp, idx, up, count>>

rewindFlush ==
    /\ Do("rewind") /\ Head(ops).cut = None /\ Num(mem.header) <= Head(ops).head
    /\ db' = Unmap(Delete(db, Head(ops).dels), Head(ops).nums)
    /\ mem' = [Loaded(db', mem.tries) EXCEPT !.rolledBack = mem.rolledBack]
    /\ ops' = Rest
    /\ UNCHANGED <<frz, rcp, idx, up, count>>

----------------------------------------------------------------------------
\* The transaction index covers the last TxLookupLimit blocks, all for 0.

Indexing(from, to) == [pc |-> "read", index |-> TRUE, from |-> from, to |-> to, look |-> <<>>]
Unindexing(from, to) == [Indexing(from, to) EXCEPT !.index = FALSE]
AncientTail == IF TxLookupLimit # 0 /\ Frozen(db) > TxLookupLimit
               THEN Frozen(db) - TxLookupLimit ELSE 0

(* A chain head event: one run at a time. *)
indexBlocks ==
    /\ Free /\ idx.pc = "idle" /\ count.indexings < MaxIndexings
    /\ LET head == Num(mem.current)
           all == TxLookupLimit = 0 \/ head < TxLookupLimit
           first == head - TxLookupLimit + 1
           run == CASE db.tail = None /\ all -> Unindexing(0, 0)
                    [] db.tail = None /\ ~all -> Unindexing(0, first)
                    [] db.tail # None /\ all -> Indexing(0, Min({db.tail, head + 1}))
                    [] db.tail # None /\ ~all /\ first < db.tail -> Indexing(first, db.tail)
                    [] OTHER -> Unindexing(db.tail, first)
       IN  /\ run.from < run.to \/ db.tail = None
           /\ idx' = run
    /\ Tick("indexings")
    /\ UNCHANGED <<db, mem, ops, frz, rcp>>

(* The bodies of the canonical blocks are read; a missing one ends the run. *)
Readable(n) == LET b == ReadCanonicalHash(db, n) IN b # None /\ HasBlock(db, b)

iterateTransactions ==
    /\ up /\ idx.pc = "read"
    /\ LET gaps == {n \in idx.from .. idx.to - 1 : ~Readable(n)}
           from == IF idx.index THEN Max({idx.from} \cup {n + 1 : n \in gaps}) ELSE idx.from
           to == IF idx.index THEN idx.to ELSE Min({idx.to} \cup gaps)
       IN  idx' = [idx EXCEPT !.pc = "write", !.from = from, !.to = to,
                              !.look = [n \in from .. to - 1 |-> TxsOf[ReadCanonicalHash(db, n)]]]
    /\ UNCHANGED <<db, mem, ops, frz, rcp, up, count>>

writeTxIndex ==
    /\ up /\ idx.pc = "write"
    /\ LET in(t) == {n \in DOMAIN idx.look : t \in idx.look[n]}
           new(t) == IF ~idx.index THEN None ELSE Min(in(t))
       IN  db' = [db EXCEPT !.lookup = [t \in Txs |-> IF in(t) = {} THEN @[t] ELSE new(t)],
                            !.tail = IF idx.index THEN idx.from ELSE idx.to]
    /\ idx' = Idle
    /\ UNCHANGED <<mem, ops, frz, rcp, up, count>>

----------------------------------------------------------------------------
\* Stopping, crashing and starting again.

(* Stop flushes the states of the head, of its parent and of the oldest    *)
(* one that is kept.                                                       *)
Kept(m) ==
    {At(m.current, Num(m.current) - o) : o \in {k \in {0, 1, TriesInMemory - 1} : Num(m.current) > k}}

Down == /\ up' = FALSE
        /\ mem' = Loaded(db', {})
        /\ ops' = <<>>
        /\ frz' = Frozen0 /\ rcp' = Idle /\ idx' = Idle

Stop ==
    /\ Free /\ frz.pc = "idle" /\ count.crashes < MaxCrashes
    /\ db' = [db EXCEPT !.states = @ \cup (Kept(mem) \cap mem.tries), !.synced = Frozen(db)]
    /\ Down
    /\ count' = [count EXCEPT !.crashes = @ + 1]

(* Between the last batch of a reorganisation and the batch of the new     *)
(* head: the canonical hash of the old head is gone.  A crash there leaves *)
(* the hole on disk, which count.torn records.                             *)
Switching == Do("canon") /\ ReadCanonicalHash(db, Num(db.headHeader)) # db.headHeader

(* Ancient data that was not synced may be lost, from the end. *)
Crash ==
    /\ up /\ count.crashes < MaxCrashes
    /\ \E n \in db.synced .. Frozen(db) :
          db' = [db EXCEPT !.ancients = SubSeq(@, 1, n), !.synced = n]
    /\ Down
    /\ count' = [count EXCEPT !.crashes = @ + 1, !.torn = @ \/ Switching]

(* bc.empty and InitDatabaseFromFreezer: an ancient store without markers. *)
FromFreezer(d) ==
    IF {d.head, d.headHeader, d.headFast} = {Genesis} /\ Frozen(d) > 0
    THEN [d EXCEPT !.headHeader = Last(d.ancients), !.headFast = Last(d.ancients)]
    ELSE d

(* NewDatabaseWithFreezer refuses a database with a gap. *)
Opens(d) ==
    IF Frozen(d) > 0 THEN d.canon[Frozen(d)] # None \/ Num(d.headHeader) <= Frozen(d) - 1
    ELSE d.headHeader = Genesis \/ d.canon[1] # None

NewBlockChain ==
    /\ ~up /\ Opens(db)
    /\ up' = TRUE
    /\ db' = FromFreezer(db)
    /\ mem' = Loaded(db', {})
    /\ ops' = <<Repair, Trim, Booted>>
    /\ idx' = IF FromFreezer(db) # db THEN Indexing(AncientTail, Frozen(db)) ELSE Idle
    /\ UNCHANGED <<frz, rcp, count>>

(* NewBlockChain returns, and the services start. *)
Booting == ops # <<>> /\ Last(ops) = Booted

booted ==
    /\ Do("booted")
    /\ ops' = <<>>
    /\ UNCHANGED <<db, mem, frz, rcp, idx, up, count>>

(* The head has no state: its marker moves down; the headers stay unless   *)
(* the new head is below the ancient store.                                *)
repairHead ==
    /\ Do("repair")
    /\ \/ /\ HasState(db, mem, mem.current)
          /\ ops' = Rest
          /\ UNCHANGED <<db, mem>>
       \/ /\ ~HasState(db, mem, mem.current)
          /\ LET dm == Marked(db, mem, mem.current)
             IN  /\ db' = dm[1]
                 /\ mem' = Loaded(db', mem.tries)
                 /\ ops' = (IF Wipe(dm[2].current, Frozen(db)) THEN <<Rewind(Num(dm[2].current))>>
                            ELSE <<>>) \o Rest
    /\ UNCHANGED <<frz, rcp, idx, up, count>>

(* Ancient blocks above the markers are cut off. *)
trimAncients ==
    /\ Do("trim")
    /\ LET full == IF mem.current # Genesis /\ Num(mem.current) < Frozen(db) - 1
                   THEN {Num(mem.current)} ELSE {}
           fast == IF Num(mem.fast) < Frozen(db) - 1 THEN {Num(mem.fast)} ELSE {}
           low == full \cup fast
       IN  ops' = (IF low = {} \/ Frozen(db) = 0 THEN <<>> ELSE <<Rewind(Min(low))>>) \o Rest
    /\ UNCHANGED <<db, mem, frz, rcp, idx, up, count>>

----------------------------------------------------------------------------
\* The freezer.

(* The range is read from the key-value store and appended.  It ends at    *)
(* least Threshold blocks below the head.  Assumed: no rewind overlaps a   *)
(* run of the freezer, which is no party to chainmu.                       *)
freezeRange ==
    /\ up /\ frz.pc = "idle"
    /\ ~Booting /\ ~Do("rewind")
    /\ LET first == Frozen(db)
           limit == Num(db.head) - Threshold
           range == [i \in 1 .. limit - first + 1 |-> db.canon[first + i - 1]]
       IN  /\ limit > first
           /\ \A i \in DOMAIN range : range[i] # None /\ range[i] \in db.headers \cap db.bodies
           /\ db' = [db EXCEPT !.ancients = @ \o range]
           /\ frz' = [pc |-> "sync", first |-> first, blocks |-> range]
    /\ UNCHANGED <<mem, ops, rcp, idx, up, count>>

(* Mutant: the frozen blocks are not flushed before they are deleted. *)
freezeUnsynced ==
    /\ up /\ frz.pc = "sync"
    /\ frz' = [frz EXCEPT !.pc = "delete"]
    /\ UNCHANGED <<db, mem, ops, rcp, idx, up, count>>

freezeSync ==
    /\ up /\ frz.pc = "sync"
    /\ db' = [db EXCEPT !.synced = Frozen(db)]
    /\ frz' = [frz EXCEPT !.pc = "delete"]
    /\ UNCHANGED <<mem, ops, rcp, idx, up, count>>

(* Mutant: one canonical hash too many goes. *)
NumbersAndNext(f) == {f.first + i : i \in 0 .. Len(f.blocks)} \ {0}

(* The genesis block stays in the key-value store. *)
Numbers(f) == {f.first + i - 1 : i \in DOMAIN f.blocks} \ {0}

freezeDelete ==
    /\ up /\ frz.pc = "delete"
    /\ db' = Unmap(Delete(db, ToSet(frz.blocks) \ {Genesis}), Numbers(frz))
    /\ frz' = [frz EXCEPT !.pc = "sides"]
    /\ UNCHANGED <<mem, ops, rcp, idx, up, count>>

(* Side blocks of the frozen heights, then what was built on the last ones. *)
freezeSides ==
    /\ up /\ frz.pc = "sides"
    /\ LET nums == {n \in frz.first .. Frozen(db) - 1 : n # 0}
           sides == UNION {ReadAllHashes(db, n) : n \in nums}
           last == IF nums = {} THEN {} ELSE ReadAllHashes(db, Frozen(db) - 1)
       IN  /\ db' = Delete(db, sides)
           /\ frz' = [frz EXCEPT !.pc = "dangling", !.blocks = SetToSeq(last)]
    /\ UNCHANGED <<mem, ops, rcp, idx, up, count>>

freezeDangling ==
    /\ up /\ frz.pc = "dangling"
    /\ db' = Delete(db, {b \in db.headers : \E i \in DOMAIN frz.blocks : IsOn(frz.blocks[i], b)})
    /\ frz' = Frozen0
    /\ UNCHANGED <<mem, ops, rcp, idx, up, count>>

----------------------------------------------------------------------------
\* Snap sync: headers first, then bodies and receipts beside them.

(* Headers that extend the chain, or leave it while no blocks are written: *)
(* the downloader asks for what follows a common ancestor, which is on it. *)
(* After a rollback of headers the next sync cycle starts when the         *)
(* importer of the last one is done (spawnSync waits for it).              *)
InsertHeaderChain(b) ==
    /\ Free /\ Snap /\ count.imports < MaxImports
    /\ \E s \in Segments(b) :
          /\ IsOn(Parent[s[1]], mem.header)
          /\ rcp.pc # "idle" => Parent[s[1]] = mem.header /\ ~mem.rolledBack
          /\ ops' = <<[do |-> "headers", chain |-> s], [do |-> "reorgHeaders", chain |-> s]>>
    /\ Recent(b)
    /\ mem' = [mem EXCEPT !.rolledBack = FALSE]
    /\ Tick("imports")
    /\ UNCHANGED <<db, frz, rcp, idx>>

WriteHeaders ==
    /\ Do("headers")
    /\ LET new == SelectSeq(Head(ops).chain, LAMBDA b : ~HasHeader(db, b))
       IN  db' = [db EXCEPT !.headers = @ \cup ToSet(new)]
    /\ ops' = Rest
    /\ UNCHANGED <<mem, frz, rcp, idx, up, count>>

(* Reorg: the hashes above the new head go, the ones below it are          *)
(* rewritten down to the common block, in one batch.                       *)
OnHeaderChain(b) == ReadCanonicalHash(db, Num(b)) = b /\ Num(b) <= Num(mem.header)

HeadersReorged(s) ==
    LET last == Last(s)
        d == IF Parent[s[1]] = mem.header THEN db
             ELSE Unmap(db, MappedFrom(db, Num(last) + 1))
        cross == Max({n \in 0 .. Num(s[1]) : ReadCanonicalHash(db, n) = At(last, n)} \cup {0})
        low == IF Parent[s[1]] = mem.header THEN Num(s[1]) ELSE cross + 1
    IN  [d EXCEPT !.headHeader = last,
                  !.canon = [n \in DOMAIN @ |->
                     IF n \in (low .. Num(last)) \cup (Num(s[1]) .. Num(last)) THEN At(last, n) ELSE @[n]]]

writeHeadersAndSetHead ==
    /\ Do("reorgHeaders")
    /\ LET s == Head(ops).chain
       IN  \E r \in ReorgNeeded(mem.header, Last(s)) :
             \/ /\ r /\ ~OnHeaderChain(Last(s))
                /\ db' = HeadersReorged(s)
                /\ mem' = [mem EXCEPT !.header = Last(s)]
             \/ /\ ~r \/ OnHeaderChain(Last(s))
                /\ UNCHANGED <<db, mem>>
    /\ ops' = Rest
    /\ UNCHANGED <<frz, rcp, idx, up, count>>

(* The blocks after the fast block, of the header chain at that time. *)
InsertReceiptChain(b) ==
    /\ up /\ ~Booting /\ Snap /\ rcp.pc = "idle" /\ Num(b) <= Pivot
    /\ IsOn(b, mem.header)
    /\ \E s \in Segments(b) :
          /\ Parent[s[1]] = mem.fast
          /\ rcp' = [pc |-> "genesis", prev |-> 0,
                     old |-> SelectSeq(s, LAMBDA x : Num(x) <= AncientLimit),
                     live |-> SelectSeq(s, LAMBDA x : Num(x) > AncientLimit)]
    /\ UNCHANGED <<db, mem, ops, frz, idx, up, count>>

Receipts(pc) == up /\ rcp.pc = pc
Goto(pc) == rcp' = [rcp EXCEPT !.pc = pc]
OthersUnchanged == UNCHANGED <<ops, frz, idx, up, count>>

receiptsGenesis ==
    /\ Receipts("genesis")
    /\ LET first == rcp.old # <<>> /\ Num(rcp.old[1]) = 1 /\ Frozen(db) = 0
       IN  db' = IF first THEN [db EXCEPT !.ancients = <<Genesis>>] ELSE db
    /\ Goto(IF rcp.old = <<>> THEN "tail" ELSE "append")
    /\ OthersUnchanged /\ UNCHANGED mem

(* Ancient data is appended in order and under a known header only. *)
receiptsAppend ==
    /\ Receipts("append")
    /\ \/ /\ HasHeader(db, Last(rcp.old)) /\ Num(rcp.old[1]) = Frozen(db)
          /\ db' = [db EXCEPT !.ancients = @ \o rcp.old]
          /\ Goto("index")
       \/ /\ ~HasHeader(db, Last(rcp.old)) \/ Num(rcp.old[1]) # Frozen(db)
          /\ rcp' = Idle
          /\ UNCHANGED db
    /\ OthersUnchanged /\ UNCHANGED mem

Indexed(b) ==
    \/ TxLookupLimit = 0 \/ AncientLimit <= TxLookupLimit
    \/ Num(b) >= AncientLimit - TxLookupLimit
    \/ db.tail # None

receiptsIndex ==
    /\ Receipts("index")
    /\ db' = FoldSeq(LAMBDA b, d : IF Indexed(b) THEN Look(d, b) ELSE d, db, rcp.old)
    /\ Goto("sync")
    /\ OthersUnchanged /\ UNCHANGED mem

receiptsSync ==
    /\ Receipts("sync")
    /\ db' = [db EXCEPT !.synced = Frozen(db)]
    /\ rcp' = [rcp EXCEPT !.pc = "head", !.prev = Num(mem.fast)]
    /\ OthersUnchanged /\ UNCHANGED mem

(* updateHead, under chainmu: the rewind of the headers may have overtaken *)
(* the blocks.                                                             *)
FastTo(b) ==
    {r \in BOOLEAN : r \in IF Num(mem.header) >= Num(b) THEN ReorgNeeded(mem.fast, b) ELSE {FALSE}}

TruncateHead(d, n) ==
    [d EXCEPT !.ancients = SubSeq(@, 1, Min({n, Len(@)})), !.synced = Min({@, n})]

receiptsHead ==
    /\ Receipts("head") /\ ops = <<>>
    /\ LET last == Last(rcp.old)
       IN  \E r \in FastTo(last) :
             \/ /\ r
                /\ db' = [db EXCEPT !.headFast = last]
                /\ mem' = [mem EXCEPT !.fast = last]
                /\ Goto("delete")
             \/ /\ ~r
                /\ db' = TruncateHead(db, rcp.prev + 1)
                /\ rcp' = Idle
                /\ UNCHANGED mem
    /\ OthersUnchanged

receiptsDelete ==
    /\ Receipts("delete")
    /\ LET nums == {Num(b) : b \in ToSet(rcp.old)}
       IN  db' = Unmap(Delete(db, {b \in db.headers : Num(b) \in nums}), nums)
    /\ IF rcp.live = <<>> THEN rcp' = Idle ELSE Goto("tail")
    /\ OthersUnchanged /\ UNCHANGED mem

receiptsTail ==
    /\ Receipts("tail")
    /\ db' = IF Num(rcp.live[1]) = AncientLimit + 1 /\ db.tail = None
             THEN [db EXCEPT !.tail = IF TxLookupLimit = 0 THEN 0 ELSE Max({0, AncientLimit - TxLookupLimit})]
             ELSE db
    /\ Goto("live")
    /\ OthersUnchanged /\ UNCHANGED mem

receiptsLive ==
    /\ Receipts("live")
    /\ \/ /\ \A i \in DOMAIN rcp.live : HasHeader(db, rcp.live[i])
          /\ LET new == SelectSeq(rcp.live, LAMBDA b : ~HasBlock(db, b))
             IN  db' = [FoldSeq(LAMBDA b, d : Look(d, b), db, new) EXCEPT !.bodies = @ \cup ToSet(new)]
          /\ Goto("liveHead")
       \/ /\ \E i \in DOMAIN rcp.live : ~HasHeader(db, rcp.live[i])
          /\ rcp' = Idle
          /\ UNCHANGED db
    /\ OthersUnchanged /\ UNCHANGED mem

receiptsLiveHead ==
    /\ Receipts("liveHead") /\ ops = <<>>
    /\ LET last == Last(rcp.live)
       IN  \E r \in FastTo(last) :
             /\ db' = IF r THEN [db EXCEPT !.headFast = last] ELSE db
             /\ mem' = IF r THEN [mem EXCEPT !.fast = last] ELSE mem
    /\ rcp' = Idle
    /\ OthersUnchanged

(* The state of the pivot block arrives by the state sync. *)
StateSynced ==
    /\ up /\ ~Booting /\ Snap /\ Num(mem.header) >= Pivot
    /\ At(mem.header, Pivot) \notin db.states
    /\ db' = [db EXCEPT !.states = @ \cup {At(mem.header, Pivot)}]
    /\ UNCHANGED <<mem, rcp>> /\ OthersUnchanged

(* The head is set in memory only. *)
SnapSyncCommitHead ==
    /\ Free /\ Snap /\ Num(mem.fast) = Pivot /\ Num(mem.current) < Pivot
    /\ rcp.pc = "idle"
    /\ HasBlock(db, mem.fast) /\ HasState(db, mem, mem.fast)
    /\ mem' = [mem EXCEPT !.current = mem.fast]
    /\ UNCHANGED <<db, rcp>> /\ OthersUnchanged

(* A node at rest. *)
Resting == Free /\ UNCHANGED vars

----------------------------------------------------------------------------
Next ==
    \/ \E b \in Blocks \ {Genesis} : InsertChain(b) \/ addFutureBlock(b)
    \/ procFutureBlocks \/ insertChain \/ insertSideChain
    \/ writeBlockWithoutState \/ writeBlockWithState \/ writeHeadBlock \/ reorgIndexes
    \/ \E n \in 0 .. MaxNum : SetHead(n)
    \/ rewindMarkers \/ rewindCut \/ rewindFlush
    \/ indexBlocks \/ iterateTransactions \/ writeTxIndex
    \/ Stop \/ Crash \/ NewBlockChain \/ repairHead \/ trimAncients \/ booted
    \/ freezeRange \/ freezeSync \/ freezeDelete \/ freezeSides \/ freezeDangling
    \/ \E b \in Blocks \ {Genesis} : InsertHeaderChain(b) \/ InsertReceiptChain(b)
    \/ WriteHeaders \/ writeHeadersAndSetHead
    \/ receiptsGenesis \/ receiptsAppend \/ receiptsIndex \/ receiptsSync \/ receiptsHead
    \/ receiptsDelete \/ receiptsTail \/ receiptsLive \/ receiptsLiveHead
    \/ StateSynced \/ SnapSyncCommitHead
    \/ Resting

Spec == Init /\ [][Next]_vars

----------------------------------------------------------------------------
(* The canonical hashes up to the head header are its ancestors, and the   *)
(* full and the fast head are among them: after every single write but the *)
(* last one before a switch of heads, so also after a crash elsewhere.     *)
CanonicalPath ==
    ~Switching /\ ~count.torn =>
    /\ \A n \in 0 .. Num(db.headHeader) : ReadCanonicalHash(db, n) = At(db.headHeader, n)
    /\ IsOn(db.head, db.headHeader) /\ IsOn(db.headFast, db.headHeader)

(* No marker ever points to missing data: headers up to the head header,   *)
(* blocks up to the full and the fast head, from either store.             *)
MarkedDataReadable ==
    /\ \A n \in 0 .. Num(db.headHeader) : HasHeader(db, At(db.headHeader, n))
    /\ \A h \in {db.head, db.headFast} : \A n \in 0 .. Num(h) : HasBlock(db, At(h, n))

(* Whenever the process stops the database opens again. *)
AlwaysOpens == ~up /\ ~count.torn => Opens(db)

(* Between operations the current block has its state, and what is in      *)
(* memory is what a restart would find; only the head committed by a snap  *)
(* sync is not on disk yet.                                                *)
HeadHasState ==
    Free => /\ HasState(db, mem, mem.current)
            /\ mem.header = db.headHeader /\ mem.fast = db.headFast
            /\ mem.current = db.head \/ (Snap /\ Num(mem.current) = Pivot)

(* Transactions of the canonical chain are found by their hash, as far     *)
(* back as the index goes.                                                 *)
TxsFound ==
    Free /\ idx.pc = "idle" /\ ~count.torn =>
        LET low == IF db.tail = None THEN 1 ELSE db.tail
        IN  \A n \in low .. Num(db.head) :
              \A t \in TxsOf[At(db.head, n)] : db.lookup[t] = n
=============================================================================
