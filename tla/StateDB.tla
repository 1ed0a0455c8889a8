------------------------------ MODULE StateDB ------------------------------
(***************************************************************************)
(* core/state: the state of one block while its transactions execute.      *)
(* Account objects with their three storage layers, the change journal,    *)
(* snapshots and reverts, the access list, the end of a transaction        *)
(* (Finalise), the tries (IntermediateRoot, Commit), the maps handed to    *)
(* the flat snapshot tree, copies, and the trie prefetcher.  A trie is its *)
(* content: the root of a storage trie is the function from keys to values.*)
(***************************************************************************)
EXTENDS Integers, Sequences, FiniteSets, SequencesExt

CONSTANTS
    Addrs,          \* account addresses
    Keys,           \* storage keys
    Values,         \* storage values, 0 among them
    Codes,          \* contract codes
    Ripemd,         \* the address whose touch outlives a revert
    None,           \* nil
    Genesis,        \* [Addrs -> account or None], the first state trie
    Snapshots,      \* BOOLEAN: the flat snapshot tree is on
    Ops,            \* the operations a behaviour may call
    MaxOps,         \* bound: journalled operations
    MaxTxs,         \* bound: transactions, over all blocks
    MaxBlocks,      \* bound: blocks
    MaxSnapshots,   \* bound: live revisions
    MaxAmount       \* bound: nonces and balances

StateDBAssumption ==
    /\ 0 \in Values
    /\ None \notin Addrs \cup Codes
    /\ {MaxOps, MaxTxs, MaxBlocks, MaxSnapshots, MaxAmount} \subseteq Nat

VARIABLES
    sdb,            \* the StateDB in use
    world,          \* what is stored: tries, codes, and the flat snapshot
    count           \* operations, transactions and blocks so far

vars == <<sdb, world, count>>

ZeroSlots == [k \in Keys |-> 0]
NoSlots == [k \in {} |-> 0]
EmptyAccount == [nonce |-> 0, balance |-> 0, code |-> None, root |-> ZeroSlots]

-----------------------------------------------------------------------------
(* State objects.                                                          *)

newObject(data) ==
    [data |-> data, code |-> None, trie |-> None, origin |-> NoSlots,
     pending |-> NoSlots, dirty |-> NoSlots, dirtyCode |-> FALSE,
     suicided |-> FALSE, deleted |-> FALSE]

empty(d) == d.nonce = 0 /\ d.balance = 0 /\ d.code = None

(* The slot as the object's own caches have it, or as it is below them.    *)
Slot(o, k, below) ==
    IF k \in DOMAIN o.dirty THEN o.dirty[k]
    ELSE IF k \in DOMAIN o.pending THEN o.pending[k]
    ELSE IF k \in DOMAIN o.origin THEN o.origin[k] ELSE below

getTrie(o) == IF o.trie = None THEN o.data.root ELSE o.trie

(* finalise: the dirty slots of a transaction become pending slots.        *)
finalise(o) == [o EXCEPT !.pending = o.dirty @@ @, !.dirty = NoSlots]

(* A slot that no cache of the object holds was read as zero.              *)
Changed(o) ==
    {k \in DOMAIN o.pending :
        o.pending[k] # IF k \in DOMAIN o.origin THEN o.origin[k] ELSE 0}

(* updateTrie and updateRoot, on an object that is already finalised.      *)
updateTrie(o) ==
    IF DOMAIN o.pending = {} THEN o
    ELSE [o EXCEPT
            !.trie = [k \in Keys |-> IF k \in Changed(o) THEN o.pending[k]
                                     ELSE getTrie(o)[k]],
            !.origin = [k \in Changed(o) |-> o.pending[k]] @@ @,
            !.pending = NoSlots]

updateRoot(o) == [o EXCEPT !.data.root = getTrie(o)]

-----------------------------------------------------------------------------
(* The access list.                                                        *)

newAccessList == [addresses |-> [a \in {} |-> 0], slots |-> <<>>]

HasAddress(al, a) == a \in DOMAIN al.addresses

HasSlot(al, a, k) ==
    HasAddress(al, a) /\ al.addresses[a] > 0 /\ k \in al.slots[al.addresses[a]]

AddAddress(al, a) ==
    IF HasAddress(al, a) THEN al
    ELSE [al EXCEPT !.addresses = (a :> 0) @@ @]

(* Index 0 says that the address has no slots.                             *)
AddSlot(al, a, k) ==
    IF ~HasAddress(al, a) \/ al.addresses[a] = 0
    THEN [addresses |-> (a :> Len(al.slots) + 1) @@ al.addresses,
          slots |-> Append(al.slots, {k})]
    ELSE [al EXCEPT !.slots[al.addresses[a]] = @ \cup {k}]

DeleteSlot(al, a, k) ==
    IF al.slots[al.addresses[a]] \ {k} = {}
    THEN [addresses |-> (a :> 0) @@ al.addresses,
          slots |-> SubSeq(al.slots, 1, al.addresses[a] - 1)]
    ELSE [al EXCEPT !.slots[al.addresses[a]] = @ \ {k}]

DeleteAddress(al, a) ==
    [al EXCEPT !.addresses =
        [b \in DOMAIN al.addresses \ {a} |-> al.addresses[b]]]

-----------------------------------------------------------------------------
(* The journal.  "dirt" is the account an entry dirties, or None.          *)

Entry(kind, a, key, prev, dirt) ==
    [kind |-> kind, addr |-> a, key |-> key, prev |-> prev, dirt |-> dirt]

Journalled(s, e) ==
    [s EXCEPT !.journal = Append(@, e),
              !.dirties = [a \in Addrs |-> IF a = e.dirt THEN @[a] + 1 ELSE @[a]]]

(* What the trie or the snapshot says of an account without live object.   *)
Stored(s, a) == IF s.snap = None THEN s.trie[a] ELSE s.snap.accounts[a]

Loaded(s, a) ==
    IF s.objects[a] # None \/ Stored(s, a) = None THEN s
    ELSE [s EXCEPT !.objects[a] = newObject(Stored(s, a))]

(* getStateObject, once the object is loaded.                              *)
Live(s, a) == s.objects[a] # None /\ ~s.objects[a].deleted

(* The slot under the object's caches: the snapshot's, unless the account  *)
(* was destructed in this block, or the storage trie's.                    *)
Below(s, a, k) ==
    IF s.snap = None THEN getTrie(s.objects[a])[k]
    ELSE IF a \in s.destructs THEN 0 ELSE s.snap.slots[a][k]

GetState(s, a, k) == Slot(s.objects[a], k, Below(s, a, k))

(* GetCommittedState keeps what it read, except for a destructed account.  *)
SlotRead(s, a, k) ==
    LET o == s.objects[a]
    IN  IF k \in DOMAIN o.dirty \cup DOMAIN o.pending \cup DOMAIN o.origin
           \/ (s.snap # None /\ a \in s.destructs)
        THEN s
        ELSE [s EXCEPT !.objects[a].origin = (k :> Below(s, a, k)) @@ @]

(* createObject, once any previous object is loaded.  Only the creation of *)
(* an account that was not there dirties it.                               *)
createObject(s, a) ==
    LET prev == s.objects[a]
        e == IF prev = None
             THEN Entry("create", a, None, None, a)
             ELSE Entry("reset", a, None,
                        [object |-> prev, destruct |-> a \in s.destructs], None)
    IN  [Journalled(s, e) EXCEPT
            !.objects[a] = newObject(EmptyAccount),
            !.destructs = IF s.snap # None /\ prev # None THEN @ \cup {a} ELSE @]

GetOrNew(s, a) == IF Live(s, a) THEN s ELSE createObject(s, a)

(* GetOrNewStateObject.                                                    *)
Opened(s, a) == GetOrNew(Loaded(s, a), a)

(* The setters of an account that Opened has made live.                    *)
SetBalance(s, a, v) ==
    [Journalled(s, Entry("balance", a, None, s.objects[a].data.balance, a))
        EXCEPT !.objects[a].data.balance = v]

touch(s, a) ==
    IF a = Ripemd
    THEN [Journalled(s, Entry("touch", a, None, None, a)) EXCEPT !.dirties[a] = @ + 1]
    ELSE Journalled(s, Entry("touch", a, None, None, a))

AddBalance(s, a, v) ==
    IF v # 0 THEN SetBalance(s, a, s.objects[a].data.balance + v)
    ELSE IF empty(s.objects[a].data) THEN touch(s, a) ELSE s

SubBalance(s, a, v) ==
    IF v = 0 THEN s ELSE SetBalance(s, a, s.objects[a].data.balance - v)

SetNonce(s, a, n) ==
    [Journalled(s, Entry("nonce", a, None, s.objects[a].data.nonce, a))
        EXCEPT !.objects[a].data.nonce = n]

(* Code loads the code of the account before it is replaced.               *)
SetCode(s, a, c) ==
    [Journalled(s, Entry("code", a, None, s.objects[a].data.code, a))
        EXCEPT !.objects[a].data.code = c, !.objects[a].code = c,
               !.objects[a].dirtyCode = TRUE]

Written(s, a, k, v) ==
    IF GetState(s, a, k) = v THEN s
    ELSE [Journalled(s, Entry("storage", a, k, GetState(s, a, k), a))
            EXCEPT !.objects[a].dirty = (k :> v) @@ @]

SetState(s, a, k, v) == Written(SlotRead(s, a, k), a, k, v)

(* createObject keeps nothing of the previous account, CreateAccount its   *)
(* balance.                                                                *)
CreateAccount(s, a) ==
    [createObject(s, a) EXCEPT
        !.objects[a].data.balance = IF Live(s, a) THEN s.objects[a].data.balance ELSE 0]

Suicide(s, a) ==
    IF ~Live(s, a) THEN s
    ELSE [Journalled(s, Entry("suicide", a, None,
                [suicided |-> s.objects[a].suicided,
                 balance |-> s.objects[a].data.balance], a))
            EXCEPT !.objects[a].suicided = TRUE, !.objects[a].data.balance = 0]

AddressAdded(s, a) ==
    IF HasAddress(s.access, a) THEN s
    ELSE [Journalled(s, Entry("accessAddress", a, None, None, None))
            EXCEPT !.access = AddAddress(@, a)]

(* Mutant: a slot of an address the list lacks is one journal entry. *)
SlotAddedOnce(s, a, k) ==
    IF HasSlot(s.access, a, k) THEN s
    ELSE [Journalled(s, Entry("accessSlot", a, k, None, None))
            EXCEPT !.access = AddSlot(@, a, k)]

SlotAdded(s, a, k) ==
    IF HasSlot(s.access, a, k) THEN s
    ELSE [Journalled(
            IF HasAddress(s.access, a) THEN s
            ELSE Journalled(s, Entry("accessAddress", a, None, None, None)),
            Entry("accessSlot", a, k, None, None))
            EXCEPT !.access = AddSlot(@, a, k)]

AddLog(s) ==
    [Journalled(s, Entry("log", None, s.tx, None, None)) EXCEPT !.logs[s.tx] = @ + 1]

AddRefund(s, g) ==
    [Journalled(s, Entry("refund", None, None, s.refund, None)) EXCEPT !.refund = @ + g]

-----------------------------------------------------------------------------
(* Reverting.                                                              *)

(* The change an entry undoes.  All but the creation need a live object.   *)
Undo(s, e) ==
    CASE e.kind = "create" ->
            [s EXCEPT !.objects[e.addr] = None, !.objectsDirty = @ \ {e.addr}]
      [] e.kind = "reset" ->
            [s EXCEPT !.objects[e.addr] = e.prev.object,
                      !.destructs = IF ~e.prev.destruct /\ s.snap # None
                                    THEN @ \ {e.addr} ELSE @]
      [] e.kind = "suicide" ->
            [s EXCEPT !.objects[e.addr].suicided = e.prev.suicided,
                      !.objects[e.addr].data.balance = e.prev.balance]
      [] e.kind = "balance" -> [s EXCEPT !.objects[e.addr].data.balance = e.prev]
      [] e.kind = "nonce" -> [s EXCEPT !.objects[e.addr].data.nonce = e.prev]
      [] e.kind = "code" ->
            [s EXCEPT !.objects[e.addr].data.code = e.prev,
                      !.objects[e.addr].code = e.prev,
                      !.objects[e.addr].dirtyCode = TRUE]
      [] e.kind = "storage" ->
            [s EXCEPT !.objects[e.addr].dirty = (e.key :> e.prev) @@ @]
      [] e.kind = "refund" -> [s EXCEPT !.refund = e.prev]
      [] e.kind = "log" -> [s EXCEPT !.logs[e.key] = @ - 1]
      [] e.kind = "accessAddress" -> [s EXCEPT !.access = DeleteAddress(@, e.addr)]
      [] e.kind = "accessSlot" -> [s EXCEPT !.access = DeleteSlot(@, e.addr, e.key)]
      [] e.kind = "touch" -> s

Reverted(s, e) ==
    [Undo(s, e) EXCEPT
        !.dirties = [a \in Addrs |-> IF a = e.dirt THEN @[a] - 1 ELSE @[a]]]

(* RevertToSnapshot of the i-th live revision.                             *)
RevertToSnapshot(s, i) ==
    [FoldRight(LAMBDA e, t : Reverted(t, e),
               SubSeq(s.journal, s.revisions[i].index + 1, Len(s.journal)), s)
        EXCEPT !.journal = SubSeq(@, 1, s.revisions[i].index),
               !.revisions = SubSeq(@, 1, i - 1)]

-----------------------------------------------------------------------------
(* The end of a transaction and of a block.                                *)

DirtyObjects(s) == {a \in Addrs : s.dirties[a] > 0 /\ s.objects[a] # None}

Doomed(s) ==
    {a \in DirtyObjects(s) : s.objects[a].suicided \/ empty(s.objects[a].data)}

(* clearJournalAndRefund keeps a journal without entries, with its dirties.*)
clearJournalAndRefund(s) ==
    [s EXCEPT !.revisions = <<>>, !.journal = <<>>,
              !.dirties = IF s.journal = <<>> THEN @ ELSE [a \in Addrs |-> 0],
              !.refund = IF s.journal = <<>> THEN @ ELSE 0]

FinalisedObjects(s, doomed) ==
    [s EXCEPT
        !.objects = [a \in Addrs |->
            IF a \in doomed THEN [@[a] EXCEPT !.deleted = TRUE]
            ELSE IF a \in DirtyObjects(s) THEN finalise(@[a]) ELSE @[a]],
        !.destructs = IF s.snap = None THEN @ ELSE @ \cup doomed,
        !.snapAccounts = [a \in Addrs |-> IF a \in doomed THEN None ELSE @[a]],
        !.snapSlots = [a \in Addrs |-> IF a \in doomed THEN NoSlots ELSE @[a]],
        !.objectsPending = @ \cup DirtyObjects(s),
        !.objectsDirty = @ \cup DirtyObjects(s),
        !.prefetcher.fetched = @ \/ (s.prefetcher.active /\ DirtyObjects(s) # {})]

Finalise(s) == clearJournalAndRefund(FinalisedObjects(s, Doomed(s)))

(* updateTrie of the pending accounts that stay, with the slots the        *)
(* snapshot is told about.                                                 *)
StorageWritten(s) ==
    LET keep == {a \in s.objectsPending : ~s.objects[a].deleted}
    IN  [s EXCEPT
            !.objects = [a \in Addrs |->
                IF a \in keep THEN updateRoot(updateTrie(finalise(@[a]))) ELSE @[a]],
            !.snapSlots = [a \in Addrs |->
                IF a \in keep /\ s.snap # None
                THEN [k \in Changed(finalise(s.objects[a])) |->
                        finalise(s.objects[a]).pending[k]] @@ @[a]
                ELSE @[a]]]

(* Mutant: the prefetcher is kept for the next computation of the root. *)
TrieTakenAgain(s, got) == [s EXCEPT !.trie = IF got THEN s.base ELSE @]

(* The account trie, taken from the prefetcher when it has it, and closed. *)
TrieTaken(s, got) ==
    [s EXCEPT !.trie = IF got THEN s.base ELSE @,
              !.prefetcher = [active |-> FALSE, fetched |-> FALSE]]

AccountsWritten(s) ==
    [s EXCEPT
        !.trie = [a \in Addrs |->
            IF a \notin s.objectsPending THEN @[a]
            ELSE IF s.objects[a].deleted THEN None ELSE s.objects[a].data],
        !.snapAccounts = [a \in Addrs |->
            IF a \in s.objectsPending /\ ~s.objects[a].deleted /\ s.snap # None
            THEN s.objects[a].data ELSE @[a]],
        !.objectsPending = {}]

IntermediateRoot(s, got) ==
    AccountsWritten(TrieTaken(StorageWritten(Finalise(s)), got))

(* Mutant: a layer's deletions do not clear the storage below it. *)
FlatSlotsKept(f, s, a) == s.snapSlots[a] @@ f.slots[a]

FlatSlots(f, s, a) ==
    [k \in Keys |->
        IF k \in DOMAIN s.snapSlots[a] THEN s.snapSlots[a][k]
        ELSE IF a \in s.destructs THEN 0 ELSE f.slots[a][k]]

(* The flat state after a diff layer: destructed accounts start from       *)
(* nothing, accounts and slots of the layer replace the ones below.        *)
FlatUpdate(f, s) ==
    [accounts |-> [a \in Addrs |->
        IF s.snapAccounts[a] # None THEN s.snapAccounts[a]
        ELSE IF a \in s.destructs THEN None ELSE f.accounts[a]],
     slots |-> [a \in Addrs |-> FlatSlots(f, s, a)]]

(* Mutant: a code is written only with a change of its account's storage. *)
DirtyCodesStorage(s, keep) ==
    {s.objects[a].code : a \in {b \in keep : s.objects[b].trie # None}} \ {None}

DirtyCodes(s, keep) ==
    {s.objects[a].code : a \in {b \in keep : s.objects[b].dirtyCode}} \ {None}

(* Commit, once the root is computed: codes and storage tries of the       *)
(* objects that are dirty and stay, the account trie, the diff layer.      *)
Committed(w, s) ==
    LET keep == {a \in s.objectsDirty : ~s.objects[a].deleted}
    IN  [trie |-> s.trie,
         codes |-> w.codes \cup DirtyCodes(s, keep),
         roots |-> w.roots \cup {getTrie(s.objects[a]) : a \in keep},
         flat |-> IF s.snap # None /\ s.trie # s.base
                  THEN FlatUpdate(w.flat, s) ELSE w.flat]

New(w) ==
    [trie |-> w.trie, base |-> w.trie,
     snap |-> IF Snapshots THEN w.flat ELSE None,
     objects |-> [a \in Addrs |-> None], objectsPending |-> {},
     objectsDirty |-> {}, destructs |-> {},
     snapAccounts |-> [a \in Addrs |-> None], snapSlots |-> [a \in Addrs |-> NoSlots],
     journal |-> <<>>, dirties |-> [a \in Addrs |-> 0], revisions |-> <<>>,
     refund |-> 0, logs |-> [t \in 1..MaxTxs |-> 0], tx |-> 1,
     access |-> newAccessList,
     prefetcher |-> [active |-> FALSE, fetched |-> FALSE]]

(* Mutant: only the objects not yet in the trie come along. *)
AlongPending(s) == DirtyObjects(s) \cup s.objectsPending

Along(s) == DirtyObjects(s) \cup s.objectsPending \cup s.objectsDirty

(* Copy: the journal and the revisions stay behind, the objects the        *)
(* journal dirtied come along, marked, with the pending and dirty ones.    *)
Copy(s) ==
    [s EXCEPT
        !.objects = [a \in Addrs |-> IF a \in Along(s) THEN @[a] ELSE None],
        !.objectsPending = @ \cup DirtyObjects(s),
        !.objectsDirty = @ \cup DirtyObjects(s),
        !.journal = <<>>, !.dirties = [a \in Addrs |-> 0], !.revisions = <<>>,
        !.prefetcher.active = FALSE]

-----------------------------------------------------------------------------
(* What a caller can see, and what a commit would store.                   *)

NormalAccount(d) == IF d = None THEN None ELSE IF empty(d) THEN None ELSE d

ViewOf(s, a) ==
    IF ~Live(s, a) THEN None
    ELSE [s.objects[a].data EXCEPT
            !.root = [k \in Keys |-> GetState(s, a, k)]]

Visible(s, a) ==
    [account |-> ViewOf(Loaded(s, a), a),
     suicided |-> Live(s, a) /\ s.objects[a].suicided]

Observed(s) ==
    [accounts |-> [a \in Addrs |-> Visible(s, a)],
     refund |-> s.refund, logs |-> s.logs,
     access |-> {a \in Addrs : HasAddress(s.access, a)}
                \cup {ak \in Addrs \X Keys : HasSlot(s.access, ak[1], ak[2])},
     outcome |-> [a \in Addrs \ {Ripemd} |-> IntermediateRoot(s, FALSE).trie[a]],
     destructs |-> s.destructs]

-----------------------------------------------------------------------------
Init ==
    /\ world = [trie |-> Genesis,
                codes |-> {Genesis[a].code : a \in {b \in Addrs : Genesis[b] # None}},
                roots |-> {Genesis[a].root : a \in {b \in Addrs : Genesis[b] # None}},
                flat |-> [accounts |-> Genesis,
                          slots |-> [a \in Addrs |-> IF Genesis[a] = None THEN ZeroSlots
                                                     ELSE Genesis[a].root]]]
    /\ \E prefetch \in BOOLEAN :
          sdb = [New(world) EXCEPT !.prefetcher.active = prefetch /\ Snapshots]
    /\ count = [ops |-> 0, txs |-> 0, blocks |-> 1, hashed |-> FALSE]

(* A block's transactions execute until its root is computed.              *)
Executing == ~count.hashed /\ count.ops < MaxOps /\ count.txs < MaxTxs

(* A journalled operation of the transaction in execution.                 *)
Call(op) == op \in Ops /\ Executing

Do(s) ==
    /\ sdb' = s
    /\ count' = [count EXCEPT !.ops = @ + 1]
    /\ UNCHANGED world

Balance(a) == IF Live(Loaded(sdb, a), a) THEN Loaded(sdb, a).objects[a].data.balance ELSE 0

DoAddBalance ==
    \E a \in Addrs, v \in {0, 1} :
        /\ Call("AddBalance") /\ Balance(a) + v <= MaxAmount
        /\ Do(AddBalance(Opened(sdb, a), a, v))

DoSubBalance ==
    \E a \in Addrs, v \in {0, 1} :
        /\ Call("SubBalance") /\ Balance(a) >= v
        /\ Do(SubBalance(Opened(sdb, a), a, v))

DoSetNonce ==
    \E a \in Addrs :
        /\ Call("SetNonce")
        /\ \E s \in {Opened(sdb, a)} :
              /\ s.objects[a].data.nonce < MaxAmount
              /\ Do(SetNonce(s, a, s.objects[a].data.nonce + 1))

DoSetState ==
    \E a \in Addrs, k \in Keys, v \in Values :
        Call("SetState") /\ Do(SetState(Opened(sdb, a), a, k, v))

DoSuicide == \E a \in Addrs : Call("Suicide") /\ Do(Suicide(Loaded(sdb, a), a))

(* Contract creation: CreateAccount, SetNonce and SetCode at an address    *)
(* that has neither nonce nor code.                                        *)
DoCreate ==
    \E a \in Addrs, c \in Codes : \E s \in {Loaded(sdb, a)} :
        /\ Call("Create")
        /\ Live(s, a) => s.objects[a].data.nonce = 0 /\ s.objects[a].data.code = None
        /\ Do(SetCode(SetNonce(CreateAccount(s, a), a, 1), a, c))

(* A call to an address without account creates it.                        *)
DoCreateAccount ==
    \E a \in Addrs :
        /\ Call("CreateAccount") /\ ~Live(Loaded(sdb, a), a)
        /\ Do(CreateAccount(Loaded(sdb, a), a))

DoAddLog == Call("AddLog") /\ Do(AddLog(sdb))

DoAddRefund == Call("AddRefund") /\ Do(AddRefund(sdb, 1))

DoAccessAddress == \E a \in Addrs : Call("AccessAddress") /\ Do(AddressAdded(sdb, a))

DoAccessSlot == \E a \in Addrs, k \in Keys : Call("AccessSlot") /\ Do(SlotAdded(sdb, a, k))

(* Snapshot.  "seen" is what the revision must bring back.                 *)
Snapshot ==
    /\ Len(sdb.revisions) < MaxSnapshots /\ Executing
    /\ sdb' = [sdb EXCEPT !.revisions =
                Append(@, [index |-> Len(sdb.journal), seen |-> Observed(sdb)])]
    /\ UNCHANGED <<world, count>>

Revert ==
    \E i \in 1..Len(sdb.revisions) :
        /\ sdb' = RevertToSnapshot(sdb, i)
        /\ UNCHANGED <<world, count>>

(* The end of a transaction; Prepare and PrepareAccessList of the next one.*)
EndTx ==
    /\ count.txs < MaxTxs /\ ~count.hashed
    /\ sdb' = [Finalise(sdb) EXCEPT !.tx = count.txs + 2, !.access = newAccessList]
    /\ count' = [count EXCEPT !.txs = @ + 1]
    /\ UNCHANGED world

Got(s) == {FALSE, s.prefetcher.fetched}

(* The root for the header, after the last transaction.                    *)
Hash ==
    /\ sdb.journal = <<>> /\ ~count.hashed
    /\ \E got \in Got(sdb) : sdb' = IntermediateRoot(sdb, got)
    /\ count' = [count EXCEPT !.hashed = TRUE]
    /\ UNCHANGED world

CopyState ==
    /\ "Copy" \in Ops /\ sdb.journal = <<>> /\ Copy(sdb) # sdb
    /\ sdb' = Copy(sdb)
    /\ UNCHANGED <<world, count>>

(* Commit, and the StateDB of the next block on the new root.              *)
Commit ==
    /\ sdb.journal = <<>>
    /\ \E got \in Got(sdb) : world' = Committed(world, IntermediateRoot(sdb, got))
    /\ sdb' = New(world')
    /\ count' = [count EXCEPT !.blocks = @ + 1, !.hashed = FALSE]

(* The blocks of the bound are committed.                                  *)
Exhausted == count.blocks > MaxBlocks /\ UNCHANGED vars

Step ==
    \/ DoAddBalance \/ DoSubBalance \/ DoSetNonce \/ DoSetState \/ DoSuicide
    \/ DoCreate \/ DoCreateAccount \/ DoAddLog \/ DoAddRefund
    \/ DoAccessAddress \/ DoAccessSlot
    \/ Snapshot \/ Revert \/ EndTx \/ Hash \/ CopyState \/ Commit

Next == (count.blocks <= MaxBlocks /\ Step) \/ Exhausted

Spec == Init /\ [][Next]_vars

-----------------------------------------------------------------------------
(* A revert brings back everything a caller can read, the access list, the *)
(* refund, the logs, and the trie a commit would write: the journal undoes *)
(* creations, resets over destructed accounts, suicides and slots.         *)
RevertExact ==
    \A i \in 1..Len(sdb.revisions) :
          Len(sdb'.revisions) = i - 1 /\ sdb'.revisions = SubSeq(sdb.revisions, 1, i - 1)
             /\ count' = count
          => Observed(sdb') = sdb.revisions[i].seen

(* A commit stores exactly what the transactions could read at the end of  *)
(* the block, whatever was hashed, copied or prefetched before; accounts   *)
(* that are empty or suicided count as absent.                             *)
CommitExact ==
    count'.blocks > count.blocks =>
        \A a \in Addrs :
            NormalAccount(world'.trie[a])
              = IF Visible(sdb, a).suicided THEN None
                ELSE NormalAccount(Visible(sdb, a).account)

(* The diff layer handed to the snapshot tree describes the same state as  *)
(* the trie: accounts and slots, with destruction and resurrection within  *)
(* one block.                                                              *)
SnapshotFollowsTrie ==
    Snapshots =>
        /\ world.flat.accounts = world.trie
        /\ \A a \in Addrs :
              world.flat.slots[a] = IF world.trie[a] = None THEN ZeroSlots
                                    ELSE world.trie[a].root

(* Every storage root and every code hash of a committed account resolves. *)
CommittedReadable ==
    \A a \in Addrs : world.trie[a] # None =>
        /\ world.trie[a].root \in world.roots \cup {ZeroSlots}
        /\ world.trie[a].code \in world.codes \cup {None}

(* A copy taken between transactions reads and commits like the original.  *)
CopyExact ==
    sdb.journal = <<>> =>
        [Observed(Copy(sdb)) EXCEPT !.destructs = {}]
          = [Observed(sdb) EXCEPT !.destructs = {}]

(* What a transaction leaves in an account's storage is there for the next *)
(* one, as the records of the native registries must be, unless the        *)
(* account was suicided (Finalise).                                        *)
StorageKept ==
    count'.txs > count.txs =>
        \A a \in Addrs :
            LET v == Visible(sdb, a)
            IN  v.account # None /\ ~v.suicided /\ v.account.root # ZeroSlots
                => /\ Visible(sdb', a).account # None
                   /\ Visible(sdb', a).account.root = v.account.root
=============================================================================
