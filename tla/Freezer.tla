------------------------------- MODULE Freezer -------------------------------
(***************************************************************************)
(* The ancient store (core/rawdb/freezer*.go): tables of an index file,    *)
(* data files of a bounded size and a metadata file; batches that append   *)
(* to all the tables, truncation at both ends, Sync, and the repair of     *)
(* what a crash left behind.                                               *)
(*                                                                         *)
(* A byte of item n is the number n, so that what is read shows where it   *)
(* came from. A crash may cut every file back to any length since its last *)
(* sync; a part of an index entry is dropped by repair, so an index is cut *)
(* at an entry. Files that are truncated, renamed, removed or no longer    *)
(* the head are taken to be on disk, and writes not to fail. MigrateTable  *)
(* and the read-only mode are left out.                                    *)
(***************************************************************************)
EXTENDS Integers, Sequences, FiniteSets, SequencesExt, TLC

CONSTANTS
    Tables,
    Size,           \* [Tables -> [item -> bytes in the data file]]
    FullSize,       \* [Tables -> [item -> bytes when decompressed]]
    maxFileSize,
    MaxItems, MaxBatch, MaxCrashes, MaxOps, Sizes

VARIABLES
    index,      \* [Tables -> sequence of [file, offset]]
    data,       \* [Tables -> [file number -> bytes]]
    meta,       \* [Tables -> VirtualTail]
    synced,     \* [Tables -> what the last sync made durable]
    mem,        \* [Tables -> the fields of freezerTable]
    batch,      \* [Tables -> the fields of freezerTableBatch]
    frozen, tail,
    op,         \* the operation that holds writeLock
    kept,       \* items and tail that a sync has covered
    crashes, ops

vars == <<index, data, meta, synced, mem, batch, frozen, tail, op, kept, crashes, ops>>
files == <<index, data, meta, synced>>

None == [kind |-> "none"]
Closed == [kind |-> "closed"]

-----------------------------------------------------------------------------
(* One table.                                                              *)
Bytes(t, n) == [i \in 1 .. Size[t][n] |-> n]

\* The end of the last item; the first entry only marks the tail.
lastIndex(ix) == IF Len(ix) = 1 THEN [file |-> ix[1].file, offset |-> 0] ELSE Last(ix)

Shorter(s, len) == IF s > len THEN len ELSE s

\* Mutant: the index is not cut to the data that is there.
inSyncData(ix, fs) ==
    LET last == lastIndex(ix)
        opened == IF last.file \in DOMAIN fs THEN fs ELSE fs @@ (last.file :> <<>>)
    IN  [index |-> ix,
         data |-> [opened EXCEPT ![last.file] = SubSeq(@, 1, Shorter(Len(@), last.offset))]]

\* The loop of repair: both files are truncated until they agree.
RECURSIVE inSync(_, _)
inSync(ix, fs) ==
    LET last == lastIndex(ix)
        opened == IF last.file \in DOMAIN fs THEN fs ELSE fs @@ (last.file :> <<>>)
        stored == Len(opened[last.file])
    IN  CASE last.offset < stored ->
               [index |-> ix, data |-> [opened EXCEPT ![last.file] = SubSeq(@, 1, last.offset)]]
          [] last.offset > stored -> inSync(Front(ix), opened)
          [] OTHER -> [index |-> ix, data |-> opened]

\* newTable, repair and loadMetadata: the fields after the files are in sync.
repair(ix, fs, virtual) ==
    [items |-> ix[1].offset + Len(ix) - 1, itemOffset |-> ix[1].offset,
     itemHidden |-> IF virtual < ix[1].offset THEN ix[1].offset ELSE virtual,
     tailId |-> ix[1].file, headId |-> lastIndex(ix).file,
     headBytes |-> Len(fs[lastIndex(ix).file])]

\* A table without items.
Fresh == repair(<<[file |-> 0, offset |-> 0]>>, 0 :> <<>>, 0)

\* preopen: every file between tail and head is there.
preopen(m, fs) == (m.tailId .. m.headId) \subseteq DOMAIN fs

has(m, n) == n >= m.itemHidden /\ n < m.items

\* The entries before and after count items; the first item of the table
\* begins at the start of its file.
getIndices(ix, m, from, count) ==
    LET k == from - m.itemOffset
    IN  [i \in 1 .. (count + 1) |->
            IF k = 0 /\ i = 1 THEN [file |-> ix[2].file, offset |-> 0] ELSE ix[k + i]]

\* readData, from the files that are open.
readData(m, fs, s, file) ==
    IF s.unread = 0 THEN s
    ELSE IF file \notin m.tailId .. m.headId \/ s.start + s.unread > Len(fs[file])
    THEN [s EXCEPT !.err = TRUE]
    ELSE [s EXCEPT !.out = @ \o SubSeq(fs[file], s.start + 1, s.start + s.unread),
                   !.unread = 0]

\* The loop over pairs of entries: reads are deferred until the file ends.
RECURSIVE retrieve(_, _, _, _, _, _)
retrieve(m, fs, ind, i, s, maxBytes) ==
    LET e1 == ind[i]
        e2 == ind[i + 1]
        size == IF e1.file = e2.file THEN e2.offset - e1.offset ELSE e2.offset
        r == IF e1.file = e2.file THEN s
             ELSE [readData(m, fs, s, e1.file) EXCEPT !.start = 0]
        q == [r EXCEPT !.unread = @ + size, !.total = @ + size, !.sizes = Append(@, size)]
    IN  IF i > 1 /\ r.total + size > maxBytes THEN readData(m, fs, r, e2.file)
        ELSE IF i = Len(ind) - 1 \/ q.total > maxBytes THEN readData(m, fs, q, e2.file)
        ELSE retrieve(m, fs, ind, i + 1, q, maxBytes)

\* RetrieveItems: what was read is sliced, up to maxBytes decompressed.
RECURSIVE slice(_, _, _, _, _, _)
slice(t, bytes, sizes, from, total, maxBytes) ==
    IF sizes = <<>> THEN <<>>
    ELSE LET item == SubSeq(bytes, 1, sizes[1])
             full == IF item = <<>> THEN 0 ELSE FullSize[t][item[1]]
         IN  IF total >= 0 /\ total + full > maxBytes THEN <<>>
             ELSE <<item>> \o slice(t, SubSeq(bytes, sizes[1] + 1, Len(bytes)), Tail(sizes),
                                    from + 1, full + (IF total < 0 THEN 0 ELSE total), maxBytes)

RetrieveItems(t, start, count, maxBytes) ==
    LET m == mem[t]
        n == IF start + count > m.items THEN m.items - start ELSE count
        ind == getIndices(index[t], m, start, n)
        s == retrieve(m, data[t], ind, 1,
                      [start |-> ind[1].offset, unread |-> 0, total |-> 0, sizes |-> <<>>,
                       out |-> <<>>, err |-> FALSE], maxBytes)
    IN  IF s.err THEN <<>> ELSE slice(t, s.out, s.sizes, start, -1, maxBytes)

-----------------------------------------------------------------------------
(* ModifyAncients: the callback appends item by item to every table.       *)
Order == SetToSeq(Tables)

\* An operation that truncates the tables, one after the other.
Truncation(kind, head, tl) ==
    [kind |-> kind, stage |-> "pick", left |-> Tables, head |-> head, tail |-> tl,
     table |-> Order[1]]

\* The callback makes the first n appends and returns, perhaps an error.
ModifyAncients(count, n, fails) ==
    /\ op = None /\ ops < MaxOps /\ frozen + count <= MaxItems
    /\ op' = [kind |-> "modify", fails |-> fails, stage |-> "append", left |-> {}, table |-> Order[1],
              todo |-> [i \in 1 .. n |-> [table |-> Order[((i - 1) % Len(Order)) + 1],
                                          item |-> frozen + ((i - 1) \div Len(Order))]]]
    /\ batch' = [t \in Tables |-> [buf |-> <<>>, idx |-> <<>>, curItem |-> mem[t].items]]
    /\ ops' = ops + 1
    /\ UNCHANGED <<files, mem, frozen, tail, kept, crashes>>

\* Nothing reads a batch between two operations.
NoBatch == [t \in Tables |-> [buf |-> <<>>, idx |-> <<>>, curItem |-> 0]]

Fits(t, n) == mem[t].headBytes + Len(batch[t].buf) + Size[t][n] <= maxFileSize

\* Into the buffers, at the given end of the head file.
Buffered(b, t, n, file, end) ==
    [buf |-> b.buf \o Bytes(t, n), curItem |-> b.curItem + 1,
     idx |-> Append(b.idx, [file |-> file, offset |-> end + Size[t][n]])]

\* appendItem
AppendItem ==
    /\ op.kind = "modify" /\ op.stage = "append" /\ op.todo # <<>>
    /\ LET t == op.todo[1].table
           n == op.todo[1].item
       IN  IF Fits(t, n)
           THEN /\ op' = [op EXCEPT !.todo = Tail(@)]
                /\ batch' = [batch EXCEPT ![t] =
                     Buffered(@, t, n, mem[t].headId, mem[t].headBytes + Len(@.buf))]
           ELSE /\ op' = [op EXCEPT !.stage = "data", !.left = {t}]
                /\ UNCHANGED batch
    /\ UNCHANGED <<files, mem, frozen, tail, kept, crashes, ops>>

\* The callback has returned: commit if the tables agree, or roll back.
EndCallback ==
    /\ op.kind = "modify" /\ op.stage = "append" /\ op.todo = <<>>
    /\ op' = IF op.fails \/ \E s, t \in Tables : batch[s].curItem # batch[t].curItem
             THEN Truncation("rollback", frozen, 0)
             ELSE [op EXCEPT !.stage = "data", !.left = Tables]
    /\ batch' = IF op'.kind = "rollback" THEN NoBatch ELSE batch
    /\ UNCHANGED <<files, mem, frozen, tail, kept, crashes, ops>>

\* commit of a table: the data is written first ...
WriteData(t) ==
    /\ op.kind = "modify" /\ op.stage = "data" /\ t \in op.left
    /\ data' = [data EXCEPT ![t][mem[t].headId] = @ \o batch[t].buf]
    /\ batch' = [batch EXCEPT ![t].buf = <<>>]
    /\ op' = [op EXCEPT !.stage = "index", !.table = t]
    /\ UNCHANGED <<index, meta, synced, mem, frozen, tail, kept, crashes, ops>>

\* Mutant: the index is written, the counter of the head file is not moved.
WriteIndexOnly(t) ==
    /\ op.kind = "modify" /\ op.stage = "index" /\ t = op.table
    /\ index' = [index EXCEPT ![t] = @ \o batch[t].idx]
    /\ mem' = [mem EXCEPT ![t].items = batch[t].curItem]
    /\ op' = [op EXCEPT !.stage = IF op.left = {t} THEN "done" ELSE "data", !.left = @ \ {t}]
    /\ batch' = [batch EXCEPT ![t].idx = <<>>]
    /\ UNCHANGED <<data, meta, synced, frozen, tail, kept, crashes, ops>>

\* ... then the index and the counters; in the midst of the appends the next
\* file is begun (advanceHead) and takes the item.
WriteIndex(t) ==
    /\ op.kind = "modify" /\ op.stage = "index" /\ t = op.table
    /\ index' = [index EXCEPT ![t] = @ \o batch[t].idx]
    /\ LET m == [mem[t] EXCEPT !.headBytes = Len(data[t][mem[t].headId]),
                               !.items = batch[t].curItem]
           b == [batch[t] EXCEPT !.idx = <<>>]
           next == m.headId + 1
       IN  IF op.todo # <<>>
           THEN /\ data' = [data EXCEPT ![t] = (next :> <<>>) @@ @]
                /\ mem' = [mem EXCEPT ![t] = [m EXCEPT !.headBytes = 0, !.headId = next]]
                /\ batch' = [batch EXCEPT ![t] = Buffered(b, t, op.todo[1].item, next, 0)]
                /\ op' = [op EXCEPT !.stage = "append", !.left = {}, !.todo = Tail(@)]
           ELSE /\ mem' = [mem EXCEPT ![t] = m]
                /\ batch' = [batch EXCEPT ![t] = b]
                /\ op' = [op EXCEPT !.stage = IF op.left = {t} THEN "done" ELSE "data",
                                    !.left = @ \ {t}]
                /\ UNCHANGED data
    /\ UNCHANGED <<meta, synced, frozen, tail, kept, crashes, ops>>

\* All tables are written.
Commit ==
    /\ op.kind = "modify" /\ op.stage = "done"
    /\ frozen' = batch[Order[1]].curItem
    /\ op' = None
    /\ batch' = NoBatch
    /\ UNCHANGED <<files, mem, tail, kept, crashes, ops>>

-----------------------------------------------------------------------------
(* Truncation of the tables, one after the other.                          *)
TruncateHead(items) ==
    /\ op = None /\ ops < MaxOps /\ items < frozen /\ items >= tail
    /\ op' = Truncation("head", items, 0)
    /\ kept' = [kept EXCEPT !.items = IF @ > items THEN items ELSE @]
    /\ ops' = ops + 1
    /\ UNCHANGED <<files, mem, batch, frozen, tail, crashes>>

\* Only items that were synced are dropped from the tail.
TruncateTail(items) ==
    /\ op = None /\ ops < MaxOps /\ items > tail /\ items <= kept.items
    /\ op' = Truncation("tail", MaxItems, items)
    /\ ops' = ops + 1
    /\ UNCHANGED <<files, mem, batch, frozen, tail, kept, crashes>>

\* The table is done; after the last one the operation is.
Done(t) ==
    IF op.left # {t}
    THEN op' = [op EXCEPT !.stage = "pick", !.left = @ \ {t}] /\ UNCHANGED <<frozen, tail>>
    ELSE /\ op' = None
         /\ frozen' = IF op.kind \in {"head", "repair"} THEN op.head ELSE frozen
         /\ tail' = IF op.kind \in {"tail", "repair"} THEN op.tail ELSE tail

Fail == op' = [kind |-> "failed"] /\ UNCHANGED <<frozen, tail>>

\* truncateHead: the index is cut first ...
TruncIndex(t) ==
    /\ op.kind # "modify" /\ "stage" \in DOMAIN op /\ op.stage = "pick" /\ t \in op.left
    /\ IF mem[t].items <= op.head
       THEN /\ op' = [op EXCEPT !.stage = "tail", !.table = t]
            /\ UNCHANGED <<index, synced, frozen, tail>>
       ELSE IF op.head < mem[t].itemHidden
       THEN Fail /\ UNCHANGED <<index, synced>>
       ELSE LET len == op.head - mem[t].itemOffset + 1
            IN  /\ index' = [index EXCEPT ![t] = SubSeq(@, 1, len)]
                /\ synced' = [synced EXCEPT ![t].index = Shorter(@, len)]
                /\ op' = [op EXCEPT !.stage = "data", !.table = t]
                /\ UNCHANGED <<frozen, tail>>
    /\ UNCHANGED <<data, meta, mem, batch, kept, crashes, ops>>

Truncating(stage) == op.kind # "modify" /\ "stage" \in DOMAIN op /\ op.stage = stage

\* ... then later files are removed and the head file is cut.
TruncData ==
    /\ Truncating("data")
    /\ LET t == op.table
           expected == lastIndex(index[t])
           gone == (expected.file + 1) .. mem[t].headId
       IN  /\ data' = [data EXCEPT ![t] =
                 [f \in DOMAIN @ \ gone |->
                     IF f = expected.file THEN SubSeq(@[f], 1, expected.offset) ELSE @[f]]]
           /\ synced' = [synced EXCEPT ![t] =
                 IF @.file = expected.file THEN [@ EXCEPT !.bytes = Shorter(@, expected.offset)]
                 ELSE IF @.file > expected.file
                 THEN [@ EXCEPT !.file = expected.file, !.bytes = expected.offset] ELSE @]
           /\ mem' = [mem EXCEPT ![t].headBytes = expected.offset,
                                 ![t].headId = expected.file, ![t].items = op.head]
    /\ op' = [op EXCEPT !.stage = "tail"]
    /\ UNCHANGED <<index, meta, batch, frozen, tail, kept, crashes, ops>>

\* The file of the first item that stays.
newTailId(t, items) ==
    IF mem[t].items = items THEN mem[t].headId
    ELSE index[t][items - mem[t].itemOffset + 2].file

\* truncateTail: the items are hidden first.
TruncMeta ==
    /\ Truncating("tail")
    /\ LET t == op.table IN
       IF mem[t].itemHidden >= op.tail
       THEN Done(t) /\ UNCHANGED <<meta, mem>>
       ELSE IF mem[t].items < op.tail
       THEN Fail /\ UNCHANGED <<meta, mem>>
       ELSE /\ mem' = [mem EXCEPT ![t].itemHidden = op.tail]
            /\ meta' = [meta EXCEPT ![t] = op.tail]
            /\ IF newTailId(t, op.tail) = mem[t].tailId
               THEN Done(t)
               ELSE op' = [op EXCEPT !.stage = "tailindex"] /\ UNCHANGED <<frozen, tail>>
    /\ UNCHANGED <<index, data, synced, batch, kept, crashes, ops>>

\* The items before the new tail file.
newDeleted(t) ==
    LET id == newTailId(t, op.tail)
        in == {n \in mem[t].itemOffset .. (op.tail - 1) :
                  \A k \in n .. (op.tail - 1) : index[t][k - mem[t].itemOffset + 2].file = id}
    IN  op.tail - Cardinality(in)

\* Mutant: the tail entry counts the hidden items, not the removed ones.
TruncTailIndexHidden ==
    /\ Truncating("tailindex")
    /\ LET t == op.table
           n == newDeleted(t)
       IN  /\ index' = [index EXCEPT ![t] =
                 <<[file |-> newTailId(t, op.tail), offset |-> op.tail]>>
                     \o SubSeq(@, n - mem[t].itemOffset + 2, Len(@))]
           /\ synced' = [synced EXCEPT ![t].index = Len(index'[t]), ![t].meta = meta[t]]
    /\ op' = [op EXCEPT !.stage = "tailfiles"]
    /\ UNCHANGED <<data, meta, mem, batch, frozen, tail, kept, crashes, ops>>

\* The metadata is synced and the index replaced by the rest of it.
TruncTailIndex ==
    /\ Truncating("tailindex")
    /\ LET t == op.table
           n == newDeleted(t)
       IN  /\ index' = [index EXCEPT ![t] =
                 <<[file |-> newTailId(t, op.tail), offset |-> n]>>
                     \o SubSeq(@, n - mem[t].itemOffset + 2, Len(@))]
           /\ synced' = [synced EXCEPT ![t].index = Len(index'[t]), ![t].meta = meta[t]]
    /\ op' = [op EXCEPT !.stage = "tailfiles"]
    /\ UNCHANGED <<data, meta, mem, batch, frozen, tail, kept, crashes, ops>>

TruncTailFiles ==
    /\ Truncating("tailfiles")
    /\ LET t == op.table
           entry == index[t][1]
           gone == mem[t].tailId .. (entry.file - 1)
       IN  /\ data' = [data EXCEPT ![t] = [f \in DOMAIN @ \ gone |-> @[f]]]
           /\ mem' = [mem EXCEPT ![t].tailId = entry.file, ![t].itemOffset = entry.offset]
           /\ Done(t)
    /\ UNCHANGED <<index, meta, synced, batch, kept, crashes, ops>>

-----------------------------------------------------------------------------
(* Durability.                                                             *)
\* Mutant: the head file is left to the operating system.
SyncWithoutHead ==
    /\ op = None
    /\ synced' = [t \in Tables |-> [synced[t] EXCEPT !.index = Len(index[t]), !.meta = meta[t]]]
    /\ kept' = [items |-> frozen, tail |-> tail]
    /\ UNCHANGED <<index, data, meta, mem, batch, frozen, tail, op, crashes, ops>>

Sync ==
    /\ op = None
    /\ synced' = [t \in Tables |-> [index |-> Len(index[t]), meta |-> meta[t],
                                    file |-> mem[t].headId, bytes |-> mem[t].headBytes]]
    /\ kept' = [items |-> frozen, tail |-> tail]
    /\ UNCHANGED <<index, data, meta, mem, batch, frozen, tail, op, crashes, ops>>

\* What may be left of a table's files.
Cuts(t) ==
    LET m == mem[t]
    IN  [index : synced[t].index .. Len(index[t]),
         bytes : (IF synced[t].file = m.headId THEN synced[t].bytes ELSE 0)
                     .. Len(data[t][m.headId]),
         meta : {synced[t].meta, meta[t]}]

\* The process ends; what was not synced may be lost from the ends of files.
Crash ==
    /\ op.kind \notin {"closed", "failed"} /\ crashes < MaxCrashes
    /\ \E cut \in [Tables -> UNION {Cuts(t) : t \in Tables}] :
         /\ \A t \in Tables : cut[t] \in Cuts(t)
         /\ index' = [t \in Tables |-> SubSeq(index[t], 1, cut[t].index)]
         /\ data' = [t \in Tables |->
                       [data[t] EXCEPT ![mem[t].headId] = SubSeq(@, 1, cut[t].bytes)]]
         /\ meta' = [t \in Tables |-> cut[t].meta]
    /\ op' = Closed
    /\ crashes' = crashes + 1
    /\ mem' = [t \in Tables |-> Fresh]
    /\ batch' = NoBatch
    /\ frozen' = 0 /\ tail' = 0
    /\ UNCHANGED <<synced, kept, ops>>

MinOf(S) == CHOOSE x \in S : \A y \in S : x <= y
MaxOf(S) == CHOOSE x \in S : \A y \in S : x >= y

\* NewFreezer: each table is repaired and synced, then all are truncated to
\* common ends.
Open ==
    /\ op.kind = "closed"
    /\ \E r \in {[t \in Tables |-> inSync(index[t], data[t])]} :
         /\ index' = [t \in Tables |-> r[t].index]
         /\ data' = [t \in Tables |-> r[t].data]
         /\ mem' = [t \in Tables |-> repair(r[t].index, r[t].data, meta[t])]
    /\ meta' = [t \in Tables |-> mem'[t].itemHidden]
    /\ synced' = [t \in Tables |-> [index |-> Len(index'[t]), meta |-> meta'[t],
                                    file |-> mem'[t].headId, bytes |-> mem'[t].headBytes]]
    /\ op' = IF \A t \in Tables : preopen(mem'[t], data'[t])
             THEN Truncation("repair", MinOf({mem'[t].items : t \in Tables}),
                             MaxOf({mem'[t].itemHidden : t \in Tables}))
             ELSE [kind |-> "failed"]
    /\ UNCHANGED <<batch, frozen, tail, kept, crashes, ops>>

-----------------------------------------------------------------------------
Init ==
    /\ index = [t \in Tables |-> <<[file |-> 0, offset |-> 0]>>]
    /\ data = [t \in Tables |-> 0 :> <<>>]
    /\ meta = [t \in Tables |-> 0]
    /\ synced = [t \in Tables |-> [index |-> 1, meta |-> 0, file |-> 0, bytes |-> 0]]
    /\ mem = [t \in Tables |-> Fresh]
    /\ batch = NoBatch
    /\ frozen = 0 /\ tail = 0
    /\ op = None
    /\ kept = [items |-> 0, tail |-> 0]
    /\ crashes = 0 /\ ops = 0

Next ==
    \/ \E c \in 1 .. MaxBatch : \E n \in 0 .. (c * Cardinality(Tables)) :
         \E fails \in IF n % Cardinality(Tables) = 0 THEN BOOLEAN ELSE {FALSE} :
             ModifyAncients(c, n, fails)
    \/ AppendItem \/ EndCallback \/ Commit
    \/ \E t \in Tables : WriteData(t) \/ WriteIndex(t) \/ TruncIndex(t)
    \/ \E n \in 0 .. MaxItems : TruncateHead(n) \/ TruncateTail(n)
    \/ TruncData \/ TruncMeta \/ TruncTailIndex \/ TruncTailFiles
    \/ Sync \/ Crash \/ Open

Spec == Init /\ [][Next]_vars

-----------------------------------------------------------------------------
(* Properties.                                                             *)

\* Tables whose lock is free and that are open.
Readable ==
    IF op.kind \in {"closed", "failed"} THEN {}
    ELSE IF op.kind \in {"none", "modify"} \/ op.stage = "pick" THEN Tables
    ELSE Tables \ {op.table}

\* What the table says it has is read back as it was appended, in ranges that
\* cross files and stop at a byte limit too: from any number on, the items in
\* order, at least one, and as many as fit (RetrieveItems), while a batch is
\* half written, after every rollback, truncation and repair.
ReadsWhatWasWritten ==
    \A t \in Readable : \A n \in mem[t].itemHidden .. (mem[t].items - 1) :
        \A max \in Sizes :
            LET got == RetrieveItems(t, n, MaxItems, max)
                room == {k \in 1 .. (mem[t].items - n) :
                            /\ FoldSeq(+, 0, [i \in 1 .. k |-> Size[t][n + i - 1]]) <= max
                            /\ FoldSeq(+, 0, [i \in 1 .. k |-> FullSize[t][n + i - 1]]) <= max}
            IN  /\ Len(got) = MaxOf(room \cup {1})
                /\ \A k \in DOMAIN got : got[k] = Bytes(t, n + k - 1)

\* Outside of an operation all tables have the same ends, those the freezer
\* announces, whatever the callback of ModifyAncients did (commit, rollback).
TablesAgree ==
    op = None => \A t \in Tables :
        /\ mem[t].items = frozen /\ mem[t].itemHidden = tail
        /\ mem[t].headId = lastIndex(index[t]).file =>
              Len(data[t][mem[t].headId]) = lastIndex(index[t]).offset

\* The freezer always opens again, with all that was synced and not truncated
\* since, and without what was synced as deleted (repair).
SyncedSurvives ==
    /\ op.kind # "failed"
    /\ op = None => frozen >= kept.items /\ tail >= kept.tail
=============================================================================
