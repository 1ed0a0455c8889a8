---------------------------- MODULE LvmStorage -----------------------------
(***************************************************************************)
(* Contract storage of the Lua VM (core/vm/lvm.go): how the host functions *)
(* sstore, setStr, mapSet, mapSetStr, arrPush, arrPop, arrSet and the      *)
(* struct accessors lay words, strings, arrays and structs out in storage  *)
(* slots of HashLen bytes, and how the readers find them again.            *)
(*                                                                         *)
(* A slot address is a keccak hash of its name space, key and index; the   *)
(* hash is taken to be injective, so a slot is the tuple itself.  The zero *)
(* hash stands for a slot that was never written.                          *)
(***************************************************************************)
EXTENDS Integers, Sequences, Functions

CONSTANTS
    WordKeys,     \* keys of sstore and key paths of mapSet
    StringKeys,   \* keys of setStr and key paths of mapSetStr
    ArrayKeys, StructKeys,
    FieldList,    \* the fields of a struct, in order of definition
    Values,       \* numbers a contract stores
    Strings,      \* strings a contract stores
    HashLen,      \* 32: bytes in a slot
    MaxLen,       \* bound on array lengths
    LNil

(* Strings are as long as the slots of the model can hold.                 *)
ASSUME StorageAssumption ==
    /\ HashLen \in Nat \ {0} /\ MaxLen \in Nat
    /\ Strings \subseteq Seq(Nat) /\ Values \subseteq Nat
    /\ \A s \in Strings : Len(s) <= HashLen * (MaxLen + 1)
    /\ LNil \notin Strings
    /\ FieldList \in Seq(STRING)

VARIABLE db

Hash == [1..HashLen -> Nat]
Zero == [i \in 1..HashLen |-> 0]
Uint(n) == [Zero EXCEPT ![HashLen] = n]     \* FillBytes: right-aligned
Number(h) == h[HashLen]

StorageSlot(k) == <<"storage", k, 0>>
StrLenSlot(k) == <<"str", k, 0>>
StrChunkSlot(k, i) == <<"chunk", k, i>>
ArrLenSlot(k) == <<"arr", k, 0>>
ArrElemSlot(k, i) == <<"elem", k, i>>
StructSlot(k, f) == <<"struct", k, f>>

Slots == {StorageSlot(k) : k \in WordKeys}
         \cup {StrLenSlot(k) : k \in StringKeys}
         \cup {StrChunkSlot(k, i) : k \in StringKeys, i \in 0..MaxLen}
         \cup {ArrLenSlot(k) : k \in ArrayKeys}
         \cup {ArrElemSlot(k, i) : k \in ArrayKeys, i \in 0..MaxLen}
         \cup {StructSlot(k, f) : k \in StructKeys, f \in Range(FieldList)}

----------------------------------------------------------------------------
(* Readers. *)

sload(k) == Number(db[StorageSlot(k)])

(* getStr, mapGetStr: the length slot holds the length plus one. *)
getStr(k) ==
    LET lenSlot == db[StrLenSlot(k)]
        length == Number(lenSlot) - 1
    IN  IF lenSlot = Zero THEN LNil
        ELSE [j \in 1..length |->
                 db[StrChunkSlot(k, (j - 1) \div HashLen)][((j - 1) % HashLen) + 1]]

arrLen(k) == Number(db[ArrLenSlot(k)])
arrGet(k, i) == IF i < 1 \/ i > arrLen(k) THEN LNil ELSE Number(db[ArrElemSlot(k, i - 1)])
array(k) == [i \in 1..arrLen(k) |-> arrGet(k, i)]

readField(k, f) == Number(db[StructSlot(k, f)])

----------------------------------------------------------------------------
(* Writers. *)

(* tos.sstore, tos.mapSet and the proxies of tos.mapping. *)
Sstore(k, v) == db' = [db EXCEPT ![StorageSlot(k)] = Uint(v)]

(* Mutant: the length slot holds the bare length. *)
BareLength(data) == Len(data)

LengthWord(data) == Len(data) + 1

(* The i-th chunk of a string, padded with zero bytes. *)
Chunk(data, i) ==
    [j \in 1..HashLen |-> IF i * HashLen + j <= Len(data) THEN data[i * HashLen + j] ELSE 0]

(* tos.setStr, tos.mapSetStr, tos.mappingStr: chunks of a longer string    *)
(* that was there before stay behind the new end.                          *)
SetStr(k, data) ==
    LET numChunks == (Len(data) + HashLen - 1) \div HashLen
    IN  db' = [s \in Slots |->
                 CASE s = StrLenSlot(k) -> Uint(LengthWord(data))
                   [] s[1] = "chunk" /\ s[2] = k /\ s[3] < numChunks -> Chunk(data, s[3])
                   [] OTHER -> db[s]]

(* tos.arrPush *)
ArrPush(k, v) ==
    /\ arrLen(k) < MaxLen
    /\ db' = [db EXCEPT ![ArrElemSlot(k, arrLen(k))] = Uint(v),
                        ![ArrLenSlot(k)] = Uint(arrLen(k) + 1)]

(* Mutant: the removed element is not cleared. *)
PopKeepsElement(k) ==
    /\ arrLen(k) > 0
    /\ db' = [db EXCEPT ![ArrLenSlot(k)] = Uint(arrLen(k) - 1)]

(* tos.arrPop *)
ArrPop(k) ==
    /\ arrLen(k) > 0
    /\ db' = [db EXCEPT ![ArrElemSlot(k, arrLen(k) - 1)] = Zero,
                        ![ArrLenSlot(k)] = Uint(arrLen(k) - 1)]

(* tos.arrSet: an index out of bounds raises an error. *)
ArrSet(k, i, v) ==
    /\ i >= 1 /\ i <= arrLen(k)
    /\ db' = [db EXCEPT ![ArrElemSlot(k, i - 1)] = Uint(v)]

(* struct.set writes the present fields in order of definition; a value    *)
(* that is no uint256 raises an error with the fields before it written.   *)
(* bad is the position of the first such value, past the end if none.      *)
StructSet(k, vals, present, bad) ==
    LET written == present \cap {FieldList[i] : i \in 1..(bad - 1)}
    IN  db' = [s \in Slots |->
                 IF s[1] = "struct" /\ s[2] = k /\ s[3] \in written
                 THEN Uint(vals[s[3]])
                 ELSE db[s]]

(* struct.setField *)
SetField(k, f, v) == db' = [db EXCEPT ![StructSlot(k, f)] = Uint(v)]

----------------------------------------------------------------------------
StorageInit == db = [s \in Slots |-> Zero]

StorageNext ==
    \/ \E k \in WordKeys, v \in Values : Sstore(k, v)
    \/ \E k \in StringKeys, s \in Strings : SetStr(k, s)
    \/ \E k \in ArrayKeys, v \in Values : ArrPush(k, v)
    \/ \E k \in ArrayKeys : ArrPop(k)
    \/ \E k \in ArrayKeys, i \in 1..MaxLen, v \in Values : ArrSet(k, i, v)
    \/ \E k \in StructKeys, vals \in [Range(FieldList) -> Values],
          present \in SUBSET Range(FieldList), bad \in 1..(Len(FieldList) + 1) :
          StructSet(k, vals, present, bad)
    \/ \E k \in StructKeys, f \in Range(FieldList), v \in Values : SetField(k, f, v)

StorageSpec == StorageInit /\ [][StorageNext]_db

----------------------------------------------------------------------------
(* Properties. *)

(* What the readers answer, as the variables of the abstract store.        *)
Store == INSTANCE ContractStore WITH
    Fields <- Range(FieldList),
    words <- [k \in WordKeys |-> sload(k)],
    strs <- [k \in StringKeys |-> getStr(k)],
    arrs <- [k \in ArrayKeys |-> array(k)],
    structs <- [k \in StructKeys |-> [f \in Range(FieldList) |-> readField(k, f)]]

(* The slots implement the store: every writer changes what its readers    *)
(* see as promised and nothing else, in particular a short string set over *)
(* a long one, an empty string and an array that shrank and grew again.    *)
StorageImplementsStore == Store!Spec

(* An array leaves no value behind its end, so that the slots of removed   *)
(* elements are free again (arrPop clears them).                           *)
NoElementPastEnd ==
    \A k \in ArrayKeys, i \in 0..MaxLen : i >= arrLen(k) => db[ArrElemSlot(k, i)] = Zero
=============================================================================
