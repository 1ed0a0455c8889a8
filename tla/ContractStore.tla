--------------------------- MODULE ContractStore ---------------------------
(***************************************************************************)
(* What the storage host functions of the Lua VM promise a contract: words *)
(* by key, strings by key, dynamic arrays, and structs of fields, each in  *)
(* a name space of its own.  LvmStorage keeps all of them in 32-byte slots *)
(* and implements this specification.                                      *)
(***************************************************************************)
EXTENDS Naturals, Sequences

CONSTANTS WordKeys, StringKeys, ArrayKeys, StructKeys, Fields, Values, Strings, MaxLen,
          LNil    \* what getStr answers for a string never set

VARIABLES words, strs, arrs, structs

store == <<words, strs, arrs, structs>>

Init ==
    /\ words = [k \in WordKeys |-> 0]
    /\ strs = [k \in StringKeys |-> LNil]
    /\ arrs = [k \in ArrayKeys |-> <<>>]
    /\ structs = [k \in StructKeys |-> [f \in Fields |-> 0]]

SetWord(k, v) == words' = [words EXCEPT ![k] = v] /\ UNCHANGED <<strs, arrs, structs>>

SetString(k, s) == strs' = [strs EXCEPT ![k] = s] /\ UNCHANGED <<words, arrs, structs>>

SetArray(k, a) == arrs' = [arrs EXCEPT ![k] = a] /\ UNCHANGED <<words, strs, structs>>

Push(k, v) == Len(arrs[k]) < MaxLen /\ SetArray(k, Append(arrs[k], v))
Pop(k) == arrs[k] # <<>> /\ SetArray(k, SubSeq(arrs[k], 1, Len(arrs[k]) - 1))
Put(k, i, v) == i \in DOMAIN arrs[k] /\ SetArray(k, [arrs[k] EXCEPT ![i] = v])

(* The fields in fs take new values; the others keep theirs. *)
SetStruct(k, fs, vs) ==
    /\ structs' = [structs EXCEPT ![k] = [f \in Fields |-> IF f \in fs THEN vs[f] ELSE @[f]]]
    /\ UNCHANGED <<words, strs, arrs>>

Next ==
    \/ \E k \in WordKeys, v \in Values : SetWord(k, v)
    \/ \E k \in StringKeys, s \in Strings : SetString(k, s)
    \/ \E k \in ArrayKeys :
          \/ Pop(k)
          \/ \E v \in Values : Push(k, v) \/ \E i \in 1..MaxLen : Put(k, i, v)
    \/ \E k \in StructKeys, fs \in SUBSET Fields, vs \in [Fields -> Values] : SetStruct(k, fs, vs)

Spec == Init /\ [][Next]_store
=============================================================================
