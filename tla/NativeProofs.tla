---------------------------- MODULE NativeProofs ----------------------------
(***************************************************************************)
(* Proofs about the settlement bus, its callbacks and the policy wallet,   *)
(* for any accounts, receipts, amounts and timelocks, and about the task   *)
(* scheduler, for any number of contracts, tasks, queue entries, limits and*)
(* blocks.                                                                 *)
(***************************************************************************)
EXTENDS SettlementBus, SettlementCallbacks, PolicyWallet, TaskScheduler, Arithmetic

Holders == Agents \cup {Contract}
EscrowSlots == Agents \X Purposes
Refs == Receipts \X Modes \X Agents \X Amounts \X Int
ReceiptRecords ==
    [status : {"open", "success", "failure"}, settlementRef : Refs \cup {NoRef},
     openedAt : Int, finalizedAt : Int]

ReceiptMaps == UNION {[R -> ReceiptRecords] : R \in SUBSET Receipts}

BusStates ==
    [receipts : ReceiptMaps,
     effects : SUBSET Refs, moved : Int,
     balance : [Holders -> Int], escrow : [EscrowSlots -> Int],
     uno : [Agents -> [total : Int, version : Int]]]

(* The accounts and escrow slots are finite sets.                          *)
LEMMA BusConstants ==
    /\ IsFiniteSet(Holders) /\ IsFiniteSet(EscrowSlots)
    /\ Agents \subseteq Holders /\ Contract \in Holders
    /\ Amounts \subseteq Int /\ 0 \in Purposes
<1>1. IsFiniteSet(Holders)
  BY BusAssumption, FS_AddElement, Zenon DEF Holders
<1>2. IsFiniteSet(EscrowSlots)
  BY BusAssumption, FS_Product, Zenon DEF EscrowSlots
<1> QED BY <1>1, <1>2, BusAssumption DEF Holders

-----------------------------------------------------------------------------
(* What the host functions do to a state.                                  *)

(* A total is an integer.                                                  *)
LEMMA TotalType ==
    ASSUME NEW S, IsFiniteSet(S), NEW f \in [S -> Int]
    PROVE  Total(f) \in Int
  BY SumFunctionType, Zenon DEF Total

(* A credit raises the total.                                              *)
LEMMA CreditTotal ==
    ASSUME NEW S, IsFiniteSet(S), NEW f \in [S -> Int], NEW k \in S, NEW n \in Int
    PROVE  Credit(f, k, n) \in [S -> Int] /\ Total(Credit(f, k, n)) = Total(f) + n
<1>1. Credit(f, k, n) \in [S -> Int]
  BY DEF Credit
<1>2. Total(Credit(f, k, n)) = Total(f) + n
  BY SumGrow, Zenon DEF Credit, Total
<1> QED BY <1>1, <1>2, Zenon

(* A debit lowers the total.                                               *)
LEMMA DebitTotal ==
    ASSUME NEW S, IsFiniteSet(S), NEW f \in [S -> Int], NEW k \in S, NEW n \in Int
    PROVE  Debit(f, k, n) \in [S -> Int] /\ Total(Debit(f, k, n)) = Total(f) - n
<1>1. Debit(f, k, n) \in [S -> Int]
  BY DEF Debit
<1>2. Total(Debit(f, k, n)) = Total(f) - n
  BY SumShrink, Zenon DEF Debit, Total
<1> QED BY <1>1, <1>2, Zenon

(* A credit of an account.                                                 *)
LEMMA BalanceCredit ==
    ASSUME NEW f \in [Holders -> Int], NEW k \in Holders, NEW n \in Int
    PROVE  Credit(f, k, n) \in [Holders -> Int] /\ Total(Credit(f, k, n)) = Total(f) + n
  BY BusConstants, CreditTotal

(* A debit of an account.                                                  *)
LEMMA BalanceDebit ==
    ASSUME NEW f \in [Holders -> Int], NEW k \in Holders, NEW n \in Int
    PROVE  Debit(f, k, n) \in [Holders -> Int] /\ Total(Debit(f, k, n)) = Total(f) - n
  BY BusConstants, DebitTotal

(* A credit of an escrow slot.                                             *)
LEMMA EscrowCredit ==
    ASSUME NEW f \in [EscrowSlots -> Int], NEW k \in EscrowSlots, NEW n \in Int
    PROVE  Credit(f, k, n) \in [EscrowSlots -> Int] /\ Total(Credit(f, k, n)) = Total(f) + n
  BY BusConstants, CreditTotal

(* A debit of an escrow slot.                                              *)
LEMMA EscrowDebit ==
    ASSUME NEW f \in [EscrowSlots -> Int], NEW k \in EscrowSlots, NEW n \in Int
    PROVE  Debit(f, k, n) \in [EscrowSlots -> Int] /\ Total(Debit(f, k, n)) = Total(f) - n
  BY BusConstants, DebitTotal

Value(s) == Total(s.balance) + Total(s.escrow)

(* The fields of a state of the bus.                                       *)
LEMMA StateFields ==
    ASSUME NEW s \in BusStates
    PROVE  /\ s.balance \in [Holders -> Int] /\ s.escrow \in [EscrowSlots -> Int]
           /\ s.moved \in Int /\ s.effects \in SUBSET Refs /\ s.receipts \in ReceiptMaps
           /\ s.uno \in [Agents -> [total : Int, version : Int]]
           /\ Total(s.balance) \in Int /\ Total(s.escrow) \in Int
<1>1. s.balance \in [Holders -> Int] /\ s.escrow \in [EscrowSlots -> Int]
  BY Zenon DEF BusStates
<1>2. Total(s.balance) \in Int /\ Total(s.escrow) \in Int
  BY <1>1, BusConstants, SumFunctionType, Zenon DEF Total
<1> QED BY <1>1, <1>2, Zenon DEF BusStates

(* What the host functions do to a state: value moves, and is not made.    *)
LEMMA PaidState ==
    ASSUME NEW s \in BusStates, NEW to \in Agents, NEW n \in Amounts
    PROVE  /\ Paid(s, to, n) \in BusStates
           /\ Paid(s, to, n).receipts = s.receipts
           /\ Paid(s, to, n).effects = s.effects
           /\ Paid(s, to, n).moved = s.moved + n
           /\ Value(Paid(s, to, n)) = Value(s)
<1>0. n \in Int /\ to \in Holders /\ Contract \in Holders /\ IsFiniteSet(Holders)
  BY BusConstants, Zenon
<1> DEFINE d == Debit(s.balance, Contract, n)
           b == Credit(d, to, n)
           m == s.moved + n
<1>00. s.balance \in [Holders -> Int] /\ s.escrow \in [EscrowSlots -> Int]
  BY StateFields, Zenon
<1>1. d \in [Holders -> Int] /\ Total(d) = Total(s.balance) - n
  BY <1>0, <1>00, BalanceDebit, Zenon
<1>2. b \in [Holders -> Int] /\ Total(b) = Total(d) + n
  <2> HIDE DEF d
  <2> QED BY <1>0, <1>1, BalanceCredit, Zenon
<1>3. m \in Int
  BY <1>0, StateFields
<1>4. Paid(s, to, n) = [s EXCEPT !.balance = b, !.moved = m]
  BY Zenon DEF Paid
<1> HIDE DEF b, m
<1>5. /\ [s EXCEPT !.balance = b, !.moved = m] \in BusStates
      /\ [s EXCEPT !.balance = b, !.moved = m].receipts = s.receipts
      /\ [s EXCEPT !.balance = b, !.moved = m].effects = s.effects
      /\ [s EXCEPT !.balance = b, !.moved = m].escrow = s.escrow
      /\ [s EXCEPT !.balance = b, !.moved = m].moved = m
      /\ [s EXCEPT !.balance = b, !.moved = m].balance = b
  BY <1>2, <1>3, Zenon DEF BusStates
<1>6. Total(b) = Total(s.balance)
  BY <1>0, <1>1, <1>2, StateFields
<1>7. Value(Paid(s, to, n)) = Value(s)
  BY <1>4, <1>5, <1>6, Zenon DEF Value
<1> QED BY <1>4, <1>5, <1>7, Zenon DEF m

(* A release moves value from the slot to the account.                     *)
LEMMA ReleasedState ==
    ASSUME NEW s \in BusStates, NEW slot \in EscrowSlots, NEW to \in Agents, NEW n \in Amounts
    PROVE  /\ Released(s, slot, to, n) \in BusStates
           /\ Released(s, slot, to, n).receipts = s.receipts
           /\ Released(s, slot, to, n).effects = s.effects
           /\ Released(s, slot, to, n).moved = s.moved
           /\ Value(Released(s, slot, to, n)) = Value(s)
<1>0. /\ n \in Int /\ to \in Holders /\ Contract \in Holders
      /\ IsFiniteSet(Holders) /\ IsFiniteSet(EscrowSlots)
  BY BusConstants, Zenon
<1> DEFINE e == Debit(s.escrow, slot, n)
           b == Credit(s.balance, to, n)
<1>00. s.balance \in [Holders -> Int] /\ s.escrow \in [EscrowSlots -> Int]
  BY StateFields, Zenon
<1>1. e \in [EscrowSlots -> Int] /\ Total(e) = Total(s.escrow) - n
  BY <1>0, <1>00, EscrowDebit, Zenon
<1>2. b \in [Holders -> Int] /\ Total(b) = Total(s.balance) + n
  BY <1>0, <1>00, BalanceCredit, Zenon
<1>4. Released(s, slot, to, n) = [s EXCEPT !.escrow = e, !.balance = b]
  BY Zenon DEF Released
<1> HIDE DEF b, e
<1>5. /\ [s EXCEPT !.escrow = e, !.balance = b] \in BusStates
      /\ [s EXCEPT !.escrow = e, !.balance = b].receipts = s.receipts
      /\ [s EXCEPT !.escrow = e, !.balance = b].effects = s.effects
      /\ [s EXCEPT !.escrow = e, !.balance = b].escrow = e
      /\ [s EXCEPT !.escrow = e, !.balance = b].moved = s.moved
      /\ [s EXCEPT !.escrow = e, !.balance = b].balance = b
  BY <1>1, <1>2, Zenon DEF BusStates
<1>6. Total(b) + Total(e) = Total(s.balance) + Total(s.escrow)
  BY <1>0, <1>1, <1>2, StateFields
<1>7. Value(Released(s, slot, to, n)) = Value(s)
  BY <1>4, <1>5, <1>6, Zenon DEF Value
<1> QED BY <1>4, <1>5, <1>7, Zenon

(* An escrow moves value from the contract to the slot.                    *)
LEMMA EscrowedState ==
    ASSUME NEW s \in BusStates, NEW slot \in EscrowSlots, NEW n \in Amounts, NEW t, t = Escrowed(s, slot, n)
    PROVE  /\ t \in BusStates /\ t.receipts = s.receipts /\ t.effects = s.effects
           /\ t.moved = s.moved /\ Value(t) = Value(s)
<1>0. /\ n \in Int /\ Contract \in Holders
      /\ IsFiniteSet(Holders) /\ IsFiniteSet(EscrowSlots)
  BY BusConstants, Zenon
<1> DEFINE e == Credit(s.escrow, slot, n)
           b == Debit(s.balance, Contract, n)
<1>00. s.balance \in [Holders -> Int] /\ s.escrow \in [EscrowSlots -> Int]
  BY StateFields, Zenon
<1>1. e \in [EscrowSlots -> Int] /\ Total(e) = Total(s.escrow) + n
  BY <1>0, <1>00, EscrowCredit, Zenon
<1>2. b \in [Holders -> Int] /\ Total(b) = Total(s.balance) - n
  BY <1>0, <1>00, BalanceDebit, Zenon
<1>4. t = [s EXCEPT !.balance = b, !.escrow = e]
  BY Zenon DEF Escrowed
<1> HIDE DEF b, e
<1>5. /\ t \in BusStates /\ t.receipts = s.receipts /\ t.effects = s.effects
      /\ t.escrow = e /\ t.moved = s.moved /\ t.balance = b
  BY <1>1, <1>2, <1>4, Zenon DEF BusStates
<1>6. Total(b) + Total(e) = Total(s.balance) + Total(s.escrow)
  BY <1>0, <1>1, <1>2, StateFields
<1> QED BY <1>5, <1>6, Zenon DEF Value

(* A confidential transfer moves no public value.                          *)
LEMMA UnoState ==
    ASSUME NEW s \in BusStates, NEW to \in Agents, NEW n \in Amounts
    PROVE  /\ applyUnoTransfer(s, to, n) \in BusStates
           /\ applyUnoTransfer(s, to, n).receipts = s.receipts
           /\ applyUnoTransfer(s, to, n).effects = s.effects
           /\ applyUnoTransfer(s, to, n).moved = s.moved + n
           /\ Value(applyUnoTransfer(s, to, n)) = Value(s)
<1>0. n \in Int
  BY BusConstants, Zenon
<1> DEFINE u == Deposit(s.uno, to, n)
           m == s.moved + n
<1>1. u \in [Agents -> [total : Int, version : Int]]
  BY <1>0, StateFields DEF Deposit
<1>2. m \in Int
  BY <1>0, StateFields
<1>4. applyUnoTransfer(s, to, n) = [s EXCEPT !.uno = u, !.moved = m]
  BY Zenon DEF applyUnoTransfer
<1> HIDE DEF u, m
<1>5. /\ [s EXCEPT !.uno = u, !.moved = m] \in BusStates
      /\ [s EXCEPT !.uno = u, !.moved = m].receipts = s.receipts
      /\ [s EXCEPT !.uno = u, !.moved = m].effects = s.effects
      /\ [s EXCEPT !.uno = u, !.moved = m].escrow = s.escrow
      /\ [s EXCEPT !.uno = u, !.moved = m].moved = m
      /\ [s EXCEPT !.uno = u, !.moved = m].balance = s.balance
  BY <1>1, <1>2, Zenon DEF BusStates
<1> QED BY <1>4, <1>5, Zenon DEF m, Value

(* What executeRuntimeSettlement moves is conserved and counted.           *)
LEMMA MovedState ==
    ASSUME NEW s \in BusStates, NEW mode \in Modes, NEW to \in Agents,
           NEW purpose \in Purposes, NEW n \in Amounts
    PROVE  /\ Moved(s, mode, to, purpose, n) \in BusStates
           /\ Moved(s, mode, to, purpose, n).receipts = s.receipts
           /\ Moved(s, mode, to, purpose, n).effects = s.effects
           /\ Moved(s, mode, to, purpose, n).moved = s.moved + n
           /\ Value(Moved(s, mode, to, purpose, n)) = Value(s)
<1>1. CASE mode \in PublicModes
  BY <1>1, PaidState, Zenon DEF Moved
<1>2. CASE mode \notin PublicModes /\ mode \in UnoModes
  BY <1>2, UnoState, Zenon DEF Moved
<1>3. CASE mode \notin PublicModes /\ mode \notin UnoModes
  <2> DEFINE slot == <<to, purpose>>
             r == Released(s, slot, to, n)
             m == r.moved + n
             t == [r EXCEPT !.moved = m]
  <2>1. Moved(s, mode, to, purpose, n) = t
    BY <1>3, Zenon DEF Moved
  <2>2. /\ r \in BusStates /\ r.receipts = s.receipts /\ r.effects = s.effects
        /\ r.moved = s.moved /\ Value(r) = Value(s)
    <3>1. slot \in EscrowSlots
      BY Zenon DEF EscrowSlots
    <3> QED BY <3>1, ReleasedState
  <2> HIDE DEF r
  <2>3. m \in Int
    BY <2>2, StateFields, BusConstants
  <2>4. m = s.moved + n
    BY <2>2, Zenon
  <2> HIDE DEF m
  <2>5. /\ t \in BusStates /\ t.receipts = r.receipts /\ t.effects = r.effects
        /\ t.moved = m /\ t.escrow = r.escrow /\ t.balance = r.balance
    BY <2>2, <2>3, Zenon DEF BusStates
  <2> HIDE DEF t
  <2>6. Value(t) = Value(s)
    BY <2>2, <2>5, Zenon DEF Value
  <2> QED BY <2>1, <2>2, <2>4, <2>5, <2>6, Zenon
<1> QED BY <1>1, <1>2, <1>3, Zenon

-----------------------------------------------------------------------------
(* Receipts and effects.                                                   *)

(* Writing a receipt gives a map of receipts.                              *)
LEMMA WrittenReceipt ==
    ASSUME NEW rs \in ReceiptMaps, NEW r \in Receipts, NEW rec \in ReceiptRecords
    PROVE  /\ WriteReceipt(rs, r, rec) \in ReceiptMaps
           /\ DOMAIN WriteReceipt(rs, r, rec) = DOMAIN rs \cup {r}
           /\ WriteReceipt(rs, r, rec)[r] = rec
           /\ \A x \in DOMAIN rs \ {r} : WriteReceipt(rs, r, rec)[x] = rs[x]
<1>1. PICK R \in SUBSET Receipts : rs \in [R -> ReceiptRecords]
  BY Zenon DEF ReceiptMaps
<1>2. WriteReceipt(rs, r, rec) \in [R \cup {r} -> ReceiptRecords]
  BY <1>1, Zenon DEF WriteReceipt
<1>3. WriteReceipt(rs, r, rec) \in ReceiptMaps
  BY <1>2, Zenon DEF ReceiptMaps
<1> QED BY <1>1, <1>3, Zenon DEF WriteReceipt

(* The fields of a receipt.                                                *)
LEMMA ReceiptType ==
    ASSUME NEW rs \in ReceiptMaps, NEW r \in DOMAIN rs
    PROVE  r \in Receipts /\ rs[r] \in ReceiptRecords
  BY Zenon DEF ReceiptMaps

(* A state with other receipts.                                            *)
LEMMA StateWithReceipts ==
    ASSUME NEW s \in BusStates, NEW rs \in ReceiptMaps
    PROVE  LET t == [s EXCEPT !.receipts = rs]
           IN  /\ t \in BusStates /\ t.receipts = rs /\ t.effects = s.effects
               /\ t.moved = s.moved /\ Value(t) = Value(s)
  BY Zenon DEF BusStates, Value

Amounts4(E) == [ref \in E |-> ref[4]]

(* Recorded effects, their sum, and the receipts that name them.           *)
Accounted(s) == s.moved = Total(Amounts4(s.effects))

Traced(s) ==
    /\ \A r \in DOMAIN s.receipts : s.receipts[r].openedAt <= time
    /\ \A ref \in s.effects :
          /\ ref[1] \in DOMAIN s.receipts
          /\ s.receipts[ref[1]].settlementRef \in s.effects
          /\ s.receipts[ref[1]].openedAt <= ref[5]

Sound(s) ==
    /\ s \in BusStates /\ IsFiniteSet(s.effects)
    /\ Value(s) = ContractFunds /\ Traced(s)
    /\ ~CatchesErrors => Accounted(s)

BusInv ==
    /\ time \in Int
    /\ Sound(st) /\ Sound(snap) /\ FinalizedKept(snap, st)

(* Recording a new effect adds its amount.                                 *)
LEMMA AmountsGrow ==
    ASSUME NEW E, IsFiniteSet(E), E \subseteq Refs, NEW e \in Refs, e \notin E
    PROVE  Total(Amounts4(E \cup {e})) = Total(Amounts4(E)) + e[4]
<1> DEFINE f == Amounts4(E)
           g == Amounts4(E \cup {e})
<1>0. \A ref \in Refs : ref[4] \in Int
  BY BusConstants, Zenon DEF Refs
<1>1. /\ DOMAIN f = E /\ DOMAIN g = E \cup {e} /\ g[e] = e[4]
      /\ \A x \in E : f[x] \in Int /\ g[x] = f[x]
      /\ \A x \in E \cup {e} : g[x] \in Int
  BY <1>0, Zenon DEF Amounts4
<1> HIDE DEF f, g
<1>2. SumFunctionOnSet(g, E) = SumFunctionOnSet(f, E)
  BY <1>1, SumEqual, Zenon
<1>3. SumFunctionOnSet(g, E \cup {e}) = SumFunctionOnSet(g, E) + g[e]
  BY <1>1, SumAdd
<1>4. Total(f) = SumFunctionOnSet(f, E) /\ Total(g) = SumFunctionOnSet(g, E \cup {e})
  BY <1>1, Zenon DEF Total, SumFunction
<1>5. Total(g) = Total(f) + e[4]
  BY <1>1, <1>2, <1>3, <1>4, Zenon
<1> QED BY <1>5, Zenon DEF f, g

\* A receipt is opened, or an open one is written again with its opening
\* time and a reference that is recorded.
LEMMA SoundWrite ==
    ASSUME BusInv, NEW r \in Receipts, NEW rec \in ReceiptRecords, NEW t,
           t = [st EXCEPT !.receipts = WriteReceipt(st.receipts, r, rec)],
           \/ r \notin DOMAIN st.receipts /\ rec.openedAt <= time
           \/ /\ ReceiptOpen(st, r) /\ rec.openedAt = st.receipts[r].openedAt
              /\ rec.settlementRef \in st.effects \cup {st.receipts[r].settlementRef}
    PROVE  Sound(t) /\ FinalizedKept(snap, t)
<1> DEFINE rs == WriteReceipt(st.receipts, r, rec)
<1>1. st \in BusStates /\ st.receipts \in ReceiptMaps
  BY StateFields, Zenon DEF BusInv, Sound
<1>2. /\ rs \in ReceiptMaps /\ DOMAIN rs = DOMAIN st.receipts \cup {r} /\ rs[r] = rec
      /\ \A x \in DOMAIN st.receipts \ {r} : rs[x] = st.receipts[x]
  BY <1>1, WrittenReceipt
<1> HIDE DEF rs
<1>3. /\ t \in BusStates /\ t.receipts = rs /\ t.effects = st.effects
      /\ t.moved = st.moved /\ Value(t) = Value(st)
  BY <1>1, <1>2, StateWithReceipts, Zenon DEF rs
<1>4. Traced(t)
  <2>1. \A x \in DOMAIN rs : rs[x].openedAt <= time
    BY <1>2, Zenon DEF BusInv, Sound, Traced, ReceiptOpen, ReceiptExists
  <2>2. ASSUME NEW ref \in st.effects
        PROVE  /\ ref[1] \in DOMAIN rs /\ rs[ref[1]].settlementRef \in st.effects
               /\ rs[ref[1]].openedAt <= ref[5]
    BY <1>2, Zenon DEF BusInv, Sound, Traced
  <2> QED BY <1>3, <2>1, <2>2, Zenon DEF Traced
<1>5. Sound(t)
  BY <1>3, <1>4, Zenon DEF BusInv, Sound, Accounted
<1>6. FinalizedKept(snap, t)
  BY <1>2, <1>3, Zenon DEF BusInv, FinalizedKept, ReceiptOpen
<1> QED BY <1>5, <1>6, Zenon

\* Value moved without a receipt.
LEMMA SoundMove ==
    ASSUME BusInv, NEW t \in BusStates, t.receipts = st.receipts, t.effects = st.effects,
           Value(t) = Value(st), t.moved = st.moved \/ CatchesErrors
    PROVE  Sound(t) /\ FinalizedKept(snap, t)
  BY Zenon DEF BusInv, Sound, Traced, Accounted, FinalizedKept

(* An error that unwinds the frame keeps the invariant.                    *)
LEMMA SoundRaise ==
    ASSUME BusInv, NEW t, CatchesErrors => Sound(t) /\ FinalizedKept(snap, t), RaiseError(t),
           snap' = snap, time' = time
    PROVE  BusInv' /\ FinalizedKept(snap, st')
<1>1. FinalizedKept(snap, snap)
  BY Zenon DEF FinalizedKept
<1> QED BY <1>1, Zenon DEF BusInv, Sound, Traced, RaiseError, FinalizedKept, Accounted

(* A host function that returns keeps the invariant.                       *)
LEMMA SoundReturn ==
    ASSUME BusInv, NEW t, Sound(t), FinalizedKept(snap, t), ReturnState(t),
           snap' = snap, time' = time
    PROVE  BusInv' /\ FinalizedKept(snap, st')
  BY Zenon DEF BusInv, Sound, Traced, ReturnState, FinalizedKept, Accounted

-----------------------------------------------------------------------------
(* The host functions, one by one.                                         *)

(* tos.receipt_open.                                                       *)
LEMMA OpenStep ==
    ASSUME BusInv, NEW r \in Receipts, receipt_open(r)
    PROVE  BusInv' /\ FinalizedKept(snap, st')
<1>1. snap' = snap /\ time' = time /\ time \in Int
  BY Zenon DEF receipt_open, HostCall, BusInv
<1>2. CASE ReceiptExists(st, r)
  <2>1. RaiseError(st) /\ Sound(st) /\ FinalizedKept(snap, st)
    BY <1>2, Zenon DEF receipt_open, BusInv
  <2> QED BY <1>1, <2>1, SoundRaise, Zenon
<1>3. CASE ~ReceiptExists(st, r)
  <2> DEFINE t == [st EXCEPT !.receipts = WriteReceipt(st.receipts, r, NewReceipt)]
  <2>1. ReturnState(t)
    BY <1>3, Zenon DEF receipt_open
  <2>2. NewReceipt \in ReceiptRecords /\ NewReceipt.openedAt = time
    BY <1>1 DEF NewReceipt, ReceiptRecords
  <2>3. Sound(t) /\ FinalizedKept(snap, t)
    BY <1>1, <1>3, <2>2, SoundWrite DEF ReceiptExists
  <2> HIDE DEF t
  <2> QED BY <1>1, <2>1, <2>3, SoundReturn, Zenon
<1> QED BY <1>2, <1>3, Zenon

(* tos.receipt_success.                                                    *)
LEMMA SuccessStep ==
    ASSUME BusInv, NEW r \in Receipts, NEW ref \in st.effects, receipt_success(r, ref)
    PROVE  BusInv' /\ FinalizedKept(snap, st')
<1>1. snap' = snap /\ time' = time /\ time \in Int /\ ref \in Refs /\ st.receipts \in ReceiptMaps
  BY StateFields, Zenon DEF receipt_success, HostCall, BusInv, Sound
<1>2. CASE RaiseError(st)
  <2>1. Sound(st) /\ FinalizedKept(snap, st)
    BY Zenon DEF BusInv
  <2> QED BY <1>1, <1>2, <2>1, SoundRaise, Zenon
<1>3. CASE ReceiptOpen(st, r)
  <2> DEFINE rec == [st.receipts[r] EXCEPT !.settlementRef = ref, !.status = "success",
                                           !.finalizedAt = ref[5]]
             t == [st EXCEPT !.receipts = WriteReceipt(st.receipts, r, rec)]
  <2>1. ReturnState(t)
    BY <1>3, Zenon DEF receipt_success, Finalizable
  <2>2. st.receipts[r] \in ReceiptRecords
    BY <1>1, <1>3, ReceiptType, Zenon DEF ReceiptOpen, ReceiptExists
  <2>3. ref[5] \in Int
    BY <1>1, Zenon DEF Refs
  <2>4. /\ rec \in ReceiptRecords /\ rec.openedAt = st.receipts[r].openedAt
        /\ rec.settlementRef = ref
    BY <1>1, <2>2, <2>3, Zenon DEF ReceiptRecords
  <2> HIDE DEF rec
  <2>5. Sound(t) /\ FinalizedKept(snap, t)
    BY <1>3, <2>4, SoundWrite, Zenon
  <2> HIDE DEF t
  <2> QED BY <1>1, <2>1, <2>5, SoundReturn, Zenon
<1> QED BY <1>2, <1>3, Zenon DEF receipt_success, Finalizable

(* tos.receipt_failure.                                                    *)
LEMMA FailureStep ==
    ASSUME BusInv, NEW r \in Receipts, receipt_failure(r)
    PROVE  BusInv' /\ FinalizedKept(snap, st')
<1>1. snap' = snap /\ time' = time /\ time \in Int /\ st.receipts \in ReceiptMaps
  BY StateFields, Zenon DEF receipt_failure, HostCall, BusInv, Sound
<1>2. CASE RaiseError(st)
  <2>1. Sound(st) /\ FinalizedKept(snap, st)
    BY Zenon DEF BusInv
  <2> QED BY <1>1, <1>2, <2>1, SoundRaise, Zenon
<1>3. CASE ReceiptOpen(st, r)
  <2> DEFINE rec == [st.receipts[r] EXCEPT !.status = "failure", !.finalizedAt = time]
             t == [st EXCEPT !.receipts = WriteReceipt(st.receipts, r, rec)]
  <2>1. ReturnState(t)
    BY <1>3, Zenon DEF receipt_failure, Finalizable
  <2>2. st.receipts[r] \in ReceiptRecords
    BY <1>1, <1>3, ReceiptType, Zenon DEF ReceiptOpen, ReceiptExists
  <2>4. /\ rec \in ReceiptRecords /\ rec.openedAt = st.receipts[r].openedAt
        /\ rec.settlementRef = st.receipts[r].settlementRef
    BY <1>1, <2>2, Zenon DEF ReceiptRecords
  <2> HIDE DEF rec
  <2>5. Sound(t) /\ FinalizedKept(snap, t)
    BY <1>3, <2>4, SoundWrite, Zenon
  <2> HIDE DEF t
  <2> QED BY <1>1, <2>1, <2>5, SoundReturn, Zenon
<1> QED BY <1>2, <1>3, Zenon DEF receipt_failure, Finalizable

(* tos.settle, tos.settle_refund and tos.settle_escrow.                    *)
LEMMA SettleStep ==
    ASSUME BusInv, NEW r \in Receipts, NEW mode \in Modes, NEW to \in Agents,
           NEW purpose \in Purposes, NEW n \in Amounts, NEW auto \in BOOLEAN,
           executeRuntimeSettlement(mode, to, purpose, n, r, auto)
    PROVE  BusInv' /\ FinalizedKept(snap, st')
<1> DEFINE ref == mintSettlementRef(r, mode, to, n)
           m == Moved(st, mode, to, purpose, n)
           rec == Settled(st.receipts[r], ref, auto)
           rs == WriteReceipt(st.receipts, r, rec)
           t == Recorded(m, r, ref, auto)
<1>1. /\ snap' = snap /\ time' = time /\ time \in Int
      /\ st \in BusStates /\ st.receipts \in ReceiptMaps
  BY StateFields, Zenon DEF executeRuntimeSettlement, HostCall, BusInv, Sound
<1>2. CASE RaiseError(st)
  <2>1. Sound(st) /\ FinalizedKept(snap, st)
    BY Zenon DEF BusInv
  <2> QED BY <1>1, <1>2, <2>1, SoundRaise, Zenon
<1>3. /\ m \in BusStates /\ m.receipts = st.receipts /\ m.effects = st.effects
      /\ m.moved = st.moved + n /\ Value(m) = Value(st)
  BY <1>1, MovedState
<1>4. CASE RaiseError(m)
  <2>1. CatchesErrors => Sound(m) /\ FinalizedKept(snap, m)
    <3> HIDE DEF m
    <3> QED BY <1>3, SoundMove, Zenon
  <2> HIDE DEF m
  <2> QED BY <1>1, <1>4, <2>1, SoundRaise, Zenon
<1>5. CASE ReceiptOpen(st, r) /\ ref \notin st.effects /\ ReturnState(t)
  <2>1. ref \in Refs /\ ref[1] = r /\ ref[4] = n /\ ref[5] = time
    BY <1>1, Zenon DEF mintSettlementRef, Refs
  <2>2. st.receipts[r] \in ReceiptRecords
    BY <1>1, <1>5, ReceiptType, Zenon DEF ReceiptOpen, ReceiptExists
  <2> HIDE DEF ref, m
  <2>3. /\ rec \in ReceiptRecords /\ rec.openedAt = st.receipts[r].openedAt
        /\ rec.settlementRef = ref
    BY <1>1, <2>1, <2>2, Zenon DEF Settled, ReceiptRecords
  <2>4. t = [m EXCEPT !.effects = st.effects \cup {ref}, !.receipts = rs]
    BY <1>3, Zenon DEF Recorded
  <2> HIDE DEF rec
  <2>5. /\ rs \in ReceiptMaps /\ DOMAIN rs = DOMAIN st.receipts \cup {r} /\ rs[r] = rec
        /\ \A x \in DOMAIN st.receipts \ {r} : rs[x] = st.receipts[x]
    BY <1>1, <2>3, WrittenReceipt, Zenon
  <2> HIDE DEF rs, t
  <2>6. st.effects \cup {ref} \in SUBSET Refs /\ st.effects \subseteq Refs
    BY <1>1, <2>1, StateFields, Zenon
  <2>7. /\ t \in BusStates /\ t.receipts = rs /\ t.effects = st.effects \cup {ref}
        /\ t.moved = m.moved /\ t.balance = m.balance /\ t.escrow = m.escrow
    BY <1>3, <2>4, <2>5, <2>6, Zenon DEF BusStates
  <2>8. Value(t) = ContractFunds
    BY <1>3, <2>7, Zenon DEF Value, BusInv, Sound
  <2>9. Traced(t)
    <3>1. st.receipts[r].openedAt <= time /\ r \in DOMAIN st.receipts
      BY <1>5, Zenon DEF BusInv, Sound, Traced, ReceiptOpen, ReceiptExists
    <3>2. \A x \in DOMAIN rs : rs[x].openedAt <= time
      BY <2>3, <2>5, <3>1, Zenon DEF BusInv, Sound, Traced
    <3>3. ASSUME NEW e \in st.effects \cup {ref}
          PROVE  /\ e[1] \in DOMAIN rs /\ rs[e[1]].settlementRef \in st.effects \cup {ref}
                 /\ rs[e[1]].openedAt <= e[5]
      <4>1. CASE e = ref
        BY <2>1, <2>3, <2>5, <3>1, <4>1, Zenon
      <4>2. CASE e \in st.effects
        BY <2>3, <2>5, <4>2, Zenon DEF BusInv, Sound, Traced
      <4> QED BY <4>1, <4>2, Zenon
    <3> QED BY <2>7, <3>2, <3>3, Zenon DEF Traced
  <2>10. IsFiniteSet(t.effects)
    <3>1. IsFiniteSet(st.effects \cup {ref})
      BY FS_AddElement, Zenon DEF BusInv, Sound
    <3> QED BY <2>7, <3>1, Zenon
  <2>11. ~CatchesErrors => Accounted(t)
    <3>1. Total(Amounts4(st.effects \cup {ref})) = Total(Amounts4(st.effects)) + ref[4]
      BY <1>5, <2>1, <2>6, AmountsGrow, Zenon DEF BusInv, Sound
    <3>2. Total(Amounts4(t.effects)) = Total(Amounts4(st.effects \cup {ref}))
      BY <2>7, Zenon
    <3> QED BY <1>3, <2>1, <2>7, <3>1, <3>2, Zenon DEF Accounted, BusInv, Sound
  <2>12. Sound(t)
    BY <2>7, <2>8, <2>9, <2>10, <2>11, Zenon DEF Sound
  <2>13. FinalizedKept(snap, t)
    BY <1>5, <2>5, <2>7, Zenon DEF BusInv, FinalizedKept, ReceiptOpen
  <2> QED BY <1>1, <1>5, <2>12, <2>13, SoundReturn, Zenon
<1> QED BY <1>2, <1>4, <1>5, Zenon DEF executeRuntimeSettlement

(* tos.escrow.                                                             *)
LEMMA EscrowStep ==
    ASSUME BusInv, NEW slot \in EscrowSlots, NEW n \in Amounts, escrow(slot, n)
    PROVE  BusInv' /\ FinalizedKept(snap, st')
<1> DEFINE t == Escrowed(st, slot, n)
<1>1. snap' = snap /\ time' = time /\ st \in BusStates /\ Sound(st) /\ FinalizedKept(snap, st)
  BY Zenon DEF escrow, HostCall, BusInv, Sound
<1>2. RaiseError(st) \/ ReturnState(t)
  BY Zenon DEF escrow
<1>3. /\ t \in BusStates /\ t.receipts = st.receipts /\ t.effects = st.effects
      /\ t.moved = st.moved /\ Value(t) = Value(st)
  BY <1>1, EscrowedState, Zenon
<1> HIDE DEF t
<1>4. Sound(t) /\ FinalizedKept(snap, t)
  BY <1>3, SoundMove, Zenon
<1> QED BY <1>1, <1>2, <1>4, SoundRaise, SoundReturn, Zenon

(* tos.release and tos.slash.                                              *)
LEMMA ReleaseStep ==
    ASSUME BusInv, NEW slot \in EscrowSlots, NEW to \in Agents, NEW n \in Amounts,
           release(slot, to, n)
    PROVE  BusInv' /\ FinalizedKept(snap, st')
<1> DEFINE t == Released(st, slot, to, n)
<1>1. snap' = snap /\ time' = time /\ st \in BusStates /\ Sound(st) /\ FinalizedKept(snap, st)
  BY Zenon DEF release, HostCall, BusInv, Sound
<1>2. RaiseError(st) \/ ReturnState(t)
  BY Zenon DEF release
<1>3. /\ t \in BusStates /\ t.receipts = st.receipts /\ t.effects = st.effects
      /\ t.moved = st.moved /\ Value(t) = Value(st)
  BY <1>1, ReleasedState, Zenon
<1> HIDE DEF t
<1>4. Sound(t) /\ FinalizedKept(snap, t)
  BY <1>3, SoundMove, Zenon
<1> QED BY <1>1, <1>2, <1>4, SoundRaise, SoundReturn, Zenon

-----------------------------------------------------------------------------
(* Theorems.                                                               *)

(* The invariant of the bus holds at first.                                *)
LEMMA BusInitInv == BusInit => BusInv
<1> SUFFICES ASSUME BusInit PROVE BusInv
  BY Zenon
<1> DEFINE b0 == [a \in Holders |-> 0]
           b == Credit(b0, Contract, ContractFunds)
           e == [slot \in EscrowSlots |-> 0]
           u == [a \in Agents |-> [total |-> 0, version |-> 0]]
<1>0. /\ ContractFunds \in Int /\ IsFiniteSet(Holders) /\ IsFiniteSet(EscrowSlots)
      /\ Contract \in Holders
  BY BusAssumption, BusConstants
<1>1. st = [receipts |-> <<>>, effects |-> {}, moved |-> 0, balance |-> b, escrow |-> e, uno |-> u]
  <2>1. b = [a \in Agents \cup {Contract} |-> IF a = Contract THEN ContractFunds ELSE 0]
    BY <1>0 DEF Holders, Credit
  <2> HIDE DEF b
  <2> QED BY <2>1, Zenon DEF BusInit, EscrowSlots
<1>2. /\ b0 \in [Holders -> Int] /\ b \in [Holders -> Int] /\ e \in [EscrowSlots -> Int]
      /\ u \in [Agents -> [total : Int, version : Int]]
  BY <1>0 DEF Credit
<1>3. SumFunction(b0) = 0 /\ SumFunction(e) = 0
  BY <1>0, SumZero, Zenon DEF SumFunction
<1>4. SumFunction(b) = 0 + ContractFunds
  <2>1. SumFunction(b) = SumFunction(b0) + ContractFunds
    <3> HIDE DEF b0
    <3> QED BY <1>0, <1>2, BalanceCredit, Zenon DEF Total
  <2> QED BY <1>3, <2>1, Zenon
<1> HIDE DEF b, e, u
<1>5. <<>> \in ReceiptMaps
  <2>1. <<>> \in [{} -> ReceiptRecords]
    OBVIOUS
  <2> QED BY <2>1, Zenon DEF ReceiptMaps
<1>6. st \in BusStates
  BY <1>1, <1>2, <1>5 DEF BusStates
<1>7. st.effects = {} /\ DOMAIN st.receipts = {} /\ st.moved = 0
  BY <1>1
<1>8. Value(st) = ContractFunds
  BY <1>0, <1>1, <1>3, <1>4 DEF Value, Total
<1>9. Accounted(st)
  <2>1. Amounts4({}) = [x \in {} |-> 0]
    BY Zenon DEF Amounts4
  <2>2. SumFunction([x \in {} |-> 0]) = 0
    BY FS_EmptySet, SumZero, Zenon DEF SumFunction
  <2>3. Total(Amounts4({})) = 0
    BY <2>1, <2>2, Zenon DEF Total
  <2> QED BY <1>7, <2>3, Zenon DEF Accounted
<1>10. IsFiniteSet(st.effects)
  BY <1>7, FS_EmptySet, Zenon
<1>11. Sound(st)
  BY <1>6, <1>7, <1>8, <1>9, <1>10, Zenon DEF Sound, Traced
<1> QED BY <1>11 DEF BusInit, BusInv, FinalizedKept

(* Every step keeps the invariant, and what a transaction commits keeps    *)
(* the finalized receipts.                                                 *)
LEMMA BusStep ==
    ASSUME BusInv, [BusNext]_busVars
    PROVE  BusInv' /\ (calls' = -1 => FinalizedKept(snap, st') \/ UNCHANGED busVars)
<1>1. CASE UNCHANGED busVars
  BY <1>1, Zenon DEF busVars, BusInv, Sound, Traced, Accounted, FinalizedKept
<1>2. CASE Begin
  BY <1>2, Zenon DEF Begin, BusInv, Sound, Traced, Accounted, FinalizedKept
<1>3. CASE Commit
  BY <1>3, Zenon DEF Commit, BusInv, Sound, Traced, Accounted, FinalizedKept
<1>4. CASE Revert
  BY <1>4, Zenon DEF Revert, BusInv, Sound, Traced, Accounted, FinalizedKept
<1>5. CASE BusBlock
  <2>1. time \in Int /\ time' = time + 1 /\ UNCHANGED <<st, snap, calls>>
    BY <1>5, Zenon DEF BusBlock, BusInv
  <2>2. ASSUME NEW s, Sound(s) PROVE Sound(s)'
    <3>1. \A r \in DOMAIN s.receipts : s.receipts[r].openedAt \in Int
      BY <2>2, StateFields, ReceiptType, Zenon DEF Sound, ReceiptRecords
    <3>2. Traced(s)'
      BY <2>1, <2>2, <3>1 DEF Sound, Traced
    <3> QED BY <2>2, <3>2, Zenon DEF Sound, Accounted
  <2> QED BY <2>1, <2>2 DEF BusInv, FinalizedKept
<1>6. ASSUME NEW r \in Receipts, NEW mode \in Modes, NEW a \in Agents, NEW n \in Amounts,
             NEW auto \in BOOLEAN,
             \/ settle(mode, a, n, r, auto) \/ settle_refund(mode, a, n, r, auto)
             \/ \E purpose \in Purposes : settle_escrow(mode, a, purpose, n, r, auto)
      PROVE  BusInv' /\ FinalizedKept(snap, st')
  BY <1>6, SettleStep, BusConstants, Zenon DEF settle, settle_refund, settle_escrow
<1> QED
  BY <1>1, <1>2, <1>3, <1>4, <1>5, <1>6, OpenStep, SuccessStep, FailureStep, EscrowStep,
     ReleaseStep, Zenon DEF BusNext, EscrowSlots

(* It is an invariant.                                                     *)
LEMMA BusInvariance == BusSpec => []BusInv
<1>1. BusInv /\ [BusNext]_busVars => BusInv'
  BY BusStep, Zenon
<1> QED BY <1>1, BusInitInv, PTL DEF BusSpec

\* Value is conserved whatever the contract does with errors.
THEOREM ValueIsConserved == BusSpec => []ValueConserved
<1>1. BusInv => ValueConserved
  BY Zenon DEF BusInv, Sound, Value, ValueConserved
<1> QED BY <1>1, BusInvariance, PTL

\* If errors unwind the frame, a settlement moves what it records.
THEOREM SettlementIsSound == ~CatchesErrors => (BusSpec => []SettlementSound)
<1> SUFFICES ASSUME ~CatchesErrors PROVE BusSpec => []SettlementSound
  BY Zenon
<1>1. BusInv => SettlementSound
  BY Zenon DEF BusInv, Sound, Value, Traced, Accounted, Amounts4, ValueConserved,
         MovedIsRecorded, SettlementTraceable, SettlementSound
<1> QED BY <1>1, BusInvariance, PTL

\* A finalized receipt is never written again.
THEOREM FinalizedStays == BusSpec => FinalizedIsFinal
<1>1. BusInv /\ [BusNext]_busVars => [calls' = -1 => FinalizedKept(snap, st')]_busVars
  BY BusStep, Zenon
<1>2. BusSpec => [][calls' = -1 => FinalizedKept(snap, st')]_busVars
  BY <1>1, BusInvariance, PTL DEF BusSpec
<1> QED BY <1>2, Zenon DEF FinalizedIsFinal

-----------------------------------------------------------------------------
(* Every record in use carries a counter that was handed out.              *)
Minted(records, count) ==
    /\ count \in Nat
    /\ IsFiniteSet(DOMAIN records)
    /\ Cardinality(DOMAIN records) = count
    /\ \A id \in DOMAIN records :
          \E a \in Callers, t \in TxHashes, n \in 0 .. count - 1 : id = <<a, t, n>>

CallbackInv == Minted(callbacks, callbackCount) /\ Minted(fulfillments, fulfillmentCount)

(* Nothing was minted at first.                                            *)
LEMMA MintedEmpty == Minted(<<>>, 0)
<1>1. DOMAIN <<>> = {}
  OBVIOUS
<1>2. IsFiniteSet({}) /\ Cardinality({}) = 0
  BY FS_EmptySet, Zenon
<1> QED BY <1>1, <1>2, Zenon DEF Minted

\* A record under the next counter is a new one.
LEMMA MintedPut ==
    ASSUME NEW records, NEW count, Minted(records, count),
           NEW a \in Callers, NEW t \in TxHashes, NEW rec
    PROVE  Minted(Put(records, <<a, t, count>>, rec), count + 1)
<1> DEFINE id == <<a, t, count>>
           ids == DOMAIN records
<1>1. count \in Nat /\ IsFiniteSet(ids) /\ Cardinality(ids) = count
  BY Zenon DEF Minted
<1>2. id \notin ids
  BY DEF Minted
<1>3. DOMAIN Put(records, id, rec) = ids \cup {id}
  BY Zenon DEF Put
<1>4. \A x \in ids \cup {id} :
         \E b \in Callers, u \in TxHashes, n \in 0 .. (count + 1) - 1 : x = <<b, u, n>>
  <2>1. count \in 0 .. (count + 1) - 1 /\ 0 .. count - 1 \subseteq 0 .. (count + 1) - 1
    BY <1>1
  <2> QED BY <2>1 DEF Minted
<1> HIDE DEF id, ids
<1>5. IsFiniteSet(ids \cup {id}) /\ Cardinality(ids \cup {id}) = count + 1
  BY <1>1, <1>2, FS_AddElement, Zenon
<1>6. Cardinality(DOMAIN Put(records, id, rec)) = Cardinality(ids \cup {id})
  BY <1>3, Zenon
<1>7. IsFiniteSet(DOMAIN Put(records, id, rec))
  BY <1>3, <1>5, Zenon
<1>8. count + 1 \in Nat
  BY <1>1
<1>9. Minted(Put(records, id, rec), count + 1)
  BY <1>3, <1>4, <1>5, <1>6, <1>7, <1>8, Zenon DEF Minted
<1> QED BY <1>9, Zenon DEF id

\* Only the record of a callback changes when it is executed.
LEMMA MintedSame ==
    ASSUME NEW records, NEW count, NEW changed, Minted(records, count),
           DOMAIN changed = DOMAIN records
    PROVE  Minted(changed, count)
<1>1. Cardinality(DOMAIN changed) = Cardinality(DOMAIN records)
  BY DOMAIN changed = DOMAIN records, Zenon
<1>2. IsFiniteSet(DOMAIN changed) <=> IsFiniteSet(DOMAIN records)
  BY DOMAIN changed = DOMAIN records, Zenon
<1> QED BY <1>1, <1>2, Zenon DEF Minted

(* Every handler keeps the invariant of the records.                       *)
LEMMA CallbackStep == CallbackInv /\ [CallbackNext]_callbackVars => CallbackInv'
<1> SUFFICES ASSUME CallbackInv, [CallbackNext]_callbackVars PROVE CallbackInv'
  BY Zenon
<1>1. CASE UNCHANGED <<callbacks, callbackCount, fulfillments, fulfillmentCount>>
  BY <1>1 DEF CallbackInv, Minted
<1>2. ASSUME NEW a \in Callers, NEW t \in TxHashes, NEW ttl \in TTLs,
             handleRegisterCallback(a, t, ttl)
      PROVE  CallbackInv'
  <2>1. CASE UNCHANGED <<callbacks, callbackCount, fulfillments, fulfillmentCount>>
    BY <1>1, <2>1, Zenon
  <2>2. CASE ~(ttl = 0 \/ ttl > MaxTTLBlocks)
    <3>1. PICK rec : /\ callbacks' = Put(callbacks, <<a, t, callbackCount>>, rec)
                     /\ callbackCount' = callbackCount + 1
                     /\ UNCHANGED <<fulfillments, fulfillmentCount>>
      BY <1>2, <2>2, Zenon DEF handleRegisterCallback, mintCallbackID
    <3>2. Minted(callbacks, callbackCount)
      BY Zenon DEF CallbackInv
    <3>3. Minted(Put(callbacks, <<a, t, callbackCount>>, rec), callbackCount + 1)
      BY <3>2, MintedPut, Zenon
    <3> QED BY <3>1, <3>3, Zenon DEF CallbackInv
  <2> QED BY <1>2, <2>1, <2>2, Zenon DEF handleRegisterCallback, ActionReverted
<1>3. ASSUME NEW a \in Callers, NEW id \in DOMAIN callbacks, handleExecuteCallback(a, id)
      PROVE  CallbackInv'
  <2>1. CASE UNCHANGED <<callbacks, callbackCount, fulfillments, fulfillmentCount>>
    BY <1>1, <2>1, Zenon
  <2>2. CASE /\ callbacks' = [callbacks EXCEPT ![id].status = "executed",
                                               ![id].executedAt = blockNumber]
             /\ UNCHANGED <<callbackCount, fulfillments, fulfillmentCount>>
    <3>1. DOMAIN callbacks' = DOMAIN callbacks
      BY <2>2, Zenon
    <3>2. Minted(callbacks, callbackCount)
      BY Zenon DEF CallbackInv
    <3>3. Minted(callbacks', callbackCount)
      BY <3>1, <3>2, MintedSame, Zenon
    <3> QED BY <2>2, <3>3, Zenon DEF CallbackInv
  <2> QED BY <1>3, <2>1, <2>2, Zenon DEF handleExecuteCallback, ActionReverted
<1>4. ASSUME NEW a \in Callers, NEW t \in TxHashes, handleFulfillAsync(a, t)
      PROVE  CallbackInv'
  <2>1. PICK rec : /\ fulfillments' = Put(fulfillments, <<a, t, fulfillmentCount>>, rec)
                   /\ fulfillmentCount' = fulfillmentCount + 1
                   /\ UNCHANGED <<callbacks, callbackCount>>
    BY <1>4, Zenon DEF handleFulfillAsync, mintFulfillmentID
  <2>2. Minted(fulfillments, fulfillmentCount)
    BY Zenon DEF CallbackInv
  <2>3. Minted(Put(fulfillments, <<a, t, fulfillmentCount>>, rec), fulfillmentCount + 1)
    BY <2>2, MintedPut, Zenon
  <2> QED BY <2>1, <2>3, Zenon DEF CallbackInv
<1> QED BY <1>1, <1>2, <1>3, <1>4, Zenon DEF CallbackNext, CallbackBlock, callbackVars

\* Every registration and fulfillment keeps a record of its own.
THEOREM RecordsStayDistinct == CallbackSpec => []RecordsDistinct
<1>1. CallbackInit => CallbackInv
  BY MintedEmpty, Zenon DEF CallbackInit, CallbackInv
<1>2. CallbackInv => RecordsDistinct
  BY Zenon DEF CallbackInv, Minted, RecordsDistinct
<1> QED BY <1>1, <1>2, CallbackStep, PTL DEF CallbackSpec

-----------------------------------------------------------------------------
WalletTypeOK ==
    /\ owner \in Accounts \cup {NoOne}
    /\ guardian \in Accounts \cup {NoOne}
    /\ suspended \in BOOLEAN
    /\ recovery \in [active : BOOLEAN, guardian : Accounts \cup {NoOne},
                     newOwner : Accounts \cup {NoOne}, initiatedAt : Nat]
    /\ height \in Nat
    /\ ownedSince \in Nat

(* The inductive invariant.  A wallet has a guardian, and so a recovery,   *)
(* only once it has an owner; the dates lie in the past; a recovery under  *)
(* way names an account and is no older than the ownership it threatens.   *)
WalletInv ==
    /\ WalletTypeOK
    /\ guardian # NoOne => owner # NoOne
    /\ recovery.active =>
          /\ owner # NoOne
          /\ recovery.newOwner # NoOne
          /\ recovery.initiatedAt <= height
    /\ ownedSince <= height
    /\ NoInheritedRecovery

(* The invariant of the wallet holds at first.                             *)
LEMMA WalletInitInv == WalletInit => WalletInv
<1> SUFFICES ASSUME WalletInit PROVE WalletInv
  BY Zenon
<1>1. WalletTypeOK
  BY Zenon DEF WalletInit, WalletTypeOK, NoRecovery
<1> QED BY <1>1 DEF WalletInit, WalletInv, NoRecovery, NoInheritedRecovery

(* What requireOwner lets through and does to the owner.                   *)
LEMMA OwnerKept ==
    ASSUME WalletInv, NEW from \in Accounts, requireOwner(from),
           recovery' \in {recovery, NoRecovery}, height' = height,
           guardian' \in Accounts \cup {guardian}, suspended' \in BOOLEAN
    PROVE  WalletInv'
<1>1. from # NoOne /\ owner' = from /\ ownedSince' \in {ownedSince, height}
  BY WalletAssumption, Zenon DEF requireOwner
<1>2. recovery.active => ownedSince' = ownedSince
  BY Zenon DEF requireOwner, WalletInv
<1>3. WalletTypeOK'
  <2>1. NoRecovery \in [active : BOOLEAN, guardian : Accounts \cup {NoOne},
                        newOwner : Accounts \cup {NoOne}, initiatedAt : Nat]
    BY Zenon DEF NoRecovery
  <2> QED BY <1>1, <2>1, Zenon DEF WalletInv, WalletTypeOK
<1>4. CASE recovery' = recovery
  BY <1>1, <1>2, <1>3, <1>4 DEF WalletInv, WalletTypeOK, NoInheritedRecovery
<1>5. CASE recovery' = NoRecovery
  BY <1>1, <1>3, <1>5 DEF WalletInv, WalletTypeOK, NoInheritedRecovery, NoRecovery
<1> QED BY <1>4, <1>5, Zenon

(* Every handler keeps it.                                                 *)
LEMMA WalletNextInv == WalletInv /\ [WalletNext]_walletVars => WalletInv'
<1> SUFFICES ASSUME WalletInv, [WalletNext]_walletVars PROVE WalletInv'
  BY Zenon
<1>1. CASE UNCHANGED walletVars
  BY <1>1, Zenon DEF walletVars, policy, WalletInv, WalletTypeOK, NoInheritedRecovery
<1>2. CASE WalletBlock
  BY <1>2 DEF WalletBlock, WalletInv, WalletTypeOK, NoInheritedRecovery
<1>3. ASSUME NEW from \in Accounts, handleSuspend(from) PROVE WalletInv'
  BY <1>3, Zenon DEF handleSuspend, WalletInv, WalletTypeOK, NoInheritedRecovery
<1>4. ASSUME NEW from \in Accounts, handleUnsuspend(from) PROVE WalletInv'
  <2>1. requireOwner(from) /\ UNCHANGED <<guardian, recovery, height>> /\ suspended' = FALSE
    BY <1>4, Zenon DEF handleUnsuspend
  <2> QED BY <2>1, OwnerKept, Zenon DEF WalletInv, WalletTypeOK
<1>5. ASSUME NEW from \in Accounts, handleCancelRecovery(from) PROVE WalletInv'
  <2>1. requireOwner(from) /\ UNCHANGED <<guardian, suspended, height>> /\ recovery' = NoRecovery
    BY <1>5, Zenon DEF handleCancelRecovery
  <2> QED BY <2>1, OwnerKept, Zenon DEF WalletInv, WalletTypeOK
<1>6. ASSUME NEW from \in Accounts, handleCompleteRecovery(from) PROVE WalletInv'
  <2>1. /\ owner' = recovery.newOwner /\ owner' # NoOne /\ ownedSince' = height
        /\ recovery' = NoRecovery
        /\ UNCHANGED <<guardian, suspended, height>>
    BY <1>6, Zenon DEF handleCompleteRecovery, Cleared, WalletInv
  <2>2. WalletTypeOK'
    BY <2>1, Zenon DEF WalletInv, WalletTypeOK, NoRecovery
  <2> QED BY <2>1, <2>2 DEF WalletInv, WalletTypeOK, NoRecovery, NoInheritedRecovery
<1>7. ASSUME NEW from \in Accounts, NEW a \in Accounts, handleInitiateRecovery(from, a)
      PROVE  WalletInv'
  <2>1. /\ guardian # NoOne /\ a # NoOne
        /\ recovery' = [active |-> TRUE, guardian |-> guardian, newOwner |-> a,
                        initiatedAt |-> height]
        /\ UNCHANGED <<owner, guardian, suspended, height, ownedSince>>
    BY <1>7, WalletAssumption, Zenon DEF handleInitiateRecovery
  <2>2. WalletTypeOK'
    BY <2>1, Zenon DEF WalletInv, WalletTypeOK
  <2> QED BY <2>1, <2>2 DEF WalletInv, WalletTypeOK, NoInheritedRecovery
<1>8. ASSUME NEW from \in Accounts, Configure(from), guardian' \in Accounts \cup {guardian}
      PROVE  WalletInv'
  <2>1. requireOwner(from) /\ UNCHANGED <<suspended, recovery, height>>
    BY <1>8, Zenon DEF Configure
  <2> QED BY <1>8, <2>1, OwnerKept, Zenon DEF WalletInv, WalletTypeOK
<1>9. ASSUME NEW from \in Accounts, NEW a \in Accounts, handleRevokeDelegate(from, a)
      PROVE  WalletInv'
  <2>1. requireOwner(from) /\ UNCHANGED <<guardian, suspended, recovery, height>>
    BY <1>9, Zenon DEF handleRevokeDelegate
  <2> QED BY <2>1, OwnerKept, Zenon DEF WalletInv, WalletTypeOK
<1>10. ASSUME NEW from \in Accounts, NEW n \in Limits,
              \/ handleSetSpendCaps(from, n)
              \/ \E t \in Tiers : handleSetTerminalPolicy(from, n, t)
              \/ \E a \in Accounts : handleAuthorizeDelegate(from, a, n)
       PROVE  WalletInv'
  BY <1>8, <1>10, Zenon DEF handleSetSpendCaps, handleSetTerminalPolicy, handleAuthorizeDelegate
<1>11. ASSUME NEW from \in Accounts, NEW a \in Accounts,
              \/ \E allowed \in BOOLEAN : handleSetAllowlist(from, a, allowed)
              \/ handleSetGuardian(from, a)
       PROVE  WalletInv'
  BY <1>8, <1>11, Zenon DEF handleSetAllowlist, handleSetGuardian
<1>12. ASSUME NEW from \in Accounts, NEW k \in Keys, handleSetAuditorKey(from, k)
       PROVE  WalletInv'
  BY <1>8, <1>12, Zenon DEF handleSetAuditorKey
<1> QED BY <1>1, <1>2, <1>3, <1>4, <1>5, <1>6, <1>7, <1>9, <1>10, <1>11, <1>12, Zenon
        DEF WalletNext, WalletReverted

(* It is an invariant.                                                     *)
LEMMA WalletInvariance == WalletSpec => []WalletInv
  BY WalletInitInv, WalletNextInv, PTL DEF WalletSpec

(* No owner inherits a recovery: one that is under way was initiated no    *)
(* earlier than the present owner became the owner                         *)
(* (handleCompleteRecovery clears the record, requireOwner's first caller  *)
(* comes before any guardian).                                             *)
THEOREM RecoveryIsNotInherited == WalletSpec => []NoInheritedRecovery
<1>1. WalletInv => NoInheritedRecovery
  BY Zenon DEF WalletInv
<1> QED BY <1>1, WalletInvariance, PTL

(* A set owner changes by handleCompleteRecovery only.                     *)
LEMMA OwnerStep ==
    ASSUME WalletInv, [WalletNext]_walletVars, owner # NoOne, owner' # owner
    PROVE  \E from \in Accounts : handleCompleteRecovery(from)
<1>1. ASSUME NEW from \in Accounts, requireOwner(from) PROVE FALSE
  BY <1>1, Zenon DEF requireOwner
<1>2. owner' = owner \/ (\E from \in Accounts : handleCompleteRecovery(from))
                     \/ (\E from \in Accounts : requireOwner(from))
  BY Zenon DEF WalletNext, walletVars, WalletReverted, WalletBlock, Configure, handleSuspend,
         handleUnsuspend, handleCancelRecovery, handleSetSpendCaps, handleSetTerminalPolicy,
         handleAuthorizeDelegate, handleSetAllowlist, handleRevokeDelegate, handleSetGuardian,
         handleInitiateRecovery, handleSetAuditorKey
<1> QED BY <1>1, <1>2, Zenon

(* The new owner waited for the whole timelock.                            *)
LEMMA TimelockStep == WalletInv /\ [WalletNext]_walletVars => OwnerHadTheTimelock
<1> SUFFICES ASSUME WalletInv, [WalletNext]_walletVars, owner # NoOne, owner' # owner
             PROVE  /\ recovery.active /\ owner' = recovery.newOwner
                    /\ height - recovery.initiatedAt >= RecoveryTimelockBlocks
                    /\ height - ownedSince >= RecoveryTimelockBlocks
  BY Zenon DEF OwnerHadTheTimelock
<1>1. PICK from \in Accounts : handleCompleteRecovery(from)
  BY OwnerStep, Zenon
<1>2. /\ recovery.active /\ owner' = recovery.newOwner
      /\ height >= recovery.initiatedAt + RecoveryTimelockBlocks
  BY <1>1, Zenon DEF handleCompleteRecovery, TimelockElapsed
<1>3. recovery.initiatedAt >= ownedSince
  BY <1>2, Zenon DEF WalletInv, NoInheritedRecovery
<1> QED BY <1>2, <1>3, WalletAssumption DEF WalletInv, WalletTypeOK

(* A suspended wallet keeps its policy.                                    *)
LEMMA SuspensionStep == WalletInv /\ [WalletNext]_walletVars => SuspendedIsFrozen
<1> SUFFICES ASSUME WalletInv, [WalletNext]_walletVars, suspended
             PROVE  /\ UNCHANGED <<guardian, spendCap, allowlist, terminal, auditorKey>>
                       \/ ~suspended'
                    /\ delegates' \subseteq delegates
  BY Zenon DEF SuspendedIsFrozen
<1>1. ASSUME NEW from \in Accounts, Configure(from) PROVE FALSE
  BY <1>1, Zenon DEF Configure, requireNotSuspended
<1>2. CASE UNCHANGED walletVars
  BY <1>2, Zenon DEF walletVars, policy
<1>3. CASE WalletBlock
  BY <1>3, Zenon DEF WalletBlock, policy
<1>4. ASSUME NEW from \in Accounts,
             \/ handleSuspend(from) \/ handleUnsuspend(from)
             \/ handleCancelRecovery(from) \/ handleCompleteRecovery(from)
      PROVE  UNCHANGED <<guardian, policy>>
  BY <1>4, Zenon DEF handleSuspend, handleUnsuspend, handleCancelRecovery, handleCompleteRecovery
<1>5. ASSUME NEW from \in Accounts, NEW a \in Accounts,
             handleInitiateRecovery(from, a) \/ handleRevokeDelegate(from, a)
      PROVE  /\ UNCHANGED <<guardian, spendCap, allowlist, terminal, auditorKey>>
             /\ delegates' \subseteq delegates
  BY <1>5, Zenon DEF handleInitiateRecovery, handleRevokeDelegate, policy
<1>6. ASSUME NEW from \in Accounts,
             \/ \E n \in Limits : \/ handleSetSpendCaps(from, n)
                                  \/ \E t \in Tiers : handleSetTerminalPolicy(from, n, t)
                                  \/ \E a \in Accounts : handleAuthorizeDelegate(from, a, n)
             \/ \E a \in Accounts : \/ \E allowed \in BOOLEAN : handleSetAllowlist(from, a, allowed)
                                    \/ handleSetGuardian(from, a)
             \/ \E k \in Keys : handleSetAuditorKey(from, k)
      PROVE  FALSE
  BY <1>1, <1>6, Zenon DEF handleSetSpendCaps, handleSetTerminalPolicy, handleAuthorizeDelegate,
                    handleSetAllowlist, handleSetGuardian, handleSetAuditorKey
<1> QED BY <1>2, <1>3, <1>4, <1>5, <1>6, Zenon DEF WalletNext, WalletReverted, policy

(* Ownership leaves an account only by a recovery that the owner could     *)
(* have cancelled during the whole timelock (handleCompleteRecovery), and  *)
(* a suspended wallet keeps its policy (requireNotSuspended).              *)
THEOREM WalletIsGuarded == WalletSpec => WalletGuarded
<1>1. WalletInv /\ [WalletNext]_walletVars => OwnerHadTheTimelock /\ SuspendedIsFrozen
  BY TimelockStep, SuspensionStep, Zenon
<1>2. WalletSpec => [][OwnerHadTheTimelock /\ SuspendedIsFrozen]_walletVars
  BY <1>1, WalletInvariance, PTL DEF WalletSpec
<1> QED BY <1>2, Zenon DEF WalletGuarded

-----------------------------------------------------------------------------

TaskIds == Schedulers \X Nat \X Nat

TaskRecords ==
    [scheduler : Schedulers, gasLimit : GasLimits, nextBlock : 1 .. Uint64Max,
     interval : Intervals, maxRuns : RunLimits, runs : Nat,
     status : {TaskPending, TaskDone, TaskCancelled, TaskExpired}]

TaskTables == UNION {[D -> TaskRecords] : D \in {E \in SUBSET TaskIds : IsFiniteSet(E)}}

(* A table of tasks has finitely many records.                             *)
LEMMA TableFacts ==
    ASSUME NEW ts \in TaskTables
    PROVE  /\ DOMAIN ts \subseteq TaskIds /\ IsFiniteSet(DOMAIN ts)
           /\ ts \in [DOMAIN ts -> TaskRecords]
           /\ \A id \in DOMAIN ts : ts[id] \in TaskRecords
  BY Zenon DEF TaskTables

(* The fields of a record in a table.                                      *)
LEMMA RecordFacts ==
    ASSUME NEW ts \in TaskTables, NEW id \in DOMAIN ts
    PROVE  /\ ts[id] \in TaskRecords /\ ts[id].scheduler \in Schedulers
           /\ ts[id].gasLimit \in GasLimits /\ ts[id].gasLimit \in 1 .. TaskMaxGasLimit
           /\ ts[id].gasLimit \in Nat /\ ts[id].nextBlock \in 1 .. Uint64Max
           /\ ts[id].interval \in Nat
<1>1. ts[id] \in TaskRecords
  BY TableFacts, Zenon
<1>2. /\ ts[id].scheduler \in Schedulers /\ ts[id].gasLimit \in GasLimits
      /\ ts[id].nextBlock \in 1 .. Uint64Max /\ ts[id].interval \in Intervals
  BY <1>1, Zenon DEF TaskRecords
<1>3. GasLimits \subseteq 1 .. TaskMaxGasLimit /\ Intervals \subseteq Nat /\ 1 .. TaskMaxGasLimit \subseteq Nat
  BY TaskAssumption
<1> QED BY <1>1, <1>2, <1>3, Zenon

(* Any finite set of records is a table.                                   *)
LEMMA MakeTable ==
    ASSUME NEW D \in SUBSET TaskIds, IsFiniteSet(D), NEW ts \in [D -> TaskRecords]
    PROVE  ts \in TaskTables
  BY Zenon DEF TaskTables

(* Writing a record gives a table.                                         *)
LEMMA WrittenTable ==
    ASSUME NEW ts \in TaskTables, NEW id \in TaskIds, NEW rec \in TaskRecords
    PROVE  /\ WriteTask(ts, id, rec) \in TaskTables
           /\ DOMAIN WriteTask(ts, id, rec) = DOMAIN ts \cup {id}
           /\ WriteTask(ts, id, rec)[id] = rec
           /\ \A x \in DOMAIN ts \ {id} : WriteTask(ts, id, rec)[x] = ts[x]
<1> DEFINE D == DOMAIN ts \cup {id}
<1>1. D \in SUBSET TaskIds /\ IsFiniteSet(D)
  BY TableFacts, FS_AddElement, Zenon
<1>2. WriteTask(ts, id, rec) \in [D -> TaskRecords]
  BY TableFacts, Zenon DEF WriteTask
<1>3. WriteTask(ts, id, rec) \in TaskTables
  <2> HIDE DEF D
  <2> QED BY <1>1, <1>2, MakeTable, Zenon
<1> QED BY <1>3, Zenon DEF WriteTask

(* Writing a record again leaves the other records alone.                  *)
LEMMA Rewritten ==
    ASSUME NEW ts \in TaskTables, NEW id \in DOMAIN ts, NEW rec \in TaskRecords,
           NEW us, us = WriteTask(ts, id, rec)
    PROVE  /\ us \in TaskTables /\ DOMAIN us = DOMAIN ts /\ us[id] = rec
           /\ \A x \in DOMAIN ts \ {id} : us[x] = ts[x]
<1>1. id \in TaskIds
  BY TableFacts, Zenon
<1>2. us \in TaskTables
  BY <1>1, WrittenTable, Zenon
<1> QED BY <1>2, Zenon DEF WriteTask

(* Cancelling gives a table with the same tasks.                           *)
LEMMA CancelledTable ==
    ASSUME NEW ts \in TaskTables, NEW ids
    PROVE  /\ CancelAll(ts, ids) \in TaskTables
           /\ DOMAIN CancelAll(ts, ids) = DOMAIN ts
           /\ \A x \in DOMAIN ts \cap ids :
                 CancelAll(ts, ids)[x] = [ts[x] EXCEPT !.status = TaskCancelled]
           /\ \A x \in DOMAIN ts \ ids : CancelAll(ts, ids)[x] = ts[x]
<1>1. \A x \in DOMAIN ts : [ts[x] EXCEPT !.status = TaskCancelled] \in TaskRecords
  BY TableFacts DEF TaskRecords
<1>2. CancelAll(ts, ids) \in [DOMAIN ts -> TaskRecords]
  BY <1>1, TableFacts, Zenon DEF CancelAll
<1>3. CancelAll(ts, ids) \in TaskTables
  BY <1>2, TableFacts, MakeTable, Zenon
<1> QED BY <1>3, Zenon DEF CancelAll

-----------------------------------------------------------------------------
(* The queues of a state, as values: block n is being processed, d is left *)
(* of its entries and q holds those of the later blocks.                   *)
LineAt(n, d, q, k) == IF k = n THEN d ELSE q[k]

Queues(n, d, q) ==
    /\ n \in 1 .. LastTaskBlock
    /\ d \in Seq(TaskIds)
    /\ q \in [1 .. Uint64Max -> Seq(TaskIds)]

(* Task id has one entry, for block b.                                     *)
Once(n, d, q, id, b) ==
    /\ b >= n
    /\ \E i \in DOMAIN LineAt(n, d, q, b) :
          /\ LineAt(n, d, q, b)[i] = id
          /\ \A k \in n .. Uint64Max :
                \A j \in DOMAIN LineAt(n, d, q, k) :
                    LineAt(n, d, q, k)[j] = id => k = b /\ j = i

Absent(n, d, q, id) ==
    \A k \in n .. Uint64Max :
        \A j \in DOMAIN LineAt(n, d, q, k) : LineAt(n, d, q, k)[j] # id

KnownIn(n, d, q, D) ==
    \A k \in n .. Uint64Max :
        \A j \in DOMAIN LineAt(n, d, q, k) : LineAt(n, d, q, k)[j] \in D

(* A list without its first entry.                                         *)
LEMMA TailFacts ==
    ASSUME NEW d \in Seq(TaskIds), d # <<>>
    PROVE  /\ Len(d) \in Nat /\ Len(d) > 0 /\ DOMAIN d = 1 .. Len(d) /\ d[1] \in TaskIds
           /\ Tail(d) \in Seq(TaskIds) /\ DOMAIN Tail(d) = 1 .. Len(d) - 1
           /\ \A j \in 1 .. Len(d) - 1 : Tail(d)[j] = d[j + 1]
  OBVIOUS

(* Taking another entry off the list of due tasks leaves a queued task     *)
(* queued once.                                                            *)
LEMMA OnceTail ==
    ASSUME NEW n, NEW d, NEW q, Queues(n, d, q), NEW id, NEW b, b \in 1 .. Uint64Max,
           d # <<>>, d[1] # id, Once(n, d, q, id, b)
    PROVE  Once(n, Tail(d), q, id, b)
<1>1. PICK i \in DOMAIN LineAt(n, d, q, b) :
          /\ b >= n
          /\ LineAt(n, d, q, b)[i] = id
          /\ \A k \in n .. Uint64Max :
                \A j \in DOMAIN LineAt(n, d, q, k) :
                    LineAt(n, d, q, k)[j] = id => k = b /\ j = i
  BY Zenon DEF Once
<1>2. \A k : k # n => LineAt(n, Tail(d), q, k) = LineAt(n, d, q, k)
  BY Zenon DEF LineAt
<1>3. LineAt(n, d, q, n) = d /\ LineAt(n, Tail(d), q, n) = Tail(d)
  BY Zenon DEF LineAt
<1>4. n \in n .. Uint64Max /\ n \in Nat /\ d \in Seq(TaskIds)
  BY TaskAssumption DEF Queues
<1>5. /\ Len(d) \in Nat /\ Len(d) > 0 /\ DOMAIN d = 1 .. Len(d)
      /\ Tail(d) \in Seq(TaskIds) /\ DOMAIN Tail(d) = 1 .. Len(d) - 1
      /\ \A j \in 1 .. Len(d) - 1 : Tail(d)[j] = d[j + 1]
  BY <1>4, TailFacts, Zenon
<1>6. ASSUME NEW k \in n .. Uint64Max, NEW j \in DOMAIN LineAt(n, Tail(d), q, k),
             LineAt(n, Tail(d), q, k)[j] = id
      PROVE  k = b /\ j = IF b = n THEN i - 1 ELSE i
  <2>1. CASE k = n
    <3>1. j \in 1 .. Len(d) - 1 /\ d[j + 1] = id /\ j + 1 \in DOMAIN LineAt(n, d, q, n)
      BY <1>6, <2>1, <1>3, <1>5
    <3>2. n = b /\ j + 1 = i
      BY <3>1, <1>1, <1>3, <1>4, Zenon
    <3> QED BY <3>1, <3>2, <2>1
  <2>2. CASE k # n
    BY <2>2, <1>6, <1>1, <1>2, Zenon
  <2> QED BY <2>1, <2>2, Zenon
<1>7. CASE b = n
  <2>1. i \in 2 .. Len(d)
    BY <1>1, <1>3, <1>5, <1>7
  <2>2. i - 1 \in DOMAIN LineAt(n, Tail(d), q, b) /\ LineAt(n, Tail(d), q, b)[i - 1] = id
    BY <1>1, <1>3, <1>5, <1>7, <2>1
  <2> QED BY <1>1, <1>6, <1>7, <2>2, Zenon DEF Once
<1>8. CASE b # n
  <2>1. LineAt(n, Tail(d), q, b) = LineAt(n, d, q, b)
    BY <1>2, <1>8, Zenon
  <2> QED BY <1>1, <1>6, <1>8, <2>1 DEF Once
<1> QED BY <1>7, <1>8, Zenon

(* A task whose only entry is taken off is in no list.                     *)
LEMMA AbsentTail ==
    ASSUME NEW n, NEW d, NEW q, Queues(n, d, q), NEW id, d # <<>>, d[1] = id,
           NEW b, Once(n, d, q, id, b)
    PROVE  b = n /\ Absent(n, Tail(d), q, id)
<1>1. PICK i \in DOMAIN LineAt(n, d, q, b) :
          \A k \in n .. Uint64Max :
                \A j \in DOMAIN LineAt(n, d, q, k) :
                    LineAt(n, d, q, k)[j] = id => k = b /\ j = i
  BY Zenon DEF Once
<1>2. \A k : k # n => LineAt(n, Tail(d), q, k) = LineAt(n, d, q, k)
  BY Zenon DEF LineAt
<1>3. LineAt(n, d, q, n) = d /\ LineAt(n, Tail(d), q, n) = Tail(d)
  BY Zenon DEF LineAt
<1>4. n \in n .. Uint64Max /\ n \in Nat /\ d \in Seq(TaskIds)
  BY TaskAssumption DEF Queues
<1>5. /\ Len(d) \in Nat /\ Len(d) > 0 /\ DOMAIN d = 1 .. Len(d)
      /\ Tail(d) \in Seq(TaskIds) /\ DOMAIN Tail(d) = 1 .. Len(d) - 1
      /\ \A j \in 1 .. Len(d) - 1 : Tail(d)[j] = d[j + 1]
  BY <1>4, TailFacts, Zenon
<1>6. n = b /\ 1 = i
  BY <1>1, <1>3, <1>4, <1>5
<1>7. ASSUME NEW k \in n .. Uint64Max, NEW j \in DOMAIN LineAt(n, Tail(d), q, k),
             LineAt(n, Tail(d), q, k)[j] = id
      PROVE  FALSE
  <2>1. CASE k = n
    <3>1. j \in 1 .. Len(d) - 1 /\ d[j + 1] = id /\ j + 1 \in DOMAIN LineAt(n, d, q, n)
      BY <1>7, <2>1, <1>3, <1>5
    <3>2. j + 1 = i
      BY <3>1, <1>1, <1>3, <1>4, Zenon
    <3> QED BY <3>1, <3>2, <1>6
  <2>2. CASE k # n
    BY <2>2, <1>7, <1>1, <1>2, <1>6, Zenon
  <2> QED BY <2>1, <2>2, Zenon
<1> QED BY <1>6, <1>7, Zenon DEF Absent

(* Appending changes one list, by one entry at its end.                    *)
LEMMA LineAppend ==
    ASSUME NEW n, NEW d, NEW q, Queues(n, d, q), NEW id \in TaskIds, NEW t \in n + 1 .. Uint64Max
    PROVE  /\ \A k \in n .. Uint64Max : k # t => LineAt(n, d, EnqueueTask(q, t, id), k) = LineAt(n, d, q, k)
           /\ LineAt(n, d, q, t) \in Seq(TaskIds)
           /\ LineAt(n, d, EnqueueTask(q, t, id), t) = Append(LineAt(n, d, q, t), id)
           /\ EnqueueTask(q, t, id) \in [1 .. Uint64Max -> Seq(TaskIds)]
           /\ t \in n .. Uint64Max
<1>1. t \in 1 .. Uint64Max /\ t # n /\ t \in n .. Uint64Max
  BY TaskAssumption DEF Queues
<1>2. q \in [1 .. Uint64Max -> Seq(TaskIds)]
  BY Zenon DEF Queues
<1>3. Append(q[t], id) \in Seq(TaskIds) /\ q[t] \in Seq(TaskIds)
  BY <1>1, <1>2
<1>4. EnqueueTask(q, t, id) \in [1 .. Uint64Max -> Seq(TaskIds)]
  BY <1>1, <1>2, <1>3, Zenon DEF EnqueueTask
<1>5. EnqueueTask(q, t, id)[t] = Append(q[t], id)
  BY <1>1, <1>2, Zenon DEF EnqueueTask
<1>6. \A k \in n .. Uint64Max : k # t => EnqueueTask(q, t, id)[k] = q[k]
  BY <1>1, <1>2, TaskAssumption DEF EnqueueTask, Queues
<1> QED BY <1>1, <1>3, <1>4, <1>5, <1>6, Zenon DEF LineAt

(* Appending another task leaves a queued task queued once.                *)
LEMMA OnceAppend ==
    ASSUME NEW n, NEW d, NEW q, Queues(n, d, q), NEW id \in TaskIds, NEW t \in n + 1 .. Uint64Max,
           NEW x, NEW b \in 1 .. Uint64Max, x # id, Once(n, d, q, x, b)
    PROVE  Once(n, d, EnqueueTask(q, t, id), x, b)
<1> DEFINE r == EnqueueTask(q, t, id)
<1>1. PICK i \in DOMAIN LineAt(n, d, q, b) :
          /\ b >= n
          /\ LineAt(n, d, q, b)[i] = x
          /\ \A k \in n .. Uint64Max :
                \A j \in DOMAIN LineAt(n, d, q, k) :
                    LineAt(n, d, q, k)[j] = x => k = b /\ j = i
  BY Zenon DEF Once
<1>2. /\ \A k \in n .. Uint64Max : k # t => LineAt(n, d, r, k) = LineAt(n, d, q, k)
      /\ LineAt(n, d, q, t) \in Seq(TaskIds)
      /\ LineAt(n, d, r, t) = Append(LineAt(n, d, q, t), id)
      /\ t \in n .. Uint64Max
  BY LineAppend
<1>3. b \in n .. Uint64Max
  BY <1>1, TaskAssumption DEF Queues
<1> HIDE DEF r
<1>4. i \in DOMAIN LineAt(n, d, r, b) /\ LineAt(n, d, r, b)[i] = x
  <2>1. CASE b = t
    BY <2>1, <1>1, <1>2
  <2>2. CASE b # t
    BY <2>2, <1>1, <1>2, <1>3, Zenon
  <2> QED BY <2>1, <2>2, Zenon
<1>5. ASSUME NEW k \in n .. Uint64Max, NEW j \in DOMAIN LineAt(n, d, r, k), LineAt(n, d, r, k)[j] = x
      PROVE  k = b /\ j = i
  <2>1. CASE k = t
    <3>1. j \in DOMAIN LineAt(n, d, q, t) /\ LineAt(n, d, q, t)[j] = x
      BY <1>2, <1>5, <2>1
    <3> QED BY <3>1, <2>1, <1>1, Zenon
  <2>2. CASE k # t
    BY <2>2, <1>1, <1>2, <1>5, Zenon
  <2> QED BY <2>1, <2>2, Zenon
<1>6. Once(n, d, r, x, b)
  BY <1>1, <1>4, <1>5, Zenon DEF Once
<1> QED BY <1>6, Zenon DEF r

(* A task in no list that is appended is queued once.                      *)
LEMMA OnceNew ==
    ASSUME NEW n, NEW d, NEW q, Queues(n, d, q), NEW id \in TaskIds, NEW t \in n + 1 .. Uint64Max,
           Absent(n, d, q, id)
    PROVE  Once(n, d, EnqueueTask(q, t, id), id, t)
<1> DEFINE r == EnqueueTask(q, t, id)
<1>2. /\ \A k \in n .. Uint64Max : k # t => LineAt(n, d, r, k) = LineAt(n, d, q, k)
      /\ LineAt(n, d, q, t) \in Seq(TaskIds)
      /\ LineAt(n, d, r, t) = Append(LineAt(n, d, q, t), id)
      /\ t \in n .. Uint64Max
  BY LineAppend
<1>3. t >= n
  BY TaskAssumption DEF Queues
<1> HIDE DEF r
<1> DEFINE i == Len(LineAt(n, d, q, t)) + 1
<1>4. i \in DOMAIN LineAt(n, d, r, t) /\ LineAt(n, d, r, t)[i] = id
  BY <1>2
<1>5. ASSUME NEW k \in n .. Uint64Max, NEW j \in DOMAIN LineAt(n, d, r, k), LineAt(n, d, r, k)[j] = id
      PROVE  k = t /\ j = i
  <2>1. CASE k = t
    <3>1. j \in DOMAIN LineAt(n, d, q, t) => LineAt(n, d, q, t)[j] # id
      BY <1>2, Zenon DEF Absent
    <3>2. j \notin DOMAIN LineAt(n, d, q, t) => j = i
      BY <1>2, <1>5, <2>1
    <3>3. j \in DOMAIN LineAt(n, d, q, t) => LineAt(n, d, q, t)[j] = id
      BY <1>2, <1>5, <2>1
    <3> QED BY <3>1, <3>2, <3>3, <2>1, Zenon
  <2>2. CASE k # t
    BY <2>2, <1>2, <1>5, Zenon DEF Absent
  <2> QED BY <2>1, <2>2, Zenon
<1>6. Once(n, d, r, id, t)
  BY <1>3, <1>4, <1>5, Zenon DEF Once
<1> QED BY <1>6, Zenon DEF r

(* After taking an entry off, the lists hold known tasks.                  *)
LEMMA KnownTail ==
    ASSUME NEW n, NEW d, NEW q, Queues(n, d, q), NEW D, KnownIn(n, d, q, D), d # <<>>
    PROVE  KnownIn(n, Tail(d), q, D) /\ Queues(n, Tail(d), q) /\ d[1] \in D
<1>1. n \in n .. Uint64Max /\ d \in Seq(TaskIds)
  BY TaskAssumption DEF Queues
<1>2. /\ Len(d) \in Nat /\ Len(d) > 0 /\ DOMAIN d = 1 .. Len(d)
      /\ Tail(d) \in Seq(TaskIds) /\ DOMAIN Tail(d) = 1 .. Len(d) - 1
      /\ \A j \in 1 .. Len(d) - 1 : Tail(d)[j] = d[j + 1]
  BY <1>1, TailFacts, Zenon
<1>3. \A j \in DOMAIN d : d[j] \in D
  BY <1>1, Zenon DEF KnownIn, LineAt
<1>4. \A j \in DOMAIN Tail(d) : Tail(d)[j] \in D
  BY <1>2, <1>3
<1>5. KnownIn(n, Tail(d), q, D)
  BY <1>4, Zenon DEF KnownIn, LineAt
<1> QED BY <1>2, <1>3, <1>5 DEF Queues

(* After appending a known task, the lists hold known tasks.               *)
LEMMA KnownAppend ==
    ASSUME NEW n, NEW d, NEW q, Queues(n, d, q), NEW id \in TaskIds, NEW t \in n + 1 .. Uint64Max,
           NEW D, id \in D, KnownIn(n, d, q, D)
    PROVE  KnownIn(n, d, EnqueueTask(q, t, id), D) /\ Queues(n, d, EnqueueTask(q, t, id))
<1> DEFINE r == EnqueueTask(q, t, id)
<1>2. /\ \A k \in n .. Uint64Max : k # t => LineAt(n, d, r, k) = LineAt(n, d, q, k)
      /\ LineAt(n, d, q, t) \in Seq(TaskIds)
      /\ LineAt(n, d, r, t) = Append(LineAt(n, d, q, t), id)
      /\ t \in n .. Uint64Max /\ r \in [1 .. Uint64Max -> Seq(TaskIds)]
  BY LineAppend
<1> HIDE DEF r
<1>3. \A j \in DOMAIN LineAt(n, d, q, t) : LineAt(n, d, q, t)[j] \in D
  BY <1>2, Zenon DEF KnownIn
<1>4. \A j \in DOMAIN LineAt(n, d, r, t) : LineAt(n, d, r, t)[j] \in D
  BY <1>2, <1>3
<1>5. KnownIn(n, d, r, D) /\ Queues(n, d, r)
  BY <1>2, <1>4, Zenon DEF KnownIn, Queues
<1> QED BY <1>5, Zenon DEF r

-----------------------------------------------------------------------------
(* The pending tasks of a table, the deposits they stand for, and those of *)
(* one contract.                                                           *)
Pend(ts)       == {id \in DOMAIN ts : ts[id].status = TaskPending}
Holds(ts)      == [id \in DOMAIN ts |-> ts[id].gasLimit]
Owed(ts)       == SumFunctionOnSet(Holds(ts), Pend(ts))
PendOf(ts, c)  == {id \in Pend(ts) : ts[id].scheduler = c}
Counted(ts, c) == Cardinality(PendOf(ts, c))

(* Pending tasks are finitely many tasks of the table.                     *)
LEMMA PendFacts ==
    ASSUME NEW ts \in TaskTables
    PROVE  /\ IsFiniteSet(Pend(ts)) /\ Pend(ts) \subseteq DOMAIN ts
           /\ \A x \in DOMAIN ts : Holds(ts)[x] = ts[x].gasLimit /\ Holds(ts)[x] \in Nat
                                   /\ Holds(ts)[x] \in GasLimits
           /\ \A c : IsFiniteSet(PendOf(ts, c)) /\ PendOf(ts, c) \subseteq DOMAIN ts
<1>1. IsFiniteSet(DOMAIN ts) /\ \A id \in DOMAIN ts : ts[id] \in TaskRecords
  BY TableFacts, Zenon
<1>2. Pend(ts) \subseteq DOMAIN ts /\ \A c : PendOf(ts, c) \subseteq DOMAIN ts
  BY Zenon DEF Pend, PendOf
<1>3. IsFiniteSet(Pend(ts)) /\ \A c : IsFiniteSet(PendOf(ts, c))
  BY <1>1, <1>2, FS_Subset, Zenon
<1>4. \A x \in DOMAIN ts : ts[x].gasLimit \in GasLimits
  BY <1>1, Zenon DEF TaskRecords
<1>5. GasLimits \subseteq Nat
  BY TaskAssumption
<1> QED BY <1>2, <1>3, <1>4, <1>5, Zenon DEF Holds

(* The deposits of the pending tasks add up to a number.                   *)
LEMMA OwedType ==
    ASSUME NEW ts \in TaskTables
    PROVE  Owed(ts) \in Nat
  BY PendFacts, SumNat, Zenon DEF Owed

(* A new task adds its deposit.                                            *)
LEMMA OwedNew ==
    ASSUME NEW ts \in TaskTables, NEW id \in TaskIds, NEW rec \in TaskRecords,
           id \notin DOMAIN ts, rec.status = TaskPending
    PROVE  Owed(WriteTask(ts, id, rec)) = Owed(ts) + rec.gasLimit
<1> DEFINE us == WriteTask(ts, id, rec)
<1>a. us \in TaskTables
  BY WrittenTable, Zenon
<1>b. DOMAIN us = DOMAIN ts \cup {id} /\ us[id] = rec
  BY Zenon DEF WriteTask
<1>c. \A x \in DOMAIN ts \ {id} : us[x] = ts[x]
  BY Zenon DEF WriteTask
<1>1. /\ us \in TaskTables /\ DOMAIN us = DOMAIN ts \cup {id} /\ us[id] = rec
      /\ \A x \in DOMAIN ts \ {id} : us[x] = ts[x]
  BY <1>a, <1>b, <1>c, Zenon
<1> HIDE DEF us
<1>2. Pend(us) = Pend(ts) \cup {id}
  BY <1>1, Zenon DEF Pend
<1>3. \A x \in Pend(ts) : Holds(us)[x] = Holds(ts)[x]
  BY <1>1, Zenon DEF Pend, Holds
<1>4. Holds(us)[id] = rec.gasLimit
  BY <1>1, Zenon DEF Holds
<1>5. IsFiniteSet(Pend(ts)) /\ \A x \in Pend(ts) : Holds(ts)[x] \in Int
  BY PendFacts
<1>6. \A x \in Pend(ts) \cup {id} : Holds(us)[x] \in Int
  BY <1>1, <1>2, PendFacts
<1>7. id \notin Pend(ts)
  BY Zenon DEF Pend
<1>8. SumFunctionOnSet(Holds(us), Pend(ts) \cup {id}) =
          SumFunctionOnSet(Holds(us), Pend(ts)) + Holds(us)[id]
  BY <1>5, <1>6, <1>7, SumAdd, Zenon
<1>9. SumFunctionOnSet(Holds(us), Pend(ts)) = SumFunctionOnSet(Holds(ts), Pend(ts))
  BY <1>3, <1>5, SumEqual
<1>10. Owed(us) = Owed(ts) + rec.gasLimit
  BY <1>2, <1>4, <1>8, <1>9, Zenon DEF Owed
<1> QED BY <1>10, Zenon DEF us

(* A task that stays pending keeps its deposit.                            *)
LEMMA OwedKept ==
    ASSUME NEW ts \in TaskTables, NEW id \in Pend(ts), NEW rec \in TaskRecords,
           rec.status = TaskPending, rec.gasLimit = ts[id].gasLimit
    PROVE  Owed(WriteTask(ts, id, rec)) = Owed(ts)
<1> DEFINE us == WriteTask(ts, id, rec)
<1>0. id \in TaskIds /\ id \in DOMAIN ts
  BY TableFacts, Zenon DEF Pend
<1>1. /\ us \in TaskTables /\ DOMAIN us = DOMAIN ts \cup {id} /\ us[id] = rec
      /\ \A x \in DOMAIN ts \ {id} : us[x] = ts[x]
  BY <1>0, WrittenTable, Zenon
<1> HIDE DEF us
<1>2. Pend(us) = Pend(ts)
  BY <1>0, <1>1, Zenon DEF Pend
<1>3. \A x \in Pend(ts) : Holds(us)[x] = Holds(ts)[x]
  BY <1>1, Zenon DEF Pend, Holds
<1>5. IsFiniteSet(Pend(ts)) /\ \A x \in Pend(ts) : Holds(ts)[x] \in Int
  BY PendFacts
<1>9. SumFunctionOnSet(Holds(us), Pend(ts)) = SumFunctionOnSet(Holds(ts), Pend(ts))
  BY <1>3, <1>5, SumEqual
<1>10. Owed(us) = Owed(ts)
  BY <1>2, <1>9, Zenon DEF Owed
<1> QED BY <1>10, Zenon DEF us

(* A task that ends takes its deposit away.                                *)
LEMMA OwedEnded ==
    ASSUME NEW ts \in TaskTables, NEW id \in Pend(ts), NEW rec \in TaskRecords,
           rec.status # TaskPending
    PROVE  Owed(WriteTask(ts, id, rec)) = Owed(ts) - ts[id].gasLimit
<1> DEFINE us == WriteTask(ts, id, rec)
<1>0. id \in TaskIds /\ id \in DOMAIN ts
  BY TableFacts, Zenon DEF Pend
<1>1. /\ us \in TaskTables /\ DOMAIN us = DOMAIN ts \cup {id} /\ us[id] = rec
      /\ \A x \in DOMAIN ts \ {id} : us[x] = ts[x]
  BY <1>0, WrittenTable, Zenon
<1> HIDE DEF us
<1>2. Pend(us) = Pend(ts) \ {id}
  BY <1>0, <1>1, Zenon DEF Pend
<1>3. \A x \in Pend(ts) \ {id} : Holds(us)[x] = Holds(ts)[x]
  BY <1>1, Zenon DEF Pend, Holds
<1>5. IsFiniteSet(Pend(ts)) /\ \A x \in Pend(ts) : Holds(ts)[x] \in Int
  BY PendFacts
<1>6. IsFiniteSet(Pend(ts) \ {id}) /\ \A x \in Pend(ts) \ {id} : Holds(ts)[x] \in Int
  BY <1>5, FS_RemoveElement, Zenon
<1>7. SumFunctionOnSet(Holds(us), Pend(ts) \ {id}) = SumFunctionOnSet(Holds(ts), Pend(ts) \ {id})
  BY <1>3, <1>6, SumEqual
<1>8. SumFunctionOnSet(Holds(ts), Pend(ts)) =
          Holds(ts)[id] + SumFunctionOnSet(Holds(ts), Pend(ts) \ {id})
  BY <1>5, SumRemove
<1>9. SumFunctionOnSet(Holds(ts), Pend(ts) \ {id}) \in Int /\ Holds(ts)[id] \in Int
      /\ Holds(ts)[id] = ts[id].gasLimit
  BY <1>0, <1>6, SumType, PendFacts
<1>10. Owed(us) = Owed(ts) - ts[id].gasLimit
  BY <1>2, <1>7, <1>8, <1>9 DEF Owed
<1> QED BY <1>10, Zenon DEF us

(* Cancelled tasks take their deposits away.                               *)
LEMMA OwedCancelled ==
    ASSUME NEW ts \in TaskTables, NEW ids \in SUBSET Pend(ts)
    PROVE  /\ Owed(CancelAll(ts, ids)) = Owed(ts) - SumFunctionOnSet(Holds(ts), ids)
           /\ SumFunctionOnSet(Holds(ts), ids) \in Nat
<1> DEFINE us == CancelAll(ts, ids)
<1>0. ids \subseteq DOMAIN ts
  BY Zenon DEF Pend
<1>1. /\ us \in TaskTables /\ DOMAIN us = DOMAIN ts
      /\ \A x \in ids : us[x] = [ts[x] EXCEPT !.status = TaskCancelled]
      /\ \A x \in DOMAIN ts \ ids : us[x] = ts[x]
  BY <1>0, CancelledTable
<1>a. \A x \in ids : ts[x] \in TaskRecords
  BY <1>0, TableFacts, Zenon
<1>b. \A x \in ids : us[x].status = TaskCancelled
  BY <1>1, <1>a, Zenon DEF TaskRecords
<1> HIDE DEF us
<1>2. Pend(us) = Pend(ts) \ ids
  BY <1>0, <1>1, <1>b DEF Pend, TaskPending, TaskCancelled
<1>3. \A x \in Pend(ts) \ ids : Holds(us)[x] = Holds(ts)[x]
  BY <1>1, Zenon DEF Pend, Holds
<1>5. IsFiniteSet(Pend(ts)) /\ \A x \in Pend(ts) : Holds(ts)[x] \in Nat
  BY PendFacts, Zenon
<1>6. IsFiniteSet(Pend(ts) \ ids) /\ IsFiniteSet(ids)
  BY <1>5, FS_Subset, Zenon
<1>7. SumFunctionOnSet(Holds(us), Pend(ts) \ ids) = SumFunctionOnSet(Holds(ts), Pend(ts) \ ids)
  BY <1>3, <1>5, <1>6, SumEqual
<1>8. SumFunctionOnSet(Holds(ts), Pend(ts)) =
          SumFunctionOnSet(Holds(ts), ids) + SumFunctionOnSet(Holds(ts), Pend(ts) \ ids)
  BY <1>5, SumSplit
<1>9. SumFunctionOnSet(Holds(ts), Pend(ts) \ ids) \in Nat /\ SumFunctionOnSet(Holds(ts), ids) \in Nat
  BY <1>5, <1>6, SumNat, Zenon
<1>10. Owed(us) = Owed(ts) - SumFunctionOnSet(Holds(ts), ids)
  BY <1>2, <1>7, <1>8, <1>9 DEF Owed
<1> QED BY <1>9, <1>10, Zenon DEF us

(* A new task is counted for its contract.                                 *)
LEMMA CountNew ==
    ASSUME NEW ts \in TaskTables, NEW id \in TaskIds, NEW rec \in TaskRecords,
           id \notin DOMAIN ts, rec.status = TaskPending, NEW c
    PROVE  Counted(WriteTask(ts, id, rec), c) =
              IF c = rec.scheduler THEN Counted(ts, c) + 1 ELSE Counted(ts, c)
<1> DEFINE us == WriteTask(ts, id, rec)
<1>a. us \in TaskTables
  BY WrittenTable, Zenon
<1>b. DOMAIN us = DOMAIN ts \cup {id} /\ us[id] = rec
  BY Zenon DEF WriteTask
<1>c. \A x \in DOMAIN ts \ {id} : us[x] = ts[x]
  BY Zenon DEF WriteTask
<1>1. /\ us \in TaskTables /\ DOMAIN us = DOMAIN ts \cup {id} /\ us[id] = rec
      /\ \A x \in DOMAIN ts \ {id} : us[x] = ts[x]
  BY <1>a, <1>b, <1>c, Zenon
<1> HIDE DEF us
<1>2. IsFiniteSet(PendOf(ts, c)) /\ id \notin PendOf(ts, c)
  BY PendFacts, Zenon
<1>3. CASE c = rec.scheduler
  <2>1. PendOf(us, c) = PendOf(ts, c) \cup {id}
    BY <1>1, <1>3, Zenon DEF Pend, PendOf
  <2>2. Cardinality(PendOf(ts, c) \cup {id}) = Cardinality(PendOf(ts, c)) + 1
    BY <1>2, FS_AddElement, Zenon
  <2> QED BY <1>3, <2>1, <2>2, Zenon DEF Counted, us
<1>4. CASE c # rec.scheduler
  <2>1. PendOf(us, c) = PendOf(ts, c)
    BY <1>1, <1>4 DEF Pend, PendOf
  <2> QED BY <1>4, <2>1, Zenon DEF Counted, us
<1> QED BY <1>3, <1>4, Zenon

(* A task that stays pending stays counted.                                *)
LEMMA CountKept ==
    ASSUME NEW ts \in TaskTables, NEW id \in Pend(ts), NEW rec \in TaskRecords,
           rec.status = TaskPending, rec.scheduler = ts[id].scheduler, NEW c
    PROVE  Counted(WriteTask(ts, id, rec), c) = Counted(ts, c)
<1> DEFINE us == WriteTask(ts, id, rec)
<1>0. id \in TaskIds /\ id \in DOMAIN ts
  BY TableFacts, Zenon DEF Pend
<1>1. /\ us \in TaskTables /\ DOMAIN us = DOMAIN ts \cup {id} /\ us[id] = rec
      /\ \A x \in DOMAIN ts \ {id} : us[x] = ts[x]
  BY <1>0, WrittenTable, Zenon
<1> HIDE DEF us
<1>2. PendOf(us, c) = PendOf(ts, c)
  BY <1>0, <1>1, Zenon DEF Pend, PendOf
<1> QED BY <1>2, Zenon DEF Counted, us

(* A task that ends is no longer counted.                                  *)
LEMMA CountEnded ==
    ASSUME NEW ts \in TaskTables, NEW id \in Pend(ts), NEW rec \in TaskRecords,
           rec.status # TaskPending, NEW c
    PROVE  /\ Counted(WriteTask(ts, id, rec), c) =
                 IF c = ts[id].scheduler THEN Counted(ts, c) - 1 ELSE Counted(ts, c)
           /\ Counted(ts, c) \in Nat
           /\ c = ts[id].scheduler => Counted(ts, c) > 0
<1> DEFINE us == WriteTask(ts, id, rec)
<1>0. id \in TaskIds /\ id \in DOMAIN ts
  BY TableFacts, Zenon DEF Pend
<1>1. /\ us \in TaskTables /\ DOMAIN us = DOMAIN ts \cup {id} /\ us[id] = rec
      /\ \A x \in DOMAIN ts \ {id} : us[x] = ts[x]
  BY <1>0, WrittenTable, Zenon
<1> HIDE DEF us
<1>2. IsFiniteSet(PendOf(ts, c)) /\ Cardinality(PendOf(ts, c)) \in Nat
  BY PendFacts, FS_CardinalityType, Zenon
<1>3. CASE c = ts[id].scheduler
  <2>1. PendOf(us, c) = PendOf(ts, c) \ {id} /\ id \in PendOf(ts, c)
    BY <1>0, <1>1, <1>3 DEF Pend, PendOf
  <2>2. /\ Cardinality(PendOf(ts, c) \ {id}) = Cardinality(PendOf(ts, c)) - 1
        /\ Cardinality(PendOf(ts, c) \ {id}) \in Nat
    BY <1>2, <2>1, FS_RemoveElement, FS_CardinalityType, Zenon
  <2> QED BY <1>2, <1>3, <2>1, <2>2 DEF Counted, us
<1>4. CASE c # ts[id].scheduler
  <2>1. PendOf(us, c) = PendOf(ts, c)
    BY <1>0, <1>1, <1>4 DEF Pend, PendOf
  <2> QED BY <1>2, <1>4, <2>1, Zenon DEF Counted, us
<1> QED BY <1>3, <1>4, Zenon

(* Cancelled tasks are no longer counted.                                  *)
LEMMA CountCancelled ==
    ASSUME NEW ts \in TaskTables, NEW ids \in SUBSET Pend(ts), NEW c
    PROVE  /\ Counted(CancelAll(ts, ids), c) = Counted(ts, c) - Cardinality(ids \cap PendOf(ts, c))
           /\ Counted(ts, c) \in Nat /\ Cardinality(ids \cap PendOf(ts, c)) \in Nat
           /\ Cardinality(ids \cap PendOf(ts, c)) <= Counted(ts, c)
<1> DEFINE us == CancelAll(ts, ids)
<1>0. ids \subseteq DOMAIN ts
  BY Zenon DEF Pend
<1>1. /\ us \in TaskTables /\ DOMAIN us = DOMAIN ts
      /\ \A x \in ids : us[x] = [ts[x] EXCEPT !.status = TaskCancelled]
      /\ \A x \in DOMAIN ts \ ids : us[x] = ts[x]
  BY <1>0, CancelledTable
<1>a. \A x \in ids : ts[x] \in TaskRecords
  BY <1>0, TableFacts, Zenon
<1>b. \A x \in ids : us[x].status = TaskCancelled
  BY <1>1, <1>a, Zenon DEF TaskRecords
<1> HIDE DEF us
<1>2. PendOf(us, c) = PendOf(ts, c) \ (ids \cap PendOf(ts, c))
  BY <1>0, <1>1, <1>b DEF Pend, PendOf, TaskPending, TaskCancelled
<1>3. IsFiniteSet(PendOf(ts, c)) /\ ids \cap PendOf(ts, c) \subseteq PendOf(ts, c)
  BY PendFacts, Zenon
<1>4. /\ IsFiniteSet(ids \cap PendOf(ts, c))
      /\ Cardinality(ids \cap PendOf(ts, c)) <= Cardinality(PendOf(ts, c))
  BY <1>3, FS_Subset, Zenon
<1>5. Cardinality(ids \cap PendOf(ts, c)) \in Nat /\ Cardinality(PendOf(ts, c)) \in Nat
  BY <1>3, <1>4, FS_CardinalityType, Zenon
<1> DEFINE I == ids \cap PendOf(ts, c)
<1>6. PendOf(ts, c) \cap I = I
  BY Zenon
<1>7. Cardinality(PendOf(ts, c) \ I) = Cardinality(PendOf(ts, c)) - Cardinality(PendOf(ts, c) \cap I)
  BY <1>3, FS_Difference, Zenon
<1> QED BY <1>2, <1>4, <1>5, <1>6, <1>7, Zenon DEF Counted, us

-----------------------------------------------------------------------------
(* The inductive invariant.  Beside types and the properties themselves:   *)
(* task ids carry a nonce that was used, every queued id has a record, and *)
(* the gas pool covers what the cap still admits in this block.            *)
TaskType ==
    /\ contractBalance \in [Schedulers -> Int]
    /\ schedulerBalance \in Int
    /\ tasks \in TaskTables
    /\ active \in [Schedulers -> Nat]
    /\ taskNonce \in [Schedulers -> Nat]
    /\ processed \in Nat
    /\ blockGas \in Int
    /\ Queues(blockNum, due, queue)

Named == \A id \in DOMAIN tasks : id[3] < taskNonce[id[1]]

Known == KnownIn(blockNum, due, queue, DOMAIN tasks)

Queued == \A id \in Pend(tasks) : Once(blockNum, due, queue, id, tasks[id].nextBlock)

Covered == schedulerBalance >= Owed(tasks)

Exact == \A c \in Schedulers : active[c] = Counted(tasks, c)

GasLeft == blockGas >= (TaskMaxPerBlock - processed) * TaskMaxGasLimit

TaskInv == TaskType /\ Named /\ Known /\ Queued /\ Covered /\ Exact /\ GasLeft

(* While the cap of the block is not reached, there is gas for one more    *)
(* task of the largest limit.                                              *)
LEMMA Fits ==
    ASSUME NEW p \in Nat, p < TaskMaxPerBlock
    PROVE  /\ (TaskMaxPerBlock - p) * TaskMaxGasLimit >= TaskMaxGasLimit
           /\ (TaskMaxPerBlock - (p + 1)) * TaskMaxGasLimit =
                 (TaskMaxPerBlock - p) * TaskMaxGasLimit - TaskMaxGasLimit
           /\ (TaskMaxPerBlock - p) * TaskMaxGasLimit \in Int
<1>1. TaskMaxPerBlock \in Nat /\ TaskMaxGasLimit \in Nat
  BY TaskAssumption, Zenon
<1> DEFINE m == TaskMaxPerBlock - p
<1>2. m \in Int /\ m >= 1 /\ TaskMaxPerBlock - (p + 1) = m - 1
  BY <1>1
<1> HIDE DEF m
<1>3. \A x \in Int, y \in Nat : (x - 1) * y = x * y - y /\ x * y \in Int
  OBVIOUS
<1>4. \A x \in Int, y \in Nat : x >= 1 => x * y >= y
  OBVIOUS
<1> QED BY <1>1, <1>2, <1>3, <1>4 DEF m

(* The inductive invariant of the scheduler implies its properties.        *)
LEMMA TasksSoundHolds == TaskInv => TasksSound
<1> SUFFICES ASSUME TaskInv PROVE TasksSound
  BY Zenon
<1>1. PendingTasks = Pend(tasks) /\ Deposits = Holds(tasks)
  BY Zenon DEF PendingTasks, Pend, Deposits, Holds
<1>2. EscrowCovers
  BY <1>1, Zenon DEF EscrowCovers, TaskInv, Covered, Owed
<1>3. QueuedOnce
  BY <1>1, Zenon DEF QueuedOnce, TaskInv, Queued, Once, LineAt, Line
<1>4. ActiveIsPending
  BY <1>1, Zenon DEF ActiveIsPending, TasksOf, TaskInv, Exact, Counted, PendOf
<1>5. DueTasksFit
  <2> SUFFICES ASSUME due # <<>>, processed < TaskMaxPerBlock, IsPending(due[1])
               PROVE  tasks[due[1]].gasLimit <= blockGas
    BY Zenon DEF DueTasksFit
  <2>1. tasks[due[1]] \in TaskRecords
    BY TableFacts, Zenon DEF TaskInv, TaskType, IsPending
  <2>2. tasks[due[1]].gasLimit \in 1 .. TaskMaxGasLimit
    BY <2>1, TaskAssumption, Zenon DEF TaskRecords
  <2>3. processed \in Nat /\ blockGas \in Int /\ blockGas >= (TaskMaxPerBlock - processed) * TaskMaxGasLimit
    BY Zenon DEF TaskInv, TaskType, GasLeft
  <2> QED BY <2>2, <2>3, Fits, TaskAssumption
<1> QED BY <1>2, <1>3, <1>4, <1>5, Zenon DEF TasksSound

(* The invariant holds at first.                                           *)
LEMMA TaskInitHolds == TaskInit => TaskInv
<1> SUFFICES ASSUME TaskInit PROVE TaskInv
  BY Zenon
<1>1. DOMAIN tasks = {} /\ tasks \in [{} -> TaskRecords]
  BY DEF TaskInit
<1>2. tasks \in TaskTables
  <2>1. {} \in SUBSET TaskIds /\ IsFiniteSet({})
    BY FS_EmptySet, Zenon
  <2> QED BY <1>1, <2>1, MakeTable, Zenon
<1>3. Queues(blockNum, due, queue)
  BY TaskAssumption DEF TaskInit, Queues
<1>4. TaskType
  BY <1>2, <1>3, TaskAssumption DEF TaskInit, TaskType
<1>5. Known
  BY DEF TaskInit, Known, KnownIn, LineAt
<1>6. Pend(tasks) = {} /\ \A c : PendOf(tasks, c) = {}
  BY <1>1, Zenon DEF Pend, PendOf
<1>7. Named /\ Queued
  BY <1>1, <1>6, Zenon DEF Named, Queued
<1>8. Owed(tasks) = 0
  BY <1>6, SumEmpty, Zenon DEF Owed
<1>9. \A c : Counted(tasks, c) = 0
  BY <1>6, FS_EmptySet, Zenon DEF Counted
<1>10. Covered /\ Exact
  BY <1>8, <1>9 DEF Covered, Exact, TaskInit
<1>11. GasLeft
  BY TaskAssumption DEF GasLeft, TaskInit
<1> QED BY <1>4, <1>5, <1>7, <1>10, <1>11, Zenon DEF TaskInv

(* The identifier made from contract, block and nonce was never used.      *)
LEMMA FreshId ==
    ASSUME TaskInv, NEW c \in Schedulers, NEW t \in Nat
    PROVE  NewTaskID(c, t, taskNonce[c]) \in TaskIds \ DOMAIN tasks
<1>1. taskNonce[c] \in Nat
  BY Zenon DEF TaskInv, TaskType
<1>2. NewTaskID(c, t, taskNonce[c]) \in TaskIds
  BY <1>1, Zenon DEF NewTaskID, TaskIds
<1>3. ASSUME NewTaskID(c, t, taskNonce[c]) \in DOMAIN tasks PROVE FALSE
  BY <1>1, <1>3 DEF NewTaskID, TaskInv, Named
<1> QED BY <1>2, <1>3, Zenon

(* TASK_SCHEDULE and tos.schedule keep the invariant.                      *)
LEMMA AddTaskHolds ==
    ASSUME TaskInv, NEW c \in Schedulers, NEW g \in GasLimits, NEW d \in Delays,
           NEW i \in Intervals, NEW m \in RunLimits, AddTask(c, g, d, i, m)
    PROVE  TaskInv'
<1> DEFINE target == blockNum + d
           id     == NewTaskID(c, target, taskNonce[c])
           rec    == [scheduler |-> c, gasLimit |-> g, nextBlock |-> target, interval |-> i,
                      maxRuns |-> m, runs |-> 0, status |-> TaskPending]
<1>1. /\ due = <<>> /\ contractBalance' = [contractBalance EXCEPT ![c] = @ - g]
      /\ schedulerBalance' = schedulerBalance + g
      /\ taskNonce' = [taskNonce EXCEPT ![c] = @ + 1]
      /\ tasks' = WriteTask(tasks, id, rec)
      /\ queue' = EnqueueTask(queue, target, id)
      /\ active' = [active EXCEPT ![c] = @ + 1]
      /\ blockNum' = blockNum /\ due' = due /\ processed' = processed /\ blockGas' = blockGas
  BY Zenon DEF AddTask
<1>a. d \in Nat \ {0} /\ LastTaskBlock + d <= Uint64Max /\ LastTaskBlock \in Nat /\ Uint64Max \in Nat
  BY TaskAssumption
<1>b. blockNum \in 1 .. LastTaskBlock
  BY Zenon DEF TaskInv, TaskType, Queues
<1>2. target \in blockNum + 1 .. Uint64Max /\ target \in 1 .. Uint64Max /\ target \in Nat
  BY <1>a, <1>b
<1>3. id \in TaskIds /\ id \notin DOMAIN tasks
  BY <1>2, FreshId, Zenon
<1>4. rec \in TaskRecords /\ rec.status = TaskPending /\ rec.gasLimit = g /\ rec.scheduler = c
      /\ rec.nextBlock = target
  BY <1>2, Zenon DEF TaskRecords
<1>5. id[1] = c /\ id[3] = taskNonce[c]
  BY Zenon DEF NewTaskID
<1> HIDE DEF target, id, rec
<1>6. tasks \in TaskTables /\ Queues(blockNum, due, queue) /\ g \in Nat
  BY TaskAssumption DEF TaskInv, TaskType
<1>7. /\ tasks' \in TaskTables /\ DOMAIN tasks' = DOMAIN tasks \cup {id}
      /\ tasks'[id] = rec /\ \A x \in DOMAIN tasks : tasks'[x] = tasks[x]
  <2>1. tasks' \in TaskTables
    BY <1>1, <1>3, <1>4, <1>6, WrittenTable, Zenon
  <2> QED BY <1>1, <1>3, <2>1, Zenon DEF WriteTask
<1>8. KnownIn(blockNum, due, queue, DOMAIN tasks')
  BY <1>7, Zenon DEF TaskInv, Known, KnownIn
<1>9. KnownIn(blockNum, due, queue', DOMAIN tasks') /\ Queues(blockNum, due, queue')
  BY <1>1, <1>2, <1>3, <1>6, <1>7, <1>8, KnownAppend, Zenon
<1>10. TaskType'
  <2>1. contractBalance' \in [Schedulers -> Int] /\ schedulerBalance' \in Int
    BY <1>1, <1>6 DEF TaskInv, TaskType
  <2>2. active' \in [Schedulers -> Nat] /\ taskNonce' \in [Schedulers -> Nat]
    BY <1>1 DEF TaskInv, TaskType
  <2>3. processed' \in Nat /\ blockGas' \in Int
    BY <1>1, Zenon DEF TaskInv, TaskType
  <2> QED BY <1>1, <1>7, <1>9, <2>1, <2>2, <2>3, Zenon DEF TaskType
<1>11. Known'
  BY <1>1, <1>9, Zenon DEF Known
<1>12. Named'
  <2>1. \A x \in DOMAIN tasks : x \in TaskIds
    BY <1>6, TableFacts, Zenon
  <2>2. \A x \in DOMAIN tasks : x[1] \in Schedulers /\ x[3] \in Nat
    BY <2>1, Zenon DEF TaskIds
  <2>3. taskNonce \in [Schedulers -> Nat]
    BY Zenon DEF TaskInv, TaskType
  <2>4. \A x \in DOMAIN tasks : x[3] < taskNonce'[x[1]]
    BY <1>1, <2>2, <2>3 DEF TaskInv, Named
  <2>5. id[3] < taskNonce'[id[1]]
    BY <1>1, <1>5, <2>3
  <2> QED BY <1>7, <2>4, <2>5, Zenon DEF Named
<1>13. Queued'
  <2>1. Absent(blockNum, due, queue, id)
    BY <1>3, Zenon DEF TaskInv, Known, KnownIn, Absent
  <2>2. Once(blockNum, due, queue', id, target)
    BY <1>1, <1>2, <1>3, <1>6, <2>1, OnceNew, Zenon
  <2>3. ASSUME NEW x \in Pend(tasks'), x # id
        PROVE  Once(blockNum, due, queue', x, tasks'[x].nextBlock)
    <3>1. x \in Pend(tasks) /\ tasks'[x] = tasks[x] /\ tasks[x] \in TaskRecords
      BY <1>6, <1>7, <2>3, TableFacts, Zenon DEF Pend
    <3>2. tasks[x].nextBlock \in 1 .. Uint64Max
      BY <3>1, Zenon DEF TaskRecords
    <3>3. Once(blockNum, due, queue, x, tasks[x].nextBlock)
      BY <3>1, Zenon DEF TaskInv, Queued
    <3> QED BY <1>1, <1>2, <1>3, <1>6, <2>3, <3>1, <3>2, <3>3, OnceAppend, Zenon
  <2> QED BY <1>1, <1>4, <1>7, <2>2, <2>3, Zenon DEF Queued
<1>14. Covered'
  <2>1. Owed(tasks') = Owed(tasks) + g
    BY <1>1, <1>3, <1>4, <1>6, OwedNew, Zenon
  <2>2. Owed(tasks) \in Nat /\ schedulerBalance \in Int
    BY <1>6, OwedType, Zenon DEF TaskInv, TaskType
  <2> QED BY <1>1, <1>6, <2>1, <2>2 DEF TaskInv, Covered
<1>15. Exact'
  <2>1. \A x : Counted(tasks', x) = IF x = c THEN Counted(tasks, x) + 1 ELSE Counted(tasks, x)
    BY <1>1, <1>3, <1>4, <1>6, CountNew
  <2>2. active \in [Schedulers -> Nat]
    BY Zenon DEF TaskInv, TaskType
  <2> QED BY <1>1, <2>1, <2>2, Zenon DEF TaskInv, Exact
<1>16. GasLeft'
  BY <1>1, Zenon DEF TaskInv, GasLeft
<1> QED BY <1>10, <1>11, <1>12, <1>13, <1>14, <1>15, <1>16, Zenon DEF TaskInv

(* When the task of an entry ends with the entry, every pending task is    *)
(* queued once.                                                            *)
LEMMA EntryEnds ==
    ASSUME TaskInv, due # <<>>, due' = Tail(due), queue' = queue, blockNum' = blockNum,
           tasks' \in TaskTables, DOMAIN tasks' = DOMAIN tasks,
           Pend(tasks') \subseteq Pend(tasks) \ {due[1]},
           \A x \in Pend(tasks') : tasks'[x].nextBlock = tasks[x].nextBlock
    PROVE  Queues(blockNum', due', queue') /\ Known' /\ Queued'
<1>1. Queues(blockNum, due, queue) /\ KnownIn(blockNum, due, queue, DOMAIN tasks) /\ tasks \in TaskTables
  BY Zenon DEF TaskInv, TaskType, Known
<1>2. KnownIn(blockNum, Tail(due), queue, DOMAIN tasks) /\ Queues(blockNum, Tail(due), queue)
  BY <1>1, KnownTail, Zenon
<1>3. ASSUME NEW x \in Pend(tasks') PROVE Once(blockNum, Tail(due), queue, x, tasks'[x].nextBlock)
  <2>1. x \in Pend(tasks) /\ due[1] # x /\ Once(blockNum, due, queue, x, tasks[x].nextBlock)
    BY Zenon DEF TaskInv, Queued
  <2>2. tasks[x] \in TaskRecords
    BY <1>1, <2>1, TableFacts, Zenon DEF Pend
  <2>3. tasks[x].nextBlock \in 1 .. Uint64Max
    BY <2>2, Zenon DEF TaskRecords
  <2>4. Once(blockNum, Tail(due), queue, x, tasks[x].nextBlock)
    BY <1>1, <2>1, <2>3, OnceTail, Zenon
  <2> QED BY <2>4, Zenon
<1> QED BY <1>2, <1>3, Zenon DEF Known, Queued

(* When an entry moves to a later block, every pending task is queued      *)
(* once.                                                                   *)
LEMMA EntryMoves ==
    ASSUME TaskInv, NEW t \in blockNum + 1 .. Uint64Max, due # <<>>, due[1] \in Pend(tasks),
           due' = Tail(due), queue' = EnqueueTask(queue, t, due[1]), blockNum' = blockNum,
           tasks' \in TaskTables, DOMAIN tasks' = DOMAIN tasks,
           Pend(tasks') \subseteq Pend(tasks), tasks'[due[1]].nextBlock = t,
           \A x \in Pend(tasks') \ {due[1]} : tasks'[x].nextBlock = tasks[x].nextBlock
    PROVE  Queues(blockNum', due', queue') /\ Known' /\ Queued'
<1>1. Queues(blockNum, due, queue) /\ KnownIn(blockNum, due, queue, DOMAIN tasks) /\ tasks \in TaskTables
  BY Zenon DEF TaskInv, TaskType, Known
<1>2. KnownIn(blockNum, Tail(due), queue, DOMAIN tasks) /\ Queues(blockNum, Tail(due), queue)
  BY <1>1, KnownTail, Zenon
<1>3. due[1] \in TaskIds /\ due[1] \in DOMAIN tasks
  BY <1>1, TableFacts, Zenon DEF Pend
<1>4. KnownIn(blockNum, Tail(due), queue', DOMAIN tasks) /\ Queues(blockNum, Tail(due), queue')
  BY <1>2, <1>3, KnownAppend, Zenon
<1>5. Once(blockNum, due, queue, due[1], tasks[due[1]].nextBlock)
  BY Zenon DEF TaskInv, Queued
<1>6. Absent(blockNum, Tail(due), queue, due[1])
  BY <1>1, <1>5, AbsentTail, Zenon
<1>7. Once(blockNum, Tail(due), queue', due[1], t)
  BY <1>2, <1>3, <1>6, OnceNew, Zenon
<1>8. ASSUME NEW x \in Pend(tasks'), x # due[1]
      PROVE  Once(blockNum, Tail(due), queue', x, tasks'[x].nextBlock)
  <2>1. x \in Pend(tasks) /\ Once(blockNum, due, queue, x, tasks[x].nextBlock)
    BY Zenon DEF TaskInv, Queued
  <2>2. tasks[x] \in TaskRecords
    BY <1>1, <2>1, TableFacts, Zenon DEF Pend
  <2>3. tasks[x].nextBlock \in 1 .. Uint64Max
    BY <2>2, Zenon DEF TaskRecords
  <2>4. Once(blockNum, Tail(due), queue, x, tasks[x].nextBlock)
    BY <1>1, <1>8, <2>1, <2>3, OnceTail, Zenon
  <2>5. Once(blockNum, Tail(due), queue', x, tasks[x].nextBlock)
    BY <1>2, <1>3, <1>8, <2>3, <2>4, OnceAppend, Zenon
  <2> QED BY <1>8, <2>5, Zenon
<1> QED BY <1>4, <1>7, <1>8, Zenon DEF Known, Queued

(* TASK_CANCEL keeps the invariant.                                        *)
LEMMA HandleCancelHolds ==
    ASSUME TaskInv, NEW id \in PendingTasks, handleCancel(id)
    PROVE  TaskInv'
<1> DEFINE c == tasks[id].scheduler
<1>1. /\ schedulerBalance' = schedulerBalance - tasks[id].gasLimit
      /\ contractBalance' = [contractBalance EXCEPT ![c] = @ + tasks[id].gasLimit]
      /\ tasks' = CancelAll(tasks, {id})
      /\ active' = [active EXCEPT ![c] = Decrement(@, 1)]
      /\ queue' = queue /\ taskNonce' = taskNonce /\ blockNum' = blockNum /\ due' = due
      /\ processed' = processed /\ blockGas' = blockGas
  BY Zenon DEF handleCancel
<1>2. id \in Pend(tasks) /\ tasks \in TaskTables
  BY Zenon DEF Pend, PendingTasks, TaskInv, TaskType
<1>3. tasks[id] \in TaskRecords
  BY <1>2, TableFacts, Zenon DEF Pend
<1>4. c \in Schedulers /\ tasks[id].gasLimit \in Nat
  BY <1>2, RecordFacts, Zenon DEF Pend
<1>5. /\ tasks' \in TaskTables /\ DOMAIN tasks' = DOMAIN tasks
      /\ \A x \in DOMAIN tasks \ {id} : tasks'[x] = tasks[x]
      /\ tasks'[id] = [tasks[id] EXCEPT !.status = TaskCancelled]
  <2>1. id \in DOMAIN tasks \cap {id}
    BY <1>2, Zenon DEF Pend
  <2> QED BY <1>1, <1>2, <2>1, CancelledTable
<1>6. tasks'[id].status # TaskPending
  BY <1>3, <1>5, Zenon DEF TaskRecords, TaskPending, TaskCancelled
<1>7. Pend(tasks') = Pend(tasks) \ {id}
  BY <1>5, <1>6, Zenon DEF Pend
<1>8. Queued' /\ Known' /\ Queues(blockNum', due', queue')
  <2>1. \A x \in Pend(tasks') : x \in Pend(tasks) /\ tasks'[x] = tasks[x]
    BY <1>5, <1>7, Zenon DEF Pend
  <2> QED BY <1>1, <1>5, <2>1, Zenon DEF TaskInv, TaskType, Queued, Known
<1>9. TaskType' /\ Named'
  <2>1. contractBalance' \in [Schedulers -> Int] /\ schedulerBalance' \in Int
    BY <1>1, <1>4 DEF TaskInv, TaskType
  <2>2. active' \in [Schedulers -> Nat]
    BY <1>1, <1>4 DEF TaskInv, TaskType, Decrement
  <2> QED BY <1>1, <1>5, <1>8, <2>1, <2>2, Zenon DEF TaskInv, TaskType, Named
<1>10. SumFunctionOnSet(Holds(tasks), {id}) = tasks[id].gasLimit
  <2>1. Holds(tasks)[id] = tasks[id].gasLimit
    BY <1>2, Zenon DEF Pend, Holds
  <2> QED BY <1>4, <2>1, SumSingle
<1>11. Covered'
  <2>1. {id} \in SUBSET Pend(tasks)
    BY <1>2, Zenon
  <2>2. Owed(tasks') = Owed(tasks) - tasks[id].gasLimit
    BY <1>1, <1>2, <1>10, <2>1, OwedCancelled, Zenon
  <2>3. Owed(tasks) \in Nat /\ schedulerBalance \in Int
    BY <1>2, OwedType, Zenon DEF TaskInv, TaskType
  <2>4. schedulerBalance >= Owed(tasks) /\ schedulerBalance' = schedulerBalance - tasks[id].gasLimit
    BY <1>1, Zenon DEF TaskInv, Covered
  <2> QED BY <1>4, <2>2, <2>3, <2>4 DEF Covered
<1>12. Exact'
  <2> SUFFICES ASSUME NEW x \in Schedulers PROVE active'[x] = Counted(tasks', x)
    BY Zenon DEF Exact
  <2>1. {id} \in SUBSET Pend(tasks)
    BY <1>2, Zenon
  <2>2. /\ Counted(tasks', x) = Counted(tasks, x) - Cardinality({id} \cap PendOf(tasks, x))
        /\ Counted(tasks, x) \in Nat /\ Cardinality({id} \cap PendOf(tasks, x)) <= Counted(tasks, x)
    BY <1>1, <1>2, <2>1, CountCancelled, Zenon
  <2>3. active[x] = Counted(tasks, x) /\ active \in [Schedulers -> Nat]
    BY Zenon DEF TaskInv, TaskType, Exact
  <2>4. CASE x = c
    <3>1. {id} \cap PendOf(tasks, x) = {id}
      BY <1>2, <2>4, Zenon DEF PendOf
    <3>2. Cardinality({id}) = 1
      BY FS_Singleton, Zenon
    <3>3. active'[x] = Decrement(active[x], 1)
      BY <1>1, <2>3, <2>4, Zenon
    <3> QED BY <2>2, <2>3, <3>1, <3>2, <3>3 DEF Decrement
  <2>5. CASE x # c
    <3>1. {id} \cap PendOf(tasks, x) = {}
      BY <2>5, Zenon DEF PendOf
    <3>2. Cardinality({}) = 0
      BY FS_EmptySet, Zenon
    <3>3. active'[x] = active[x]
      BY <1>1, <2>3, <2>5, Zenon
    <3> QED BY <2>2, <2>3, <3>1, <3>2, <3>3
  <2> QED BY <2>4, <2>5, Zenon
<1>13. GasLeft'
  BY <1>1, Zenon DEF TaskInv, GasLeft
<1> QED BY <1>8, <1>9, <1>11, <1>12, <1>13, Zenon DEF TaskInv

(* What a contract pays elsewhere does not touch the escrow.               *)
LEMMA SpendHolds ==
    ASSUME TaskInv, NEW c \in Schedulers, Spend(c)
    PROVE  TaskInv'
<1>1. contractBalance' \in [Schedulers -> Int]
  BY DEF Spend, TaskInv, TaskType
<1> QED BY <1>1, Zenon DEF Spend, TaskInv, TaskType, Named, Known, Queued, Covered, Exact, GasLeft

(* Taking the list of a block keeps the invariant.                         *)
LEMMA DequeueHolds ==
    ASSUME TaskInv, DequeueTasksAt
    PROVE  TaskInv'
<1>1. /\ due = <<>> /\ blockNum < LastTaskBlock /\ blockNum' = blockNum + 1
      /\ due' = queue[blockNum + 1] /\ queue' = [queue EXCEPT ![blockNum + 1] = <<>>]
      /\ processed' = 0 /\ blockGas' = BlockGasLimit
      /\ contractBalance' = contractBalance /\ schedulerBalance' = schedulerBalance
      /\ tasks' = tasks /\ active' = active /\ taskNonce' = taskNonce
  BY Zenon DEF DequeueTasksAt
<1>2. /\ blockNum \in 1 .. LastTaskBlock /\ due \in Seq(TaskIds)
      /\ queue \in [1 .. Uint64Max -> Seq(TaskIds)]
  BY Zenon DEF TaskInv, TaskType, Queues
<1>3. blockNum + 1 \in 1 .. LastTaskBlock /\ blockNum + 1 \in 1 .. Uint64Max
  BY <1>1, <1>2, TaskAssumption
<1>4. Queues(blockNum', due', queue')
  BY <1>1, <1>2, <1>3, Zenon DEF Queues
<1>5. \A k \in blockNum' .. Uint64Max :
          /\ k \in blockNum .. Uint64Max
          /\ LineAt(blockNum', due', queue', k) = LineAt(blockNum, due, queue, k)
  BY <1>1, <1>2, <1>3, TaskAssumption DEF LineAt
<1>6. TaskType'
  BY <1>1, <1>4, TaskAssumption DEF TaskInv, TaskType
<1>7. Known'
  BY <1>1, <1>5, Zenon DEF TaskInv, Known, KnownIn
<1>8. Queued'
  <2> SUFFICES ASSUME NEW x \in Pend(tasks) PROVE Once(blockNum', due', queue', x, tasks[x].nextBlock)
    BY <1>1, Zenon DEF Queued
  <2> DEFINE b == tasks[x].nextBlock
  <2>1. tasks[x] \in TaskRecords
    BY TableFacts, Zenon DEF Pend, TaskInv, TaskType
  <2>2. b \in 1 .. Uint64Max
    BY <2>1, Zenon DEF TaskRecords
  <2>3. Once(blockNum, due, queue, x, b)
    BY Zenon DEF TaskInv, Queued
  <2> HIDE DEF b
  <2>4. b # blockNum
    BY <1>1, <2>3 DEF Once, LineAt
  <2>5. b \in blockNum' .. Uint64Max
    BY <1>1, <1>2, <2>2, <2>3, <2>4 DEF Once
  <2>6. Once(blockNum', due', queue', x, b)
    BY <1>5, <2>2, <2>3, <2>5 DEF Once
  <2> QED BY <2>6, Zenon DEF b
<1>9. Named' /\ Covered' /\ Exact'
  BY <1>1, Zenon DEF TaskInv, Named, Covered, Exact
<1>10. GasLeft'
  BY <1>1, TaskAssumption DEF GasLeft
<1> QED BY <1>6, <1>7, <1>8, <1>9, <1>10, Zenon DEF TaskInv

(* Skipping an entry whose task is no longer pending keeps the invariant.  *)
LEMMA SkipHolds ==
    ASSUME TaskInv, SkipTask
    PROVE  TaskInv'
<1>1. /\ due # <<>> /\ due' = Tail(due) /\ queue' = queue /\ blockNum' = blockNum
      /\ tasks' = tasks /\ contractBalance' = contractBalance
      /\ schedulerBalance' = schedulerBalance /\ active' = active /\ taskNonce' = taskNonce
      /\ processed' = processed /\ blockGas' = blockGas
  BY Zenon DEF SkipTask
<1>2. due[1] \notin Pend(tasks)
  BY Zenon DEF SkipTask, IsPending, Pend
<1>3. tasks' \in TaskTables /\ Pend(tasks') \subseteq Pend(tasks) \ {due[1]}
  BY <1>1, <1>2, Zenon DEF TaskInv, TaskType
<1>4. Queues(blockNum', due', queue') /\ Known' /\ Queued'
  BY <1>1, <1>3, EntryEnds, Zenon
<1> QED BY <1>1, <1>4, Zenon DEF TaskInv, TaskType, Named, Covered, Exact, GasLeft

(* What is known when a task runs: it is pending, queued nowhere else,     *)
(* and its gas is there.                                                   *)
LEMMA RunsFacts ==
    ASSUME TaskInv, NEW gasUsed, TaskRuns(gasUsed), processed' = processed + 1
    PROVE  /\ due # <<>> /\ due[1] \in Pend(tasks) /\ due[1] \in DOMAIN tasks /\ due[1] \in TaskIds
           /\ due' = Tail(due) /\ tasks \in TaskTables
           /\ tasks[due[1]] \in TaskRecords /\ tasks[due[1]].scheduler \in Schedulers
           /\ tasks[due[1]].gasLimit \in Nat /\ tasks[due[1]].interval \in Nat
           /\ gasUsed \in Nat /\ gasUsed <= tasks[due[1]].gasLimit
           /\ processed' \in Nat /\ blockGas' \in Int /\ GasLeft'
<1>1. /\ due # <<>> /\ processed < TaskMaxPerBlock /\ IsPending(due[1])
      /\ gasUsed \in 0 .. tasks[due[1]].gasLimit
      /\ blockGas' = blockGas - gasUsed /\ due' = Tail(due)
  BY Zenon DEF TaskRuns
<1>2. tasks \in TaskTables /\ processed \in Nat /\ blockGas \in Int
  BY Zenon DEF TaskInv, TaskType
<1>3. due[1] \in Pend(tasks) /\ due[1] \in DOMAIN tasks
  BY <1>1, Zenon DEF IsPending, Pend
<1>4. /\ tasks[due[1]] \in TaskRecords /\ tasks[due[1]].scheduler \in Schedulers
      /\ tasks[due[1]].gasLimit \in Nat /\ tasks[due[1]].interval \in Nat
      /\ tasks[due[1]].gasLimit \in 1 .. TaskMaxGasLimit
  BY <1>2, <1>3, RecordFacts, Zenon
<1>5. due[1] \in TaskIds
  BY <1>2, <1>3, TableFacts, Zenon
<1>6. gasUsed \in Nat /\ gasUsed <= tasks[due[1]].gasLimit /\ gasUsed <= TaskMaxGasLimit
  BY <1>1, <1>4, TaskAssumption
<1>7. /\ (TaskMaxPerBlock - (processed + 1)) * TaskMaxGasLimit =
             (TaskMaxPerBlock - processed) * TaskMaxGasLimit - TaskMaxGasLimit
      /\ (TaskMaxPerBlock - processed) * TaskMaxGasLimit \in Int
  BY <1>1, <1>2, Fits, Zenon
<1>8. blockGas >= (TaskMaxPerBlock - processed) * TaskMaxGasLimit
  BY Zenon DEF TaskInv, GasLeft
<1>9. blockGas' >= (TaskMaxPerBlock - processed') * TaskMaxGasLimit
  <2> DEFINE m == (TaskMaxPerBlock - processed) * TaskMaxGasLimit
  <2>1. (TaskMaxPerBlock - processed') * TaskMaxGasLimit = m - TaskMaxGasLimit
    BY <1>7, Zenon
  <2>2. m \in Int /\ blockGas >= m /\ TaskMaxGasLimit \in Nat
    BY <1>7, <1>8, TaskAssumption, Zenon
  <2> HIDE DEF m
  <2> QED BY <1>1, <1>2, <1>6, <2>1, <2>2
<1> QED BY <1>1, <1>2, <1>3, <1>4, <1>5, <1>6, <1>9 DEF GasLeft

(* What decrementing one entry of the active counts gives.                 *)
LEMMA Lowered ==
    ASSUME NEW f \in [Schedulers -> Nat], NEW c \in Schedulers,
           NEW g, g = [f EXCEPT ![c] = Decrement(@, 1)]
    PROVE  /\ g \in [Schedulers -> Nat]
           /\ \A x \in Schedulers : g[x] = IF x = c THEN Decrement(f[x], 1) ELSE f[x]
<1>1. \A n \in Nat : Decrement(n, 1) \in Nat
  BY DEF Decrement
<1>2. f[c] \in Nat /\ Decrement(f[c], 1) \in Nat
  BY <1>1, Zenon
<1> QED BY <1>2, Zenon

(* Charging one contract keeps the balances numbers.                       *)
LEMMA Credited ==
    ASSUME NEW f \in [Schedulers -> Int], NEW c \in Schedulers, NEW n \in Nat,
           NEW g, g = [f EXCEPT ![c] = @ - n]
    PROVE  g \in [Schedulers -> Int]
<1>1. f[c] - n \in Int
  OBVIOUS
<1> QED BY <1>1, Zenon

(* A callback that logs expires its task: the invariant is kept.           *)
LEMMA ExpireHolds ==
    ASSUME TaskInv, NEW g \in Nat, ExpireLogged(g)
    PROVE  TaskInv'
<1> DEFINE id == due[1]
           c == tasks[id].scheduler
           rec == [tasks[id] EXCEPT !.status = TaskExpired]
<1>1. /\ TaskRuns(g) /\ tasks' = WriteTask(tasks, id, rec)
      /\ active' = [active EXCEPT ![c] = Decrement(@, 1)]
      /\ processed' = processed + 1 /\ contractBalance' = contractBalance
      /\ schedulerBalance' = schedulerBalance
      /\ queue' = queue /\ taskNonce' = taskNonce /\ blockNum' = blockNum
  BY Zenon DEF ExpireLogged, CountExpiry
<1>2. /\ due # <<>> /\ id \in Pend(tasks) /\ id \in DOMAIN tasks /\ id \in TaskIds
      /\ due' = Tail(due) /\ tasks \in TaskTables
      /\ tasks[id] \in TaskRecords /\ c \in Schedulers /\ tasks[id].gasLimit \in Nat
      /\ processed' \in Nat /\ blockGas' \in Int /\ GasLeft'
  BY <1>1, RunsFacts, Zenon
<1>3. rec \in TaskRecords /\ rec.status # TaskPending
  BY <1>2, Zenon DEF TaskRecords, TaskPending, TaskExpired
<1> HIDE DEF rec
<1>4. /\ tasks' \in TaskTables /\ DOMAIN tasks' = DOMAIN tasks /\ tasks'[id] = rec
      /\ \A x \in DOMAIN tasks \ {id} : tasks'[x] = tasks[x]
  <2>1. tasks \in TaskTables /\ id \in DOMAIN tasks /\ rec \in TaskRecords
    BY <1>2, <1>3, Zenon
  <2>2. tasks' = WriteTask(tasks, id, rec)
    BY <1>1, Zenon
  <2> QED BY <2>1, <2>2, Rewritten
<1>5. Pend(tasks') = Pend(tasks) \ {id}
  BY <1>3, <1>4, Zenon DEF Pend
<1>6. \A x \in Pend(tasks') : tasks'[x].nextBlock = tasks[x].nextBlock
  BY <1>4, <1>5, Zenon DEF Pend
<1>7. Queues(blockNum', due', queue') /\ Known' /\ Queued'
  BY <1>1, <1>2, <1>4, <1>5, <1>6, EntryEnds, Zenon
<1>8. TaskType' /\ Named'
  <2>1. active' \in [Schedulers -> Nat]
    <3>1. active \in [Schedulers -> Nat]
      BY Zenon DEF TaskInv, TaskType
    <3> HIDE DEF c
    <3> QED BY <1>1, <1>2, <3>1, Lowered, Zenon
  <2> QED BY <1>1, <1>2, <1>4, <1>7, <2>1, Zenon DEF TaskInv, TaskType, Named
<1>9. Covered'
  <2>1. Owed(tasks') = Owed(tasks) - tasks[id].gasLimit
    BY <1>1, <1>2, <1>3, OwedEnded, Zenon
  <2>2. Owed(tasks) \in Nat /\ schedulerBalance \in Int /\ schedulerBalance >= Owed(tasks)
    BY <1>2, OwedType, Zenon DEF TaskInv, TaskType, Covered
  <2>3. schedulerBalance' = schedulerBalance /\ tasks[id].gasLimit \in Nat
    BY <1>1, <1>2, Zenon
  <2> HIDE DEF id
  <2> QED BY <2>1, <2>2, <2>3 DEF Covered
<1>10. Exact'
  <2> SUFFICES ASSUME NEW x \in Schedulers PROVE active'[x] = Counted(tasks', x)
    BY Zenon DEF Exact
  <2>1. /\ Counted(tasks', x) = IF x = c THEN Counted(tasks, x) - 1 ELSE Counted(tasks, x)
        /\ Counted(tasks, x) \in Nat /\ (x = c => Counted(tasks, x) > 0)
    BY <1>1, <1>2, <1>3, CountEnded, Zenon
  <2>2. active[x] = Counted(tasks, x) /\ active \in [Schedulers -> Nat]
    BY Zenon DEF TaskInv, TaskType, Exact
  <2>3. active'[x] = IF x = c THEN Decrement(active[x], 1) ELSE active[x]
    BY <1>1, <2>2, Zenon
  <2> QED BY <2>1, <2>2, <2>3 DEF Decrement
<1> QED BY <1>2, <1>7, <1>8, <1>9, <1>10, Zenon DEF TaskInv

(* Moving the rest of the list behind the next block's keeps the           *)
(* invariant.                                                              *)
LEMMA DeferHolds ==
    ASSUME TaskInv, Defer
    PROVE  TaskInv'
<1>1. /\ due # <<>> /\ due' = Tail(due) /\ blockNum' = blockNum
      /\ contractBalance' = contractBalance /\ schedulerBalance' = schedulerBalance
      /\ active' = active /\ taskNonce' = taskNonce
      /\ processed' = processed /\ blockGas' = blockGas
  BY Zenon DEF Defer
<1>2. CASE ~IsPending(due[1]) /\ tasks' = tasks /\ queue' = queue
  <2>1. due[1] \notin Pend(tasks)
    BY <1>2, Zenon DEF IsPending, Pend
  <2>2. tasks' \in TaskTables /\ Pend(tasks') \subseteq Pend(tasks) \ {due[1]}
    BY <1>2, <2>1, Zenon DEF TaskInv, TaskType
  <2>3. Queues(blockNum', due', queue') /\ Known' /\ Queued'
    BY <1>1, <1>2, <2>2, EntryEnds, Zenon
  <2> QED BY <1>1, <1>2, <2>3, Zenon DEF TaskInv, TaskType, Named, Covered, Exact, GasLeft
<1>3. CASE IsPending(due[1]) /\ Postpone(due[1])
  <2> DEFINE id == due[1]
             rec == [tasks[id] EXCEPT !.nextBlock = blockNum + 1]
  <2>1. tasks' = WriteTask(tasks, id, rec) /\ queue' = EnqueueTask(queue, blockNum + 1, id)
    BY <1>3, Zenon DEF Postpone
  <2>2. tasks \in TaskTables /\ id \in Pend(tasks) /\ id \in DOMAIN tasks
    BY <1>3, Zenon DEF TaskInv, TaskType, IsPending, Pend
  <2>3. tasks[id] \in TaskRecords /\ id \in TaskIds
    BY <2>2, TableFacts, Zenon
  <2>4. blockNum + 1 \in blockNum + 1 .. Uint64Max /\ blockNum + 1 \in 1 .. Uint64Max
    BY TaskAssumption DEF TaskInv, TaskType, Queues
  <2>5. tasks[id].status = TaskPending
    BY <2>2, Zenon DEF Pend
  <2>6. /\ rec \in TaskRecords /\ rec.status = TaskPending /\ rec.gasLimit = tasks[id].gasLimit
        /\ rec.scheduler = tasks[id].scheduler /\ rec.nextBlock = blockNum + 1
    BY <2>3, <2>4, <2>5, Zenon DEF TaskRecords
  <2> HIDE DEF rec
  <2>7. /\ tasks' \in TaskTables /\ DOMAIN tasks' = DOMAIN tasks /\ tasks'[id] = rec
        /\ \A x \in DOMAIN tasks \ {id} : tasks'[x] = tasks[x]
    <3>1. tasks \in TaskTables /\ id \in DOMAIN tasks /\ rec \in TaskRecords
      BY <2>2, <2>6, Zenon
    <3> QED BY <2>1, <3>1, Rewritten
  <2>8. Pend(tasks') = Pend(tasks)
    BY <2>2, <2>6, <2>7, Zenon DEF Pend
  <2>9. \A x \in Pend(tasks') \ {id} : tasks'[x].nextBlock = tasks[x].nextBlock
    BY <2>7, Zenon DEF Pend
  <2>10. tasks'[due[1]].nextBlock = blockNum + 1
    BY <2>6, <2>7, Zenon
  <2>11. Queues(blockNum', due', queue') /\ Known' /\ Queued'
    BY <1>1, <2>1, <2>2, <2>4, <2>7, <2>8, <2>9, <2>10, EntryMoves, Zenon
  <2>12. Owed(tasks') = Owed(tasks)
    BY <2>1, <2>2, <2>6, OwedKept, Zenon
  <2>13. \A x : Counted(tasks', x) = Counted(tasks, x)
    BY <2>1, <2>2, <2>6, CountKept, Zenon
  <2> QED BY <1>1, <2>7, <2>11, <2>12, <2>13, Zenon DEF TaskInv, TaskType, Named, Covered, Exact, GasLeft
<1> QED BY <1>2, <1>3, Zenon DEF Defer

(* What the tasks a callback cancels leave of the table.                   *)
LEMMA CancelledStep ==
    ASSUME NEW ts \in TaskTables, NEW id \in Pend(ts), NEW ids \in SUBSET (Pend(ts) \ {id}),
           NEW us, us = CancelAll(ts, ids)
    PROVE  /\ us \in TaskTables /\ DOMAIN us = DOMAIN ts /\ us[id] = ts[id]
           /\ id \in Pend(us) /\ Pend(us) = Pend(ts) \ ids
           /\ \A x \in Pend(us) : us[x] = ts[x]
<1>0. ids \subseteq DOMAIN ts /\ id \in DOMAIN ts
  BY Zenon DEF Pend
<1>1. /\ us \in TaskTables /\ DOMAIN us = DOMAIN ts
      /\ \A x \in ids : us[x] = [ts[x] EXCEPT !.status = TaskCancelled]
      /\ \A x \in DOMAIN ts \ ids : us[x] = ts[x]
  BY <1>0, CancelledTable
<1>2. \A x \in ids : ts[x] \in TaskRecords
  BY <1>0, TableFacts, Zenon
<1>3. \A x \in ids : us[x].status = TaskCancelled
  BY <1>1, <1>2, Zenon DEF TaskRecords
<1>4. Pend(us) = Pend(ts) \ ids
  BY <1>0, <1>1, <1>3, Zenon DEF Pend, TaskPending, TaskCancelled
<1> QED BY <1>0, <1>1, <1>4, Zenon DEF Pend

(* A record with one more run.                                             *)
LEMMA RanRecord ==
    ASSUME NEW rec \in TaskRecords, NEW ran, ran = [rec EXCEPT !.runs = @ + 1]
    PROVE  /\ ran \in TaskRecords /\ ran.status = rec.status /\ ran.gasLimit = rec.gasLimit
           /\ ran.scheduler = rec.scheduler
  BY DEF TaskRecords

(* A record due again.                                                     *)
LEMMA AgainRecord ==
    ASSUME NEW rec \in TaskRecords, NEW b \in 1 .. Uint64Max,
           NEW again, again = [rec EXCEPT !.nextBlock = b]
    PROVE  /\ again \in TaskRecords /\ again.status = rec.status /\ again.gasLimit = rec.gasLimit
           /\ again.scheduler = rec.scheduler /\ again.nextBlock = b
  BY Zenon DEF TaskRecords

(* A record that ended.                                                    *)
LEMMA OverRecord ==
    ASSUME NEW rec \in TaskRecords, NEW endStatus \in {TaskDone, TaskExpired},
           NEW over, over = [rec EXCEPT !.status = endStatus]
    PROVE  over \in TaskRecords /\ over.status # TaskPending
  BY Zenon DEF TaskRecords, TaskPending, TaskDone, TaskExpired

(* Running a callback, with what it cancels, keeps the invariant, unless   *)
(* it cancels the task it runs for.                                        *)
LEMMA RunHolds ==
    ASSUME TaskInv, ~SelfCancel, NEW gasUsed \in Nat, NEW cancelled \in SUBSET PendingTasks,
           RunTask(gasUsed, cancelled)
    PROVE  TaskInv'
<1> DEFINE id == due[1]
           rec == tasks[id]
           c == rec.scheduler
           ran == [rec EXCEPT !.runs = @ + 1]
           refund == rec.gasLimit - gasUsed
           credit == [Refunded(cancelled) EXCEPT ![c] = @ + refund]
           paid == SumFunctionOnSet(Holds(tasks), cancelled)
           ts == CancelAll(tasks, cancelled)
           again == [ran EXCEPT !.nextBlock = NextRun(rec)]
           over == [ran EXCEPT !.status = IF rec.interval = 0 THEN TaskDone ELSE TaskExpired]
<1>1. /\ TaskRuns(gasUsed) /\ processed' = processed + 1
      /\ taskNonce' = taskNonce /\ blockNum' = blockNum
      /\ cancelled \in CallbackCancels(id)
  BY Zenon DEF RunTask
<1>2. \/ /\ rec.interval # 0 /\ NextRun(rec) <= Uint64Max
         /\ contractBalance' = [credit EXCEPT ![c] = @ - rec.gasLimit]
         /\ schedulerBalance' = schedulerBalance - (refund + paid) + rec.gasLimit
         /\ tasks' = WriteTask(ts, id, again)
         /\ queue' = EnqueueTask(queue, NextRun(rec), id)
         /\ active' = Uncounted(cancelled)
      \/ /\ contractBalance' = credit
         /\ schedulerBalance' = schedulerBalance - (refund + paid)
         /\ tasks' = WriteTask(ts, id, over)
         /\ active' = [Uncounted(cancelled) EXCEPT ![c] = Decrement(@, 1)]
         /\ queue' = queue
  BY Zenon DEF RunTask, Deposits, Holds
<1>3. /\ due # <<>> /\ id \in Pend(tasks) /\ id \in DOMAIN tasks /\ id \in TaskIds
      /\ due' = Tail(due) /\ tasks \in TaskTables
      /\ rec \in TaskRecords /\ c \in Schedulers
      /\ rec.gasLimit \in Nat /\ rec.interval \in Nat
      /\ gasUsed \in Nat /\ gasUsed <= rec.gasLimit
      /\ processed' \in Nat /\ blockGas' \in Int /\ GasLeft'
  BY <1>1, RunsFacts, Zenon
<1>4. PendingTasks = Pend(tasks) /\ Deposits = Holds(tasks) /\ \A x : TasksOf(x) = PendOf(tasks, x)
  BY Zenon DEF PendingTasks, Pend, Deposits, Holds, TasksOf, PendOf
<1>5. cancelled \in SUBSET (Pend(tasks) \ {id}) /\ cancelled \in SUBSET Pend(tasks)
  BY <1>1, <1>4, Zenon DEF CallbackCancels
<1>6. /\ ts \in TaskTables /\ DOMAIN ts = DOMAIN tasks /\ ts[id] = rec
      /\ id \in Pend(ts) /\ Pend(ts) = Pend(tasks) \ cancelled
      /\ \A x \in Pend(ts) : ts[x] = tasks[x]
  BY <1>3, <1>5, CancelledStep
<1>7. Owed(ts) = Owed(tasks) - paid /\ paid \in Nat
  BY <1>3, <1>5, OwedCancelled, Zenon
<1>8. /\ Owed(tasks) \in Nat /\ Owed(ts) \in Nat /\ schedulerBalance \in Int
      /\ schedulerBalance >= Owed(tasks)
  <2>1. Owed(tasks) \in Nat /\ Owed(ts) \in Nat
    <3>1. tasks \in TaskTables /\ ts \in TaskTables
      BY <1>3, <1>6, Zenon
    <3> HIDE DEF ts
    <3> QED BY <3>1, OwedType, Zenon
  <2>2. schedulerBalance \in Int /\ schedulerBalance >= Owed(tasks)
    BY Zenon DEF TaskInv, TaskType, Covered
  <2> QED BY <2>1, <2>2, Zenon
<1>9. ASSUME NEW x \in Schedulers
      PROVE  Uncounted(cancelled)[x] = Counted(ts, x) /\ Counted(ts, x) \in Nat
  <2>1. /\ Counted(ts, x) = Counted(tasks, x) - Cardinality(cancelled \cap PendOf(tasks, x))
        /\ Counted(tasks, x) \in Nat /\ Cardinality(cancelled \cap PendOf(tasks, x)) \in Nat
        /\ Cardinality(cancelled \cap PendOf(tasks, x)) <= Counted(tasks, x)
    BY <1>3, <1>5, CountCancelled, Zenon
  <2>2. active[x] = Counted(tasks, x)
    BY Zenon DEF TaskInv, Exact
  <2>3. Uncounted(cancelled)[x] = Decrement(active[x], Cardinality(cancelled \cap PendOf(tasks, x)))
    BY <1>4, Zenon DEF Uncounted
  <2> QED BY <2>1, <2>2, <2>3 DEF Decrement
<1>10. Uncounted(cancelled) \in [Schedulers -> Nat]
  <2>1. Uncounted(cancelled) = [x \in Schedulers |-> Uncounted(cancelled)[x]]
    BY Zenon DEF Uncounted
  <2>2. \A x \in Schedulers : Uncounted(cancelled)[x] \in Nat
    BY <1>9, Zenon
  <2> QED BY <2>1, <2>2, Zenon
<1>11. Refunded(cancelled) \in [Schedulers -> Int]
  <2>1. ASSUME NEW x \in Schedulers
        PROVE  SumFunctionOnSet(Deposits, cancelled \cap TasksOf(x)) \in Int
    <3>1. cancelled \cap TasksOf(x) \in SUBSET Pend(tasks)
      BY <1>5, Zenon
    <3>2. SumFunctionOnSet(Holds(tasks), cancelled \cap TasksOf(x)) \in Nat
      BY <1>3, <3>1, OwedCancelled, Zenon
    <3> QED BY <1>4, <3>2
  <2>2. contractBalance \in [Schedulers -> Int]
    BY Zenon DEF TaskInv, TaskType
  <2> QED BY <2>1, <2>2 DEF Refunded
<1>12. credit \in [Schedulers -> Int] /\ refund \in Int
  BY <1>3, <1>11
<1>a. ran \in TaskRecords /\ ran.status = rec.status /\ ran.gasLimit = rec.gasLimit
      /\ ran.scheduler = rec.scheduler
  BY <1>3, RanRecord, Zenon
<1>c. rec.gasLimit \in Int
  <2> HIDE DEF rec
  <2> QED BY <1>3
<1>b. refund \in Int /\ refund >= 0 /\ refund <= rec.gasLimit
  <2> HIDE DEF rec
  <2> QED BY <1>3
<1>13. CASE /\ rec.interval # 0 /\ NextRun(rec) <= Uint64Max
            /\ contractBalance' = [credit EXCEPT ![c] = @ - rec.gasLimit]
            /\ schedulerBalance' = schedulerBalance - (refund + paid) + rec.gasLimit
            /\ tasks' = WriteTask(ts, id, again)
            /\ queue' = EnqueueTask(queue, NextRun(rec), id)
            /\ active' = Uncounted(cancelled)
  <2>1. NextRun(rec) \in blockNum + 1 .. Uint64Max /\ NextRun(rec) \in 1 .. Uint64Max
    <3>1. blockNum \in Nat /\ Uint64Max \in Nat /\ blockNum >= 1
      BY TaskAssumption DEF TaskInv, TaskType, Queues
    <3>2. rec.interval \in Nat /\ rec.interval # 0 /\ blockNum + rec.interval <= Uint64Max
      BY <1>3, <1>13, Zenon DEF NextRun
    <3> HIDE DEF rec
    <3> QED BY <3>1, <3>2 DEF NextRun
  <2>2. rec.status = TaskPending
    BY <1>3, Zenon DEF Pend
  <2>3. /\ again \in TaskRecords /\ again.status = TaskPending /\ again.gasLimit = rec.gasLimit
        /\ again.scheduler = rec.scheduler /\ again.nextBlock = NextRun(rec)
    <3>1. again = [ran EXCEPT !.nextBlock = NextRun(rec)]
      BY Zenon
    <3> HIDE DEF again, ran, rec
    <3> QED BY <1>a, <2>1, <2>2, <3>1, AgainRecord
  <2> HIDE DEF again, ts, credit
  <2>4. /\ tasks' \in TaskTables /\ DOMAIN tasks' = DOMAIN ts /\ tasks'[id] = again
        /\ \A x \in DOMAIN ts \ {id} : tasks'[x] = ts[x]
    <3>1. ts \in TaskTables /\ id \in DOMAIN ts /\ again \in TaskRecords
      BY <1>3, <1>6, <2>3, Zenon
    <3>2. tasks' = WriteTask(ts, id, again)
      BY <1>13, Zenon
    <3> HIDE DEF id
    <3> QED BY <3>1, <3>2, Rewritten
  <2>5. Pend(tasks') = Pend(ts)
    BY <1>6, <2>3, <2>4, Zenon DEF Pend
  <2>6. \A x \in Pend(tasks') \ {id} : tasks'[x].nextBlock = tasks[x].nextBlock
    <3>1. \A x \in Pend(tasks') \ {id} : tasks'[x] = ts[x] /\ ts[x] = tasks[x]
      BY <1>6, <2>4, <2>5, Zenon DEF Pend
    <3> QED BY <3>1, Zenon
  <2>7. tasks'[due[1]].nextBlock = NextRun(rec) /\ Pend(tasks') \subseteq Pend(tasks)
    BY <1>6, <2>3, <2>4, <2>5, Zenon
  <2>8. DOMAIN tasks' = DOMAIN tasks
    BY <1>6, <2>4, Zenon
  <2>9. Queues(blockNum', due', queue') /\ Known' /\ Queued'
    BY <1>1, <1>3, <1>13, <2>1, <2>4, <2>6, <2>7, <2>8, EntryMoves, Zenon
  <2>10. Owed(tasks') = Owed(ts)
    <3>1. again.gasLimit = ts[id].gasLimit
      BY <1>6, <2>3, Zenon
    <3> HIDE DEF id
    <3> QED BY <1>6, <1>13, <2>3, <3>1, OwedKept, Zenon
  <2>11. ASSUME NEW x \in Schedulers PROVE Counted(tasks', x) = Counted(ts, x)
    <3>1. again.scheduler = ts[id].scheduler
      BY <1>6, <2>3, Zenon
    <3> HIDE DEF id
    <3> QED BY <1>6, <1>13, <2>3, <3>1, CountKept, Zenon
  <2>12. contractBalance' \in [Schedulers -> Int] /\ schedulerBalance' \in Int
    <3>1. contractBalance' \in [Schedulers -> Int]
      <4>1. contractBalance' = [credit EXCEPT ![c] = @ - rec.gasLimit]
        BY <1>13, Zenon
      <4> HIDE DEF credit, c, rec
      <4> QED BY <1>3, <1>12, <4>1, Credited, Zenon
    <3>2. schedulerBalance' = schedulerBalance - (refund + paid) + rec.gasLimit
      BY <1>13, Zenon
    <3> HIDE DEF refund, paid, rec
    <3> QED BY <1>7, <1>8, <1>b, <1>c, <3>1, <3>2
  <2>13. TaskType' /\ Named'
    BY <1>1, <1>3, <1>10, <1>13, <2>4, <2>8, <2>9, <2>12, Zenon DEF TaskInv, TaskType, Named
  <2>14. Covered'
    <3>1. schedulerBalance' = schedulerBalance - (refund + paid) + rec.gasLimit
      BY <1>13, Zenon
    <3> HIDE DEF refund, paid, rec, ts
    <3> QED BY <1>7, <1>8, <1>b, <1>c, <2>10, <3>1 DEF Covered
  <2>15. Exact'
    BY <1>9, <1>13, <2>11, Zenon DEF Exact
  <2> QED BY <1>3, <2>9, <2>13, <2>14, <2>15, Zenon DEF TaskInv
<1>14. CASE /\ contractBalance' = credit
            /\ schedulerBalance' = schedulerBalance - (refund + paid)
            /\ tasks' = WriteTask(ts, id, over)
            /\ active' = [Uncounted(cancelled) EXCEPT ![c] = Decrement(@, 1)]
            /\ queue' = queue
  <2>3. over \in TaskRecords /\ over.status # TaskPending
    <3> DEFINE endStatus == IF rec.interval = 0 THEN TaskDone ELSE TaskExpired
    <3>1. over = [ran EXCEPT !.status = endStatus] /\ endStatus \in {TaskDone, TaskExpired}
      BY Zenon
    <3> HIDE DEF over, ran, endStatus
    <3> QED BY <1>a, <3>1, OverRecord, Zenon
  <2> HIDE DEF over, ts, credit
  <2>4. /\ tasks' \in TaskTables /\ DOMAIN tasks' = DOMAIN ts /\ tasks'[id] = over
        /\ \A x \in DOMAIN ts \ {id} : tasks'[x] = ts[x]
    <3>1. ts \in TaskTables /\ id \in DOMAIN ts /\ over \in TaskRecords
      BY <1>3, <1>6, <2>3, Zenon
    <3>2. tasks' = WriteTask(ts, id, over)
      BY <1>14, Zenon
    <3> HIDE DEF id
    <3> QED BY <3>1, <3>2, Rewritten
  <2>5. Pend(tasks') = Pend(ts) \ {id}
    BY <1>6, <2>3, <2>4, Zenon DEF Pend
  <2>6. \A x \in Pend(tasks') : tasks'[x].nextBlock = tasks[x].nextBlock
    <3>1. \A x \in Pend(tasks') : tasks'[x] = ts[x] /\ ts[x] = tasks[x]
      BY <1>6, <2>4, <2>5, Zenon DEF Pend
    <3> QED BY <3>1, Zenon
  <2>7. DOMAIN tasks' = DOMAIN tasks /\ Pend(tasks') \subseteq Pend(tasks) \ {due[1]}
    BY <1>6, <2>4, <2>5, Zenon
  <2>9. Queues(blockNum', due', queue') /\ Known' /\ Queued'
    BY <1>1, <1>3, <1>14, <2>4, <2>6, <2>7, EntryEnds, Zenon
  <2>10. Owed(tasks') = Owed(ts) - rec.gasLimit
    <3>1. ts[id].gasLimit = rec.gasLimit
      BY <1>6, Zenon
    <3>2. id \in Pend(ts) /\ tasks' = WriteTask(ts, id, over) /\ ts \in TaskTables
      BY <1>6, <1>14, Zenon
    <3> HIDE DEF id
    <3>3. Owed(tasks') = Owed(ts) - ts[id].gasLimit
      BY <3>2, <2>3, OwedEnded, Zenon
    <3> QED BY <3>1, <3>3, Zenon
  <2>11. ASSUME NEW x \in Schedulers
         PROVE  /\ Counted(tasks', x) = IF x = c THEN Counted(ts, x) - 1 ELSE Counted(ts, x)
                /\ x = c => Counted(ts, x) > 0
    <3>1. ts[id].scheduler = c
      BY <1>6, Zenon
    <3>2. id \in Pend(ts) /\ tasks' = WriteTask(ts, id, over) /\ ts \in TaskTables
      BY <1>6, <1>14, Zenon
    <3> HIDE DEF id
    <3>3. /\ Counted(tasks', x) = IF x = ts[id].scheduler THEN Counted(ts, x) - 1 ELSE Counted(ts, x)
          /\ x = ts[id].scheduler => Counted(ts, x) > 0
      BY <3>2, <2>3, CountEnded, Zenon
    <3> QED BY <3>1, <3>3, Zenon
  <2>12. contractBalance' \in [Schedulers -> Int] /\ schedulerBalance' \in Int
    <3>1. contractBalance' \in [Schedulers -> Int]
      BY <1>12, <1>14, Zenon
    <3>2. schedulerBalance' = schedulerBalance - (refund + paid)
      BY <1>14, Zenon
    <3> HIDE DEF refund, paid, rec
    <3> QED BY <1>7, <1>8, <1>b, <1>c, <3>1, <3>2
  <2>13. /\ active' \in [Schedulers -> Nat]
         /\ \A x \in Schedulers : active'[x] = IF x = c THEN Decrement(Uncounted(cancelled)[x], 1)
                                                       ELSE Uncounted(cancelled)[x]
    <3>1. active' = [Uncounted(cancelled) EXCEPT ![c] = Decrement(@, 1)] /\ c \in Schedulers
      BY <1>3, <1>14, Zenon
    <3> HIDE DEF c
    <3> QED BY <1>10, <3>1, Lowered, Zenon
  <2>14. TaskType' /\ Named'
    BY <1>1, <1>3, <2>4, <2>7, <2>9, <2>12, <2>13, Zenon DEF TaskInv, TaskType, Named
  <2>15. Covered'
    <3>1. schedulerBalance' = schedulerBalance - (refund + paid)
      BY <1>14, Zenon
    <3> HIDE DEF refund, paid, rec, ts
    <3> QED BY <1>7, <1>8, <1>b, <1>c, <2>10, <3>1 DEF Covered
  <2>16. Exact'
    <3> SUFFICES ASSUME NEW x \in Schedulers PROVE active'[x] = Counted(tasks', x)
      BY Zenon DEF Exact
    <3>1. active'[x] = IF x = c THEN Decrement(Uncounted(cancelled)[x], 1) ELSE Uncounted(cancelled)[x]
      BY <2>13, Zenon
    <3>2. /\ Counted(tasks', x) = IF x = c THEN Counted(ts, x) - 1 ELSE Counted(ts, x)
          /\ x = c => Counted(ts, x) > 0
      BY <2>11, Zenon
    <3>3. Uncounted(cancelled)[x] = Counted(ts, x) /\ Counted(ts, x) \in Nat
      BY <1>9, Zenon
    <3> HIDE DEF c, ts
    <3> QED BY <3>1, <3>2, <3>3 DEF Decrement
  <2> QED BY <1>3, <2>9, <2>14, <2>15, <2>16, Zenon DEF TaskInv
<1> QED BY <1>2, <1>13, <1>14, Zenon

(* Every step keeps the invariant.                                         *)
LEMMA TaskNextHolds == ~SelfCancel /\ TaskInv /\ [TaskNext]_taskVars => TaskInv'
<1> SUFFICES ASSUME ~SelfCancel, TaskInv, [TaskNext]_taskVars PROVE TaskInv'
  BY Zenon
<1>1. CASE DequeueTasksAt
  BY <1>1, DequeueHolds, Zenon
<1>2. CASE SkipTask
  BY <1>2, SkipHolds, Zenon
<1>3. ASSUME NEW g \in 0 .. TaskMaxGasLimit, ExpireLogged(g) PROVE TaskInv'
  <2>1. g \in Nat
    BY TaskAssumption
  <2> QED BY <1>3, <2>1, ExpireHolds, Zenon
<1>4. ASSUME NEW g \in 0 .. TaskMaxGasLimit, NEW ids \in SUBSET PendingTasks, RunTask(g, ids)
      PROVE  TaskInv'
  <2>1. g \in Nat
    BY TaskAssumption
  <2> QED BY <1>4, <2>1, RunHolds, Zenon
<1>5. CASE Defer
  BY <1>5, DeferHolds, Zenon
<1>6. ASSUME NEW c \in Schedulers, NEW g \in GasLimits, NEW d \in Delays, NEW i \in Intervals,
             NEW m \in RunLimits, handleSchedule(c, g, d, i, m) \/ schedule(c, g, d, i, m)
      PROVE  TaskInv'
  <2>1. AddTask(c, g, d, i, m)
    BY <1>6, Zenon DEF handleSchedule, schedule
  <2> QED BY <2>1, AddTaskHolds, Zenon
<1>7. ASSUME NEW id \in PendingTasks, handleCancel(id) PROVE TaskInv'
  BY <1>7, HandleCancelHolds, Zenon
<1>8. ASSUME NEW c \in Schedulers, Spend(c) PROVE TaskInv'
  BY <1>8, SpendHolds, Zenon
<1>9. CASE UNCHANGED taskVars
  BY <1>9, Zenon DEF taskVars, TaskInv, TaskType, Named, Known, Queued, Covered, Exact, GasLeft
<1> QED BY <1>1, <1>2, <1>3, <1>4, <1>5, <1>6, <1>7, <1>8, <1>9, Zenon
        DEF TaskNext, ProcessDueTasks, TaskTransactions, TaskReverted

(* For every number of contracts, tasks, limits and blocks, as long as no  *)
(* callback cancels the task that runs it: the deposits are covered, no    *)
(* task is lost or queued twice, a full block of tasks fits and the        *)
(* active counts are exact (ProcessDueTasks, taskHandler, tos.schedule).   *)
THEOREM TasksAreSound == ~SelfCancel => (TaskSpec => []TasksSound)
<1> SUFFICES ASSUME ~SelfCancel PROVE TaskSpec => []TasksSound
  BY Zenon
<1>1. TaskInv /\ [TaskNext]_taskVars => TaskInv'
  BY TaskNextHolds, Zenon
<1> QED BY <1>1, TaskInitHolds, TasksSoundHolds, PTL DEF TaskSpec
=============================================================================
