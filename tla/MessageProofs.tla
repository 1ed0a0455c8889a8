--------------------------- MODULE MessageProofs ---------------------------
(***************************************************************************)
(* Proofs about StateTransition, for any accounts, messages, behaviour of  *)
(* contract code, gas costs and limits, and about the storage of contracts:*)
(* the slot layout of LvmStorage implements ContractStore, for any keys,   *)
(* values, slot size and lengths.                                          *)
(***************************************************************************)
EXTENDS StateTransition, LvmStorage, Arithmetic

(* What the state database holds between messages.                         *)
Accounts ==
    [balance : [Addresses -> Nat], nonce : [Addresses -> Nat], sponsorNonce : [Users -> Nat],
     code : [Addresses -> BOOLEAN], slot : [Addresses -> {0, 1}]]

Transitions ==
    [state : Accounts, gas : Nat, initialGas : Nat, validationGas : Nat,
     vmerr : BOOLEAN, refused : BOOLEAN]

(* r differs from s at most in balances, of the same total, and slots.     *)
Moved(s, r) ==
    /\ r \in Accounts /\ Total(r) = Total(s)
    /\ r.nonce = s.nonce /\ r.sponsorNonce = s.sponsorNonce /\ r.code = s.code

(* What an execution makes of a transition, before a possible revert.      *)
Ran(t, m, r) ==
    /\ r \in Transitions /\ ~r.refused
    /\ r.initialGas = t.initialGas /\ r.validationGas = t.validationGas /\ r.gas <= t.gas
    /\ Total(r.state) = Total(t.state)
    /\ r.state.sponsorNonce = t.state.sponsorNonce
    /\ \A u \in Users \ {m.from} : r.state.nonce[u] = t.state.nonce[u]
    /\ r.state.nonce[m.from] \in {t.state.nonce[m.from], m.nonce + 1}

(* An execution that fails leaves the state alone.                         *)
Atomic(t, r) == r.vmerr => r.state = t.state

(* The fields of a message, its payer and the address it would create.     *)
LEMMA MessageFields ==
    ASSUME NEW m \in Msgs
    PROVE  /\ m.from \in Users /\ m.to \in Addresses \cup {Nil}
           /\ m.value \in Nat /\ m.gas \in Nat /\ m.price \in Nat /\ m.feeCap \in Nat
           /\ m.nonce \in 0..MaxNonce /\ m.nonce \in Nat /\ m.price <= m.feeCap
           /\ m.sponsor \in Users \cup {Nil} /\ m.from \in Addresses
           /\ gasPayer(m) \in Users /\ gasPayer(m) \in Addresses
           /\ CreateAddress(m.from, m.nonce) \in Addresses
           /\ CreateAddress(m.from, m.nonce) \notin Users
           /\ IntrinsicGas(m) \in Nat
<1>1. /\ m.from \in Users /\ m.to \in Addresses \cup {Nil}
      /\ m.value \in Nat /\ m.gas \in Nat /\ m.price \in Nat /\ m.feeCap \in Nat
      /\ m.nonce \in 0..MaxNonce /\ m.sponsor \in Users \cup {Nil} /\ m.price <= m.feeCap
  BY MessageAssumption, Zenon
<1>2. MaxNonce \in Nat /\ TxGas \in Nat /\ TxGasContractCreation \in Nat
  BY MessageAssumption, Zenon
<1>3. m.nonce \in Nat
  BY <1>1, <1>2
<1>4. Users \subseteq Addresses
  BY Zenon DEF Addresses
<1>5. gasPayer(m) \in Users
  BY <1>1, Zenon DEF gasPayer
<1>6. CreateAddress(m.from, m.nonce) \in Created
  BY <1>1 DEF Created
<1>7. CreateAddress(m.from, m.nonce) \in Addresses /\ CreateAddress(m.from, m.nonce) \notin Users
  BY <1>6, MessageAssumption, Zenon DEF Addresses
<1>8. IntrinsicGas(m) \in Nat
  BY <1>2, Zenon DEF IntrinsicGas
<1> QED BY <1>1, <1>3, <1>4, <1>5, <1>7, <1>8, Zenon

(* What contract code may use and pay.                                     *)
LEMMA OutcomeFields ==
    ASSUME NEW o \in Outcomes
    PROVE  o.used \in Nat /\ o.pays \in Nat
BY MessageAssumption, Zenon

(* The fields of the state database.                                       *)
LEMMA AccountFields ==
    ASSUME NEW s \in Accounts
    PROVE  /\ s.balance \in [Addresses -> Nat] /\ s.nonce \in [Addresses -> Nat]
           /\ s.sponsorNonce \in [Users -> Nat] /\ s.code \in [Addresses -> BOOLEAN]
           /\ s.slot \in [Addresses -> {0, 1}]
BY Zenon DEF Accounts

(* The fields of a state transition.                                       *)
LEMMA TransitionFields ==
    ASSUME NEW t \in Transitions
    PROVE  /\ t.state \in Accounts /\ t.gas \in Nat /\ t.initialGas \in Nat
           /\ t.validationGas \in Nat /\ t.vmerr \in BOOLEAN /\ t.refused \in BOOLEAN
BY Zenon DEF Transitions

(* The balance of one account moves, and with it the total.                *)
LEMMA BalanceDown ==
    ASSUME NEW s \in Accounts, NEW a \in Addresses, NEW v \in Nat, s.balance[a] >= v
    PROVE  /\ SubBalance(s, a, v) \in Accounts
           /\ Total(SubBalance(s, a, v)) = Total(s) - v
           /\ SubBalance(s, a, v).balance = [s.balance EXCEPT ![a] = @ - v]
           /\ SubBalance(s, a, v).nonce = s.nonce
           /\ SubBalance(s, a, v).sponsorNonce = s.sponsorNonce
           /\ SubBalance(s, a, v).code = s.code /\ SubBalance(s, a, v).slot = s.slot
<1> DEFINE f == s.balance
           g == [f EXCEPT ![a] = @ - v]
           r == SubBalance(s, a, v)
<1>1. f \in [Addresses -> Nat] /\ f[a] \in Nat /\ f[a] - v \in Nat
  BY DEF Accounts
<1>2. r = [s EXCEPT !.balance = g]
  BY Zenon DEF SubBalance, Accounts
<1>3. g \in [Addresses -> Nat]
  BY <1>1, Zenon
<1>4. /\ r \in Accounts /\ r.balance = g /\ r.nonce = s.nonce /\ r.sponsorNonce = s.sponsorNonce
      /\ r.code = s.code /\ r.slot = s.slot
  BY <1>2, <1>3, Zenon DEF Accounts
<1>5. f \in [Addresses -> Int] /\ IsFiniteSet(Addresses)
  BY <1>1, MessageAssumption
<1>6. SumFunction(g) = SumFunction(f) - v
  <2> HIDE DEF f
  <2>1. v \in Int
    OBVIOUS
  <2> QED BY <1>5, <2>1, SumShrink, Zenon
<1> HIDE DEF r
<1>7. Total(r) = Total(s) - v
  BY <1>4, <1>6, Zenon DEF Total
<1> QED BY <1>4, <1>7, Zenon DEF r

(* AddBalance raises one balance, and the total, by the amount.            *)
LEMMA BalanceUp ==
    ASSUME NEW s \in Accounts, NEW a \in Addresses, NEW v \in Nat
    PROVE  /\ AddBalance(s, a, v) \in Accounts
           /\ Total(AddBalance(s, a, v)) = Total(s) + v
           /\ AddBalance(s, a, v).balance = [s.balance EXCEPT ![a] = @ + v]
           /\ AddBalance(s, a, v).nonce = s.nonce
           /\ AddBalance(s, a, v).sponsorNonce = s.sponsorNonce
           /\ AddBalance(s, a, v).code = s.code /\ AddBalance(s, a, v).slot = s.slot
<1> DEFINE f == s.balance
           g == [f EXCEPT ![a] = @ + v]
           r == AddBalance(s, a, v)
<1>1. f \in [Addresses -> Nat] /\ f[a] \in Nat /\ f[a] + v \in Nat
  BY DEF Accounts
<1>2. r = [s EXCEPT !.balance = g]
  BY Zenon DEF AddBalance, Accounts
<1>3. g \in [Addresses -> Nat]
  BY <1>1, Zenon
<1>4. /\ r \in Accounts /\ r.balance = g /\ r.nonce = s.nonce /\ r.sponsorNonce = s.sponsorNonce
      /\ r.code = s.code /\ r.slot = s.slot
  BY <1>2, <1>3, Zenon DEF Accounts
<1>5. f \in [Addresses -> Int] /\ IsFiniteSet(Addresses)
  BY <1>1, MessageAssumption
<1>6. SumFunction(g) = SumFunction(f) + v
  <2> HIDE DEF f
  <2>1. v \in Int
    OBVIOUS
  <2> QED BY <1>5, <2>1, SumGrow, Zenon
<1> HIDE DEF r
<1>7. Total(r) = Total(s) + v
  BY <1>4, <1>6, Zenon DEF Total
<1> QED BY <1>4, <1>7, Zenon DEF r

(* The total of the balances is a number.                                  *)
LEMMA TotalType ==
    ASSUME NEW s \in Accounts
    PROVE  Total(s) \in Int
<1>1. s.balance \in [Addresses -> Int] /\ IsFiniteSet(Addresses)
  BY MessageAssumption DEF Accounts
<1> QED BY <1>1, SumFunctionType, Zenon DEF Total

(* A covered transfer moves value and nothing else.                        *)
LEMMA TransferMoves ==
    ASSUME NEW s \in Accounts, NEW a \in Addresses, NEW b \in Addresses, NEW v \in Nat,
           s.balance[a] >= v
    PROVE  Moved(s, Transfer(s, a, b, v)) /\ Transfer(s, a, b, v).slot = s.slot
<1> DEFINE w == SubBalance(s, a, v)
<1>1. /\ w \in Accounts /\ Total(w) = Total(s) - v /\ w.nonce = s.nonce
      /\ w.sponsorNonce = s.sponsorNonce /\ w.code = s.code /\ w.slot = s.slot
  BY BalanceDown
<1>2. Total(s) \in Int
  BY TotalType, Zenon
<1> HIDE DEF w
<1> DEFINE r == AddBalance(w, b, v)
<1>3. /\ r \in Accounts /\ Total(r) = Total(w) + v /\ r.nonce = w.nonce
      /\ r.sponsorNonce = w.sponsorNonce /\ r.code = w.code /\ r.slot = w.slot
  BY <1>1, BalanceUp, Zenon
<1>4. Transfer(s, a, b, v) = r
  BY Zenon DEF Transfer, w
<1> HIDE DEF r
<1>5. Moved(s, r) /\ r.slot = s.slot
  BY <1>1, <1>2, <1>3 DEF Moved
<1> QED BY <1>4, <1>5, Zenon

(* What a contract stores moves no balance.                                *)
LEMMA SlotFlips ==
    ASSUME NEW s \in Accounts, NEW a \in Addresses
    PROVE  LET w == [s EXCEPT !.slot[a] = 1 - @]
           IN  /\ Moved(s, w) /\ w.balance = s.balance
               /\ \A x \in Addresses \ {a} : w.slot[x] = s.slot[x]
<1> DEFINE w == [s EXCEPT !.slot[a] = 1 - @]
           f == [s.slot EXCEPT ![a] = 1 - @]
<1>1. f \in [Addresses -> {0, 1}] /\ \A x \in Addresses \ {a} : f[x] = s.slot[x]
  BY DEF Accounts
<1>2. w = [s EXCEPT !.slot = f]
  BY Zenon DEF Accounts
<1>3. /\ w \in Accounts /\ w.balance = s.balance /\ w.nonce = s.nonce
      /\ w.sponsorNonce = s.sponsorNonce /\ w.code = s.code /\ w.slot = f
  BY <1>1, <1>2, Zenon DEF Accounts
<1> HIDE DEF w
<1>4. Moved(s, w)
  BY <1>3, Zenon DEF Moved, Total
<1> QED BY <1>1, <1>3, <1>4, Zenon DEF w

(* Contract code moves value it has and writes its own slot.               *)
LEMMA EffectMoves ==
    ASSUME NEW s \in Accounts, NEW a \in Addresses, NEW b \in Addresses, NEW o \in Outcomes
    PROVE  /\ Moved(s, Effect(s, a, b, o))
           /\ \A x \in Addresses \ {a} : Effect(s, a, b, o).slot[x] = s.slot[x]
<1> DEFINE w == [s EXCEPT !.slot[a] = 1 - @]
           r == Transfer(w, a, b, o.pays)
<1>1. Moved(s, w) /\ \A x \in Addresses \ {a} : w.slot[x] = s.slot[x]
  BY SlotFlips, Zenon
<1>2. Effect(s, a, b, o) = IF CanTransfer(w, a, o.pays) THEN r ELSE w
  BY Zenon DEF Effect
<1> HIDE DEF w
<1>3. ASSUME CanTransfer(w, a, o.pays)
      PROVE  Moved(w, r) /\ r.slot = w.slot
  <2>1. w \in Accounts /\ w.balance[a] >= o.pays
    BY <1>1, <1>3, Zenon DEF Moved, CanTransfer
  <2> QED BY <2>1, OutcomeFields, TransferMoves
<1> HIDE DEF r
<1>4. CASE CanTransfer(w, a, o.pays)
  <2>1. Effect(s, a, b, o) = r
    BY <1>2, <1>4, Zenon
  <2>2. Moved(w, r) /\ r.slot = w.slot
    BY <1>3, <1>4, Zenon
  <2> QED BY <1>1, <2>1, <2>2, Zenon DEF Moved
<1>5. CASE ~CanTransfer(w, a, o.pays)
  BY <1>1, <1>2, <1>5, Zenon
<1> QED BY <1>4, <1>5, Zenon

(* A contract that pays itself keeps its balance.                          *)
LEMMA EffectOnSelf ==
    ASSUME NEW s \in Accounts, NEW a \in Addresses, NEW o \in Outcomes
    PROVE  Effect(s, a, a, o).balance = s.balance
<1> DEFINE w == [s EXCEPT !.slot[a] = 1 - @]
           v == o.pays
<1>1. w \in Accounts /\ w.balance = s.balance
  BY SlotFlips, Zenon DEF Moved
<1>2. v \in Nat
  BY OutcomeFields, Zenon
<1>3. Effect(s, a, a, o) = IF CanTransfer(w, a, v) THEN Transfer(w, a, a, v) ELSE w
  BY Zenon DEF Effect
<1> HIDE DEF w, v
<1>4. ASSUME CanTransfer(w, a, v)
      PROVE  Transfer(w, a, a, v).balance = w.balance
  <2> DEFINE f == w.balance
             d == SubBalance(w, a, v)
  <2>1. f \in [Addresses -> Nat] /\ f[a] >= v
    BY <1>1, <1>4, Zenon DEF Accounts, CanTransfer
  <2>2. d \in Accounts /\ d.balance = [f EXCEPT ![a] = @ - v]
    BY <1>1, <1>2, <2>1, BalanceDown
  <2> HIDE DEF d
  <2>3. AddBalance(d, a, v).balance = [d.balance EXCEPT ![a] = @ + v]
    BY <1>2, <2>2, BalanceUp
  <2>4. [[f EXCEPT ![a] = @ - v] EXCEPT ![a] = @ + v] = f
    BY <1>2, <2>1
  <2> QED BY <2>2, <2>3, <2>4, Zenon DEF Transfer, d
<1> QED BY <1>1, <1>3, <1>4, Zenon

(* The gas was bought at the price of the message, the validation paid     *)
(* for; nothing else changed but what the validation stored.               *)
Bought(s, m, t) ==
    /\ t \in Transitions /\ ~t.vmerr
    /\ t.gas = m.gas /\ t.initialGas = m.gas
    /\ t.state.balance =
           [s.balance EXCEPT ![gasPayer(m)] = @ - (m.gas + t.validationGas) * m.price]
    /\ s.nonce[m.from] = m.nonce /\ t.state.nonce = s.nonce
    /\ t.state.sponsorNonce = s.sponsorNonce /\ t.state.code = s.code
    /\ \A x \in Addresses \ {Wallet} : t.state.slot[x] = s.slot[x]
    /\ Total(t.state) = Total(s) - (m.gas + t.validationGas) * m.price

(* A lower price costs no more for the same gas.                           *)
LEMMA Products ==
    ASSUME NEW g \in Nat, NEW p \in Nat, NEW c \in Nat, p <= c
    PROVE  g * p \in Nat /\ g * c \in Nat /\ g * p <= g * c
<1>1. g * p \in Nat /\ g * c \in Nat
  OBVIOUS
<1>2. CASE g = 0
  BY <1>2
<1>3. CASE g # 0
  BY <1>3, TimesOrder
<1> QED BY <1>1, <1>2, <1>3, Zenon

(* Gas buys with the payer's balance, checked against the fee cap.         *)
LEMMA GasIsBought ==
    ASSUME NEW s \in Accounts, NEW m \in Msgs, s.nonce[m.from] = m.nonce,
           ~buyGas(NewStateTransition(s), m).refused
    PROVE  Bought(s, m, buyGas(NewStateTransition(s), m)) /\
           buyGas(NewStateTransition(s), m).validationGas = 0
<1> DEFINE t == NewStateTransition(s)
           p == gasPayer(m)
           q == m.gas * m.price
           c == m.gas * m.feeCap
           check == c + (IF m.sponsor # Nil THEN 0 ELSE m.value)
           d == SubBalance(s, p, q)
           r == [t EXCEPT !.gas = m.gas, !.initialGas = m.gas, !.state = d]
<1>1. p \in Addresses /\ m.value \in Nat /\ m.gas \in Nat
  BY MessageFields, Zenon
<1>2. q \in Nat /\ c \in Nat /\ q <= c
  BY MessageFields, Products, Zenon
<1>3. /\ t.state = s /\ ~t.refused /\ ~t.vmerr /\ t.validationGas = 0
      /\ t = [state |-> s, gas |-> 0, initialGas |-> 0, validationGas |-> 0,
              vmerr |-> FALSE, refused |-> FALSE]
  BY Zenon DEF NewStateTransition
<1>4. buyGas(t, m) = IF s.balance[p] < check THEN Refuse(t) ELSE r
  BY <1>3, Zenon DEF buyGas
<1>5. Refuse(t).refused
  BY <1>3, Zenon DEF Refuse
<1>6. ~(s.balance[p] < check)
  BY <1>4, <1>5, Zenon
<1>7. s.balance[p] \in Nat
  BY <1>1, AccountFields, Zenon
<1>8. s.balance[p] >= q
  <2> HIDE DEF p, q, c
  <2> QED BY <1>1, <1>2, <1>6, <1>7
<1>9. /\ d \in Accounts /\ Total(d) = Total(s) - q /\ d.balance = [s.balance EXCEPT ![p] = @ - q]
      /\ d.nonce = s.nonce /\ d.sponsorNonce = s.sponsorNonce /\ d.code = s.code /\ d.slot = s.slot
  <2> HIDE DEF p, q
  <2> QED BY <1>1, <1>2, <1>8, BalanceDown
<1>10. buyGas(t, m) = r
  BY <1>4, <1>6, Zenon
<1> HIDE DEF d
<1>11. /\ r \in Transitions /\ r.state = d /\ r.gas = m.gas /\ r.initialGas = m.gas
       /\ ~r.vmerr /\ r.validationGas = 0
  <2>1. t \in Transitions
    BY Zenon DEF NewStateTransition, Transitions
  <2> HIDE DEF t
  <2> QED BY <1>1, <1>3, <1>9, <2>1, Zenon DEF Transitions
<1>12. (m.gas + 0) * m.price = q
  BY <1>1
<1> HIDE DEF r
<1>13. Bought(s, m, r)
  BY <1>9, <1>11, <1>12, Zenon DEF Bought
<1> QED BY <1>10, <1>11, <1>13, Zenon

(* preCheck accepts a message only if its payer can buy the gas.           *)
LEMMA PreCheckBuys ==
    ASSUME NEW s \in Accounts, NEW m \in Msgs,
           ~preCheck(NewStateTransition(s), m).refused
    PROVE  Bought(s, m, preCheck(NewStateTransition(s), m)) /\
           preCheck(NewStateTransition(s), m).validationGas = 0
<1> DEFINE t == NewStateTransition(s)
           bad == \/ t.state.nonce[m.from] # m.nonce
                  \/ m.sponsor # Nil /\ (t.state.sponsorNonce[m.sponsor] # m.sponsorNonce \/ m.expired)
                  \/ t.state.code[m.from]
<1>1. t.state = s
  BY Zenon DEF NewStateTransition
<1>2. Refuse(t).refused
  BY Zenon DEF Refuse, NewStateTransition
<1>3. preCheck(t, m) = IF bad THEN Refuse(t) ELSE buyGas(t, m)
  BY Zenon DEF preCheck
<1>4. ~bad /\ preCheck(t, m) = buyGas(t, m)
  BY <1>2, <1>3, Zenon
<1>5. s.nonce[m.from] = m.nonce
  BY <1>1, <1>4, Zenon
<1> QED BY <1>4, <1>5, GasIsBought, Zenon

(* The validation is paid for by the same account, at most its cap.        *)
LEMMA ValidationIsPaid ==
    ASSUME NEW s \in Accounts, NEW m \in Msgs, NEW v \in Outcomes, NEW t,
           Bought(s, m, t), ~t.refused, t.validationGas = 0, m.to = Wallet,
           ~validateAccountContract(t, m, v).refused
    PROVE  Bought(s, m, validateAccountContract(t, m, v))
<1> DEFINE p == gasPayer(m)
           q == v.used * m.price
           c == ValidationGasCap * m.price
           w == Effect(t.state, m.to, m.to, v)
           d == SubBalance(w, p, q)
           r == [t EXCEPT !.state = d, !.validationGas = v.used]
           bad == \/ t.state.balance[p] < c
                  \/ v.err # "none" \/ v.used > ValidationGasCap
                  \/ ~v.truthy
<1>1. /\ p \in Addresses /\ m.gas \in Nat /\ m.price \in Nat /\ m.to \in Addresses
      /\ v.used \in Nat /\ ValidationGasCap \in Nat /\ t \in Transitions /\ t.state \in Accounts
  BY MessageFields, OutcomeFields, MessageAssumption, TransitionFields, Zenon DEF Bought, Addresses
<1>2. validateAccountContract(t, m, v) = IF bad THEN Refuse(t) ELSE r
  BY Zenon DEF validateAccountContract
<1>3. Refuse(t).refused
  BY <1>1, Zenon DEF Refuse, Transitions
<1>4. ~bad /\ validateAccountContract(t, m, v) = r
  BY <1>2, <1>3, Zenon
<1>5. q \in Nat /\ c \in Nat /\ q <= c
  <2>1. v.used <= ValidationGasCap
    BY <1>1, <1>4
  <2>2. m.price * v.used <= m.price * ValidationGasCap
    BY <1>1, <2>1, Products, Zenon
  <2> QED BY <1>1, <2>2
<1>6. /\ Moved(t.state, w) /\ w.balance = t.state.balance
      /\ \A x \in Addresses \ {Wallet} : w.slot[x] = t.state.slot[x]
  BY <1>1, EffectMoves, EffectOnSelf
<1>7. w \in Accounts /\ w.balance[p] \in Nat
  BY <1>1, <1>6, AccountFields, Zenon DEF Moved
<1> HIDE DEF w
<1>8. w.balance[p] >= q
  <2>1. ~(w.balance[p] < c)
    BY <1>4, <1>6, Zenon
  <2> HIDE DEF p, q, c
  <2> QED BY <1>5, <1>7, <2>1
<1>9. /\ d \in Accounts /\ Total(d) = Total(w) - q /\ d.balance = [w.balance EXCEPT ![p] = @ - q]
      /\ d.nonce = w.nonce /\ d.sponsorNonce = w.sponsorNonce /\ d.code = w.code /\ d.slot = w.slot
  <2> HIDE DEF p, q
  <2> QED BY <1>1, <1>5, <1>7, <1>8, BalanceDown
<1> HIDE DEF d
<1>10. /\ r \in Transitions /\ r.state = d /\ r.gas = m.gas /\ r.initialGas = m.gas
       /\ ~r.vmerr /\ r.validationGas = v.used
  BY <1>1, <1>9, Zenon DEF Transitions, Bought
<1> DEFINE y == m.gas * m.price
           z == (m.gas + v.used) * m.price
<1>11. y \in Nat /\ z = y + q /\ (m.gas + 0) * m.price = y
  BY <1>1
<1>12. Total(s) \in Int /\ s.balance \in [Addresses -> Nat]
  BY TotalType, AccountFields, Zenon
<1>13. /\ t.state.balance = [s.balance EXCEPT ![p] = @ - y] /\ Total(t.state) = Total(s) - y
  BY <1>11, Zenon DEF Bought
<1>14. Total(d) = Total(s) - z
  <2> HIDE DEF q, y, z
  <2> QED BY <1>5, <1>6, <1>9, <1>11, <1>12, <1>13 DEF Moved
<1>15. d.balance = [s.balance EXCEPT ![p] = @ - z]
  <2> HIDE DEF p, q, y, z
  <2>1. d.balance = [[s.balance EXCEPT ![p] = @ - y] EXCEPT ![p] = @ - q]
    BY <1>6, <1>9, <1>13, Zenon
  <2> QED BY <1>1, <1>5, <1>11, <1>12, <2>1
<1> HIDE DEF r
<1>16. Bought(s, m, r)
  BY <1>6, <1>9, <1>10, <1>14, <1>15 DEF Bought, Moved
<1> QED BY <1>4, <1>16, Zenon

(* What stands between a message and its execution.                        *)
Ready(s, m, t) ==
    /\ t \in Transitions /\ ~t.vmerr /\ ~t.refused
    /\ t.gas = m.gas - IntrinsicGas(m) /\ t.initialGas = m.gas
    /\ t.state.balance =
           [s.balance EXCEPT ![gasPayer(m)] = @ - (m.gas + t.validationGas) * m.price]
    /\ t.state.balance[m.from] >= m.value
    /\ s.nonce[m.from] = m.nonce /\ t.state.nonce = s.nonce
    /\ \A u \in Users : t.state.sponsorNonce[u] =
           s.sponsorNonce[u] + (IF u = m.sponsor THEN 1 ELSE 0)
    /\ t.state.code = s.code
    /\ \A x \in Addresses \ {Wallet} : t.state.slot[x] = s.slot[x]
    /\ Total(t.state) = Total(s) - (m.gas + t.validationGas) * m.price

(* The checks between buying gas and execution leave a message ready to    *)
(* run.                                                                    *)
LEMMA ChecksMakeReady ==
    ASSUME NEW s \in Accounts, NEW m \in Msgs, NEW t, Bought(s, m, t), ~t.refused,
           ~sponsored(paid(t, m), m).refused
    PROVE  Ready(s, m, sponsored(paid(t, m), m))
<1> DEFINE u == [t EXCEPT !.gas = @ - IntrinsicGas(m)]
           w == [u EXCEPT !.state.sponsorNonce[m.sponsor] = @ + 1]
<1>1. /\ t \in Transitions /\ t.state \in Accounts /\ t.gas \in Nat /\ t.gas = m.gas
      /\ IntrinsicGas(m) \in Nat /\ m.sponsor \in Users \cup {Nil} /\ Nil \notin Users
      /\ t.state.balance[m.from] \in Nat /\ m.value \in Nat
  BY MessageFields, TransitionFields, AccountFields, MessageAssumption DEF Bought, Addresses
<1>2. Refuse(t).refused /\ paid(t, m) = useIntrinsicGas(t, m)
  BY <1>1, Zenon DEF Refuse, Transitions, paid
<1>3. ~paid(t, m).refused
  BY Zenon DEF sponsored
<1>4. /\ paid(t, m) = u /\ ~(t.gas < IntrinsicGas(m)) /\ CanTransfer(t.state, m.from, m.value)
  BY <1>2, <1>3, Zenon DEF useIntrinsicGas
<1>5. /\ u \in Transitions /\ u.gas = m.gas - IntrinsicGas(m) /\ u.state = t.state
      /\ u.initialGas = t.initialGas /\ u.validationGas = t.validationGas /\ ~u.vmerr /\ ~u.refused
  BY <1>1, <1>4 DEF Transitions, Bought
<1>6. t.state.balance[m.from] >= m.value
  BY <1>4, Zenon DEF CanTransfer
<1> HIDE DEF u
<1>7. CASE m.sponsor = Nil
  <2>1. sponsored(paid(t, m), m) = u
    BY <1>4, <1>5, <1>7, Zenon DEF sponsored, spendSponsorNonce
  <2>2. \A x \in Users : s.sponsorNonce[x] \in Nat /\ x # m.sponsor
    BY <1>1, <1>7, AccountFields, Zenon
  <2>3. \A x \in Users : u.state.sponsorNonce[x] = s.sponsorNonce[x] + (IF x = m.sponsor THEN 1 ELSE 0)
    BY <1>5, <2>2 DEF Bought
  <2>4. Ready(s, m, u)
    BY <1>5, <1>6, <2>3, Zenon DEF Ready, Bought
  <2> QED BY <2>1, <2>4, Zenon
<1>8. CASE m.sponsor # Nil
  <2>1. Refuse(u).refused
    BY <1>5, Zenon DEF Refuse, Transitions
  <2>2. sponsored(paid(t, m), m) = w
    BY <1>4, <1>5, <1>8, <2>1, Zenon DEF sponsored, spendSponsorNonce
  <2> DEFINE f == [t.state.sponsorNonce EXCEPT ![m.sponsor] = @ + 1]
             d == [t.state EXCEPT !.sponsorNonce = f]
  <2>3. t.state.sponsorNonce \in [Users -> Nat] /\ t.state.sponsorNonce = s.sponsorNonce
    BY <1>1, AccountFields, Zenon DEF Bought
  <2>4. f \in [Users -> Nat] /\ \A x \in Users : f[x] = s.sponsorNonce[x] + (IF x = m.sponsor THEN 1 ELSE 0)
    BY <1>1, <1>8, <2>3
  <2> HIDE DEF f
  <2>5. /\ d \in Accounts /\ d.balance = t.state.balance /\ d.nonce = t.state.nonce
        /\ d.sponsorNonce = f /\ d.code = t.state.code /\ d.slot = t.state.slot
    BY <1>1, <2>4, Zenon DEF Accounts
  <2>6. w = [u EXCEPT !.state = d]
    BY <1>1, <1>5, Zenon DEF f, Transitions, Accounts
  <2>7. Total(d) = Total(t.state)
    BY <2>5, Zenon DEF Total
  <2> HIDE DEF d
  <2>8. /\ w \in Transitions /\ w.gas = u.gas /\ w.state = d /\ w.initialGas = u.initialGas
        /\ w.validationGas = u.validationGas /\ ~w.vmerr /\ ~w.refused
    BY <1>5, <2>5, <2>6, Zenon DEF Transitions
  <2> HIDE DEF w
  <2>9. Ready(s, m, w)
    BY <1>5, <1>6, <2>4, <2>5, <2>7, <2>8 DEF Ready, Bought
  <2> QED BY <2>2, <2>9, Zenon
<1> QED BY <1>7, <1>8, Zenon

(* A step of an execution: a state with the same total, no more gas.       *)
LEMMA RanWith ==
    ASSUME NEW t \in Transitions, ~t.refused, NEW m \in Msgs, NEW w, Moved(t.state, w),
           NEW g \in Nat, g <= t.gas, NEW e \in BOOLEAN,
           NEW r, r = [t EXCEPT !.state = w, !.gas = g, !.vmerr = e]
    PROVE  Ran(t, m, r)
<1>1. w \in Accounts /\ Total(w) = Total(t.state) /\ w.nonce = t.state.nonce
      /\ w.sponsorNonce = t.state.sponsorNonce
  BY Zenon DEF Moved
<1>2. /\ r \in Transitions /\ r.state = w /\ r.gas = g /\ r.initialGas = t.initialGas
      /\ r.validationGas = t.validationGas /\ ~r.refused
  BY <1>1, Zenon DEF Transitions
<1> QED BY <1>1, <1>2, Zenon DEF Ran

(* Doing nothing moves no value.                                           *)
LEMMA MovedNot ==
    ASSUME NEW s \in Accounts
    PROVE  Moved(s, s)
BY Zenon DEF Moved

(* A failure keeps the state and at most uses up gas.                      *)
LEMMA FailedWith ==
    ASSUME NEW t \in Transitions, ~t.refused, NEW m \in Msgs, NEW g \in Nat, g <= t.gas
    PROVE  /\ Ran(t, m, Fail([t EXCEPT !.gas = g])) /\ Atomic(t, Fail([t EXCEPT !.gas = g]))
           /\ Ran(t, m, Fail(t)) /\ Atomic(t, Fail(t))
<1>1. t.state \in Accounts /\ t.gas \in Nat
  BY TransitionFields, Zenon
<1>2. Fail([t EXCEPT !.gas = g]) = [t EXCEPT !.state = t.state, !.gas = g, !.vmerr = TRUE]
  BY Zenon DEF Fail, Transitions
<1>3. Fail(t) = [t EXCEPT !.state = t.state, !.gas = t.gas, !.vmerr = TRUE]
  BY Zenon DEF Fail, Transitions
<1>4. Ran(t, m, Fail([t EXCEPT !.gas = g])) /\ Ran(t, m, Fail(t))
  <2>1. Moved(t.state, t.state) /\ TRUE \in BOOLEAN /\ t.gas <= t.gas
    BY <1>1, MovedNot
  <2>2. Ran(t, m, Fail([t EXCEPT !.gas = g]))
    BY <1>2, <2>1, RanWith, Zenon
  <2>3. Ran(t, m, Fail(t))
    BY <1>1, <1>3, <2>1, RanWith, Zenon
  <2> QED BY <2>2, <2>3, Zenon
<1>5. Fail([t EXCEPT !.gas = g]).state = t.state /\ Fail(t).state = t.state
  BY Zenon DEF Fail, Transitions
<1> QED BY <1>4, <1>5, Zenon DEF Atomic

(* Using gas leaves between nothing and what there was.                    *)
LEMMA LessGas ==
    ASSUME NEW g \in Nat, NEW u \in Nat
    PROVE  g - (IF u > g THEN g ELSE u) \in Nat /\ g - (IF u > g THEN g ELSE u) <= g
OBVIOUS

(* LVM.Call gives the state back on every error.                           *)
LEMMA CallRan ==
    ASSUME NEW t \in Transitions, ~t.refused, ~t.vmerr, NEW m \in Msgs, NEW o \in Outcomes,
           m.to \in Addresses, t.state.balance[m.from] >= m.value
    PROVE  Ran(t, m, Call(t, m, o)) /\ Atomic(t, Call(t, m, o))
<1> DEFINE sent == Transfer(t.state, m.from, m.to, m.value)
           w == Effect(sent, m.to, m.from, o)
           left == t.gas - (IF o.used > t.gas THEN t.gas ELSE o.used)
<1>1. t.state \in Accounts /\ t.gas \in Nat /\ o.used \in Nat /\ m.from \in Addresses /\ m.value \in Nat
  BY TransitionFields, OutcomeFields, MessageFields, Zenon
<1>2. left \in Nat /\ left <= t.gas
  BY <1>1, LessGas, Zenon
<1>3. CASE o.err = "reverted"
  <2>1. Call(t, m, o) = Fail([t EXCEPT !.gas = left])
    BY <1>3, Zenon DEF Call
  <2> HIDE DEF left
  <2> QED BY <1>2, <2>1, FailedWith, Zenon
<1>4. CASE o.err # "reverted" /\ (o.err # "none" \/ o.used > t.gas)
  <2>1. Call(t, m, o) = Fail([t EXCEPT !.gas = 0])
    BY <1>4, Zenon DEF Call
  <2>2. 0 \in Nat /\ 0 <= t.gas
    BY <1>1
  <2> QED BY <2>1, <2>2, FailedWith, Zenon
<1>5. CASE o.err = "none" /\ ~(o.used > t.gas)
  <2>1. Call(t, m, o) = [t EXCEPT !.state = w, !.gas = @ - o.used]
    BY <1>5, Zenon DEF Call
  <2>2. Moved(t.state, sent)
    BY <1>1, TransferMoves, Zenon
  <2>3. Moved(sent, w)
    <3>1. sent \in Accounts
      BY <2>2, Zenon DEF Moved
    <3> HIDE DEF sent
    <3> QED BY <1>1, <3>1, EffectMoves, Zenon
  <2> HIDE DEF sent, w
  <2>4. Moved(t.state, w)
    BY <2>2, <2>3, Zenon DEF Moved
  <2>5. t.gas - o.used \in Nat /\ t.gas - o.used <= t.gas
    BY <1>1, <1>5
  <2>6. Call(t, m, o) = [t EXCEPT !.state = w, !.gas = t.gas - o.used, !.vmerr = FALSE]
    BY <2>1, Zenon DEF Transitions
  <2>7. Ran(t, m, Call(t, m, o))
    BY <2>4, <2>5, <2>6, RanWith, Zenon
  <2>8. ~Call(t, m, o).vmerr
    BY <2>6, Zenon DEF Transitions
  <2> QED BY <2>7, <2>8, Zenon DEF Atomic
<1> QED BY <1>3, <1>4, <1>5, Zenon

(* The states of a creation: the account is made, its creator's nonce is   *)
(* advanced.                                                               *)
Makes(s, m, w) ==
    /\ w \in Accounts /\ Total(w) = Total(s) /\ w.sponsorNonce = s.sponsorNonce
    /\ \A u \in Users \ {m.from} : w.nonce[u] = s.nonce[u]
    /\ w.nonce[m.from] = m.nonce + 1

(* The endowment of a new package moves value to it.                       *)
LEMMA CreationMakes ==
    ASSUME NEW s \in Accounts, NEW m \in Msgs, s.balance[m.from] >= m.value
    PROVE  Makes(s, m, createdState(s, m, CreateAddress(m.from, m.nonce)))
<1> DEFINE a == CreateAddress(m.from, m.nonce)
           w == Transfer(s, m.from, a, m.value)
           n == [w.nonce EXCEPT ![a] = 1]
           k == [n EXCEPT ![m.from] = m.nonce + 1]
           c == [w.code EXCEPT ![a] = TRUE]
           r == createdState(s, m, a)
<1>1. /\ a \in Addresses /\ a \notin Users /\ m.from \in Addresses /\ m.from \in Users
      /\ m.value \in Nat /\ m.nonce \in Nat /\ Users \subseteq Addresses
  BY MessageFields, Zenon DEF Addresses
<1>2. Moved(s, w)
  <2> HIDE DEF a
  <2> QED BY <1>1, TransferMoves, Zenon
<1>3. w \in Accounts /\ w.nonce = s.nonce /\ w.nonce \in [Addresses -> Nat] /\ w.code \in [Addresses -> BOOLEAN]
  BY <1>2, AccountFields, Zenon DEF Moved
<1> HIDE DEF w, a
<1>4. k \in [Addresses -> Nat] /\ c \in [Addresses -> BOOLEAN]
  BY <1>1, <1>3
<1>5. r = [w EXCEPT !.nonce = k, !.code = c]
  <2>1. SetNonce(w, a, 1) = [w EXCEPT !.nonce = n]
    BY <1>3, Zenon DEF SetNonce, Accounts
  <2>2. [[w EXCEPT !.nonce = n] EXCEPT !.code[a] = TRUE] = [w EXCEPT !.nonce = n, !.code = c]
    BY <1>3, Zenon DEF Accounts
  <2>3. SetNonce([w EXCEPT !.nonce = n, !.code = c], m.from, m.nonce + 1) = [w EXCEPT !.nonce = k, !.code = c]
    BY <1>3, Zenon DEF SetNonce, Accounts
  <2> QED BY <2>1, <2>2, <2>3, Zenon DEF createdState, w
<1>6. \A u \in Users \ {m.from} : k[u] = s.nonce[u]
  BY <1>1, <1>3, Zenon
<1>7. k[m.from] = m.nonce + 1
  BY <1>1, <1>3, Zenon
<1> HIDE DEF k, c
<1>8. /\ r \in Accounts /\ r.balance = w.balance /\ r.nonce = k /\ r.sponsorNonce = w.sponsorNonce
  BY <1>3, <1>4, <1>5, Zenon DEF Accounts
<1> HIDE DEF r
<1>9. Makes(s, m, r)
  BY <1>2, <1>6, <1>7, <1>8, Zenon DEF Makes, Moved, Total
<1> QED BY <1>9, Zenon DEF r, a

(* A creation that succeeds ran as a message may.                          *)
LEMMA MadeRan ==
    ASSUME NEW t \in Transitions, ~t.refused, ~t.vmerr, NEW m \in Msgs, NEW w, Makes(t.state, m, w),
           NEW g \in Nat, g <= t.gas, NEW r, r = [t EXCEPT !.state = w, !.gas = g]
    PROVE  Ran(t, m, r) /\ Atomic(t, r)
<1>1. w \in Accounts
  BY Zenon DEF Makes
<1>2. /\ r \in Transitions /\ r.state = w /\ r.gas = g /\ r.initialGas = t.initialGas
      /\ r.validationGas = t.validationGas /\ ~r.refused /\ ~r.vmerr
  BY <1>1, Zenon DEF Transitions
<1> QED BY <1>2, Zenon DEF Ran, Makes, Atomic

(* So does one with a constructor, whether that succeeds or not.           *)
LEMMA ConstructorRan ==
    ASSUME NEW t \in Transitions, ~t.refused, ~t.vmerr, NEW m \in Msgs, NEW o \in Outcomes, NEW made,
           Makes(t.state, m, made), NEW left \in Nat, left <= t.gas
    PROVE  Ran(t, m, constructed(t, made, m, o, left)) /\ Atomic(t, constructed(t, made, m, o, left))
<1> DEFINE a == CreateAddress(m.from, m.nonce)
           w == Effect(made, a, m.from, o)
           g == left - (IF o.used > left THEN left ELSE o.used)
<1>1. /\ t.gas \in Nat /\ o.used \in Nat /\ a \in Addresses /\ m.from \in Addresses /\ made \in Accounts
  BY TransitionFields, OutcomeFields, MessageFields, Zenon DEF Makes
<1>2. g \in Nat /\ g <= left
  BY <1>1, LessGas, Zenon
<1>3. CASE o.err # "none"
  <2>1. constructed(t, made, m, o, left) = Fail([t EXCEPT !.gas = g])
    BY <1>3, Zenon DEF constructed
  <2> HIDE DEF g
  <2>2. g <= t.gas
    BY <1>1, <1>2
  <2> QED BY <1>2, <2>1, <2>2, FailedWith, Zenon
<1>4. CASE o.err = "none" /\ o.used > left
  <2>1. constructed(t, made, m, o, left) = Fail([t EXCEPT !.gas = 0])
    BY <1>4, Zenon DEF constructed
  <2>2. 0 \in Nat /\ 0 <= t.gas
    BY <1>1
  <2> QED BY <2>1, <2>2, FailedWith, Zenon
<1>5. CASE o.err = "none" /\ ~(o.used > left)
  <2>1. constructed(t, made, m, o, left) = [t EXCEPT !.state = w, !.gas = left - o.used]
    BY <1>5, Zenon DEF constructed
  <2>2. Moved(made, w)
    <3> HIDE DEF a
    <3> QED BY <1>1, EffectMoves, Zenon
  <2> HIDE DEF w
  <2>3. Makes(t.state, m, w)
    BY <2>2, Zenon DEF Makes, Moved
  <2>4. left - o.used \in Nat /\ left - o.used <= t.gas
    BY <1>1, <1>5
  <2> QED BY <2>1, <2>3, <2>4, MadeRan, Zenon
<1> QED BY <1>3, <1>4, <1>5, Zenon

(* createPackage runs as a message may, whichever way it ends.             *)
LEMMA CreateRan ==
    ASSUME NEW t \in Transitions, ~t.refused, ~t.vmerr, NEW m \in Msgs, NEW o \in Outcomes
    PROVE  Ran(t, m, createPackage(t, m, o)) /\ Atomic(t, createPackage(t, m, o))
<1> DEFINE a == CreateAddress(m.from, m.nonce)
           made == createdState(t.state, m, a)
           r == createPackage(t, m, o)
<1>1. t.state \in Accounts /\ t.gas \in Nat /\ CodeGas \in Nat /\ 0 \in Nat /\ 0 <= t.gas
  BY TransitionFields, MessageAssumption
<1>2. CASE m.pkg = "raw"
  <2>1. r = Fail([t EXCEPT !.gas = 0])
    BY <1>2, Zenon DEF createPackage
  <2> QED BY <1>1, <2>1, FailedWith, Zenon
<1>3. CASE m.pkg # "raw" /\ (t.state.code[a] \/ t.state.nonce[a] # 0 \/ m.pkg = "invalid")
  <2>1. r = Fail(t)
    BY <1>3, Zenon DEF createPackage
  <2> QED BY <1>1, <2>1, FailedWith, Zenon
<1>4. CASE m.pkg # "raw" /\ ~(t.state.code[a] \/ t.state.nonce[a] # 0 \/ m.pkg = "invalid")
  <2>1. r = IF t.gas < CodeGas THEN Fail([t EXCEPT !.gas = 0])
            ELSE IF ~CanTransfer(t.state, m.from, m.value)
            THEN Fail([t EXCEPT !.gas = @ - CodeGas])
            ELSE IF m.pkg = "plain"
            THEN [t EXCEPT !.state = createdState(@, m, a), !.gas = @ - CodeGas]
            ELSE constructed(t, made, m, o, t.gas - CodeGas)
    BY <1>4, Zenon DEF createPackage
  <2>2. CASE t.gas < CodeGas
    BY <1>1, <2>1, <2>2, FailedWith, Zenon
  <2>3. CASE ~(t.gas < CodeGas) /\ ~CanTransfer(t.state, m.from, m.value)
    <3>1. r = Fail([t EXCEPT !.gas = t.gas - CodeGas])
      BY <2>1, <2>3, Zenon
    <3>2. t.gas - CodeGas \in Nat /\ t.gas - CodeGas <= t.gas
      BY <1>1, <2>3
    <3> QED BY <3>1, <3>2, FailedWith, Zenon
  <2>4. CASE ~(t.gas < CodeGas) /\ CanTransfer(t.state, m.from, m.value)
    <3>1. t.gas - CodeGas \in Nat /\ t.gas - CodeGas <= t.gas
      BY <1>1, <2>4
    <3>2. t.state.balance[m.from] >= m.value
      BY <2>4, Zenon DEF CanTransfer
    <3>3. Makes(t.state, m, made)
      BY <1>1, <3>2, CreationMakes, Zenon
    <3>4. r = IF m.pkg = "plain" THEN [t EXCEPT !.state = made, !.gas = t.gas - CodeGas]
              ELSE constructed(t, made, m, o, t.gas - CodeGas)
      BY <2>1, <2>4, Zenon
    <3> HIDE DEF made
    <3>5. CASE m.pkg = "plain"
      <4>1. r = [t EXCEPT !.state = made, !.gas = t.gas - CodeGas]
        BY <3>4, <3>5, Zenon
      <4> HIDE DEF r
      <4>2. Ran(t, m, r) /\ Atomic(t, r)
        BY <3>1, <3>3, <4>1, MadeRan, Zenon
      <4> QED BY <4>2, Zenon DEF r
    <3>6. CASE m.pkg # "plain"
      BY <3>1, <3>3, <3>4, <3>6, ConstructorRan, Zenon
    <3> QED BY <3>5, <3>6, Zenon
  <2> QED BY <2>2, <2>3, <2>4, Zenon
<1> QED BY <1>2, <1>3, <1>4, Zenon

(* TransitionDb goes back to its snapshot when a system action fails.      *)
LEMMA RevertRan ==
    ASSUME NEW t \in Transitions, NEW m \in Msgs, NEW r, Ran(t, m, r)
    PROVE  Ran(t, m, RevertToSnapshot(t, r)) /\ Atomic(t, RevertToSnapshot(t, r))
<1>1. CASE ~r.vmerr
  BY <1>1, Zenon DEF RevertToSnapshot, Atomic
<1>2. CASE r.vmerr
  <2> DEFINE w == [r EXCEPT !.state = t.state]
  <2>1. RevertToSnapshot(t, r) = w
    BY <1>2, Zenon DEF RevertToSnapshot
  <2>2. t.state \in Accounts /\ r \in Transitions
    BY TransitionFields, Zenon DEF Ran
  <2>3. /\ w \in Transitions /\ w.state = t.state /\ w.gas = r.gas /\ w.initialGas = r.initialGas
        /\ w.validationGas = r.validationGas /\ w.refused = r.refused
    BY <2>2, Zenon DEF Transitions
  <2> HIDE DEF w
  <2>4. Ran(t, m, w) /\ Atomic(t, w)
    BY <2>3, Zenon DEF Ran, Atomic
  <2> QED BY <2>1, <2>4, Zenon
<1> QED BY <1>1, <1>2, Zenon

(* A system-action handler runs as a message may.                          *)
LEMMA HandlerRan ==
    ASSUME NEW t \in Transitions, ~t.refused, NEW m \in Msgs, t.state.balance[m.from] >= m.value
    PROVE  Ran(t, m, executeHandler(t, m))
<1> DEFINE sent == Transfer(t.state, m.from, Registry, m.value)
           w == [sent EXCEPT !.slot[Registry] = 1 - @]
<1>1. /\ t.state \in Accounts /\ t.gas \in Nat /\ SysActionGas \in Nat /\ m.from \in Addresses
      /\ m.value \in Nat /\ Registry \in Addresses
  BY TransitionFields, MessageFields, MessageAssumption, Zenon DEF Addresses
<1>2. CASE t.gas < SysActionGas
  <2>1. executeHandler(t, m) = Fail([t EXCEPT !.gas = 0])
    BY <1>2, Zenon DEF executeHandler
  <2>2. 0 \in Nat /\ 0 <= t.gas
    BY <1>1
  <2> QED BY <2>1, <2>2, FailedWith, Zenon
<1>3. CASE ~(t.gas < SysActionGas)
  <2>1. \E e \in BOOLEAN :
            executeHandler(t, m) = [t EXCEPT !.state = w, !.gas = t.gas - SysActionGas, !.vmerr = e]
    BY <1>3, Zenon DEF executeHandler
  <2>7. PICK e \in BOOLEAN :
            executeHandler(t, m) = [t EXCEPT !.state = w, !.gas = t.gas - SysActionGas, !.vmerr = e]
    BY <2>1, Zenon
  <2>2. Moved(t.state, sent)
    BY <1>1, TransferMoves, Zenon
  <2>3. sent \in Accounts
    BY <2>2, Zenon DEF Moved
  <2> HIDE DEF sent
  <2>4. Moved(sent, w)
    BY <1>1, <2>3, SlotFlips, Zenon
  <2> HIDE DEF w
  <2>5. Moved(t.state, w)
    BY <2>2, <2>4, Zenon DEF Moved
  <2>6. t.gas - SysActionGas \in Nat /\ t.gas - SysActionGas <= t.gas
    BY <1>1, <1>3
  <2> QED BY <2>5, <2>6, <2>7, RanWith, Zenon
<1> QED BY <1>2, <1>3, Zenon

(* A lease deployment locks its deposit and then creates.                  *)
LEMMA LeaseRan ==
    ASSUME NEW t \in Transitions, ~t.refused, ~t.vmerr, NEW m \in Msgs, NEW o \in Outcomes
    PROVE  Ran(t, m, executeLeaseDeploy(t, m, o))
<1> DEFINE w == Transfer(t.state, m.from, Registry, Deposit)
           u == [t EXCEPT !.state = w]
<1>1. /\ t.state \in Accounts /\ t.gas \in Nat /\ Deposit \in Nat /\ m.from \in Addresses
      /\ Registry \in Addresses /\ t.state.balance[m.from] \in Nat
  BY TransitionFields, MessageFields, AccountFields, MessageAssumption DEF Addresses
<1>2. CASE t.state.balance[m.from] < Deposit
  <2>1. executeLeaseDeploy(t, m, o) = Fail(t)
    BY <1>2, Zenon DEF executeLeaseDeploy
  <2>2. 0 \in Nat /\ 0 <= t.gas
    BY <1>1
  <2> QED BY <2>1, <2>2, FailedWith, Zenon
<1>3. CASE ~(t.state.balance[m.from] < Deposit)
  <2>1. executeLeaseDeploy(t, m, o) = createPackage(u, m, o)
    BY <1>3, Zenon DEF executeLeaseDeploy
  <2>2. t.state.balance[m.from] >= Deposit
    BY <1>1, <1>3
  <2>3. Moved(t.state, w)
    BY <1>1, <2>2, TransferMoves, Zenon
  <2> HIDE DEF w
  <2>4. /\ u \in Transitions /\ u.state = w /\ u.gas = t.gas /\ u.initialGas = t.initialGas
        /\ u.validationGas = t.validationGas /\ ~u.refused /\ ~u.vmerr
    BY <2>3, Zenon DEF Transitions, Moved
  <2> HIDE DEF u
  <2>5. Ran(u, m, createPackage(u, m, o))
    BY <2>4, CreateRan, Zenon
  <2>6. Ran(t, m, createPackage(u, m, o))
    BY <2>3, <2>4, <2>5, Zenon DEF Ran, Moved
  <2> QED BY <2>1, <2>6, Zenon
<1> QED BY <1>2, <1>3, Zenon

(* executeSystemAction runs as a message may, and a failure leaves         *)
(* nothing.                                                                *)
LEMMA SystemActionRan ==
    ASSUME NEW t \in Transitions, ~t.refused, ~t.vmerr, NEW m \in Msgs, NEW o \in Outcomes,
           t.state.balance[m.from] >= m.value
    PROVE  /\ Ran(t, m, executeSystemAction(t, m, o)) /\ Atomic(t, executeSystemAction(t, m, o))
<1> DEFINE g == IF t.gas < SysActionGas THEN 0 ELSE t.gas - SysActionGas
           r == CASE m.action = "undecodable" ->
                     Fail([t EXCEPT !.gas = IF @ < SysActionGas THEN 0 ELSE @ - SysActionGas])
                  [] m.action = "lease" -> executeLeaseDeploy(t, m, o)
                  [] OTHER -> executeHandler(t, m)
<1>1. executeSystemAction(t, m, o) = RevertToSnapshot(t, r)
  BY Zenon DEF executeSystemAction
<1>2. Ran(t, m, r)
  <2>1. CASE m.action = "undecodable"
    <3>1. r = Fail([t EXCEPT !.gas = g])
      BY <2>1, Zenon
    <3>2. g \in Nat /\ g <= t.gas
      BY TransitionFields, MessageAssumption
    <3> HIDE DEF g
    <3> QED BY <3>1, <3>2, FailedWith, Zenon
  <2>2. CASE m.action = "lease"
    BY <2>2, LeaseRan, Zenon
  <2>3. CASE m.action # "undecodable" /\ m.action # "lease"
    BY <2>3, HandlerRan, Zenon
  <2> QED BY <2>1, <2>2, <2>3, Zenon
<1> HIDE DEF r
<1> QED BY <1>1, <1>2, RevertRan, Zenon

(* What executing a message leaves: its gas and its value accounted for,   *)
(* the nonces, and only the nonce after a failure.                         *)
Executed(t, m, r) ==
    /\ r \in Transitions /\ ~r.refused
    /\ r.initialGas = t.initialGas /\ r.validationGas = t.validationGas /\ r.gas <= t.gas
    /\ Total(r.state) = Total(t.state)
    /\ r.state.sponsorNonce = t.state.sponsorNonce
    /\ \A u \in Users \ {m.from} : r.state.nonce[u] = t.state.nonce[u]
    /\ m.to # Nil => r.state.nonce[m.from] = m.nonce + 1
    /\ r.vmerr => /\ r.state.balance = t.state.balance /\ r.state.code = t.state.code
                  /\ r.state.slot = t.state.slot

(* execute runs as a message may and advances the nonce of its sender      *)
(* once.                                                                   *)
LEMMA ExecuteRan ==
    ASSUME NEW t \in Transitions, ~t.refused, ~t.vmerr, NEW m \in Msgs, NEW o \in Outcomes,
           t.state.balance[m.from] >= m.value
    PROVE  Executed(t, m, execute(t, m, o))
<1> DEFINE n == [t.state.nonce EXCEPT ![m.from] = m.nonce + 1]
           w == SetNonce(t.state, m.from, m.nonce + 1)
           u == [t EXCEPT !.state = w]
           e == CASE m.to = SystemAction -> executeSystemAction(u, m, o)
                  [] m.to = SlashIndicator -> RevertToSnapshot(u, executeHandler(u, m))
                  [] OTHER -> IF u.state.code[m.to] THEN Call(u, m, o)
                              ELSE [u EXCEPT !.state = Transfer(@, m.from, m.to, m.value)]
<1>1. /\ t.state \in Accounts /\ t.gas \in Nat /\ m.from \in Addresses /\ m.from \in Users
      /\ m.to \in Addresses \cup {Nil} /\ m.value \in Nat /\ m.nonce \in Nat /\ Users \subseteq Addresses
  BY TransitionFields, MessageFields, Zenon DEF Addresses
<1>2. CASE m.to = Nil
  <2>1. execute(t, m, o) = createPackage(t, m, o)
    BY <1>2, Zenon DEF execute
  <2>2. Ran(t, m, createPackage(t, m, o)) /\ Atomic(t, createPackage(t, m, o))
    BY CreateRan, Zenon
  <2> QED BY <1>2, <2>1, <2>2, Zenon DEF Ran, Atomic, Executed
<1>3. CASE m.to # Nil
  <2>1. execute(t, m, o) = e
    BY <1>3, Zenon DEF execute
  <2>2. n \in [Addresses -> Nat] /\ n[m.from] = m.nonce + 1 /\ \A x \in Users \ {m.from} : n[x] = t.state.nonce[x]
    BY <1>1, AccountFields
  <2>3. w = [t.state EXCEPT !.nonce = n]
    BY <1>1, Zenon DEF SetNonce, Accounts
  <2> HIDE DEF n
  <2>4. /\ w \in Accounts /\ w.nonce = n /\ w.balance = t.state.balance /\ w.code = t.state.code
        /\ w.sponsorNonce = t.state.sponsorNonce /\ w.slot = t.state.slot
    BY <1>1, <2>2, <2>3, Zenon DEF Accounts
  <2> HIDE DEF w
  <2>5. /\ u \in Transitions /\ u.state = w /\ u.gas = t.gas /\ u.initialGas = t.initialGas
        /\ u.validationGas = t.validationGas /\ ~u.refused /\ ~u.vmerr
    BY <2>4, Zenon DEF Transitions
  <2> HIDE DEF u
  <2>6. Ran(u, m, e) /\ Atomic(u, e)
    <3>1. u.state.balance[m.from] >= m.value
      BY <2>4, <2>5, Zenon
    <3>2. CASE m.to = SystemAction
      <4>1. e = executeSystemAction(u, m, o)
        BY <3>2, MessageAssumption, Zenon
      <4> HIDE DEF e
      <4> QED BY <2>5, <3>1, <4>1, SystemActionRan, Zenon
    <3>3. CASE m.to # SystemAction /\ m.to = SlashIndicator
      <4>1. Ran(u, m, executeHandler(u, m))
        BY <2>5, <3>1, HandlerRan, Zenon
      <4>2. e = RevertToSnapshot(u, executeHandler(u, m))
        BY <3>3, Zenon
      <4> QED BY <2>5, <4>1, <4>2, RevertRan
    <3>4. CASE m.to # SystemAction /\ m.to # SlashIndicator /\ u.state.code[m.to]
      <4>1. e = Call(u, m, o)
        BY <3>4, Zenon
      <4>2. m.to \in Addresses
        BY <1>1, <1>3, Zenon
      <4> QED BY <2>5, <3>1, <4>1, <4>2, CallRan, Zenon
    <3>5. CASE m.to # SystemAction /\ m.to # SlashIndicator /\ ~u.state.code[m.to]
      <4> DEFINE d == Transfer(u.state, m.from, m.to, m.value)
      <4>1. e = [u EXCEPT !.state = d]
        BY <3>5, Zenon
      <4>2. Moved(u.state, d)
        BY <1>1, <1>3, <2>4, <2>5, <3>1, TransferMoves, Zenon
      <4> HIDE DEF d
      <4> HIDE DEF e
      <4>3. e = [u EXCEPT !.state = d, !.gas = u.gas, !.vmerr = FALSE]
        BY <2>5, <4>1, Zenon DEF Transitions
      <4>4. u.gas \in Nat /\ u.gas <= u.gas
        BY <1>1, <2>5
      <4>5. Ran(u, m, e)
        BY <2>5, <4>2, <4>3, <4>4, RanWith, Zenon
      <4>6. ~e.vmerr
        BY <2>5, <4>1, Zenon DEF Transitions
      <4> QED BY <4>5, <4>6, Zenon DEF Atomic
    <3> QED BY <3>2, <3>3, <3>4, <3>5, Zenon
  <2> HIDE DEF e
  <2>7. Total(w) = Total(t.state)
    BY <2>4, Zenon DEF Total
  <2>8. Executed(t, m, e)
    BY <2>2, <2>4, <2>5, <2>6, <2>7, Zenon DEF Ran, Atomic, Executed
  <2> QED BY <2>1, <2>8, Zenon
<1> QED BY <1>2, <1>3, Zenon

(* What a message that is not refused has done to state s.                 *)
Applied(s, m, t) ==
    /\ t \in Transitions /\ Total(t.state) = Total(s)
    /\ gasUsed(t) \in Nat /\ gasUsed(t) - t.validationGas \in IntrinsicGas(m)..m.gas
    /\ \A u \in Users : t.state.sponsorNonce[u] =
           s.sponsorNonce[u] + (IF u = m.sponsor THEN 1 ELSE 0)
    /\ \A u \in Users \ {m.from} : t.state.nonce[u] = s.nonce[u]
    /\ m.to # Nil => t.state.nonce[m.from] = s.nonce[m.from] + 1
    /\ t.vmerr =>
         /\ t.state.balance = [s.balance EXCEPT ![gasPayer(m)] = @ - gasUsed(t) * m.price,
                                                ![Coinbase] = @ + gasUsed(t) * m.price]
         /\ t.state.code = s.code
         /\ \A x \in Addresses \ {Wallet} : t.state.slot[x] = s.slot[x]

(* The rest of the gas goes back to its payer, the gas used to the author. *)
LEMMA FeesArePaid ==
    ASSUME NEW s \in Accounts, NEW m \in Msgs, NEW t, Ready(s, m, t), NEW r, Executed(t, m, r)
    PROVE  Applied(s, m, payFee(refundGas(r, m), m))
<1> DEFINE p == gasPayer(m)
           g == r.gas
           i == m.gas
           v == r.validationGas
           R == g * m.price
           F == (i - g + v) * m.price
           B == (i + v) * m.price
           a == AddBalance(r.state, p, R)
           b == AddBalance(a, Coinbase, F)
           y == [r EXCEPT !.state = a]
           z == [y EXCEPT !.state = b]
<1>1. /\ r \in Transitions /\ r.state \in Accounts /\ g \in Nat /\ v \in Nat /\ i \in Nat
      /\ m.price \in Nat /\ p \in Addresses /\ Coinbase \in Addresses /\ IntrinsicGas(m) \in Nat
      /\ t.gas \in Nat /\ r.vmerr \in BOOLEAN
  BY MessageFields, TransitionFields, Zenon DEF Ready, Executed, Addresses
<1>2. /\ g <= i - IntrinsicGas(m) /\ r.initialGas = i /\ t.validationGas = v
  BY Zenon DEF Ready, Executed
<1>3. g <= i /\ i - g \in IntrinsicGas(m)..i /\ i - g + v \in Nat
  BY <1>1, <1>2
<1>4. R \in Nat /\ F \in Nat /\ B \in Nat
  BY <1>1, <1>3
<1>5. R + F = B
  BY <1>1
<1>6. /\ a \in Accounts /\ Total(a) = Total(r.state) + R
      /\ a.balance = [r.state.balance EXCEPT ![p] = @ + R]
      /\ a.nonce = r.state.nonce /\ a.sponsorNonce = r.state.sponsorNonce
      /\ a.code = r.state.code /\ a.slot = r.state.slot
  <2> HIDE DEF p, R
  <2> QED BY <1>1, <1>4, BalanceUp
<1> HIDE DEF a
<1>7. /\ b \in Accounts /\ Total(b) = Total(a) + F
      /\ b.balance = [a.balance EXCEPT ![Coinbase] = @ + F]
      /\ b.nonce = a.nonce /\ b.sponsorNonce = a.sponsorNonce
      /\ b.code = a.code /\ b.slot = a.slot
  <2> HIDE DEF F
  <2>1. a \in Accounts /\ F \in Nat /\ Coinbase \in Addresses
    BY <1>1, <1>4, <1>6, Zenon
  <2> QED BY <2>1, BalanceUp
<1> HIDE DEF b
<1>8. refundGas(r, m) = y
  BY Zenon DEF refundGas, a
<1>9. /\ y \in Transitions /\ y.state = a /\ y.gas = g /\ y.initialGas = i /\ y.validationGas = v
      /\ y.vmerr = r.vmerr /\ y.refused = r.refused
  BY <1>1, <1>2, <1>6, Zenon DEF Transitions
<1> HIDE DEF y
<1>10. gasUsed(y) = i - g + v
  BY <1>9, Zenon DEF gasUsed
<1>11. payFee(y, m) = z
  BY <1>9, <1>10, Zenon DEF payFee, b
<1>12. /\ z \in Transitions /\ z.state = b /\ z.gas = g /\ z.initialGas = i /\ z.validationGas = v
       /\ z.vmerr = r.vmerr
  BY <1>7, <1>9, Zenon DEF Transitions
<1> HIDE DEF z
<1>13. gasUsed(z) = i - g + v /\ gasUsed(z) * m.price = F
  BY <1>12, Zenon DEF gasUsed
<1>14. gasUsed(z) \in Nat /\ gasUsed(z) - z.validationGas \in IntrinsicGas(m)..m.gas
  BY <1>1, <1>3, <1>12, <1>13
<1>15. Total(b) = Total(s)
  <2>1. Total(r.state) = Total(s) - B
    BY <1>2, Zenon DEF Ready, Executed
  <2>2. Total(s) \in Int
    BY TotalType, Zenon
  <2> HIDE DEF R, F, B
  <2> QED BY <1>4, <1>5, <1>6, <1>7, <2>1, <2>2
<1>16. ASSUME r.vmerr
       PROVE  b.balance = [s.balance EXCEPT ![p] = @ - F, ![Coinbase] = @ + F]
  <2>1. r.state.balance = [s.balance EXCEPT ![p] = @ - B]
    BY <1>2, <1>16, Zenon DEF Ready, Executed
  <2>2. b.balance = [[[s.balance EXCEPT ![p] = @ - B] EXCEPT ![p] = @ + R] EXCEPT ![Coinbase] = @ + F]
    BY <1>6, <1>7, <2>1, Zenon
  <2>3. s.balance \in [Addresses -> Nat]
    BY AccountFields, Zenon
  <2> HIDE DEF p, R, F, B
  <2> QED BY <1>1, <1>4, <1>5, <2>2, <2>3
<1>22. /\ z.state.sponsorNonce = t.state.sponsorNonce /\ z.state.nonce = r.state.nonce
       /\ z.state.code = r.state.code /\ z.state.slot = r.state.slot /\ z.vmerr = r.vmerr
  BY <1>6, <1>7, <1>12, Zenon DEF Ready, Executed
<1>17. \A u \in Users : z.state.sponsorNonce[u] = s.sponsorNonce[u] + (IF u = m.sponsor THEN 1 ELSE 0)
  <2>1. \A u \in Users : t.state.sponsorNonce[u] = s.sponsorNonce[u] + (IF u = m.sponsor THEN 1 ELSE 0)
    BY Zenon DEF Ready
  <2> QED BY <1>22, <2>1, Zenon
<1>18. /\ \A u \in Users \ {m.from} : z.state.nonce[u] = s.nonce[u]
       /\ m.to # Nil => z.state.nonce[m.from] = s.nonce[m.from] + 1
  <2>1. /\ \A u \in Users \ {m.from} : r.state.nonce[u] = t.state.nonce[u]
        /\ m.to # Nil => r.state.nonce[m.from] = m.nonce + 1
    BY Zenon DEF Executed
  <2>2. t.state.nonce = s.nonce /\ s.nonce[m.from] = m.nonce
    BY Zenon DEF Ready
  <2> QED BY <1>22, <2>1, <2>2, Zenon
<1>19. z.vmerr => /\ z.state.code = s.code
                  /\ \A x \in Addresses \ {Wallet} : z.state.slot[x] = s.slot[x]
  <2>1. r.vmerr => r.state.code = t.state.code /\ r.state.slot = t.state.slot
    BY Zenon DEF Executed
  <2>2. t.state.code = s.code /\ \A x \in Addresses \ {Wallet} : t.state.slot[x] = s.slot[x]
    BY Zenon DEF Ready
  <2> QED BY <1>22, <2>1, <2>2, Zenon
<1>20. Total(z.state) = Total(s) /\ (z.vmerr => z.state.balance =
           [s.balance EXCEPT ![p] = @ - gasUsed(z) * m.price, ![Coinbase] = @ + gasUsed(z) * m.price])
  BY <1>12, <1>13, <1>15, <1>16, Zenon
<1>21. Applied(s, m, z)
  BY <1>12, <1>14, <1>17, <1>18, <1>19, <1>20, Zenon DEF Applied
<1> QED BY <1>8, <1>11, <1>21, Zenon

(* TransitionDb, whichever way a message takes through it.                 *)
LEMMA TransitionApplies ==
    ASSUME NEW s \in Accounts, NEW m \in Msgs, NEW v \in Outcomes, NEW o \in Outcomes,
           ~TransitionDb(s, m, v, o).refused
    PROVE  Applied(s, m, TransitionDb(s, m, v, o))
<1> DEFINE c == preCheck(NewStateTransition(s), m)
           d == targetCheck(c, m)
           e == validated(d, m, v)
           f == sponsored(paid(e, m), m)
           x == run(f, m, o)
<1>1. TransitionDb(s, m, v, o) = finish(x, m)
  BY Zenon DEF TransitionDb
<1>2. ~x.refused /\ finish(x, m) = payFee(refundGas(x, m), m)
  <2> HIDE DEF x
  <2> QED BY <1>1, Zenon DEF finish
<1>3. ~f.refused /\ x = execute(f, m, o)
  <2> HIDE DEF f
  <2> QED BY <1>2, Zenon DEF run
<1>4. ~paid(e, m).refused
  <2> DEFINE q == paid(e, m)
  <2> HIDE DEF q
  <2>1. ~q.refused
    BY <1>3, Zenon DEF sponsored, q
  <2> QED BY <2>1, Zenon DEF q
<1>5. ~e.refused
  <2> HIDE DEF e
  <2> QED BY <1>4, Zenon DEF paid
<1>6. ~d.refused
  <2> HIDE DEF d
  <2> QED BY <1>5, Zenon DEF validated
<1>7. ~c.refused
  <2> HIDE DEF c
  <2> QED BY <1>6 DEF targetCheck, Refuse
<1>8. Bought(s, m, c) /\ c.validationGas = 0
  BY <1>7, PreCheckBuys, Zenon
<1> HIDE DEF c
<1>9. d = c
  <2>1. Refuse(c).refused
    BY <1>8, Zenon DEF Refuse, Bought, Transitions
  <2> QED BY <1>6, <2>1, Zenon DEF targetCheck
<1> HIDE DEF d
<1>10. Bought(s, m, e)
  <2>1. CASE m.to # Wallet
    BY <1>8, <1>9, <2>1, Zenon DEF validated
  <2>2. CASE m.to = Wallet
    <3>1. e = validateAccountContract(d, m, v)
      BY <1>6, <2>2, Zenon DEF validated
    <3> QED BY <1>5, <1>6, <1>8, <1>9, <2>2, <3>1, ValidationIsPaid, Zenon
  <2> QED BY <2>1, <2>2, Zenon
<1> HIDE DEF e
<1>11. Ready(s, m, f)
  BY <1>3, <1>5, <1>10, ChecksMakeReady, Zenon
<1> HIDE DEF f
<1>12. Executed(f, m, x)
  <2>1. f \in Transitions /\ ~f.refused /\ ~f.vmerr /\ f.state.balance[m.from] >= m.value
    BY <1>3, <1>11, Zenon DEF Ready
  <2>2. Executed(f, m, execute(f, m, o))
    BY <2>1, ExecuteRan, Zenon
  <2> QED BY <1>3, <2>2, Zenon
<1> HIDE DEF x
<1> QED BY <1>1, <1>2, <1>11, <1>12, FeesArePaid, Zenon

(* The inductive invariant: states without debts, and a block whose        *)
(* receipts count its gas.                                                 *)
MessageReceipts ==
    [msg : Msgs, failed : BOOLEAN, gasUsed : Nat, validationGas : Nat, cumulative : Nat]

MessageInv ==
    /\ state \in Accounts /\ base \in Accounts
    /\ gp \in Int
    /\ block \in [number : Nat, scheduled : Scheduled, usedGas : Nat, receipts : Seq(MessageReceipts)]
    /\ BlockGasExact

(* A block begins with its scheduled gas used and no receipts.             *)
LEMMA BlockBegins ==
    ASSUME NEW n \in Nat, NEW g \in Scheduled
    PROVE  /\ Begin(n, g) \in [number : Nat, scheduled : Scheduled, usedGas : Nat,
                               receipts : Seq(MessageReceipts)]
           /\ GasLimit - g \in Int
           /\ Begin(n, g).receipts = <<>> /\ Begin(n, g).usedGas = g /\ Begin(n, g).scheduled = g
           /\ g = GasLimit - (GasLimit - g) /\ g <= GasLimit
<1>1. g \in Nat /\ GasLimit \in Nat /\ g <= GasLimit
  BY MessageAssumption
<1> QED BY <1>1 DEF Begin

(* The invariant holds at first.                                           *)
LEMMA MessageStart == MessageInit => MessageInv
<1> SUFFICES ASSUME MessageInit PROVE MessageInv
  BY Zenon
<1>1. PICK g \in Scheduled : gp = GasLimit - g /\ block = Begin(1, g)
  BY Zenon DEF MessageInit
<1>2. state \in Accounts
  <2>1. Funds \in Nat
    BY MessageAssumption, Zenon
  <2> QED BY <2>1 DEF MessageInit, Accounts
<1>3. base = state
  BY Zenon DEF MessageInit
<1>4. /\ block \in [number : Nat, scheduled : Scheduled, usedGas : Nat, receipts : Seq(MessageReceipts)]
      /\ gp \in Int /\ block.receipts = <<>> /\ block.usedGas = g /\ block.scheduled = g
      /\ g = GasLimit - gp /\ g <= GasLimit
  BY <1>1, BlockBegins, Zenon
<1>5. BlockGasExact
  BY <1>4 DEF BlockGasExact
<1> QED BY <1>2, <1>3, <1>4, <1>5, Zenon DEF MessageInv

(* A receipt more, counted on from the last.                               *)
LEMMA ReceiptCounts ==
    ASSUME MessageInv, NEW m \in Msgs, NEW t, Applied(state, m, t), Include(m, t)
    PROVE  /\ block' \in [number : Nat, scheduled : Scheduled, usedGas : Nat,
                          receipts : Seq(MessageReceipts)]
           /\ gp' \in Int /\ BlockGasExact'
           /\ block'.receipts = Append(block.receipts, Receipt(t, m))
<1> DEFINE rs == block.receipts
           q == Receipt(t, m)
           u == gasUsed(t)
           before(i) == IF i = 1 THEN block.scheduled ELSE rs[i - 1].cumulative
<1>1. /\ rs \in Seq(MessageReceipts) /\ block.usedGas \in Nat /\ gp \in Int /\ GasLimit \in Nat
      /\ block.scheduled \in Scheduled /\ block.number \in Nat
      /\ block \in [number : Nat, scheduled : Scheduled, usedGas : Nat, receipts : Seq(MessageReceipts)]
  BY MessageAssumption, Zenon DEF MessageInv
<1>2. u \in Nat /\ t \in Transitions /\ u - t.validationGas \in IntrinsicGas(m)..m.gas
  BY Zenon DEF Applied
<1>3. /\ q \in MessageReceipts /\ q.msg = m /\ q.gasUsed = u /\ q.validationGas = t.validationGas
      /\ q.cumulative = block.usedGas + u
  BY <1>1, <1>2, TransitionFields DEF Receipt, MessageReceipts
<1>4. /\ gp' = gp - u /\ u <= gp
      /\ block' = [block EXCEPT !.usedGas = @ + u, !.receipts = Append(@, q)]
  BY Zenon DEF Include, fits
<1> HIDE DEF q
<1>5. Append(rs, q) \in Seq(MessageReceipts) /\ Len(Append(rs, q)) = Len(rs) + 1 /\ Len(rs) \in Nat
  BY <1>1, <1>3
<1>6. /\ block'.receipts = Append(rs, q) /\ block'.usedGas = block.usedGas + u
      /\ block'.scheduled = block.scheduled
      /\ block' \in [number : Nat, scheduled : Scheduled, usedGas : Nat, receipts : Seq(MessageReceipts)]
  <2>1. u \in Nat
    BY <1>2, Zenon
  <2> DEFINE ap == Append(rs, q)
             k == block.usedGas + u
  <2>2. block' = [block EXCEPT !.usedGas = k, !.receipts = ap]
    BY <1>1, <1>4, Zenon
  <2>3. ap \in Seq(MessageReceipts) /\ k \in Nat
    BY <1>1, <1>5, <2>1
  <2> HIDE DEF ap, k
  <2>4. block'.receipts = ap /\ block'.usedGas = k /\ block'.scheduled = block.scheduled
        /\ block' \in [number : Nat, scheduled : Scheduled, usedGas : Nat, receipts : Seq(MessageReceipts)]
    BY <1>1, <2>2, <2>3, Zenon
  <2> QED BY <2>4, Zenon DEF ap, k
<1>7. gp' \in Int
  BY <1>1, <1>2, <1>4
<1>8. /\ block.usedGas = GasLimit - gp /\ block.usedGas <= GasLimit
      /\ block.usedGas = before(Len(rs) + 1)
      /\ \A i \in DOMAIN rs :
           /\ rs[i].cumulative = before(i) + rs[i].gasUsed
           /\ rs[i].gasUsed - rs[i].validationGas \in IntrinsicGas(rs[i].msg)..rs[i].msg.gas
  BY Zenon DEF MessageInv, BlockGasExact
<1> DEFINE ns == Append(rs, q)
           after(i) == IF i = 1 THEN block.scheduled ELSE ns[i - 1].cumulative
<1>9. /\ DOMAIN rs = 1..Len(rs) /\ DOMAIN ns = 1..(Len(rs) + 1) /\ ns[Len(rs) + 1] = q
      /\ \A i \in 1..Len(rs) : ns[i] = rs[i]
  BY <1>1, <1>3, <1>5
<1>10. \A i \in 1..(Len(rs) + 1) : after(i) = before(i)
  BY <1>5, <1>9
<1>11. after(Len(rs) + 1 + 1) = q.cumulative
  BY <1>5, <1>9
<1>12. \A i \in DOMAIN ns :
           /\ ns[i].cumulative = after(i) + ns[i].gasUsed
           /\ ns[i].gasUsed - ns[i].validationGas \in IntrinsicGas(ns[i].msg)..ns[i].msg.gas
  <2> TAKE i \in DOMAIN ns
  <2>1. CASE i \in 1..Len(rs)
    <3>1. ns[i] = rs[i] /\ after(i) = before(i) /\ i \in DOMAIN rs
      BY <1>5, <1>9, <1>10, <2>1, Zenon
    <3> HIDE DEF ns, after, before
    <3> QED BY <1>8, <3>1, Zenon
  <2>2. CASE i = Len(rs) + 1
    <3>1. ns[i] = q /\ after(i) = block.usedGas
      BY <1>5, <1>8, <1>9, <1>10, <2>2, Zenon
    <3> HIDE DEF ns, after
    <3> QED BY <1>2, <1>3, <3>1, Zenon
  <2> QED BY <1>5, <1>9, <2>1, <2>2
<1>13. block'.usedGas = GasLimit - gp' /\ block'.usedGas <= GasLimit
  BY <1>1, <1>2, <1>4, <1>6, <1>8
<1>14. BlockGasExact'
  <2>1. block'.usedGas = after(Len(ns) + 1)
    BY <1>3, <1>5, <1>6, <1>11, Zenon
  <2>2. block'.receipts = ns
    BY <1>6, Zenon
  <2> HIDE DEF ns
  <2> QED BY <1>6, <1>12, <1>13, <2>1, <2>2, Zenon DEF BlockGasExact
<1> QED BY <1>6, <1>7, <1>14, Zenon DEF q

(* The gas of a block without receipts adds up.                            *)
LEMMA EmptyBlock ==
    ASSUME NEW n \in Nat, NEW g \in Scheduled, block' = Begin(n, g), gp' = GasLimit - g
    PROVE  /\ block' \in [number : Nat, scheduled : Scheduled, usedGas : Nat,
                          receipts : Seq(MessageReceipts)]
           /\ gp' \in Int /\ BlockGasExact' /\ block'.receipts = <<>>
<1>1. /\ block' \in [number : Nat, scheduled : Scheduled, usedGas : Nat, receipts : Seq(MessageReceipts)]
      /\ gp' \in Int /\ block'.receipts = <<>> /\ block'.usedGas = g /\ block'.scheduled = g
      /\ g = GasLimit - gp' /\ g <= GasLimit
  BY BlockBegins, Zenon
<1>2. BlockGasExact'
  BY <1>1 DEF BlockGasExact
<1> QED BY <1>1, <1>2, Zenon

(* A step includes a message that was applied, or no message.              *)
LEMMA MessageSteps ==
    ASSUME MessageInv, [MessageNext]_messageVars
    PROVE  /\ MessageInv'
           /\ \/ ~Included
              \/ \E m \in Msgs, t \in Transitions : Applied(state, m, t) /\ Include(m, t) /\ Last = Receipt(t, m)
<1>1. /\ block.number \in Nat /\ block.scheduled \in Scheduled /\ block.receipts \in Seq(MessageReceipts)
      /\ state \in Accounts /\ base \in Accounts /\ Len(block.receipts) \in Nat
  BY DEF MessageInv
<1>2. ASSUME block'.receipts = <<>>
      PROVE  ~Included
  BY <1>1, <1>2 DEF Included
<1>3. CASE NextBlock
  <2>1. PICK g \in Scheduled : gp' = GasLimit - g /\ block' = Begin(block.number + 1, g)
    BY <1>3, Zenon DEF NextBlock
  <2>2. block.number + 1 \in Nat
    BY <1>1
  <2>3. /\ block' \in [number : Nat, scheduled : Scheduled, usedGas : Nat, receipts : Seq(MessageReceipts)]
        /\ gp' \in Int /\ BlockGasExact' /\ block'.receipts = <<>>
    BY <2>1, <2>2, EmptyBlock, Zenon
  <2>4. state' = state /\ base' = state
    BY <1>3, Zenon DEF NextBlock
  <2> QED BY <1>1, <1>2, <2>3, <2>4, Zenon DEF MessageInv
<1>4. CASE UNCHANGED messageVars
  <2>1. state' = state /\ base' = base /\ gp' = gp /\ block' = block
    BY <1>4, Zenon DEF messageVars
  <2>2. ~Included
    BY <1>1, <2>1 DEF Included
  <2>3. BlockGasExact'
    BY <2>1, Zenon DEF BlockGasExact, MessageInv
  <2> QED BY <2>1, <2>2, <2>3, Zenon DEF MessageInv
<1>5. ASSUME NEW m \in Msgs, ApplyMessage(m)
      PROVE  /\ MessageInv'
             /\ \/ ~Included
                \/ \E k \in Msgs, t \in Transitions : Applied(state, k, t) /\ Include(k, t) /\ Last = Receipt(t, k)
  <2>1. Any \in Outcomes
    BY MessageAssumption, Zenon DEF Any
  <2>2. PICK v \in Validations(m), o \in Executions(m) :
            \E t \in {TransitionDb(state, m, v, o)} : Include(m, t) \/ Discard(m, t)
    BY <1>5, Zenon DEF ApplyMessage
  <2>3. v \in Outcomes /\ o \in Outcomes
    BY <2>1, Zenon DEF Validations, Executions
  <2> DEFINE t == TransitionDb(state, m, v, o)
  <2>4. Include(m, t) \/ Discard(m, t)
    BY <2>2, Zenon
  <2>5. ~t.refused => Applied(state, m, t)
    BY <1>1, <2>3, TransitionApplies, Zenon
  <2> HIDE DEF t
  <2>6. CASE Include(m, t)
    <3>1. Applied(state, m, t) /\ t \in Transitions /\ t.state \in Accounts
      BY <2>5, <2>6, TransitionFields, Zenon DEF Include, Applied
    <3>2. /\ block' \in [number : Nat, scheduled : Scheduled, usedGas : Nat, receipts : Seq(MessageReceipts)]
          /\ gp' \in Int /\ BlockGasExact'
          /\ block'.receipts = Append(block.receipts, Receipt(t, m))
      BY <2>6, <3>1, ReceiptCounts, Zenon
    <3>3. state' = t.state /\ base' = base
      BY <2>6, Zenon DEF Include
    <3>4. MessageInv'
      BY <1>1, <3>1, <3>2, <3>3, Zenon DEF MessageInv
    <3>5. Last = Receipt(t, m)
      BY <1>1, <3>2 DEF Last
    <3> QED BY <2>6, <3>1, <3>4, <3>5, Zenon
  <2>7. CASE Discard(m, t)
    <3>1. /\ state' = base /\ base' = base /\ block' = Begin(block.number, block.scheduled)
          /\ gp' = GasLimit - block.scheduled
      BY <2>7, Zenon DEF Discard
    <3>2. /\ block' \in [number : Nat, scheduled : Scheduled, usedGas : Nat, receipts : Seq(MessageReceipts)]
          /\ gp' \in Int /\ BlockGasExact' /\ block'.receipts = <<>>
      BY <1>1, <3>1, EmptyBlock, Zenon
    <3> QED BY <1>1, <1>2, <3>1, <3>2, Zenon DEF MessageInv
  <2> QED BY <2>4, <2>6, <2>7, Zenon
<1> QED BY <1>3, <1>4, <1>5, Zenon DEF MessageNext, Exhausted

(* Every step conserves value, fails atomically and advances nonces once.  *)
LEMMA MessageActs ==
    ASSUME MessageInv, [MessageNext]_messageVars
    PROVE  SupplyConserved /\ FailurePaysOnly /\ NoncesAdvance
<1>1. CASE ~Included
  BY <1>1, Zenon DEF SupplyConserved, FailurePaysOnly, NoncesAdvance
<1>2. CASE Included
  <2>1. PICK m \in Msgs, t \in Transitions : Applied(state, m, t) /\ Include(m, t) /\ Last = Receipt(t, m)
    BY <1>2, MessageSteps, Zenon
  <2>2. state' = t.state
    BY <2>1, Zenon DEF Include
  <2>3. Last.msg = m /\ Last.failed = t.vmerr /\ Last.gasUsed = gasUsed(t)
    BY <2>1, Zenon DEF Receipt
  <2>4. SupplyConserved
    BY <2>1, <2>2, Zenon DEF SupplyConserved, Applied
  <2>5. FailurePaysOnly
    BY <2>1, <2>2, <2>3, Zenon DEF FailurePaysOnly, Applied
  <2>6. NoncesAdvance
    BY <2>1, <2>2, <2>3 DEF NoncesAdvance, Applied
  <2> QED BY <2>4, <2>5, <2>6, Zenon
<1> QED BY <1>1, <1>2, Zenon

(* The invariant bounds balances and makes the gas of the block exact.     *)
LEMMA MessageInvSafe == MessageInv => NeverOverdrawn /\ BlockGasExact
<1> SUFFICES ASSUME MessageInv PROVE NeverOverdrawn /\ BlockGasExact
  BY Zenon
<1>1. state.balance \in [Addresses -> Nat]
  BY AccountFields, Zenon DEF MessageInv
<1> QED BY <1>1 DEF NeverOverdrawn, MessageInv

(* For any accounts, messages and behaviour of contract code: no balance   *)
(* goes below zero, the gas of a block adds up, value is conserved, nonces *)
(* advance once and a failed message only pays (TransitionDb).             *)
THEOREM MessagesAreExact == MessageSpec => MessagesExact
<1>1. MessageInv /\ [MessageNext]_messageVars => MessageInv'
  BY MessageSteps, Zenon
<1>2. MessageInv /\ [MessageNext]_messageVars =>
          [SupplyConserved /\ FailurePaysOnly /\ NoncesAdvance]_messageVars
  BY MessageActs, Zenon
<1> QED BY MessageStart, MessageInvSafe, <1>1, <1>2, PTL DEF MessageSpec, MessagesExact

-----------------------------------------------------------------------------

USE StorageAssumption

(* The arrays are as long as their length slots say, within the bound.     *)
ArrBounded == \A k \in ArrayKeys : arrLen(k) \in 0..MaxLen

StorageType == db \in [Slots -> Hash]

(* A string fits the slots its chunks may use.                             *)
StrBounded == \A k \in StringKeys : Number(db[StrLenSlot(k)]) <= HashLen * (MaxLen + 1) + 1

StorageInv == StorageType /\ ArrBounded /\ StrBounded /\ NoElementPastEnd

(* What a step leaves alone, by name space.                                *)
WordsSame == \A k \in WordKeys : db'[StorageSlot(k)] = db[StorageSlot(k)]
StrsSame ==
    /\ \A k \in StringKeys : db'[StrLenSlot(k)] = db[StrLenSlot(k)]
    /\ \A k \in StringKeys, i \in 0..MaxLen : db'[StrChunkSlot(k, i)] = db[StrChunkSlot(k, i)]
ArrsSame ==
    /\ \A k \in ArrayKeys : db'[ArrLenSlot(k)] = db[ArrLenSlot(k)]
    /\ \A k \in ArrayKeys, i \in 0..MaxLen : db'[ArrElemSlot(k, i)] = db[ArrElemSlot(k, i)]
StructsSame ==
    \A k \in StructKeys, f \in Range(FieldList) : db'[StructSlot(k, f)] = db[StructSlot(k, f)]

words == [k \in WordKeys |-> sload(k)]
strs == [k \in StringKeys |-> getStr(k)]
arrs == [k \in ArrayKeys |-> array(k)]
structs == [k \in StructKeys |-> [f \in Range(FieldList) |-> readField(k, f)]]

(* A slot is named by the kind of datum, its key and its index             *)
(* (StorageSlot, StrLenSlot and the other hashes of lvm.go, taken as       *)
(* collision-free).                                                        *)
LEMMA SlotParts ==
    /\ \A k : StorageSlot(k)[1] = "storage" /\ StorageSlot(k)[2] = k
    /\ \A k : StrLenSlot(k)[1] = "str" /\ StrLenSlot(k)[2] = k
    /\ \A k, i : /\ StrChunkSlot(k, i)[1] = "chunk" /\ StrChunkSlot(k, i)[2] = k
                 /\ StrChunkSlot(k, i)[3] = i
    /\ \A k : ArrLenSlot(k)[1] = "arr" /\ ArrLenSlot(k)[2] = k
    /\ \A k, i : /\ ArrElemSlot(k, i)[1] = "elem" /\ ArrElemSlot(k, i)[2] = k
                 /\ ArrElemSlot(k, i)[3] = i
    /\ \A k, f : /\ StructSlot(k, f)[1] = "struct" /\ StructSlot(k, f)[2] = k
                 /\ StructSlot(k, f)[3] = f
BY Zenon DEF StorageSlot, StrLenSlot, StrChunkSlot, ArrLenSlot, ArrElemSlot, StructSlot

(* Different keys, or different indices, have different slots.             *)
LEMMA SlotsApart ==
    /\ \A k, j : k # j => StrLenSlot(k) # StrLenSlot(j) /\ ArrLenSlot(k) # ArrLenSlot(j)
    /\ \A k, j, i : StrLenSlot(j) # StrChunkSlot(k, i) /\ ArrLenSlot(j) # ArrElemSlot(k, i)
    /\ \A k, j, i, l : k # j \/ i # l => ArrElemSlot(k, i) # ArrElemSlot(j, l)
BY Zenon DEF StrLenSlot, StrChunkSlot, ArrLenSlot, ArrElemSlot

(* Every slot that the host functions write is one of the contract's.      *)
LEMMA SlotsPresent ==
    /\ \A k \in WordKeys : StorageSlot(k) \in Slots
    /\ \A k \in StringKeys : StrLenSlot(k) \in Slots
    /\ \A k \in StringKeys, i \in 0..MaxLen : StrChunkSlot(k, i) \in Slots
    /\ \A k \in ArrayKeys : ArrLenSlot(k) \in Slots
    /\ \A k \in ArrayKeys, i \in 0..MaxLen : ArrElemSlot(k, i) \in Slots
    /\ \A k \in StructKeys, f \in Range(FieldList) : StructSlot(k, f) \in Slots
BY DEF Slots

(* FillBytes and SetBytes are inverse on what a word holds, and the zero   *)
(* word reads as zero.                                                     *)
LEMMA Words ==
    /\ Zero \in Hash /\ Number(Zero) = 0
    /\ \A n \in Nat : Uint(n) \in Hash /\ Number(Uint(n)) = n
    /\ \A h \in Hash : Number(h) \in Nat
    /\ \A n \in Nat \ {0} : Uint(n) # Zero
BY DEF Zero, Hash, Number, Uint

(* The chunk of every byte of a string within the bound has a slot         *)
(* (setStr, getStr).                                                       *)
LEMMA ChunkInRange ==
    ASSUME NEW len \in Nat, len <= HashLen * (MaxLen + 1), NEW j \in 1..len
    PROVE  (j - 1) \div HashLen \in 0..MaxLen
<1> DEFINE q == (j - 1) \div HashLen
<1>1. q \in Nat /\ HashLen * q <= j - 1 BY Division
<1> HIDE DEF q
<1>2. SUFFICES ASSUME MaxLen + 1 <= q PROVE FALSE BY <1>1 DEF q
<1>3. HashLen * (MaxLen + 1) <= HashLen * q BY <1>1, <1>2, TimesOrder
<1>4. HashLen * (MaxLen + 1) \in Nat /\ HashLen * q \in Nat BY <1>1
<1> QED BY <1>1, <1>3, <1>4

(* A contract without storage satisfies the invariant.                     *)
LEMMA StorageInitInv == StorageInit => StorageInv
<1> SUFFICES ASSUME StorageInit PROVE StorageInv BY Zenon
<1>1. StorageType BY Words, Zenon DEF StorageInit, StorageType
<1>2. \A s \in Slots : db[s] = Zero BY Zenon DEF StorageInit
<1>3. ArrBounded BY <1>2, SlotsPresent, Words DEF ArrBounded, arrLen
<1>4. NoElementPastEnd BY <1>2, SlotsPresent, Zenon DEF NoElementPastEnd
<1>5. StrBounded
  <2>1. HashLen * (MaxLen + 1) \in Nat OBVIOUS
  <2>2. \A k \in StringKeys : Number(db[StrLenSlot(k)]) = 0 BY <1>2, SlotsPresent, Words, Zenon
  <2> QED BY <2>1, <2>2 DEF StrBounded
<1> QED BY <1>1, <1>3, <1>4, <1>5, Zenon DEF StorageInv

(* The words a contract reads depend on the word slots only.               *)
LEMMA WordsFrame ==
    ASSUME WordsSame PROVE words' = words
BY Zenon DEF WordsSame, words, sload

(* The structs a contract reads depend on the field slots only.            *)
LEMMA StructsFrame ==
    ASSUME StructsSame PROVE structs' = structs
BY Zenon DEF StructsSame, structs, readField

(* What tos.at reads is a sequence of values as long as the length slot    *)
(* says.                                                                   *)
LEMMA ArrayShape ==
    ASSUME StorageInv, NEW k \in ArrayKeys
    PROVE  /\ arrLen(k) \in Nat
           /\ array(k) = [i \in 1..arrLen(k) |-> Number(db[ArrElemSlot(k, i - 1)])]
           /\ array(k) \in Seq(Nat)
           /\ Len(array(k)) = arrLen(k)
<1>1. arrLen(k) \in Nat /\ arrLen(k) <= MaxLen BY DEF StorageInv, ArrBounded
<1>2. \A i \in 1..arrLen(k) : arrGet(k, i) = Number(db[ArrElemSlot(k, i - 1)])
  BY <1>1 DEF arrGet
<1>3. array(k) = [i \in 1..arrLen(k) |-> Number(db[ArrElemSlot(k, i - 1)])]
  BY <1>2, Zenon DEF array
<1>4. \A i \in 1..arrLen(k) : Number(db[ArrElemSlot(k, i - 1)]) \in Nat
  <2> SUFFICES ASSUME NEW i \in 1..arrLen(k) PROVE Number(db[ArrElemSlot(k, i - 1)]) \in Nat
    BY Zenon
  <2>1. i - 1 \in 0..MaxLen BY <1>1
  <2> QED BY <2>1, SlotsPresent, Words, Zenon DEF StorageInv, StorageType
<1>5. array(k) \in [1..arrLen(k) -> Nat] BY <1>3, <1>4, Zenon
<1>6. array(k) \in Seq(Nat) /\ Len(array(k)) = arrLen(k) BY <1>1, <1>5
<1> QED BY <1>1, <1>3, <1>6, Zenon

(* An array whose length and elements are left alone reads the same.       *)
LEMMA ArraySame ==
    ASSUME StorageInv, NEW k \in ArrayKeys, db'[ArrLenSlot(k)] = db[ArrLenSlot(k)],
           \A i \in 0..MaxLen : db'[ArrElemSlot(k, i)] = db[ArrElemSlot(k, i)]
    PROVE  array(k)' = array(k)
<1>1. arrLen(k)' = arrLen(k) BY Zenon DEF arrLen
<1>2. \A i \in 1..arrLen(k) : db'[ArrElemSlot(k, i - 1)] = db[ArrElemSlot(k, i - 1)]
  <2>1. arrLen(k) \in 0..MaxLen BY Zenon DEF StorageInv, ArrBounded
  <2>2. \A i \in 1..arrLen(k) : i - 1 \in 0..MaxLen BY <2>1
  <2> QED BY <2>2, Zenon
<1>3. \A i \in 1..arrLen(k) : arrGet(k, i)' = arrGet(k, i) BY <1>1, <1>2, Zenon DEF arrGet
<1> QED BY <1>1, <1>3, Zenon DEF array

(* The arrays a contract reads depend on the length and element slots      *)
(* only.                                                                   *)
LEMMA ArrsFrame ==
    ASSUME StorageInv, ArrsSame PROVE arrs' = arrs
BY ArraySame, Zenon DEF ArrsSame, arrs

(* The strings a contract reads depend on the length and chunk slots       *)
(* only.                                                                   *)
LEMMA StrsFrame ==
    ASSUME StorageInv, StrsSame PROVE strs' = strs
<1> SUFFICES ASSUME NEW k \in StringKeys PROVE getStr(k)' = getStr(k)
  BY Zenon DEF strs
<1> DEFINE len == Number(db[StrLenSlot(k)]) - 1
<1>1. db'[StrLenSlot(k)] = db[StrLenSlot(k)] BY Zenon DEF StrsSame
<1>2. Number(db[StrLenSlot(k)]) \in Nat BY SlotsPresent, Words, Zenon DEF StorageInv, StorageType
<1>3. HashLen * (MaxLen + 1) \in Nat OBVIOUS
<1>4. Number(db[StrLenSlot(k)]) <= HashLen * (MaxLen + 1) + 1 BY Zenon DEF StorageInv, StrBounded
<1>5. \A j \in 1..len : (j - 1) \div HashLen \in 0..MaxLen
  <2> SUFFICES ASSUME NEW j \in 1..len PROVE (j - 1) \div HashLen \in 0..MaxLen BY Zenon
  <2> HIDE DEF len
  <2>1. len \in Nat /\ len <= HashLen * (MaxLen + 1) BY <1>2, <1>3, <1>4 DEF len
  <2> QED BY <2>1, ChunkInRange, Zenon
<1>6. \A j \in 1..len : db'[StrChunkSlot(k, (j - 1) \div HashLen)]
                        = db[StrChunkSlot(k, (j - 1) \div HashLen)]
  BY <1>5, Zenon DEF StrsSame
<1> QED BY <1>1, <1>6, Zenon DEF getStr

(* A step that leaves the arrays and the lengths of strings alone.         *)
LEMMA InvFrame ==
    ASSUME StorageInv, StorageType', ArrsSame, StrBounded'
    PROVE  StorageInv'
<1>1. ArrBounded' BY Zenon DEF StorageInv, ArrBounded, arrLen, ArrsSame
<1>2. NoElementPastEnd' BY Zenon DEF StorageInv, NoElementPastEnd, arrLen, ArrsSame
<1> QED BY <1>1, <1>2, Zenon DEF StorageInv

(* One slot is written: the name spaces that it is not in are left alone.  *)
LEMMA OneSlot ==
    ASSUME StorageInv, NEW s \in Slots, NEW h \in Hash, db' = [db EXCEPT ![s] = h]
    PROVE  /\ StorageType'
           /\ s[1] # "storage" => WordsSame
           /\ s[1] \notin {"str", "chunk"} => StrsSame
           /\ s[1] \notin {"arr", "elem"} => ArrsSame
           /\ s[1] # "struct" => StructsSame
           /\ s[1] # "str" => StrBounded'
<1>1. StorageType' BY Zenon DEF StorageInv, StorageType
<1>2. \A t \in Slots : t # s => db'[t] = db[t] BY Zenon DEF StorageInv, StorageType
<1>3. s[1] # "storage" => WordsSame BY <1>2, SlotParts, SlotsPresent DEF WordsSame
<1>4. s[1] \notin {"str", "chunk"} => StrsSame BY <1>2, SlotParts, SlotsPresent DEF StrsSame
<1>5. s[1] \notin {"arr", "elem"} => ArrsSame BY <1>2, SlotParts, SlotsPresent DEF ArrsSame
<1>6. s[1] # "struct" => StructsSame BY <1>2, SlotParts, SlotsPresent DEF StructsSame
<1>7. s[1] # "str" => StrBounded'
  BY <1>2, SlotParts, SlotsPresent DEF StrBounded, StorageInv
<1> QED BY <1>1, <1>3, <1>4, <1>5, <1>6, <1>7, Zenon

(* mapSet and sstore set one word of the abstract store.                   *)
LEMMA SstoreStep ==
    ASSUME StorageInv, NEW k \in WordKeys, NEW v \in Values, Sstore(k, v)
    PROVE  StorageInv' /\ Store!SetWord(k, v)
<1>0. StorageSlot(k) \in Slots /\ Uint(v) \in Hash /\ Number(Uint(v)) = v
  BY SlotsPresent, Words, Zenon
<1>1. StorageType' /\ StrsSame /\ ArrsSame /\ StructsSame /\ StrBounded'
  BY <1>0, OneSlot, SlotParts, Zenon DEF Sstore
<1>2. StorageInv' BY <1>1, InvFrame, Zenon
<1>3. strs' = strs /\ arrs' = arrs /\ structs' = structs
  BY <1>1, <1>2, StrsFrame, ArrsFrame, StructsFrame, Zenon
<1>4. words' = [words EXCEPT ![k] = v]
  <2>1. \A j \in WordKeys : sload(j)' = IF j = k THEN v ELSE sload(j)
    BY <1>0, SlotParts, SlotsPresent DEF Sstore, sload, StorageInv, StorageType
  <2> QED BY <2>1, Zenon DEF words
<1> QED BY <1>2, <1>3, <1>4, Zenon DEF Store!SetWord, words, strs, arrs, structs

(* setField sets one field of one struct of the abstract store.            *)
LEMMA SetFieldStep ==
    ASSUME StorageInv, NEW k \in StructKeys, NEW f \in Range(FieldList), NEW v \in Values,
           SetField(k, f, v)
    PROVE  StorageInv' /\ \E vs \in [Range(FieldList) -> Values] : Store!SetStruct(k, {f}, vs)
<1>0. StructSlot(k, f) \in Slots /\ Uint(v) \in Hash /\ Number(Uint(v)) = v
  BY SlotsPresent, Words, Zenon
<1>1. StorageType' /\ WordsSame /\ StrsSame /\ ArrsSame /\ StrBounded'
  BY <1>0, OneSlot, SlotParts, Zenon DEF SetField
<1>2. StorageInv' BY <1>1, InvFrame, Zenon
<1>3. words' = words /\ strs' = strs /\ arrs' = arrs
  BY <1>1, <1>2, StrsFrame, ArrsFrame, WordsFrame, Zenon
<1> DEFINE vs == [g \in Range(FieldList) |-> v]
<1>4. structs' = [structs EXCEPT ![k] = [g \in Range(FieldList) |->
                                          IF g \in {f} THEN vs[g] ELSE @[g]]]
  <2>1. \A j \in StructKeys, g \in Range(FieldList) :
           readField(j, g)' = IF j = k /\ g = f THEN v ELSE readField(j, g)
    BY <1>0, SlotParts, SlotsPresent DEF SetField, readField, StorageInv, StorageType
  <2> QED BY <2>1, Zenon DEF structs
<1>5. vs \in [Range(FieldList) -> Values] BY Zenon
<1>6. Store!SetStruct(k, {f}, vs)
  BY <1>3, <1>4, Zenon DEF Store!SetStruct, words, strs, arrs, structs
<1> QED BY <1>2, <1>5, <1>6, Zenon

(* struct.set writes the fields that precede a bad one, as the abstract    *)
(* store allows.                                                           *)
LEMMA StructSetStep ==
    ASSUME StorageInv, NEW k \in StructKeys, NEW vals \in [Range(FieldList) -> Values],
           NEW present \in SUBSET Range(FieldList), NEW bad \in 1..(Len(FieldList) + 1),
           StructSet(k, vals, present, bad)
    PROVE  StorageInv' /\ \E fs \in SUBSET Range(FieldList) : Store!SetStruct(k, fs, vals)
<1> DEFINE written == present \cap {FieldList[i] : i \in 1..(bad - 1)}
<1>0. written \in SUBSET Range(FieldList) BY Zenon
<1>1. db' = [s \in Slots |->
                 IF s[1] = "struct" /\ s[2] = k /\ s[3] \in written
                 THEN Uint(vals[s[3]])
                 ELSE db[s]]
  BY Zenon DEF StructSet
<1> HIDE DEF written
<1>2. \A f \in written : Uint(vals[f]) \in Hash /\ Number(Uint(vals[f])) = vals[f]
  <2>1. \A f \in written : vals[f] \in Nat BY <1>0, Zenon
  <2> QED BY <2>1, Words, Zenon
<1>3. StorageType' BY <1>1, <1>2, Zenon DEF StorageInv, StorageType
<1>4. \A s \in Slots : s[1] # "struct" => db'[s] = db[s] BY <1>1, Zenon
<1>5. WordsSame /\ StrsSame /\ ArrsSame
  BY <1>4, SlotParts, SlotsPresent, Zenon DEF WordsSame, StrsSame, ArrsSame
<1>6. StrBounded' BY <1>5, Zenon DEF StrsSame, StrBounded, StorageInv
<1>7. StorageInv' BY <1>3, <1>5, <1>6, InvFrame, Zenon
<1>8. words' = words /\ strs' = strs /\ arrs' = arrs
  BY <1>5, <1>7, StrsFrame, ArrsFrame, WordsFrame, Zenon
<1>9. structs' = [structs EXCEPT ![k] = [g \in Range(FieldList) |->
                                          IF g \in written THEN vals[g] ELSE @[g]]]
  <2>1. \A j \in StructKeys, g \in Range(FieldList) :
           readField(j, g)' = IF j = k /\ g \in written THEN vals[g] ELSE readField(j, g)
    <3> SUFFICES ASSUME NEW j \in StructKeys, NEW g \in Range(FieldList)
                 PROVE  readField(j, g)' = IF j = k /\ g \in written THEN vals[g]
                                           ELSE readField(j, g)
      BY Zenon
    <3>1. StructSlot(j, g) \in Slots /\ StructSlot(j, g)[1] = "struct"
          /\ StructSlot(j, g)[2] = j /\ StructSlot(j, g)[3] = g
      BY SlotParts, SlotsPresent
    <3>2. db'[StructSlot(j, g)] = IF j = k /\ g \in written THEN Uint(vals[g])
                                  ELSE db[StructSlot(j, g)]
      BY <1>1, <3>1, Zenon
    <3> QED BY <3>2, <1>2, Zenon DEF readField
  <2> QED BY <2>1, Zenon DEF structs
<1>10. Store!SetStruct(k, written, vals)
  BY <1>8, <1>9, Zenon DEF Store!SetStruct, words, strs, arrs, structs
<1> QED BY <1>0, <1>7, <1>10, Zenon

(* The chunks hold the string: byte j is in the chunk and at the place     *)
(* where getStr looks for it.                                              *)
LEMMA ChunkHolds ==
    ASSUME NEW data \in Seq(Nat), NEW j \in 1..Len(data)
    PROVE  /\ (j - 1) \div HashLen < (Len(data) + HashLen - 1) \div HashLen
           /\ Chunk(data, (j - 1) \div HashLen)[((j - 1) % HashLen) + 1] = data[j]
<1> DEFINE q == (j - 1) \div HashLen
           r == (j - 1) % HashLen
           n == (Len(data) + HashLen - 1) \div HashLen
<1>1. q \in Nat /\ HashLen * q <= j - 1 /\ j - 1 < HashLen * q + HashLen
  <2>1. j - 1 \in Nat OBVIOUS
  <2> QED BY <2>1, Division, Zenon
<1>2. r \in 0..(HashLen - 1) /\ j - 1 = HashLen * q + r OBVIOUS
<1>3. n \in Nat /\ Len(data) + HashLen - 1 < HashLen * n + HashLen
  <2>1. Len(data) + HashLen - 1 \in Nat OBVIOUS
  <2> QED BY <2>1, Division, Zenon
<1> HIDE DEF q, r, n
<1>4. HashLen * q \in Nat /\ HashLen * n \in Nat BY <1>1, <1>3
<1>5. q < n
  <2> SUFFICES ASSUME n <= q PROVE FALSE BY <1>1, <1>3
  <2>1. HashLen * n <= HashLen * q BY <1>1, <1>3, TimesOrder
  <2> QED BY <2>1, <1>1, <1>3, <1>4
<1>6. q * HashLen + (r + 1) = j BY <1>1, <1>2, <1>4
<1>7. r + 1 \in 1..HashLen BY <1>2
<1>8. Chunk(data, q)[r + 1] = data[j] BY <1>6, <1>7 DEF Chunk
<1> QED BY <1>5, <1>8, Zenon DEF q, r, n

(* setStr replaces one string of the abstract store, whatever was there    *)
(* before.                                                                 *)
LEMMA SetStrStep ==
    ASSUME StorageInv, NEW k \in StringKeys, NEW data \in Strings, SetStr(k, data)
    PROVE  StorageInv' /\ Store!SetString(k, data)
<1> DEFINE n == (Len(data) + HashLen - 1) \div HashLen
<1>0. data \in Seq(Nat) /\ Len(data) \in Nat /\ Len(data) <= HashLen * (MaxLen + 1)
  OBVIOUS
<1>1. db' = [s \in Slots |->
                 CASE s = StrLenSlot(k) -> Uint(Len(data) + 1)
                   [] s[1] = "chunk" /\ s[2] = k /\ s[3] < n -> Chunk(data, s[3])
                   [] OTHER -> db[s]]
  BY Zenon DEF SetStr, LengthWord
<1>2. \A i \in Nat : Chunk(data, i) \in Hash BY <1>0 DEF Chunk, Hash
<1>3. Uint(Len(data) + 1) \in Hash /\ Number(Uint(Len(data) + 1)) = Len(data) + 1
      /\ Uint(Len(data) + 1) # Zero
  <2>1. Len(data) + 1 \in Nat \ {0} BY <1>0
  <2> QED BY <2>1, Words, Zenon
<1> HIDE DEF n
<1>4. \A s \in Slots : s[1] = "chunk" => s[3] \in Nat
  BY SlotParts DEF Slots
<1>5. StrLenSlot(k)[1] = "str" BY SlotParts, Zenon
<1>6. \A s \in Slots :
         /\ s = StrLenSlot(k) => db'[s] = Uint(Len(data) + 1)
         /\ s[1] = "chunk" /\ s[2] = k /\ s[3] < n => db'[s] = Chunk(data, s[3])
         /\ s # StrLenSlot(k) /\ ~(s[1] = "chunk" /\ s[2] = k /\ s[3] < n) => db'[s] = db[s]
  BY <1>1, <1>5, Zenon
<1>7. \A s \in Slots : db'[s] \in Hash
  BY <1>2, <1>3, <1>4, <1>6, Zenon DEF StorageInv, StorageType
<1>8. StorageType' BY <1>1, <1>7, Zenon DEF StorageType
<1>9. WordsSame /\ ArrsSame /\ StructsSame
  BY <1>5, <1>6, SlotParts, SlotsPresent DEF WordsSame, ArrsSame, StructsSame
<1>10. \A j \in StringKeys : j # k => db'[StrLenSlot(j)] = db[StrLenSlot(j)]
  <2> SUFFICES ASSUME NEW j \in StringKeys, j # k PROVE db'[StrLenSlot(j)] = db[StrLenSlot(j)]
    BY Zenon
  <2>1. StrLenSlot(j) \in Slots /\ StrLenSlot(j) # StrLenSlot(k) BY SlotsApart, SlotsPresent, Zenon
  <2>2. StrLenSlot(j)[1] = "str" BY SlotParts, Zenon
  <2> QED BY <1>6, <2>1, <2>2, Zenon
<1>11. db'[StrLenSlot(k)] = Uint(Len(data) + 1) BY <1>6, SlotsPresent, Zenon
<1>12. StrBounded'
  <2>1. HashLen * (MaxLen + 1) \in Nat OBVIOUS
  <2>2. Number(db'[StrLenSlot(k)]) <= HashLen * (MaxLen + 1) + 1 BY <1>0, <1>3, <1>11, <2>1
  <2> QED BY <2>2, <1>10, Zenon DEF StrBounded, StorageInv
<1>13. StorageInv' BY <1>8, <1>9, <1>12, InvFrame, Zenon
<1>14. words' = words /\ arrs' = arrs /\ structs' = structs
  BY <1>9, <1>13, WordsFrame, ArrsFrame, StructsFrame, Zenon
<1>15. getStr(k)' = data
  <2>1. \A j \in 1..Len(data) :
           db'[StrChunkSlot(k, (j - 1) \div HashLen)][((j - 1) % HashLen) + 1] = data[j]
    <3> SUFFICES ASSUME NEW j \in 1..Len(data)
                 PROVE  db'[StrChunkSlot(k, (j - 1) \div HashLen)][((j - 1) % HashLen) + 1]
                        = data[j]
      BY Zenon
    <3>1. (j - 1) \div HashLen \in 0..MaxLen BY <1>0, ChunkInRange, Zenon
    <3>2. (j - 1) \div HashLen < n
          /\ Chunk(data, (j - 1) \div HashLen)[((j - 1) % HashLen) + 1] = data[j]
      BY <1>0, ChunkHolds, Zenon DEF n
    <3>3. StrChunkSlot(k, (j - 1) \div HashLen) \in Slots BY <3>1, SlotsPresent, Zenon
    <3>4. db'[StrChunkSlot(k, (j - 1) \div HashLen)] = Chunk(data, (j - 1) \div HashLen)
      BY <3>2, <3>3, <1>6, SlotParts
    <3> QED BY <3>2, <3>4, Zenon
  <2>2. getStr(k)' = [j \in 1..Len(data) |->
           db'[StrChunkSlot(k, (j - 1) \div HashLen)][((j - 1) % HashLen) + 1]]
    BY <1>0, <1>3, <1>11 DEF getStr
  <2>3. getStr(k)' = [j \in 1..Len(data) |-> data[j]] BY <2>1, <2>2, Zenon
  <2>4. data = [j \in 1..Len(data) |-> data[j]] BY <1>0
  <2> QED BY <2>3, <2>4, Zenon
<1>16. \A j \in StringKeys : j # k => getStr(j)' = getStr(j)
  <2> SUFFICES ASSUME NEW j \in StringKeys, j # k PROVE getStr(j)' = getStr(j) BY Zenon
  <2> DEFINE len == Number(db[StrLenSlot(j)]) - 1
  <2>1. Number(db[StrLenSlot(j)]) \in Nat BY SlotsPresent, Words, Zenon DEF StorageInv, StorageType
  <2>2. Number(db[StrLenSlot(j)]) <= HashLen * (MaxLen + 1) + 1 BY Zenon DEF StorageInv, StrBounded
  <2>3. HashLen * (MaxLen + 1) \in Nat OBVIOUS
  <2>4. \A i \in 1..len : (i - 1) \div HashLen \in 0..MaxLen
    <3> SUFFICES ASSUME NEW i \in 1..len PROVE (i - 1) \div HashLen \in 0..MaxLen BY Zenon
    <3> HIDE DEF len
    <3>1. len \in Nat /\ len <= HashLen * (MaxLen + 1) BY <2>1, <2>2, <2>3 DEF len
    <3> QED BY <3>1, ChunkInRange, Zenon
  <2>5. \A c \in 0..MaxLen : db'[StrChunkSlot(j, c)] = db[StrChunkSlot(j, c)]
    BY <1>5, <1>6, SlotParts, SlotsPresent
  <2> QED BY <2>4, <2>5, <1>10, Zenon DEF getStr
<1>17. strs' = [strs EXCEPT ![k] = data] BY <1>15, <1>16, Zenon DEF strs
<1> QED BY <1>13, <1>14, <1>17, Zenon DEF Store!SetString, words, strs, arrs, structs

(* A step writes an element and the length of an array, and leaves no      *)
(* value past the end.                                                     *)
ArrayWritten(k, i, h, n) ==
    /\ db' = [db EXCEPT ![ArrElemSlot(k, i)] = h, ![ArrLenSlot(k)] = Uint(n)]
    /\ \A j \in 0..MaxLen : j >= n => (IF j = i THEN h ELSE db[ArrElemSlot(k, j)]) = Zero

(* What it shows of the array and of everything else.                      *)
ArrayReads(k, i, h, n) ==
    /\ StorageInv'
    /\ WordsSame /\ StrsSame /\ StructsSame
    /\ arrLen(k)' = n
    /\ \A j \in 0..MaxLen : db'[ArrElemSlot(k, j)] = IF j = i THEN h ELSE db[ArrElemSlot(k, j)]
    /\ \A m \in ArrayKeys \ {k} : array(m)' = array(m)

(* Writing one element and the length of an array leaves every other       *)
(* array alone.                                                            *)
LEMMA ArrayWrite ==
    ASSUME StorageInv, NEW k \in ArrayKeys, NEW i \in 0..MaxLen, NEW h \in Hash,
           NEW n \in 0..MaxLen, ArrayWritten(k, i, h, n)
    PROVE  ArrayReads(k, i, h, n)
<1> USE DEF ArrayWritten
<1>1. ArrElemSlot(k, i) \in Slots /\ ArrLenSlot(k) \in Slots BY SlotsPresent, Zenon
<1>2. Uint(n) \in Hash /\ Number(Uint(n)) = n BY Words
<1>3. StorageType' BY <1>1, <1>2, Zenon DEF StorageInv, StorageType
<1>4. \A s \in Slots : s # ArrElemSlot(k, i) /\ s # ArrLenSlot(k) => db'[s] = db[s]
  BY Zenon DEF StorageInv, StorageType
<1>5. WordsSame /\ StrsSame /\ StructsSame
  <2>1. ArrElemSlot(k, i)[1] = "elem" /\ ArrLenSlot(k)[1] = "arr" BY SlotParts
  <2>2. \A s \in Slots : s[1] \notin {"elem", "arr"} => db'[s] = db[s] BY <1>4, <2>1, Zenon
  <2> QED BY <2>2, SlotParts, SlotsPresent, Zenon DEF WordsSame, StrsSame, StructsSame
<1>6. arrLen(k)' = n
  BY <1>1, <1>2, Zenon DEF arrLen, StorageInv, StorageType
<1>7. \A j \in 0..MaxLen : db'[ArrElemSlot(k, j)] = IF j = i THEN h ELSE db[ArrElemSlot(k, j)]
  <2>1. ArrElemSlot(k, i) # ArrLenSlot(k) BY SlotParts
  <2>2. db'[ArrElemSlot(k, i)] = h BY <1>1, <2>1, Zenon DEF StorageInv, StorageType
  <2> QED BY <2>2, <1>4, SlotsApart, SlotsPresent, Zenon
<1>8. \A m \in ArrayKeys \ {k} :
         /\ db'[ArrLenSlot(m)] = db[ArrLenSlot(m)]
         /\ \A j \in 0..MaxLen : db'[ArrElemSlot(m, j)] = db[ArrElemSlot(m, j)]
  BY <1>4, SlotsApart, SlotsPresent, Zenon
<1>9. ArrBounded' BY <1>6, <1>8, Zenon DEF ArrBounded, arrLen, StorageInv
<1>10. NoElementPastEnd'
  <2> SUFFICES ASSUME NEW m \in ArrayKeys, NEW j \in 0..MaxLen, j >= arrLen(m)'
               PROVE  db'[ArrElemSlot(m, j)] = Zero
    BY Zenon DEF NoElementPastEnd
  <2>1. CASE m = k BY <2>1, <1>6, <1>7, Zenon
  <2>2. CASE m # k BY <2>2, <1>8, Zenon DEF StorageInv, NoElementPastEnd, arrLen
  <2> QED BY <2>1, <2>2, Zenon
<1>11. StrBounded' BY <1>5, Zenon DEF StrsSame, StrBounded, StorageInv
<1>12. StorageInv' BY <1>3, <1>9, <1>10, <1>11, Zenon DEF StorageInv
<1>13. \A m \in ArrayKeys \ {k} : array(m)' = array(m) BY <1>8, ArraySame, Zenon
<1> QED BY <1>5, <1>6, <1>7, <1>12, <1>13, Zenon DEF ArrayReads

(* arrPush appends to one array of the abstract store.                     *)
LEMMA ArrPushStep ==
    ASSUME StorageInv, NEW k \in ArrayKeys, NEW v \in Values, ArrPush(k, v)
    PROVE  StorageInv' /\ Store!Push(k, v)
<1> DEFINE n == arrLen(k)
           h == Uint(v)
<1>1. n \in Nat /\ n < MaxLen BY DEF ArrPush, StorageInv, ArrBounded
<1>2. h \in Hash /\ Number(h) = v BY Words, Zenon
<1>3. \A j \in 0..MaxLen : j >= n => db[ArrElemSlot(k, j)] = Zero
  BY Zenon DEF StorageInv, NoElementPastEnd
<1>4. db' = [db EXCEPT ![ArrElemSlot(k, n)] = h, ![ArrLenSlot(k)] = Uint(n + 1)]
  BY Zenon DEF ArrPush
<1> HIDE DEF n, h
<1>5. /\ StorageInv'
      /\ WordsSame /\ StrsSame /\ StructsSame
      /\ arrLen(k)' = n + 1
      /\ \A j \in 0..MaxLen : db'[ArrElemSlot(k, j)] = IF j = n THEN h
                                                       ELSE db[ArrElemSlot(k, j)]
      /\ \A m \in ArrayKeys \ {k} : array(m)' = array(m)
  <2>1. n \in 0..MaxLen /\ n + 1 \in 0..MaxLen BY <1>1
  <2>2. ArrayWritten(k, n, h, n + 1) BY <1>1, <1>3, <1>4 DEF ArrayWritten
  <2>3. ArrayReads(k, n, h, n + 1) BY <2>1, <2>2, <1>2, ArrayWrite, Zenon
  <2> QED BY <2>3, Zenon DEF ArrayReads
<1>6. words' = words /\ strs' = strs /\ structs' = structs
  BY <1>5, WordsFrame, StrsFrame, StructsFrame, Zenon
<1>7. array(k) \in Seq(Nat) /\ Len(array(k)) = n
      /\ array(k) = [i \in 1..n |-> Number(db[ArrElemSlot(k, i - 1)])]
  BY ArrayShape, Zenon DEF n
<1>8. array(k)' = [i \in 1..(n + 1) |-> Number(db'[ArrElemSlot(k, i - 1)])]
  BY <1>1, <1>5 DEF array, arrGet
<1>9. array(k)' = Append(array(k), v)
  <2>1. \A i \in 1..(n + 1) : Number(db'[ArrElemSlot(k, i - 1)]) = IF i = n + 1 THEN v ELSE array(k)[i]
    <3> SUFFICES ASSUME NEW i \in 1..(n + 1)
                 PROVE  Number(db'[ArrElemSlot(k, i - 1)]) = IF i = n + 1 THEN v ELSE array(k)[i]
      BY Zenon
    <3>1. i - 1 \in 0..MaxLen BY <1>1
    <3>2. db'[ArrElemSlot(k, i - 1)] = IF i - 1 = n THEN h ELSE db[ArrElemSlot(k, i - 1)]
      BY <3>1, <1>5, Zenon
    <3>3. i - 1 = n <=> i = n + 1 BY <1>1
    <3>4. i # n + 1 => array(k)[i] = Number(db[ArrElemSlot(k, i - 1)]) BY <1>1, <1>7
    <3> QED BY <3>2, <3>3, <3>4, <1>2, Zenon
  <2>2. Append(array(k), v) = [i \in 1..(n + 1) |-> IF i = n + 1 THEN v ELSE array(k)[i]]
    BY <1>1, <1>7
  <2> QED BY <2>1, <2>2, <1>8, Zenon
<1>10. arrs' = [arrs EXCEPT ![k] = Append(arrs[k], v)]
  BY <1>5, <1>9, Zenon DEF arrs
<1>11. Len(arrs[k]) < MaxLen BY <1>1, <1>7, Zenon DEF arrs
<1> QED
  BY <1>5, <1>6, <1>10, <1>11, Zenon DEF Store!Push, Store!SetArray, words, strs, arrs, structs

(* arrPop takes the last element of one array and clears its slot.         *)
LEMMA ArrPopStep ==
    ASSUME StorageInv, NEW k \in ArrayKeys, ArrPop(k)
    PROVE  StorageInv' /\ Store!Pop(k)
<1> DEFINE n == arrLen(k)
<1>1. n \in Nat /\ n > 0 /\ n <= MaxLen BY DEF ArrPop, StorageInv, ArrBounded
<1>2. Zero \in Hash BY Words, Zenon
<1>3. \A j \in 0..MaxLen : j >= n => db[ArrElemSlot(k, j)] = Zero
  BY Zenon DEF StorageInv, NoElementPastEnd
<1>4. db' = [db EXCEPT ![ArrElemSlot(k, n - 1)] = Zero, ![ArrLenSlot(k)] = Uint(n - 1)]
  BY Zenon DEF ArrPop
<1> HIDE DEF n
<1>5. /\ StorageInv'
      /\ WordsSame /\ StrsSame /\ StructsSame
      /\ arrLen(k)' = n - 1
      /\ \A j \in 0..MaxLen : db'[ArrElemSlot(k, j)] = IF j = n - 1 THEN Zero
                                                       ELSE db[ArrElemSlot(k, j)]
      /\ \A m \in ArrayKeys \ {k} : array(m)' = array(m)
  <2>1. n - 1 \in 0..MaxLen BY <1>1
  <2>2. ArrayWritten(k, n - 1, Zero, n - 1) BY <1>1, <1>3, <1>4 DEF ArrayWritten
  <2>3. ArrayReads(k, n - 1, Zero, n - 1) BY <2>1, <2>2, <1>2, ArrayWrite, Zenon
  <2> QED BY <2>3, Zenon DEF ArrayReads
<1>6. words' = words /\ strs' = strs /\ structs' = structs
  BY <1>5, WordsFrame, StrsFrame, StructsFrame, Zenon
<1>7. array(k) \in Seq(Nat) /\ Len(array(k)) = n
      /\ array(k) = [i \in 1..n |-> Number(db[ArrElemSlot(k, i - 1)])]
  BY ArrayShape, Zenon DEF n
<1>8. array(k)' = [i \in 1..(n - 1) |-> Number(db'[ArrElemSlot(k, i - 1)])]
  BY <1>1, <1>5 DEF array, arrGet
<1>9. array(k)' = SubSeq(array(k), 1, Len(array(k)) - 1)
  <2>1. \A i \in 1..(n - 1) : Number(db'[ArrElemSlot(k, i - 1)]) = array(k)[i]
    <3> SUFFICES ASSUME NEW i \in 1..(n - 1)
                 PROVE  Number(db'[ArrElemSlot(k, i - 1)]) = array(k)[i]
      BY Zenon
    <3>1. i - 1 \in 0..MaxLen /\ i - 1 # n - 1 /\ i \in 1..n BY <1>1
    <3> QED BY <3>1, <1>5, <1>7, Zenon
  <2>2. SubSeq(array(k), 1, Len(array(k)) - 1) = [i \in 1..(n - 1) |-> array(k)[i]]
    BY <1>1, <1>7
  <2> QED BY <2>1, <2>2, <1>8, Zenon
<1>10. arrs' = [arrs EXCEPT ![k] = SubSeq(arrs[k], 1, Len(arrs[k]) - 1)]
  BY <1>5, <1>9, Zenon DEF arrs
<1>11. arrs[k] # <<>> BY <1>1, <1>7 DEF arrs
<1> QED
  BY <1>5, <1>6, <1>10, <1>11, Zenon DEF Store!Pop, Store!SetArray, words, strs, arrs, structs

(* arrSet replaces an element within the bounds of the array.              *)
LEMMA ArrSetStep ==
    ASSUME StorageInv, NEW k \in ArrayKeys, NEW i \in 1..MaxLen, NEW v \in Values,
           ArrSet(k, i, v)
    PROVE  StorageInv' /\ Store!Put(k, i, v)
<1> DEFINE n == arrLen(k)
<1>1. n \in Nat /\ i <= n /\ n <= MaxLen BY DEF ArrSet, StorageInv, ArrBounded
<1>2. Uint(v) \in Hash /\ Number(Uint(v)) = v BY Words, Zenon
<1>3. \A j \in 0..MaxLen : j >= n => db[ArrElemSlot(k, j)] = Zero
  BY Zenon DEF StorageInv, NoElementPastEnd
<1>4. db' = [db EXCEPT ![ArrElemSlot(k, i - 1)] = Uint(v)] BY Zenon DEF ArrSet
<1>5. ArrElemSlot(k, i - 1) \in Slots /\ ArrElemSlot(k, i - 1)[1] = "elem"
  <2>1. i - 1 \in 0..MaxLen OBVIOUS
  <2> QED BY <2>1, SlotsPresent, SlotParts
<1>6. StorageType' /\ WordsSame /\ StrsSame /\ StructsSame /\ StrBounded'
  BY <1>2, <1>4, <1>5, OneSlot, Zenon
<1>7. \A m \in ArrayKeys : db'[ArrLenSlot(m)] = db[ArrLenSlot(m)]
  BY <1>4, SlotsPresent, SlotsApart, Zenon DEF StorageInv, StorageType
<1>8. \A m \in ArrayKeys, j \in 0..MaxLen :
         db'[ArrElemSlot(m, j)] = IF m = k /\ j = i - 1 THEN Uint(v) ELSE db[ArrElemSlot(m, j)]
  BY <1>4, <1>5, SlotsPresent, SlotsApart, Zenon DEF StorageInv, StorageType
<1>9. ArrBounded' BY <1>7, Zenon DEF ArrBounded, arrLen, StorageInv
<1>10. NoElementPastEnd'
  <2> SUFFICES ASSUME NEW m \in ArrayKeys, NEW j \in 0..MaxLen, j >= arrLen(m)'
               PROVE  db'[ArrElemSlot(m, j)] = Zero
    BY Zenon DEF NoElementPastEnd
  <2>1. j >= arrLen(m) BY <1>7, Zenon DEF arrLen
  <2>2. ~(m = k /\ j = i - 1) BY <1>1, <2>1
  <2> QED BY <2>1, <2>2, <1>8, Zenon DEF StorageInv, NoElementPastEnd
<1>11. StorageInv' BY <1>6, <1>9, <1>10, Zenon DEF StorageInv
<1>12. words' = words /\ strs' = strs /\ structs' = structs
  BY <1>6, WordsFrame, StrsFrame, StructsFrame, Zenon
<1>13. \A m \in ArrayKeys : arrLen(m)' = arrLen(m) BY <1>7, Zenon DEF arrLen
<1>14. \A m \in ArrayKeys \ {k} : array(m)' = array(m) BY <1>7, <1>8, ArraySame, Zenon
<1>15. array(k) = [j \in 1..n |-> Number(db[ArrElemSlot(k, j - 1)])]
  BY ArrayShape, Zenon
<1>16. array(k)' = [j \in 1..n |-> Number(db'[ArrElemSlot(k, j - 1)])]
  BY <1>1, <1>13 DEF array, arrGet
<1> HIDE DEF n
<1>17. array(k)' = [array(k) EXCEPT ![i] = v]
  <2>1. \A j \in 1..n : Number(db'[ArrElemSlot(k, j - 1)])
                          = IF j = i THEN v ELSE Number(db[ArrElemSlot(k, j - 1)])
    <3> SUFFICES ASSUME NEW j \in 1..n
                 PROVE  Number(db'[ArrElemSlot(k, j - 1)])
                          = IF j = i THEN v ELSE Number(db[ArrElemSlot(k, j - 1)])
      BY Zenon
    <3>1. j - 1 \in 0..MaxLen /\ (j - 1 = i - 1 <=> j = i) BY <1>1
    <3> QED BY <3>1, <1>2, <1>8, Zenon
  <2> QED BY <2>1, <1>15, <1>16, Zenon
<1>18. arrs' = [arrs EXCEPT ![k] = [arrs[k] EXCEPT ![i] = v]]
  BY <1>14, <1>17, Zenon DEF arrs
<1>19. i \in DOMAIN arrs[k] BY <1>1, <1>15 DEF arrs
<1> QED
  BY <1>11, <1>12, <1>18, <1>19, Zenon DEF Store!Put, Store!SetArray, words, strs, arrs, structs

(* Every host function keeps the invariant and is a step of the abstract   *)
(* store, or changes nothing that a contract can read.                     *)
LEMMA StorageStep ==
    ASSUME StorageInv, StorageNext
    PROVE  StorageInv' /\ Store!Next
<1>1. CASE \E k \in WordKeys, v \in Values : Sstore(k, v)
  BY <1>1, SstoreStep, Zenon DEF Store!Next
<1>2. CASE \E k \in StringKeys, s \in Strings : SetStr(k, s)
  BY <1>2, SetStrStep, Zenon DEF Store!Next
<1>3. CASE \E k \in ArrayKeys, v \in Values : ArrPush(k, v)
  BY <1>3, ArrPushStep, Zenon DEF Store!Next
<1>4. CASE \E k \in ArrayKeys : ArrPop(k)
  BY <1>4, ArrPopStep, Zenon DEF Store!Next
<1>5. CASE \E k \in ArrayKeys, i \in 1..MaxLen, v \in Values : ArrSet(k, i, v)
  BY <1>5, ArrSetStep, Zenon DEF Store!Next
<1>6. CASE \E k \in StructKeys, vals \in [Range(FieldList) -> Values],
              present \in SUBSET Range(FieldList), bad \in 1..(Len(FieldList) + 1) :
              StructSet(k, vals, present, bad)
  <2>1. PICK k \in StructKeys, vals \in [Range(FieldList) -> Values],
             present \in SUBSET Range(FieldList), bad \in 1..(Len(FieldList) + 1) :
             StructSet(k, vals, present, bad)
    BY <1>6, Zenon
  <2>2. StorageInv' /\ \E fs \in SUBSET Range(FieldList) : Store!SetStruct(k, fs, vals)
    BY <2>1, StructSetStep, Zenon
  <2> QED BY <2>2, Zenon DEF Store!Next
<1>7. CASE \E k \in StructKeys, f \in Range(FieldList), v \in Values : SetField(k, f, v)
  <2>1. PICK k \in StructKeys, f \in Range(FieldList), v \in Values : SetField(k, f, v)
    BY <1>7, Zenon
  <2>2. StorageInv' /\ \E vs \in [Range(FieldList) -> Values] : Store!SetStruct(k, {f}, vs)
    BY <2>1, SetFieldStep, Zenon
  <2>3. {f} \in SUBSET Range(FieldList) BY Zenon
  <2> QED BY <2>2, <2>3, Zenon DEF Store!Next
<1> QED BY <1>1, <1>2, <1>3, <1>4, <1>5, <1>6, <1>7, Zenon DEF StorageNext

(* The invariant holds whatever the contract calls.                        *)
LEMMA StorageInvariant == StorageSpec => []StorageInv
<1>1. StorageInv /\ [StorageNext]_db => StorageInv'
  <2> SUFFICES ASSUME StorageInv, [StorageNext]_db PROVE StorageInv' BY Zenon
  <2>1. CASE StorageNext BY <2>1, StorageStep, Zenon
  <2>2. CASE UNCHANGED db
    BY <2>2, Zenon DEF StorageInv, StorageType, ArrBounded, StrBounded, NoElementPastEnd, arrLen
  <2> QED BY <2>1, <2>2, Zenon
<1> QED BY <1>1, StorageInitInv, PTL DEF StorageSpec

(* No sequence of pushes, pops and writes leaves an element in a slot      *)
(* past the end of its array, where a later push would find it (arrPush,   *)
(* arrPop, arrSet).                                                        *)
THEOREM ArraysEnd == StorageSpec => []NoElementPastEnd
<1>1. StorageInv => NoElementPastEnd BY Zenon DEF StorageInv
<1> QED BY <1>1, StorageInvariant, PTL

(* The slot layout implements the store of words, strings, arrays and      *)
(* structs by key, for any keys, values, slot size and lengths within the  *)
(* bounds (the storage host functions of lvm.go).                          *)
THEOREM StorageRefines == StorageSpec => StorageImplementsStore
<1>1. StorageInit => Store!Init
  <2> SUFFICES ASSUME StorageInit PROVE Store!Init BY Zenon
  <2>1. \A s \in Slots : db[s] = Zero BY Zenon DEF StorageInit
  <2>2. words = [k \in WordKeys |-> 0] BY <2>1, SlotsPresent, Words, Zenon DEF words, sload
  <2>3. strs = [k \in StringKeys |-> LNil] BY <2>1, SlotsPresent, Zenon DEF strs, getStr
  <2>4. arrs = [k \in ArrayKeys |-> <<>>]
    <3>1. \A k \in ArrayKeys : arrLen(k) = 0 BY <2>1, SlotsPresent, Words, Zenon DEF arrLen
    <3>2. \A k \in ArrayKeys : array(k) = <<>> BY <3>1 DEF array
    <3> QED BY <3>2, Zenon DEF arrs
  <2>5. structs = [k \in StructKeys |-> [f \in Range(FieldList) |-> 0]]
    BY <2>1, SlotsPresent, Words, Zenon DEF structs, readField
  <2> QED BY <2>2, <2>3, <2>4, <2>5, Zenon DEF Store!Init, words, strs, arrs, structs
<1>2. StorageInv /\ [StorageNext]_db => [Store!Next]_(Store!store)
  <2> SUFFICES ASSUME StorageInv, [StorageNext]_db PROVE [Store!Next]_(Store!store) BY Zenon
  <2>1. CASE StorageNext BY <2>1, StorageStep, Zenon
  <2>2. CASE UNCHANGED db
    BY <2>2, Zenon DEF Store!store, sload, getStr, array, arrGet, arrLen, readField
  <2> QED BY <2>1, <2>2, Zenon
<1> QED BY <1>1, <1>2, StorageInvariant, PTL DEF StorageSpec, StorageImplementsStore, Store!Spec
=============================================================================
