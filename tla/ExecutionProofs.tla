-------------------------- MODULE ExecutionProofs ---------------------------
(***************************************************************************)
(* Proofs about the execution of blocks: ParallelExecutor implements       *)
(* SerialExecutor, for any accounts, messages, amounts, gas and size of the*)
(* block, and the batches of PrivacyBatch do what its transactions do one  *)
(* by one, for any owners, transactions and proofs.                        *)
(***************************************************************************)
EXTENDS ParallelExecutor, PrivacyBatch, Arithmetic

Topped(T) == \E m \in T : \A y \in T : m >= y

(* Max of a finite nonempty set of numbers is its greatest member.         *)
LEMMA MaxFacts ==
    ASSUME NEW S, IsFiniteSet(S)
    PROVE  S # {} /\ S \subseteq Nat => Max(S) \in S /\ \A y \in S : Max(S) >= y
<1> DEFINE B == {T \in SUBSET S : T # {} /\ ~Topped(T)}
<1>0. B # {} => \E T \in B : \A U \in B : ~(U \subseteq T /\ U # T)
  <2>1. B \subseteq SUBSET S
    BY Zenon
  <2> HIDE DEF B
  <2> QED BY <2>1, SmallestSet
<1> HAVE S # {} /\ S \subseteq Nat
<1>1. Topped(S)
  <2> SUFFICES ASSUME B # {} PROVE FALSE
    BY Zenon
  <2>2. \E T \in B : \A U \in B : ~(U \subseteq T /\ U # T)
    BY <1>0, Zenon
  <2>3. PICK T \in B : \A U \in B : ~(U \subseteq T /\ U # T)
    BY <2>2, Zenon
  <2>4. PICK x : x \in T
    BY <2>3, Zenon
  <2>5. \A y \in T : y \in Nat
    BY <2>3, Zenon
  <2>6. T \ {x} # {}
    BY <2>3, <2>4, <2>5 DEF Topped
  <2>7. T \ {x} \notin B
    BY <2>3, <2>4, Zenon
  <2>8. PICK m \in T \ {x} : \A y \in T \ {x} : m >= y
    BY <2>3, <2>6, <2>7, Zenon DEF Topped
  <2>9. Topped(T)
    <3>1. CASE m >= x
      BY <3>1, <2>8, Zenon DEF Topped
    <3>2. CASE ~(m >= x)
      BY <3>2, <2>8, <2>4, <2>5 DEF Topped
    <3> QED BY <3>1, <3>2, Zenon
  <2> QED BY <2>9, <2>3, Zenon
<1> QED BY <1>1, Zenon DEF Max, Topped

(* ----- levels ----- *)
Reaching(h, sets, n) == \A i \in 1 .. n : h[i] = LevelOf(h, sets, i)

(* LevelOf looks at the levels of earlier transactions only.               *)
LEMMA LevelSame ==
    ASSUME NEW sets, NEW h, NEW g, NEW i \in Nat \ {0}, \A j \in 1 .. (i - 1) : h[j] = g[j]
    PROVE  LevelOf(h, sets, i) = LevelOf(g, sets, i)
<1>1. i # 1 => h[i - 1] = g[i - 1]
  OBVIOUS
<1>2. {h[j] + 1 : j \in {k \in 1 .. i - 1 : Conflicts(sets[i], sets[k])}}
        = {g[j] + 1 : j \in {k \in 1 .. i - 1 : Conflicts(sets[i], sets[k])}}
  BY Zenon
<1> QED BY <1>1, <1>2, Zenon DEF LevelOf

(* The recursion of BuildLevels has a solution, which it returns.          *)
LEMMA LevelsExist ==
    ASSUME NEW sets, NEW n \in Nat, DOMAIN sets = 1 .. n
    PROVE  \E h : h = [i \in DOMAIN sets |-> LevelOf(h, sets, i)]
<1> DEFINE Ok(m) == \E h : Reaching(h, sets, m)
           B == {m \in Nat : ~Ok(m)}
<1>1. Ok(0)
  BY DEF Reaching
<1>2. ASSUME NEW m \in Nat, Ok(m) PROVE Ok(m + 1)
  <2>1. PICK h : Reaching(h, sets, m)
    BY <1>2, Zenon
  <2> DEFINE g == [i \in 1 .. (m + 1) |-> LevelOf(h, sets, i)]
  <2>2. \A i \in 1 .. m : g[i] = h[i]
    BY <2>1 DEF Reaching
  <2>3. ASSUME NEW i \in 1 .. (m + 1) PROVE g[i] = LevelOf(g, sets, i)
    <3>1. \A j \in 1 .. (i - 1) : h[j] = g[j]
      BY <2>2
    <3>2. i \in Nat \ {0} /\ g[i] = LevelOf(h, sets, i)
      OBVIOUS
    <3> HIDE DEF g
    <3> QED BY <3>1, <3>2, LevelSame
  <2>4. Reaching(g, sets, m + 1)
    BY <2>3, Zenon DEF Reaching
  <2> QED BY <2>4, Zenon
<1>3. \A m \in Nat : Ok(m)
  <2> SUFFICES ASSUME B # {} PROVE FALSE
    BY Zenon
  <2> HIDE DEF Ok
  <2>1. PICK m \in B : \A k \in B : ~(k < m)
    BY LeastNat, Zenon
  <2>2. m # 0
    BY <1>1, Zenon
  <2>3. m - 1 \in Nat /\ m - 1 < m /\ (m - 1) + 1 = m
    BY <2>2
  <2>4. Ok(m - 1)
    BY <2>1, <2>3, Zenon
  <2>5. Ok((m - 1) + 1)
    BY <1>2, <2>3, <2>4, Zenon
  <2> QED BY <2>5, <2>3, <2>1, Zenon
<1>4. PICK h : Reaching(h, sets, n)
  BY <1>3, Zenon
<1> DEFINE g == [i \in 1 .. n |-> h[i]]
<1>5. \A i \in 1 .. n : g[i] = LevelOf(g, sets, i)
  <2> TAKE i \in 1 .. n
  <2>1. \A j \in 1 .. (i - 1) : h[j] = g[j]
    OBVIOUS
  <2>2. i \in Nat \ {0} /\ g[i] = LevelOf(h, sets, i)
    BY <1>4 DEF Reaching
  <2> HIDE DEF g
  <2> QED BY <2>1, <2>2, LevelSame
<1>6. g = [i \in DOMAIN sets |-> LevelOf(g, sets, i)]
  <2>1. DOMAIN g = 1 .. n /\ g = [i \in 1 .. n |-> g[i]]
    BY Zenon
  <2> HIDE DEF g
  <2> QED BY <2>1, <1>5, Zenon
<1> QED BY <1>6, Zenon

(* BuildLevels: levels are numbers, and a transaction is strictly above    *)
(* every earlier one that it conflicts with.                               *)
LEMMA LevelsClimb ==
    ASSUME NEW sets, NEW n \in Nat, DOMAIN sets = 1 .. n, NEW lvl, lvl = BuildLevels(sets)
    PROVE  /\ \A i \in 1 .. n : lvl[i] \in Nat
           /\ \A i \in 1 .. n : \A j \in 1 .. (i - 1) : Conflicts(sets[i], sets[j]) => lvl[j] < lvl[i]
<1>1. lvl = [i \in DOMAIN sets |-> LevelOf(lvl, sets, i)]
  BY LevelsExist, Zenon DEF BuildLevels
<1> DEFINE Above(i) == {k \in 1 .. i - 1 : Conflicts(sets[i], sets[k])}
           options(i) == {lvl[i - 1]} \cup {lvl[j] + 1 : j \in Above(i)}
           B == {i \in 1 .. n : lvl[i] \notin Nat}
<1>2. \A i \in 1 .. n : lvl[i] = IF i = 1 THEN 0 ELSE Max(options(i))
  BY <1>1, Zenon DEF LevelOf
<1>3. ASSUME NEW i \in 1 .. n, i # 1, \A j \in 1 .. (i - 1) : lvl[j] \in Nat
      PROVE  lvl[i] \in Nat /\ \A y \in options(i) : y \in Nat /\ lvl[i] >= y
  <2>1. IsFiniteSet(1 .. (i - 1)) /\ Above(i) \subseteq 1 .. (i - 1)
    BY FS_Interval
  <2>2. IsFiniteSet(Above(i))
    BY <2>1, FS_Subset, Zenon
  <2>3. IsFiniteSet({lvl[j] + 1 : j \in Above(i)})
    <3> DEFINE f == [j \in Above(i) |-> lvl[j] + 1]
    <3>1. {f[j] : j \in Above(i)} = {lvl[j] + 1 : j \in Above(i)}
      BY Zenon
    <3> DEFINE Img == {f[j] : j \in Above(i)}
    <3>2. f \in Surjection(Above(i), Img)
      BY Zenon DEF Surjection
    <3> HIDE DEF f, Img, Above
    <3>3. IsFiniteSet(Img)
      BY <2>2, <3>2, FS_Surjection, Zenon
    <3> QED BY <3>1, <3>3, Zenon DEF Img
  <2>4. IsFiniteSet(options(i))
    BY <2>3, FS_Singleton, FS_Union, Zenon
  <2>5. options(i) \subseteq Nat /\ options(i) # {}
    BY <1>3
  <2> HIDE DEF options
  <2>6. Max(options(i)) \in options(i) /\ \A y \in options(i) : Max(options(i)) >= y
    BY <2>4, <2>5, MaxFacts, Zenon
  <2> QED BY <2>5, <2>6, <1>2, <1>3, Zenon
<1>4. \A i \in 1 .. n : lvl[i] \in Nat
  <2> SUFFICES ASSUME B # {} PROVE FALSE
    BY Zenon
  <2>1. B \subseteq Nat
    OBVIOUS
  <2>2. PICK i \in B : \A m \in B : ~(m < i)
    <3> HIDE DEF B
    <3> QED BY <2>1, LeastNat, Zenon
  <2>3. i # 1
    <3> HIDE DEF options
    <3> QED BY <1>2, <2>2
  <2>4. \A j \in 1 .. (i - 1) : lvl[j] \in Nat
    BY <2>2
  <2> HIDE DEF options
  <2> QED BY <1>3, <2>2, <2>3, <2>4, Zenon
<1>5. ASSUME NEW i \in 1 .. n, NEW j \in 1 .. (i - 1), Conflicts(sets[i], sets[j])
      PROVE  lvl[j] < lvl[i]
  <2>1. i # 1 /\ \A k \in 1 .. (i - 1) : lvl[k] \in Nat
    BY <1>4
  <2>2. j \in Above(i)
    BY <1>5, Zenon
  <2>3. lvl[j] + 1 \in options(i)
    BY <2>2, Zenon
  <2>4. lvl[i] >= lvl[j] + 1
    <3> HIDE DEF options
    <3> QED BY <1>3, <2>1, <2>3, Zenon
  <2> QED BY <2>4, <2>1, <1>4
<1> QED BY <1>4, <1>5, Zenon

-----------------------------------------------------------------------------
States ==
    [bal : [Accounts -> Int], nonce : [EOAs -> Nat], sponsored : [EOAs -> Nat],
     code : SUBSET Codes, slot : [Stored -> Seq([Accounts -> Int])]]

Message ==
    {m \in [from : Senders, to : Destinations, sponsor : Sponsors \cup {NoSponsor}, value : Amounts,
            nonce : 0 .. TxsPerBlock - 1, sponsorNonce : Nat] : m.from # m.sponsor}

(* What a message of the block names: accounts for its sender and gas      *)
(* payer, an account for what it creates.                                  *)
LEMMA MessageFacts ==
    ASSUME NEW m \in Message
    PROVE  /\ m.from \in EOAs /\ m.from \in Senders /\ m.value \in Nat
           /\ gasPayer(m) \in EOAs /\ m.nonce \in 0 .. TxsPerBlock - 1 /\ m.to \in Destinations
           /\ m.sponsor # NoSponsor => m.sponsor \in EOAs
           /\ target(m) \in Accounts \cup Natives
           /\ m.to \notin Natives => target(m) \in Accounts
           /\ m.to = Create => target(m) \in Fresh
  BY ExecutorAssumption
     DEF Message, gasPayer, target, Destinations, Accounts, Codes, Fresh, Natives

(* The fields of a state.                                                  *)
LEMMA StateFields ==
    ASSUME NEW s \in States
    PROVE  /\ s.bal \in [Accounts -> Int] /\ s.nonce \in [EOAs -> Nat] /\ s.sponsored \in [EOAs -> Nat]
           /\ s.code \in SUBSET Codes /\ s.slot \in [Stored -> Seq([Accounts -> Int])]
           /\ s = [bal |-> s.bal, nonce |-> s.nonce, sponsored |-> s.sponsored,
                   code |-> s.code, slot |-> s.slot]
  BY Zenon DEF States

(* Paying an account changes its balance only.                             *)
LEMMA PayType ==
    ASSUME NEW A, NEW f \in [A -> Int], NEW who \in A, NEW n \in Int
    PROVE  /\ Pay(f, who, n) \in [A -> Int]
           /\ \A x \in A : Pay(f, who, n)[x] = IF x = who THEN f[x] + n ELSE f[x]
  BY DEF Pay

(* Counting a nonce up changes this nonce only.                            *)
LEMMA PayUp ==
    ASSUME NEW A, NEW f \in [A -> Nat], NEW who \in A
    PROVE  /\ Pay(f, who, 1) \in [A -> Nat]
           /\ \A x \in A : Pay(f, who, 1)[x] = IF x = who THEN f[x] + 1 ELSE f[x]
  BY DEF Pay

(* Externally owned accounts have balances.                                *)
LEMMA EOAsAreAccounts == EOAs \subseteq Accounts
  BY Zenon DEF Accounts

(* buyGas and the nonces: what they change of a state.                     *)
LEMMA BuyGasState ==
    ASSUME NEW m \in Message, NEW s \in States, NEW t, t = buyGas(m, s)
    PROVE  /\ t \in States /\ t.code = s.code /\ t.slot = s.slot
           /\ t.bal = Pay(s.bal, gasPayer(m), -TxGas)
           /\ t.nonce = Pay(s.nonce, m.from, 1)
           /\ t.sponsored = IF m.sponsor = NoSponsor THEN s.sponsored ELSE Pay(s.sponsored, m.sponsor, 1)
<1>1. /\ s.bal \in [Accounts -> Int] /\ s.nonce \in [EOAs -> Nat] /\ s.sponsored \in [EOAs -> Nat]
      /\ s.code \in SUBSET Codes /\ s.slot \in [Stored -> Seq([Accounts -> Int])]
  BY StateFields, Zenon
<1>2. t = [bal |-> Pay(s.bal, gasPayer(m), -TxGas), nonce |-> Pay(s.nonce, m.from, 1),
           sponsored |-> IF m.sponsor = NoSponsor THEN s.sponsored ELSE Pay(s.sponsored, m.sponsor, 1),
           code |-> s.code, slot |-> s.slot]
  BY Zenon DEF States, buyGas
<1>3. gasPayer(m) \in Accounts /\ -TxGas \in Int
  BY MessageFacts, EOAsAreAccounts, ExecutorAssumption
<1>4. Pay(s.bal, gasPayer(m), -TxGas) \in [Accounts -> Int]
  BY <1>1, <1>3, PayType, Zenon
<1>5. Pay(s.nonce, m.from, 1) \in [EOAs -> Nat]
  BY <1>1, MessageFacts, PayUp, Zenon
<1>6. m.sponsor # NoSponsor => Pay(s.sponsored, m.sponsor, 1) \in [EOAs -> Nat]
  <2>1. m.sponsor # NoSponsor => m.sponsor \in EOAs
    BY MessageFacts, Zenon
  <2> QED BY <1>1, <2>1, PayUp, Zenon
<1> QED BY <1>1, <1>2, <1>4, <1>5, <1>6 DEF States

(* The transfer of the value: what it changes of a state.                  *)
LEMMA TransferState ==
    ASSUME NEW m \in Message, NEW s \in States, NEW t, t = Transfer(m, s)
    PROVE  /\ t \in States /\ t.nonce = s.nonce /\ t.sponsored = s.sponsored /\ t.slot = s.slot
           /\ t.bal = IF m.to \in Natives THEN s.bal
                      ELSE Pay(Pay(s.bal, m.from, -m.value), target(m), m.value)
           /\ t.code = IF m.to = Create THEN s.code \cup {target(m)} ELSE s.code
<1>1. /\ s.bal \in [Accounts -> Int] /\ s.nonce \in [EOAs -> Nat] /\ s.sponsored \in [EOAs -> Nat]
      /\ s.code \in SUBSET Codes /\ s.slot \in [Stored -> Seq([Accounts -> Int])]
  BY StateFields, Zenon
<1>2. t = [bal |-> IF m.to \in Natives THEN s.bal
                   ELSE Pay(Pay(s.bal, m.from, -m.value), target(m), m.value),
           nonce |-> s.nonce, sponsored |-> s.sponsored,
           code |-> IF m.to = Create THEN s.code \cup {target(m)} ELSE s.code, slot |-> s.slot]
  BY Zenon DEF States, Transfer
<1>3. m.from \in Accounts /\ m.value \in Int /\ -m.value \in Int
  BY MessageFacts, EOAsAreAccounts
<1>4. Pay(s.bal, m.from, -m.value) \in [Accounts -> Int]
  BY <1>1, <1>3, PayType, Zenon
<1>5. m.to \notin Natives => Pay(Pay(s.bal, m.from, -m.value), target(m), m.value) \in [Accounts -> Int]
  BY <1>3, <1>4, PayType, MessageFacts
<1>6. m.to = Create => s.code \cup {target(m)} \in SUBSET Codes
  BY <1>1, MessageFacts, Zenon DEF Codes
<1> QED BY <1>1, <1>2, <1>5, <1>6 DEF States

(* A contract's run gives a state again and creates no code.               *)
LEMMA RunCodeState ==
    ASSUME NEW s \in States, NEW self \in Stored, NEW t, t = RunCode(s, self)
    PROVE  t \in States /\ t.code = s.code
<1>1. /\ s.bal \in [Accounts -> Int] /\ s.nonce \in [EOAs -> Nat] /\ s.sponsored \in [EOAs -> Nat]
      /\ s.code \in SUBSET Codes /\ s.slot \in [Stored -> Seq([Accounts -> Int])]
  BY StateFields, Zenon
<1> DEFINE paid == IF self \in Accounts /\ s.bal[self] > 0
                   THEN Pay(Pay(s.bal, self, -1), Payee, 1) ELSE s.bal
           kept == [s.slot EXCEPT ![self] = <<s.bal>>]
<1>2. t = [bal |-> paid, nonce |-> s.nonce, sponsored |-> s.sponsored, code |-> s.code, slot |-> kept]
  BY Zenon DEF States, RunCode
<1>3. kept \in [Stored -> Seq([Accounts -> Int])]
  BY <1>1
<1>4. Payee \in Accounts
  BY EOAsAreAccounts, ExecutorAssumption, Zenon
<1>5. self \in Accounts => Pay(s.bal, self, -1) \in [Accounts -> Int]
  <2>1. -1 \in Int /\ s.bal \in [Accounts -> Int]
    BY <1>1
  <2> QED BY <2>1, PayType, Zenon
<1>6. self \in Accounts => Pay(Pay(s.bal, self, -1), Payee, 1) \in [Accounts -> Int]
  <2> DEFINE f == Pay(s.bal, self, -1)
  <2>1. self \in Accounts => f \in [Accounts -> Int]
    BY <1>5, Zenon
  <2> HIDE DEF f
  <2> QED BY <2>1, <1>4, PayType DEF f
<1>7. paid \in [Accounts -> Int]
  BY <1>1, <1>6, Zenon
<1> QED BY <1>1, <1>2, <1>3, <1>7 DEF States

(* The refund and the fee of the coinbase: what they change of a state.    *)
LEMMA SettleState ==
    ASSUME NEW m \in Message, NEW s \in States, NEW cb \in EOAs, NEW t, t = Settle(m, s, cb)
    PROVE  /\ t \in States /\ t.nonce = s.nonce /\ t.sponsored = s.sponsored
           /\ t.code = s.code /\ t.slot = s.slot
           /\ t.bal = Pay(Pay(s.bal, gasPayer(m), TxGas - UsedGas), cb, UsedGas)
<1>1. /\ s.bal \in [Accounts -> Int] /\ s.nonce \in [EOAs -> Nat] /\ s.sponsored \in [EOAs -> Nat]
      /\ s.code \in SUBSET Codes /\ s.slot \in [Stored -> Seq([Accounts -> Int])]
  BY StateFields, Zenon
<1>2. t = [bal |-> Pay(Pay(s.bal, gasPayer(m), TxGas - UsedGas), cb, UsedGas),
           nonce |-> s.nonce, sponsored |-> s.sponsored, code |-> s.code, slot |-> s.slot]
  BY Zenon DEF States, Settle
<1>3. gasPayer(m) \in Accounts /\ cb \in Accounts /\ TxGas - UsedGas \in Int /\ UsedGas \in Int
  BY MessageFacts, EOAsAreAccounts, ExecutorAssumption
<1>4. Pay(s.bal, gasPayer(m), TxGas - UsedGas) \in [Accounts -> Int]
  BY <1>1, <1>3, PayType, Zenon
<1>5. Pay(Pay(s.bal, gasPayer(m), TxGas - UsedGas), cb, UsedGas) \in [Accounts -> Int]
  BY <1>3, <1>4, PayType
<1> QED BY <1>1, <1>2, <1>5 DEF States

(* Applying a message gives a state again and removes no code.             *)
LEMMA AppliedState ==
    ASSUME NEW m \in Message, NEW s \in States, NEW cb \in EOAs
    PROVE  ApplyMessage(m, s, cb) \in States /\ s.code \subseteq ApplyMessage(m, s, cb).code
<1> DEFINE bought == buyGas(m, s)
           paid == Transfer(m, bought)
           ran == IF RunsCode(m, s) THEN RunCode(paid, target(m)) ELSE paid
<1>1. bought \in States /\ bought.code = s.code
  BY BuyGasState, Zenon
<1>2. paid \in States /\ s.code \subseteq paid.code
  <2> HIDE DEF bought
  <2>1. /\ paid \in States
        /\ paid.code = IF m.to = Create THEN bought.code \cup {target(m)} ELSE bought.code
    BY <1>1, TransferState
  <2> QED BY <1>1, <2>1, Zenon
<1>3. RunsCode(m, s) => target(m) \in Stored
  BY MessageFacts, StateFields, Zenon DEF RunsCode, Stored, Codes, target
<1>4. ran \in States /\ s.code \subseteq ran.code
  <2> HIDE DEF paid
  <2> QED BY <1>2, <1>3, RunCodeState, Zenon
<1>5. ApplyMessage(m, s, cb) = Settle(m, ran, cb)
  BY Zenon DEF ApplyMessage
<1> HIDE DEF ran
<1> QED BY <1>4, <1>5, SettleState

(* Merging a copy into the very state it was taken from gives the copy     *)
(* (WriteBufStateDB.Merge).                                                *)
LEMMA MergeSame ==
    ASSUME NEW s \in States, NEW t \in States, s.code \subseteq t.code
    PROVE  Merge(s, s, t) = t
<1>1. /\ s.bal \in [Accounts -> Int] /\ s.nonce \in [EOAs -> Nat] /\ s.sponsored \in [EOAs -> Nat]
      /\ s.code \in SUBSET Codes /\ s.slot \in [Stored -> Seq([Accounts -> Int])]
  BY StateFields, Zenon
<1>2. /\ t.bal \in [Accounts -> Int] /\ t.nonce \in [EOAs -> Nat] /\ t.sponsored \in [EOAs -> Nat]
      /\ t.slot \in [Stored -> Seq([Accounts -> Int])]
      /\ t = [bal |-> t.bal, nonce |-> t.nonce, sponsored |-> t.sponsored, code |-> t.code, slot |-> t.slot]
  BY StateFields, Zenon
<1>3. [x \in Accounts |-> s.bal[x] + (t.bal[x] - s.bal[x])] = t.bal
  <2>1. \A x \in Accounts : s.bal[x] + (t.bal[x] - s.bal[x]) = t.bal[x]
    BY <1>1, <1>2
  <2> QED BY <2>1, <1>2, Zenon
<1>4. /\ Overlaid(t.nonce, s.nonce, s.nonce) = t.nonce
      /\ Overlaid(t.sponsored, s.sponsored, s.sponsored) = t.sponsored
      /\ Overlaid(t.slot, s.slot, s.slot) = t.slot
  BY <1>1, <1>2, Zenon DEF Overlaid
<1>5. s.code \cup t.code = t.code
  BY Zenon
<1> QED BY <1>2, <1>3, <1>4, <1>5, Zenon DEF Merge

-----------------------------------------------------------------------------
Plain(m) == m.to \in Recipients

Delta(m, cb, x) ==
    (IF x = gasPayer(m) THEN -UsedGas ELSE 0) + (IF x = m.from THEN -m.value ELSE 0)
      + (IF x = m.to THEN m.value ELSE 0) + (IF x = cb THEN UsedGas ELSE 0)

(* A plain transfer changes balances by amounts that do not depend on the  *)
(* state, two nonces, and nothing else.                                    *)
LEMMA PlainApply ==
    ASSUME NEW m \in Message, NEW s \in States, NEW cb \in EOAs, Plain(m),
           NEW t, t = ApplyMessage(m, s, cb)
    PROVE  /\ t \in States /\ t.code = s.code /\ t.slot = s.slot
           /\ \A x \in Accounts : t.bal[x] = s.bal[x] + Delta(m, cb, x)
           /\ t.nonce = Pay(s.nonce, m.from, 1)
           /\ t.sponsored = IF m.sponsor = NoSponsor THEN s.sponsored ELSE Pay(s.sponsored, m.sponsor, 1)
<1> DEFINE bought == buyGas(m, s)
           paid == Transfer(m, bought)
<1>0. m.to \in EOAs /\ m.to # Create /\ m.to \notin Natives /\ m.to \notin s.code /\ target(m) = m.to
  BY StateFields, ExecutorAssumption, Zenon DEF Plain, Accounts, Codes, target
<1>1. /\ bought \in States /\ bought.code = s.code /\ bought.slot = s.slot
      /\ bought.bal = Pay(s.bal, gasPayer(m), -TxGas)
      /\ bought.nonce = Pay(s.nonce, m.from, 1)
      /\ bought.sponsored = IF m.sponsor = NoSponsor THEN s.sponsored ELSE Pay(s.sponsored, m.sponsor, 1)
  BY BuyGasState, Zenon
<1> HIDE DEF bought
<1>2. /\ paid \in States /\ paid.nonce = bought.nonce /\ paid.sponsored = bought.sponsored
      /\ paid.slot = bought.slot /\ paid.code = bought.code
      /\ paid.bal = Pay(Pay(bought.bal, m.from, -m.value), m.to, m.value)
  <2>1. /\ paid \in States /\ paid.nonce = bought.nonce /\ paid.sponsored = bought.sponsored
        /\ paid.slot = bought.slot
        /\ paid.bal = IF m.to \in Natives THEN bought.bal
                      ELSE Pay(Pay(bought.bal, m.from, -m.value), target(m), m.value)
        /\ paid.code = IF m.to = Create THEN bought.code \cup {target(m)} ELSE bought.code
    BY <1>1, TransferState
  <2> HIDE DEF paid
  <2> QED BY <2>1, <1>0, Zenon
<1>3. t = Settle(m, paid, cb)
  BY <1>0, Zenon DEF ApplyMessage, RunsCode, bought
<1> HIDE DEF paid
<1>4. /\ t \in States /\ t.nonce = paid.nonce /\ t.sponsored = paid.sponsored
      /\ t.code = paid.code /\ t.slot = paid.slot
      /\ t.bal = Pay(Pay(paid.bal, gasPayer(m), TxGas - UsedGas), cb, UsedGas)
  BY <1>2, <1>3, SettleState
<1>5. ASSUME NEW x \in Accounts PROVE t.bal[x] = s.bal[x] + Delta(m, cb, x)
  <2> DEFINE b1 == Pay(s.bal, gasPayer(m), -TxGas)
             b2 == Pay(b1, m.from, -m.value)
             b3 == Pay(b2, m.to, m.value)
             b4 == Pay(b3, gasPayer(m), TxGas - UsedGas)
             b5 == Pay(b4, cb, UsedGas)
             p == gasPayer(m)
             v == m.value
  <2>0. /\ p \in Accounts /\ m.from \in Accounts /\ m.to \in Accounts /\ cb \in Accounts
        /\ v \in Int /\ -v \in Int /\ TxGas \in Int /\ UsedGas \in Int /\ -TxGas \in Int /\ TxGas - UsedGas \in Int
        /\ s.bal \in [Accounts -> Int] /\ s.bal[x] \in Int
    <3>1. m.from \in EOAs /\ p \in EOAs /\ v \in Nat
      BY MessageFacts, Zenon
    <3> HIDE DEF p, v
    <3>2. p \in Accounts /\ m.from \in Accounts /\ m.to \in Accounts /\ cb \in Accounts
      BY <1>0, <3>1, EOAsAreAccounts, Zenon
    <3>3. TxGas \in Nat /\ UsedGas \in Nat
      BY ExecutorAssumption
    <3>4. s.bal \in [Accounts -> Int]
      BY StateFields, Zenon
    <3> QED BY <3>1, <3>2, <3>3, <3>4
  <2>1. b1 \in [Accounts -> Int] /\ b1[x] = IF x = p THEN s.bal[x] + (-TxGas) ELSE s.bal[x]
    <3> DEFINE n == -TxGas
               f == s.bal
    <3>1. n \in Int /\ f \in [Accounts -> Int] /\ p \in Accounts /\ b1 = Pay(f, p, n)
      BY <2>0, Zenon
    <3> HIDE DEF p, n, f, b1
    <3>2. b1 \in [Accounts -> Int] /\ b1[x] = IF x = p THEN f[x] + n ELSE f[x]
      BY <3>1, PayType
    <3> QED BY <3>2, Zenon DEF n, f
  <2> HIDE DEF b1
  <2>2. b2 \in [Accounts -> Int] /\ b2[x] = IF x = m.from THEN b1[x] + (-v) ELSE b1[x]
    <3> DEFINE n == -v
               q == m.from
    <3>1. n \in Int /\ q \in Accounts /\ b2 = Pay(b1, q, n) /\ b1 \in [Accounts -> Int]
      BY <2>0, <2>1, Zenon
    <3> HIDE DEF n, q, b2, v
    <3>2. b2 \in [Accounts -> Int] /\ b2[x] = IF x = q THEN b1[x] + n ELSE b1[x]
      BY <3>1, PayType
    <3> QED BY <3>2, Zenon DEF n, q
  <2> HIDE DEF b2
  <2>3. b3 \in [Accounts -> Int] /\ b3[x] = IF x = m.to THEN b2[x] + v ELSE b2[x]
    <3> DEFINE q == m.to
    <3>1. v \in Int /\ q \in Accounts /\ b3 = Pay(b2, q, v) /\ b2 \in [Accounts -> Int]
      BY <2>0, <2>2, Zenon
    <3> HIDE DEF q, b3, v
    <3>2. b3 \in [Accounts -> Int] /\ b3[x] = IF x = q THEN b2[x] + v ELSE b2[x]
      BY <3>1, PayType
    <3> QED BY <3>2, Zenon DEF q
  <2> HIDE DEF b3
  <2>4. b4 \in [Accounts -> Int] /\ b4[x] = IF x = p THEN b3[x] + (TxGas - UsedGas) ELSE b3[x]
    <3> DEFINE n == TxGas - UsedGas
    <3>1. n \in Int /\ p \in Accounts /\ b4 = Pay(b3, p, n) /\ b3 \in [Accounts -> Int]
      BY <2>0, <2>3, Zenon
    <3> HIDE DEF n, p, b4
    <3>2. b4 \in [Accounts -> Int] /\ b4[x] = IF x = p THEN b3[x] + n ELSE b3[x]
      BY <3>1, PayType
    <3> QED BY <3>2, Zenon DEF n
  <2> HIDE DEF b4
  <2>5. b5 \in [Accounts -> Int] /\ b5[x] = IF x = cb THEN b4[x] + UsedGas ELSE b4[x]
    <3>1. UsedGas \in Int /\ cb \in Accounts /\ b5 = Pay(b4, cb, UsedGas) /\ b4 \in [Accounts -> Int]
      BY <2>0, <2>4, Zenon
    <3> HIDE DEF b5
    <3> QED BY <3>1, PayType
  <2>6. t.bal = b5
    BY <1>1, <1>2, <1>4, Zenon DEF b1, b2, b3, b4
  <2> HIDE DEF b5
  <2>7. Delta(m, cb, x) = (IF x = p THEN -UsedGas ELSE 0) + (IF x = m.from THEN -v ELSE 0)
                            + (IF x = m.to THEN v ELSE 0) + (IF x = cb THEN UsedGas ELSE 0)
    BY Zenon DEF Delta
  <2> HIDE DEF p, v
  <2>8. b1[x] \in Int /\ b2[x] \in Int /\ b3[x] \in Int /\ b4[x] \in Int /\ b5[x] \in Int
    BY <2>1, <2>2, <2>3, <2>4, <2>5, Zenon
  <2>9. b2[x] = s.bal[x] + (IF x = p THEN -TxGas ELSE 0) + (IF x = m.from THEN -v ELSE 0)
    BY <2>0, <2>1, <2>2
  <2>10. b4[x] = b2[x] + (IF x = m.to THEN v ELSE 0) + (IF x = p THEN TxGas - UsedGas ELSE 0)
    BY <2>0, <2>8, <2>3, <2>4
  <2>11. b5[x] = b4[x] + (IF x = cb THEN UsedGas ELSE 0)
    BY <2>0, <2>8, <2>5
  <2> QED BY <2>0, <2>8, <2>6, <2>7, <2>9, <2>10, <2>11
<1> QED BY <1>1, <1>2, <1>4, <1>5, Zenon

(* Two states that m cannot tell apart. *)
Agree(m, s, t) ==
    /\ s.code = t.code
    /\ s.nonce[m.from] = t.nonce[m.from] /\ s.bal[m.from] = t.bal[m.from]
    /\ m.sponsor # NoSponsor =>
          s.sponsored[m.sponsor] = t.sponsored[m.sponsor] /\ s.bal[m.sponsor] = t.bal[m.sponsor]

(* States that agree on the sender and the sponsor of a message accept it  *)
(* alike (preCheck, buyGas, CanTransfer).                                  *)
LEMMA AgreeCan ==
    ASSUME NEW m \in Message, NEW s, NEW t, Agree(m, s, t)
    PROVE  CanApply(m, s) = CanApply(m, t)
<1>1. s.bal[gasPayer(m)] = t.bal[gasPayer(m)]
  BY Zenon DEF Agree, gasPayer
<1> QED BY <1>1, Zenon DEF Agree, CanApply

(* The copy of a plain transfer, merged into a state that agrees with its  *)
(* parent on sender and sponsor, is the transfer applied to that state     *)
(* (WriteBufStateDB.Merge).                                                *)
LEMMA PlainMerge ==
    ASSUME NEW m \in Message, NEW s \in States, NEW d \in States, NEW cb \in EOAs, Plain(m), Agree(m, s, d)
    PROVE  Merge(d, s, ApplyMessage(m, s, cb)) = ApplyMessage(m, d, cb)
<1> DEFINE t == ApplyMessage(m, s, cb)
           e == ApplyMessage(m, d, cb)
<1>1. /\ t \in States /\ t.code = s.code /\ t.slot = s.slot
      /\ \A x \in Accounts : t.bal[x] = s.bal[x] + Delta(m, cb, x)
      /\ t.nonce = Pay(s.nonce, m.from, 1)
      /\ t.sponsored = IF m.sponsor = NoSponsor THEN s.sponsored ELSE Pay(s.sponsored, m.sponsor, 1)
  BY PlainApply
<1>2. /\ e \in States /\ e.code = d.code /\ e.slot = d.slot
      /\ \A x \in Accounts : e.bal[x] = d.bal[x] + Delta(m, cb, x)
      /\ e.nonce = Pay(d.nonce, m.from, 1)
      /\ e.sponsored = IF m.sponsor = NoSponsor THEN d.sponsored ELSE Pay(d.sponsored, m.sponsor, 1)
  BY PlainApply
<1> HIDE DEF t, e
<1>3. /\ s.bal \in [Accounts -> Int] /\ s.nonce \in [EOAs -> Nat] /\ s.sponsored \in [EOAs -> Nat]
      /\ s.slot \in [Stored -> Seq([Accounts -> Int])]
      /\ d.bal \in [Accounts -> Int] /\ d.nonce \in [EOAs -> Nat] /\ d.sponsored \in [EOAs -> Nat]
      /\ d.slot \in [Stored -> Seq([Accounts -> Int])]
      /\ t.bal \in [Accounts -> Int] /\ e.bal \in [Accounts -> Int]
      /\ e = [bal |-> e.bal, nonce |-> e.nonce, sponsored |-> e.sponsored, code |-> e.code, slot |-> e.slot]
  BY <1>1, <1>2, StateFields, Zenon
<1>4. [x \in Accounts |-> d.bal[x] + (t.bal[x] - s.bal[x])] = e.bal
  <2>1. \A x \in Accounts : Delta(m, cb, x) \in Int
    BY MessageFacts, ExecutorAssumption DEF Delta
  <2>2. ASSUME NEW x \in Accounts PROVE d.bal[x] + (t.bal[x] - s.bal[x]) = e.bal[x]
    <3>1. /\ d.bal[x] \in Int /\ s.bal[x] \in Int /\ Delta(m, cb, x) \in Int
          /\ t.bal[x] = s.bal[x] + Delta(m, cb, x) /\ e.bal[x] = d.bal[x] + Delta(m, cb, x)
      BY <1>1, <1>2, <1>3, <2>1, Zenon
    <3> QED BY <3>1
  <2> QED BY <2>2, <1>3, Zenon
<1>5. Overlaid(t.nonce, s.nonce, d.nonce) = e.nonce
  <2>1. m.from \in EOAs /\ s.nonce[m.from] = d.nonce[m.from]
    BY MessageFacts, Zenon DEF Agree
  <2>2. /\ t.nonce = Pay(s.nonce, m.from, 1) /\ e.nonce = Pay(d.nonce, m.from, 1)
        /\ e.nonce \in [EOAs -> Nat]
        /\ \A x \in EOAs : t.nonce[x] = IF x = m.from THEN s.nonce[x] + 1 ELSE s.nonce[x]
        /\ \A x \in EOAs : e.nonce[x] = IF x = m.from THEN d.nonce[x] + 1 ELSE d.nonce[x]
    <3> DEFINE f == s.nonce
               g == d.nonce
               w == m.from
    <3>1. /\ f \in [EOAs -> Nat] /\ g \in [EOAs -> Nat] /\ w \in EOAs
          /\ t.nonce = Pay(f, w, 1) /\ e.nonce = Pay(g, w, 1)
      BY <1>1, <1>2, <1>3, <2>1, Zenon
    <3> HIDE DEF f, g, w
    <3>2. /\ Pay(g, w, 1) \in [EOAs -> Nat]
          /\ \A x \in EOAs : Pay(f, w, 1)[x] = IF x = w THEN f[x] + 1 ELSE f[x]
          /\ \A x \in EOAs : Pay(g, w, 1)[x] = IF x = w THEN g[x] + 1 ELSE g[x]
      BY <3>1, PayUp
    <3> QED BY <3>1, <3>2, Zenon DEF f, g, w
  <2>3. ASSUME NEW x \in EOAs
        PROVE  (IF t.nonce[x] # s.nonce[x] THEN t.nonce[x] ELSE d.nonce[x]) = e.nonce[x]
    <3>1. s.nonce[x] \in Nat
      BY <1>3, Zenon
    <3>2. s.nonce[x] + 1 # s.nonce[x]
      BY <3>1
    <3> QED BY <2>1, <2>2, <3>2, Zenon
  <2> QED BY <1>3, <2>2, <2>3, Zenon DEF Overlaid
<1>6. Overlaid(t.sponsored, s.sponsored, d.sponsored) = e.sponsored
  <2>1. CASE m.sponsor = NoSponsor
    BY <2>1, <1>1, <1>2, <1>3, Zenon DEF Overlaid
  <2>2. CASE m.sponsor # NoSponsor
    <3>1. m.sponsor \in EOAs /\ s.sponsored[m.sponsor] = d.sponsored[m.sponsor]
      BY <2>2, MessageFacts, Zenon DEF Agree
    <3>2. /\ t.sponsored = Pay(s.sponsored, m.sponsor, 1) /\ e.sponsored = Pay(d.sponsored, m.sponsor, 1)
          /\ e.sponsored \in [EOAs -> Nat]
          /\ \A x \in EOAs : t.sponsored[x] = IF x = m.sponsor THEN s.sponsored[x] + 1 ELSE s.sponsored[x]
          /\ \A x \in EOAs : e.sponsored[x] = IF x = m.sponsor THEN d.sponsored[x] + 1 ELSE d.sponsored[x]
      <4> DEFINE f == s.sponsored
                 g == d.sponsored
                 w == m.sponsor
      <4>1. /\ f \in [EOAs -> Nat] /\ g \in [EOAs -> Nat] /\ w \in EOAs
            /\ t.sponsored = Pay(f, w, 1) /\ e.sponsored = Pay(g, w, 1)
        BY <2>2, <1>1, <1>2, <1>3, <3>1, Zenon
      <4> HIDE DEF f, g, w
      <4>2. /\ Pay(g, w, 1) \in [EOAs -> Nat]
            /\ \A x \in EOAs : Pay(f, w, 1)[x] = IF x = w THEN f[x] + 1 ELSE f[x]
            /\ \A x \in EOAs : Pay(g, w, 1)[x] = IF x = w THEN g[x] + 1 ELSE g[x]
        BY <4>1, PayUp
      <4> QED BY <4>1, <4>2, Zenon DEF f, g, w
    <3>3. ASSUME NEW x \in EOAs
          PROVE  (IF t.sponsored[x] # s.sponsored[x] THEN t.sponsored[x] ELSE d.sponsored[x]) = e.sponsored[x]
      <4>1. s.sponsored[x] \in Nat
        BY <1>3, Zenon
      <4>2. s.sponsored[x] + 1 # s.sponsored[x]
        BY <4>1
      <4> QED BY <3>1, <3>2, <4>2, Zenon
    <3> QED BY <1>3, <3>2, <3>3, Zenon DEF Overlaid
  <2> QED BY <2>1, <2>2, Zenon
<1>7. d.code \cup t.code = e.code /\ Overlaid(t.slot, s.slot, d.slot) = e.slot
  BY <1>1, <1>2, <1>3, Zenon DEF Agree, Overlaid
<1>8. Merge(d, s, t) = e
  BY <1>3, <1>4, <1>5, <1>6, <1>7, Zenon DEF Merge
<1> QED BY <1>8, Zenon DEF t, e

-----------------------------------------------------------------------------
(* Two messages that may share a level call no code. *)
LEMMA SharedIsPlain ==
    ASSUME ~CallsFresh, NEW m \in Message, NEW k \in Message,
           ~Conflicts(AnalyzeTx(m, {Contract}), AnalyzeTx(k, {Contract}))
    PROVE  Plain(m) /\ Plain(k)
<1> DEFINE x == AnalyzeTx(m, {Contract})
           y == AnalyzeTx(k, {Contract})
<1>0. /\ Create \notin Natives /\ Contract \notin Natives /\ Contract # Create
      /\ Recipients \cap (Natives \cup {Create, Contract}) = {}
  BY ExecutorAssumption, Zenon DEF Accounts, Codes
<1>1. LVMSerial \in x.writes \cup x.reads /\ LVMSerial \in y.writes \cup y.reads
  BY Zenon DEF AnalyzeTx
<1>2. ~Plain(m) => LVMSerial \in x.writes
  <2>1. ~Plain(m) => m.to \in {Contract, Create} \cup Natives
    BY Zenon DEF Plain, Message, Destinations
  <2> QED BY <2>1, Zenon DEF AnalyzeTx, Natives
<1>3. ~Plain(k) => LVMSerial \in y.writes
  <2>1. ~Plain(k) => k.to \in {Contract, Create} \cup Natives
    BY Zenon DEF Plain, Message, Destinations
  <2> QED BY <2>1, Zenon DEF AnalyzeTx, Natives
<1>4. ~Conflicts(x, y)
  BY Zenon
<1> HIDE DEF x, y
<1> QED BY <1>1, <1>2, <1>3, <1>4, Zenon DEF Conflicts

(* ... and touch none of each other's accounts. *)
LEMMA SharedApart ==
    ASSUME NEW m \in Message, NEW k \in Message, Plain(m), Plain(k),
           ~Conflicts(AnalyzeTx(m, {Contract}), AnalyzeTx(k, {Contract}))
    PROVE  /\ k.from # m.from /\ k.to # m.from /\ gasPayer(k) # m.from
           /\ m.sponsor # NoSponsor =>
                /\ m.sponsor # k.from /\ m.sponsor # k.to /\ m.sponsor # gasPayer(k)
                /\ m.sponsor # k.sponsor
<1> DEFINE x == AnalyzeTx(m, {Contract})
           y == AnalyzeTx(k, {Contract})
<1>0. m.to # Create /\ m.to \notin Natives /\ k.to # Create /\ k.to \notin Natives
  BY ExecutorAssumption, Zenon DEF Plain, Accounts
<1>1. /\ m.from \in x.writes /\ (m.sponsor # NoSponsor => m.sponsor \in x.writes)
  BY Zenon DEF AnalyzeTx, sponsorOf
<1>2. /\ k.from \in y.writes /\ gasPayer(k) \in y.writes
      /\ (k.sponsor # NoSponsor => k.sponsor \in y.writes)
  BY Zenon DEF AnalyzeTx, sponsorOf, gasPayer
<1>3. k.to \in y.writes
  BY <1>0, Zenon DEF AnalyzeTx, Natives
<1>4. ~Conflicts(x, y)
  BY Zenon
<1> HIDE DEF x, y
<1>5. x.writes \cap y.writes = {}
  BY <1>4, Zenon DEF Conflicts
<1> QED BY <1>1, <1>2, <1>3, <1>5, Zenon

(* Applying one of them is nothing the other can tell. *)
LEMMA AgreeKept ==
    ASSUME NEW m \in Message, NEW k \in Message, Plain(k),
           NEW s \in States, NEW d \in States, NEW cb \in EOAs, Agree(m, s, d),
           m.from # cb, m.sponsor # cb,
           k.from # m.from, k.to # m.from, gasPayer(k) # m.from,
           m.sponsor # NoSponsor =>
                /\ m.sponsor # k.from /\ m.sponsor # k.to /\ m.sponsor # gasPayer(k)
                /\ m.sponsor # k.sponsor
    PROVE  Agree(m, s, ApplyMessage(k, d, cb))
<1> DEFINE e == ApplyMessage(k, d, cb)
<1>1. /\ e \in States /\ e.code = d.code
      /\ \A x \in Accounts : e.bal[x] = d.bal[x] + Delta(k, cb, x)
      /\ e.nonce = Pay(d.nonce, k.from, 1)
      /\ e.sponsored = IF k.sponsor = NoSponsor THEN d.sponsored ELSE Pay(d.sponsored, k.sponsor, 1)
  BY PlainApply
<1> HIDE DEF e
<1>2. /\ d.bal \in [Accounts -> Int] /\ d.nonce \in [EOAs -> Nat] /\ d.sponsored \in [EOAs -> Nat]
  BY StateFields, Zenon
<1>3. ASSUME NEW x \in Accounts, x # gasPayer(k), x # k.from, x # k.to, x # cb
      PROVE  e.bal[x] = d.bal[x]
  <2>1. Delta(k, cb, x) = 0
    BY <1>3 DEF Delta
  <2> QED BY <2>1, <1>1, <1>2
<1>4. m.from \in EOAs /\ m.from \in Accounts /\ (m.sponsor # NoSponsor => m.sponsor \in EOAs /\ m.sponsor \in Accounts)
  BY MessageFacts, EOAsAreAccounts, Zenon
<1>5. e.nonce[m.from] = d.nonce[m.from]
  BY <1>1, <1>2, <1>4, Zenon DEF Pay
<1>6. m.sponsor # NoSponsor => e.sponsored[m.sponsor] = d.sponsored[m.sponsor]
  BY <1>1, <1>2, <1>4, Zenon DEF Pay
<1>7. e.bal[m.from] = d.bal[m.from]
  BY <1>3, <1>4, Zenon
<1>8. m.sponsor # NoSponsor => e.bal[m.sponsor] = d.bal[m.sponsor]
  BY <1>3, <1>4, Zenon
<1>9. Agree(m, s, e)
  BY <1>1, <1>5, <1>6, <1>7, <1>8, Zenon DEF Agree
<1> QED BY <1>9, Zenon DEF e

(* Transactions of one level do not conflict, and none of them is sent or  *)
(* sponsored by the coinbase (BuildLevels, serialLevels).                  *)
LEMMA LevelsApart ==
    ASSUME NEW ms \in Seq(Message), NEW cb, NEW lvl, lvl = Levels(ms, cb, {Contract})
    PROVE  /\ \A i \in DOMAIN ms : lvl[i] \in Nat
           /\ \A i \in DOMAIN ms : \A k \in 1 .. (i - 1) : lvl[k] = lvl[i] =>
                 /\ ms[i].from # cb /\ ms[i].sponsor # cb
                 /\ ~Conflicts(AnalyzeTx(ms[i], {Contract}), AnalyzeTx(ms[k], {Contract}))
<1> DEFINE sets == [i \in DOMAIN ms |-> AnalyzeTx(ms[i], {Contract})]
           n == Len(ms)
<1>0. n \in Nat /\ DOMAIN ms = 1 .. n
  OBVIOUS
<1>1. CASE hasCoinbaseSender(ms, cb)
  <2>1. \A i \in 1 .. n : lvl[i] = i - 1
    BY <1>0, <1>1, Zenon DEF Levels, serialLevels
  <2> HIDE DEF n
  <2>2. ASSUME NEW i \in 1 .. n, NEW k \in 1 .. (i - 1) PROVE lvl[k] # lvl[i]
    <3>1. i \in Nat /\ k \in Nat /\ k < i /\ k \in 1 .. n
      BY <1>0
    <3>2. lvl[i] = i - 1 /\ lvl[k] = k - 1
      BY <2>1, <3>1, Zenon
    <3> QED BY <3>1, <3>2
  <2>3. ASSUME NEW i \in 1 .. n PROVE lvl[i] \in Nat
    <3>1. i - 1 \in Nat
      BY <1>0
    <3> QED BY <2>1, <3>1, Zenon
  <2> QED BY <1>0, <2>2, <2>3, Zenon
<1>2. CASE ~hasCoinbaseSender(ms, cb)
  <2>1. lvl = BuildLevels(sets) /\ DOMAIN sets = 1 .. n
    BY <1>0, <1>2, Zenon DEF Levels
  <2> HIDE DEF sets, n
  <2>2. /\ \A i \in 1 .. n : lvl[i] \in Nat
        /\ \A i \in 1 .. n : \A j \in 1 .. (i - 1) : Conflicts(sets[i], sets[j]) => lvl[j] < lvl[i]
    BY <1>0, <2>1, LevelsClimb, Zenon
  <2>3. \A i \in 1 .. n : ms[i].from # cb /\ ms[i].sponsor # cb
    BY <1>0, <1>2, Zenon DEF hasCoinbaseSender
  <2>4. ASSUME NEW i \in 1 .. n, NEW k \in 1 .. (i - 1), lvl[k] = lvl[i]
        PROVE  ~Conflicts(AnalyzeTx(ms[i], {Contract}), AnalyzeTx(ms[k], {Contract}))
    <3>1. k \in 1 .. n
      BY <1>0
    <3>2. sets[i] = AnalyzeTx(ms[i], {Contract}) /\ sets[k] = AnalyzeTx(ms[k], {Contract})
      BY <1>0, <3>1, Zenon DEF sets
    <3>3. ~(lvl[k] < lvl[i])
      <4>1. lvl[i] \in Nat
        BY <2>2, Zenon
      <4>2. lvl[k] = lvl[i]
        BY <2>4, Zenon
      <4> QED BY <4>1, <4>2
    <3>4. ~Conflicts(sets[i], sets[k])
      BY <2>2, <3>3, Zenon
    <3> QED BY <3>2, <3>4, Zenon
  <2> QED BY <1>0, <2>2, <2>3, <2>4, Zenon
<1> QED BY <1>1, <1>2, Zenon

-----------------------------------------------------------------------------
(* A request with its nonces is a message.                                 *)
LEMMA NumberedMessage ==
    ASSUME NEW ms \in Seq(Message), Len(ms) < TxsPerBlock, NEW r \in Requests
    PROVE  Numbered(ms, r) \in Message
<1> DEFINE from == {i \in DOMAIN ms : ms[i].from = r.from}
           spon == {i \in DOMAIN ms : ms[i].sponsor = r.sponsor}
           n == Len(ms)
<1>1. /\ n \in Nat /\ DOMAIN ms = 1 .. n /\ n < TxsPerBlock /\ TxsPerBlock \in Nat
  BY ExecutorAssumption
<1> HIDE DEF n
<1>2. IsFiniteSet(1 .. n) /\ Cardinality(1 .. n) = n
  BY <1>1, FS_Interval
<1>3. from \subseteq 1 .. n /\ spon \subseteq 1 .. n
  BY <1>1, Zenon
<1> HIDE DEF from, spon
<1>4. /\ IsFiniteSet(from) /\ Cardinality(from) <= n
      /\ IsFiniteSet(spon)
  BY <1>2, <1>3, FS_Subset, Zenon
<1>5. Cardinality(from) \in Nat /\ Cardinality(spon) \in Nat
  BY <1>4, FS_CardinalityType, Zenon
<1>6. Cardinality(from) \in 0 .. TxsPerBlock - 1
  BY <1>1, <1>4, <1>5
<1>7. Numbered(ms, r) = [from |-> r.from, to |-> r.to, sponsor |-> r.sponsor, value |-> r.value,
                         nonce |-> Cardinality(from), sponsorNonce |-> Cardinality(spon)]
  BY Zenon DEF Numbered, from, spon
<1>8. /\ r.from \in Senders /\ r.to \in Destinations /\ r.sponsor \in Sponsors \cup {NoSponsor}
      /\ r.value \in Amounts /\ r.from # r.sponsor
  BY Zenon DEF Requests
<1> QED BY <1>5, <1>6, <1>7, <1>8 DEF Message

Lvl == Levels(msgs, coinbase, {Contract})

Typed ==
    /\ coinbase \in EOAs /\ msgs \in Seq(Message) /\ Len(msgs) <= TxsPerBlock
    /\ statedb \in States /\ base \in States
    /\ merged \in Nat /\ level \in Nat

Filling == ~Filled => results = <<>> /\ level = 0 /\ base = statedb

Ran ==
    \A i \in DOMAIN results :
       /\ i \in DOMAIN msgs /\ Lvl[i] <= level
       /\ Lvl[i] = level =>
             results[i] = [ok |-> CanApply(msgs[i], base), st |-> ApplyMessage(msgs[i], base, coinbase)]

Apart ==
    statedb # base =>
       \A i \in DOMAIN msgs : Lvl[i] = level /\ i > merged =>
             Plain(msgs[i]) /\ Agree(msgs[i], base, statedb)

ExecutorInv == Typed /\ Filling /\ Ran /\ Apart

(* The state before the block.                                             *)
LEMMA GenesisState == Genesis \in States /\ Genesis.code = {Contract}
<1>1. Funds \in [Accounts -> Int]
  BY ExecutorAssumption
<1>2. [a \in EOAs |-> 0] \in [EOAs -> Nat] /\ [a \in Stored |-> <<>>] \in [Stored -> Seq([Accounts -> Int])]
  OBVIOUS
<1>3. {Contract} \in SUBSET Codes
  BY Zenon DEF Codes
<1> QED BY <1>1, <1>2, <1>3, Zenon DEF Genesis, States

(* The transactions of the current level.                                  *)
LEMMA InLevelIs == InLevel = {i \in DOMAIN msgs : Lvl[i] = level}
  BY GenesisState, Zenon DEF InLevel, Lvl

(* The invariant holds before the block is executed.                       *)
LEMMA ParallelStarts == ParallelInit => ExecutorInv
<1> SUFFICES ASSUME ParallelInit PROVE ExecutorInv
  BY Zenon
<1> USE DEF ParallelInit, SerialInit
<1>1. Typed
  BY GenesisState, ExecutorAssumption DEF Typed
<1>2. Filling /\ Ran /\ Apart
  BY DEF Filling, Ran, Apart
<1> QED BY <1>1, <1>2, Zenon DEF ExecutorInv

(* Filling the block keeps the invariant.                                  *)
LEMMA FillKeeps ==
    ASSUME ExecutorInv, BlockFills
    PROVE  ExecutorInv'
<1>1. PICK r \in Requests : msgs' = Append(msgs, Numbered(msgs, r))
  BY Zenon DEF BlockFills, Include
<1>2. /\ Len(msgs) < TxsPerBlock
      /\ UNCHANGED <<coinbase, statedb, merged, gp, failed, level, base, results>>
  BY Zenon DEF BlockFills, Include
<1>3. msgs \in Seq(Message) /\ TxsPerBlock \in Nat
  BY ExecutorAssumption, Zenon DEF ExecutorInv, Typed
<1>4. Numbered(msgs, r) \in Message
  BY <1>2, <1>3, NumberedMessage, Zenon
<1>5. msgs' \in Seq(Message) /\ Len(msgs') <= TxsPerBlock
  BY <1>1, <1>2, <1>3, <1>4
<1>6. Typed'
  BY <1>2, <1>5, Zenon DEF ExecutorInv, Typed
<1>7. results = <<>> /\ level = 0 /\ base = statedb
  BY <1>2, <1>3 DEF ExecutorInv, Filling, Filled
<1>8. Filling' /\ Ran' /\ Apart'
  BY <1>2, <1>7 DEF Filling, Ran, Apart
<1> QED BY <1>6, <1>8, Zenon DEF ExecutorInv

(* A goroutine writes its own result only, from the copy of the level's    *)
(* state.                                                                  *)
LEMMA RunKeeps ==
    ASSUME ExecutorInv, NEW i \in DOMAIN msgs, Run(i)
    PROVE  ExecutorInv'
<1>1. /\ UNCHANGED <<coinbase, msgs, statedb, merged, gp, failed, level, base>>
      /\ Filled /\ i \in InLevel
      /\ results' = [j \in DOMAIN results \cup {i} |->
                        IF j # i THEN results[j]
                        ELSE [ok |-> CanApply(msgs[i], base), st |-> ApplyMessage(msgs[i], base, coinbase)]]
  BY Zenon DEF Run, serialVars
<1>2. Typed' /\ Filling' /\ Apart'
  BY <1>1, Zenon DEF ExecutorInv, Typed, Filling, Filled, Apart, Lvl
<1>3. Lvl' = Lvl /\ Lvl[i] = level /\ level \in Nat
  BY <1>1, InLevelIs, Zenon DEF Lvl, ExecutorInv, Typed
<1>4. Ran'
  <2> SUFFICES ASSUME NEW j \in DOMAIN results'
               PROVE  /\ j \in DOMAIN msgs /\ Lvl[j] <= level
                      /\ Lvl[j] = level =>
                           results'[j] = [ok |-> CanApply(msgs[j], base),
                                          st |-> ApplyMessage(msgs[j], base, coinbase)]
    BY <1>1, <1>3, Zenon DEF Ran
  <2>1. CASE j = i
    BY <1>1, <1>3, <2>1
  <2>2. CASE j # i
    <3>1. j \in DOMAIN results /\ results'[j] = results[j]
      BY <1>1, <2>2, Zenon
    <3> QED BY <3>1, Zenon DEF ExecutorInv, Ran
  <2> QED BY <2>1, <2>2, Zenon
<1> QED BY <1>2, <1>4, Zenon DEF ExecutorInv

(* Taking the copies of the next level keeps the invariant.                *)
LEMMA LevelKeeps ==
    ASSUME ExecutorInv, NextLevel
    PROVE  ExecutorInv'
<1>1. /\ UNCHANGED <<coinbase, msgs, statedb, merged, gp, failed, results>>
      /\ Filled /\ level' = level + 1 /\ base' = statedb
  BY Zenon DEF NextLevel, serialVars
<1>2. Typed' /\ Filling' /\ Apart'
  BY <1>1 DEF ExecutorInv, Typed, Filling, Filled, Apart
<1>3. Lvl' = Lvl /\ level \in Nat
  BY <1>1, Zenon DEF Lvl, ExecutorInv, Typed
<1>4. \A i \in DOMAIN msgs : Lvl[i] \in Nat
  BY LevelsApart, Zenon DEF ExecutorInv, Typed, Lvl
<1>5. Ran'
  <2> SUFFICES ASSUME NEW j \in DOMAIN results
               PROVE  j \in DOMAIN msgs /\ Lvl[j] <= level + 1 /\ Lvl[j] # level + 1
    BY <1>1, <1>3, Zenon DEF Ran
  <2>1. j \in DOMAIN msgs /\ Lvl[j] <= level
    BY Zenon DEF ExecutorInv, Ran
  <2> QED BY <1>3, <1>4, <2>1
<1> QED BY <1>2, <1>5, Zenon DEF ExecutorInv

(* The transaction that is merged next: its result is the one of the       *)
(* merged state.                                                           *)
LEMMA MergeIsSerial ==
    ASSUME ExecutorInv, NEW i, i = merged + 1, i \in InLevel, i \in DOMAIN results
    PROVE  /\ results[i].ok = CanApply(msgs[i], statedb)
           /\ Merge(statedb, base, results[i].st) = ApplyMessage(msgs[i], statedb, coinbase)
<1>1. /\ msgs \in Seq(Message) /\ coinbase \in EOAs /\ statedb \in States /\ base \in States /\ merged \in Nat
  BY Zenon DEF ExecutorInv, Typed
<1>2. i \in DOMAIN msgs /\ Lvl[i] = level /\ i > merged
  BY <1>1, InLevelIs
<1>3. msgs[i] \in Message
  BY <1>1, <1>2
<1>4. /\ results[i].ok = CanApply(msgs[i], base)
      /\ results[i].st = ApplyMessage(msgs[i], base, coinbase)
  BY <1>2 DEF ExecutorInv, Ran
<1> DEFINE m == msgs[i]
           t == ApplyMessage(m, base, coinbase)
<1>5. CASE statedb = base
  <2>1. t \in States /\ base.code \subseteq t.code
    BY <1>1, <1>3, AppliedState, Zenon
  <2> HIDE DEF t
  <2>2. Merge(base, base, t) = t
    BY <1>1, <2>1, MergeSame, Zenon
  <2> QED BY <1>4, <1>5, <2>2, Zenon DEF t
<1>6. CASE statedb # base
  <2>1. Plain(m) /\ Agree(m, base, statedb)
    BY <1>2, <1>6, Zenon DEF ExecutorInv, Apart
  <2>2. m \in Message
    BY <1>3, Zenon
  <2> HIDE DEF m
  <2>3. CanApply(m, base) = CanApply(m, statedb)
    BY <2>1, <2>2, AgreeCan, Zenon
  <2>4. Merge(statedb, base, t) = ApplyMessage(m, statedb, coinbase)
    BY <1>1, <2>1, <2>2, PlainMerge, Zenon
  <2> QED BY <1>4, <2>3, <2>4, Zenon DEF m
<1> QED BY <1>5, <1>6, Zenon

(* A merge keeps the invariant: the transactions of the level still to be  *)
(* merged cannot tell the merged state from the one they ran on.           *)
LEMMA MergeKeeps ==
    ASSUME ~CallsFresh, ExecutorInv, MergeNext
    PROVE  ExecutorInv'
<1> DEFINE k == merged + 1
<1>1. /\ UNCHANGED <<coinbase, msgs, level, base, results>>
      /\ Filled /\ k \in InLevel /\ k \in DOMAIN results
  BY Zenon DEF MergeNext
<1>2. /\ msgs \in Seq(Message) /\ coinbase \in EOAs /\ statedb \in States /\ base \in States /\ merged \in Nat
  BY Zenon DEF ExecutorInv, Typed
<1>3. Lvl' = Lvl /\ Filling' /\ Ran' /\ k \in DOMAIN msgs /\ Lvl[k] = level
  BY <1>1, InLevelIs, Zenon DEF Lvl, Ran, Filling, Filled, ExecutorInv
<1>4. CASE UNCHANGED <<statedb, merged>>
  BY <1>1, <1>3, <1>4, Zenon DEF ExecutorInv, Typed, Apart
<1>5. CASE statedb' = Merge(statedb, base, results[k].st) /\ merged' = k
  <2>1. statedb' = ApplyMessage(msgs[k], statedb, coinbase)
    BY <1>1, <1>5, MergeIsSerial, Zenon
  <2>2. msgs[k] \in Message
    BY <1>2, <1>3
  <2>3. statedb' \in States
    BY <1>2, <2>1, <2>2, AppliedState, Zenon
  <2>4. Typed'
    BY <1>1, <1>2, <1>5, <2>3 DEF ExecutorInv, Typed
  <2>5. ASSUME NEW i \in DOMAIN msgs, Lvl[i] = level, i > k
        PROVE  Plain(msgs[i]) /\ Agree(msgs[i], base, statedb')
    <3>1. msgs[i] \in Message
      BY <1>2
    <3>2. k \in 1 .. (i - 1)
      BY <1>2, <2>5
    <3>3. /\ msgs[i].from # coinbase /\ msgs[i].sponsor # coinbase
          /\ ~Conflicts(AnalyzeTx(msgs[i], {Contract}), AnalyzeTx(msgs[k], {Contract}))
      BY <1>2, <1>3, <2>5, <3>2, LevelsApart, Zenon DEF Lvl
    <3>4. Plain(msgs[i]) /\ Plain(msgs[k])
      BY <2>2, <3>1, <3>3, SharedIsPlain, Zenon
    <3>5. Agree(msgs[i], base, statedb)
      <4>1. CASE statedb = base
        BY <4>1, Zenon DEF Agree
      <4>2. CASE statedb # base
        <5>1. i > merged
          BY <1>2, <2>5
        <5> QED BY <4>2, <5>1, <2>5, Zenon DEF ExecutorInv, Apart
      <4> QED BY <4>1, <4>2, Zenon
    <3> DEFINE m == msgs[i]
               n == msgs[k]
    <3>6. /\ m \in Message /\ n \in Message /\ Plain(m) /\ Plain(n) /\ Agree(m, base, statedb)
          /\ m.from # coinbase /\ m.sponsor # coinbase
          /\ ~Conflicts(AnalyzeTx(m, {Contract}), AnalyzeTx(n, {Contract}))
          /\ statedb' = ApplyMessage(n, statedb, coinbase)
      BY <2>1, <2>2, <3>1, <3>3, <3>4, <3>5, Zenon
    <3> HIDE DEF m, n
    <3>7. /\ n.from # m.from /\ n.to # m.from /\ gasPayer(n) # m.from
          /\ m.sponsor # NoSponsor =>
                /\ m.sponsor # n.from /\ m.sponsor # n.to /\ m.sponsor # gasPayer(n)
                /\ m.sponsor # n.sponsor
      BY <3>6, SharedApart, Zenon
    <3>8. Agree(m, base, ApplyMessage(n, statedb, coinbase))
      BY <1>2, <3>6, <3>7, AgreeKept, Zenon
    <3> QED BY <3>4, <3>6, <3>8, Zenon DEF m
  <2>6. Apart'
    BY <1>1, <1>3, <1>5, <2>5, Zenon DEF Apart
  <2> QED BY <1>3, <2>4, <2>6, Zenon DEF ExecutorInv
<1>6. UNCHANGED <<statedb, merged>> \/ (statedb' = Merge(statedb, base, results[k].st) /\ merged' = k)
  BY Zenon DEF MergeNext
<1> QED BY <1>4, <1>5, <1>6, Zenon

(* Every step keeps the invariant.                                         *)
LEMMA ExecutorInvStep ==
    ASSUME ~CallsFresh, ExecutorInv, [ParallelNext]_executorVars
    PROVE  ExecutorInv'
<1>1. CASE UNCHANGED executorVars
  BY <1>1, Zenon DEF executorVars, serialVars, ExecutorInv, Typed, Filling, Filled, Ran, Apart, Lvl
<1>2. CASE BlockFills
  BY <1>2, FillKeeps, Zenon
<1>3. CASE \E i \in DOMAIN msgs : Run(i)
  BY <1>3, RunKeeps, Zenon
<1>4. CASE MergeNext
  BY <1>4, MergeKeeps, Zenon
<1>5. CASE NextLevel
  BY <1>5, LevelKeeps, Zenon
<1> QED BY <1>1, <1>2, <1>3, <1>4, <1>5, Zenon DEF ParallelNext, Executed

(* Every step is one of the serial execution or leaves what it sees        *)
(* alone.                                                                  *)
LEMMA ParallelStep ==
    ASSUME ExecutorInv, [ParallelNext]_executorVars
    PROVE  [Include \/ Execute]_serialVars
<1>1. CASE UNCHANGED executorVars
  BY <1>1, Zenon DEF executorVars
<1>2. CASE BlockFills
  BY <1>2, Zenon DEF BlockFills
<1>3. CASE \E i \in DOMAIN msgs : Run(i)
  BY <1>3, Zenon DEF Run
<1>4. CASE MergeNext
  <2> DEFINE i == merged + 1
  <2>1. /\ Filled /\ ~failed /\ i \in InLevel /\ i \in DOMAIN results
        /\ UNCHANGED <<coinbase, msgs>>
    BY <1>4, Zenon DEF MergeNext
  <2>2. /\ results[i].ok = CanApply(msgs[i], statedb)
        /\ Merge(statedb, base, results[i].st) = ApplyMessage(msgs[i], statedb, coinbase)
    BY <2>1, MergeIsSerial, Zenon
  <2>3. merged < Len(msgs)
    <3>1. i \in DOMAIN msgs /\ merged \in Nat /\ msgs \in Seq(Message)
      BY <2>1, InLevelIs, Zenon DEF ExecutorInv, Typed
    <3> QED BY <3>1
  <2>4. \/ /\ ~results[i].ok \/ OutOfGas
           /\ failed' = TRUE
           /\ UNCHANGED <<statedb, merged, gp>>
        \/ /\ results[i].ok /\ ~OutOfGas
           /\ gp' = gp - UsedGas
           /\ statedb' = Merge(statedb, base, results[i].st)
           /\ merged' = i
           /\ UNCHANGED failed
    BY <1>4, Zenon DEF MergeNext
  <2>5. Execute
    BY <2>1, <2>2, <2>3, <2>4, Zenon DEF Execute
  <2> QED BY <2>5, Zenon
<1>5. CASE NextLevel
  BY <1>5, Zenon DEF NextLevel
<1> QED BY <1>1, <1>2, <1>3, <1>4, <1>5, Zenon DEF ParallelNext, Executed, executorVars

(* ExecuteParallel implements executeTransactionsSerial, for any block,    *)
(* accounts, amounts and gas limit: whatever the schedule of the           *)
(* goroutines, the state, the gas pool and the rejection of the block are  *)
(* those of one-by-one execution, as long as a block does not call a       *)
(* contract that it creates.                                               *)
THEOREM LevelsAreSerial ==
    ASSUME ~CallsFresh
    PROVE  ParallelSpec => ParallelIsSerial
<1>1. ParallelInit => SerialInit
  BY Zenon DEF ParallelInit
<1> QED BY <1>1, ParallelStarts, ExecutorInvStep, ParallelStep, PTL
        DEF ParallelSpec, ParallelIsSerial, SerialSpec

(*--------------------------- privacy transactions ------------------------*)

(* h lists the states of a flush after 0, 1, ... n of its candidates.      *)
Flushing(acc, cs, n, h) ==
    h = [i \in 0..n |-> IF i = 0 THEN acc ELSE FlushOne(h[i - 1], cs[i])]

(* A flush has such a list: it is extended by one candidate at a time.     *)
LEMMA FlushingExists ==
    ASSUME NEW acc, NEW cs, NEW n \in Nat
    PROVE  \E h : Flushing(acc, cs, n, h)
<1> DEFINE Ok(m) == \E h : Flushing(acc, cs, m, h)
           B == {m \in Nat : ~Ok(m)}
<1>1. Ok(0)
  <2> DEFINE h == [i \in 0..0 |-> acc]
  <2>1. h = [i \in 0..0 |-> IF i = 0 THEN acc ELSE FlushOne(h[i - 1], cs[i])]
    <3>1. \A i \in 0..0 : i = 0
      OBVIOUS
    <3> QED BY <3>1, Zenon
  <2> QED BY <2>1, Zenon DEF Flushing
<1>2. ASSUME NEW m \in Nat, Ok(m) PROVE Ok(m + 1)
  <2>1. PICK h : Flushing(acc, cs, m, h)
    BY <1>2, Zenon
  <2> DEFINE k == [i \in 0..(m + 1) |-> IF i = m + 1 THEN FlushOne(h[m], cs[m + 1]) ELSE h[i]]
  <2>2. \A i \in 0..m : i # m + 1 /\ i \in 0..(m + 1)
    OBVIOUS
  <2>3. \A i \in 0..m : k[i] = h[i]
    BY <2>2, Zenon
  <2>4. ASSUME NEW i \in 0..(m + 1)
        PROVE  k[i] = IF i = 0 THEN acc ELSE FlushOne(k[i - 1], cs[i])
    <3>1. CASE i = m + 1
      <4>1. i # 0 /\ i - 1 = m /\ m \in 0..m /\ m + 1 \in 0..(m + 1)
        BY <3>1
      <4>2. k[i] = FlushOne(h[m], cs[m + 1])
        BY <3>1, <4>1, Zenon
      <4>3. k[i - 1] = h[m]
        BY <4>1, <2>3, Zenon
      <4> QED BY <4>1, <4>2, <4>3, <3>1, Zenon
    <3>2. CASE i # m + 1
      <4>1. i \in 0..m /\ (i # 0 => i - 1 \in 0..m)
        BY <3>2
      <4>2. h[i] = IF i = 0 THEN acc ELSE FlushOne(h[i - 1], cs[i])
        BY <4>1, <2>1, Zenon DEF Flushing
      <4>3. k[i] = h[i] /\ (i # 0 => k[i - 1] = h[i - 1])
        BY <4>1, <2>3, Zenon
      <4> QED BY <4>2, <4>3, Zenon
    <3> QED BY <3>1, <3>2, Zenon
  <2>5. k = [i \in 0..(m + 1) |-> IF i = 0 THEN acc ELSE FlushOne(k[i - 1], cs[i])]
    <3>1. k = [i \in 0..(m + 1) |-> k[i]]
      BY Zenon
    <3> HIDE DEF k
    <3> QED BY <2>4, <3>1, Zenon
  <2> HIDE DEF k
  <2> QED BY <2>5, Zenon DEF Flushing
<1>3. B = {}
  <2> SUFFICES ASSUME B # {} PROVE FALSE
    BY Zenon
  <2>1. PICK m \in B : \A j \in B : ~(j < m)
    <3>1. B \subseteq Nat
      BY Zenon
    <3> HIDE DEF B
    <3> QED BY <3>1, LeastNat, Zenon
  <2>2. m \in Nat /\ ~Ok(m)
    BY Zenon
  <2>3. m # 0
    BY <1>1, <2>2, Zenon
  <2>4. m - 1 \in Nat /\ m - 1 < m /\ (m - 1) + 1 = m
    BY <2>2, <2>3
  <2>5. Ok(m - 1)
    BY <2>1, <2>4, Zenon
  <2>6. Ok((m - 1) + 1)
    BY <1>2, <2>4, <2>5, Zenon
  <2> QED BY <2>6, <2>4, <2>2, Zenon
<1> QED BY <1>3, Zenon

(* Two lists agree as far as the candidates and the lengths do.            *)
LEMMA FlushingAgrees ==
    ASSUME NEW acc, NEW cs, NEW ds, NEW n \in Nat, NEW m \in Nat, n <= m,
           \A i \in 1..n : ds[i] = cs[i],
           NEW h, NEW k, Flushing(acc, cs, n, h), Flushing(acc, ds, m, k)
    PROVE  h[n] = k[n]
<1> DEFINE B == {i \in 0..n : h[i] # k[i]}
<1> SUFFICES ASSUME B # {} PROVE FALSE
  BY SMT
<1>1. PICK i \in B : \A j \in B : ~(j < i)
  <2>1. B \subseteq Nat
    BY SMT
  <2> HIDE DEF B
  <2> QED BY <2>1, LeastNat, Zenon
<1>2. i \in 0..n /\ h[i] # k[i] /\ i \in 0..m
  BY SMT
<1>3. h[i] = IF i = 0 THEN acc ELSE FlushOne(h[i - 1], cs[i])
  BY <1>2, Zenon DEF Flushing
<1>4. k[i] = IF i = 0 THEN acc ELSE FlushOne(k[i - 1], ds[i])
  BY <1>2, Zenon DEF Flushing
<1>5. i # 0
  BY <1>2, <1>3, <1>4, Zenon
<1>6. i \in 1..n /\ i - 1 \in 0..n /\ i - 1 < i
  BY <1>2, <1>5
<1>7. h[i - 1] = k[i - 1]
  BY <1>1, <1>6, Zenon
<1> QED BY <1>2, <1>3, <1>4, <1>5, <1>6, <1>7, Zenon

(* The recursive FlushAll is the last state of such a list.                *)
LEMMA FlushList ==
    ASSUME NEW acc, NEW S, NEW cs \in Seq(S)
    PROVE  \E h : Flushing(acc, cs, Len(cs), h) /\ FlushAll(acc, cs) = h[Len(cs)]
<1> DEFINE it == CHOOSE h : Flushing(acc, cs, Len(cs), h)
<1>1. Len(cs) \in Nat
  OBVIOUS
<1>2. Flushing(acc, cs, Len(cs), it)
  BY <1>1, FlushingExists, Zenon
<1>3. FlushAll(acc, cs) = it[Len(cs)]
  BY Zenon DEF FlushAll, Flushing
<1> QED BY <1>2, <1>3, Zenon

(* The flush takes its candidates one after the other.                     *)
LEMMA FlushNone ==
    ASSUME NEW acc
    PROVE  FlushAll(acc, <<>>) = acc
<1>1. <<>> \in Seq({}) /\ Len(<<>>) = 0 /\ 0 \in 0..0
  OBVIOUS
<1>2. PICK h : Flushing(acc, <<>>, 0, h) /\ FlushAll(acc, <<>>) = h[0]
  BY <1>1, FlushList, Zenon
<1> QED BY <1>1, <1>2, Zenon DEF Flushing

(* Flushing one candidate more is one step more.                           *)
LEMMA FlushMore ==
    ASSUME NEW acc, NEW S, NEW cs \in Seq(S), NEW p \in S
    PROVE  FlushAll(acc, Append(cs, p)) = FlushOne(FlushAll(acc, cs), p)
<1> DEFINE ds == Append(cs, p)
           n == Len(cs)
<1>1. n \in Nat /\ ds \in Seq(S) /\ Len(ds) = n + 1 /\ ds[n + 1] = p /\ \A i \in 1..n : ds[i] = cs[i]
  OBVIOUS
<1> HIDE DEF ds
<1>2. PICK h : Flushing(acc, cs, n, h) /\ FlushAll(acc, cs) = h[n]
  BY FlushList, Zenon
<1>3. PICK k : Flushing(acc, ds, n + 1, k) /\ FlushAll(acc, ds) = k[n + 1]
  BY <1>1, FlushList, Zenon
<1> HIDE DEF n
<1>4. n + 1 \in Nat /\ n <= n + 1 /\ n + 1 \in 0..(n + 1) /\ n + 1 # 0 /\ (n + 1) - 1 = n
  BY <1>1
<1>5. h[n] = k[n]
  <2>1. Flushing(acc, cs, n, h) /\ Flushing(acc, ds, n + 1, k)
    BY <1>2, <1>3, Zenon
  <2>2. n \in Nat /\ n + 1 \in Nat /\ n <= n + 1 /\ \A i \in 1..n : ds[i] = cs[i]
    BY <1>1, <1>4, Zenon
  <2> QED BY <2>1, <2>2, FlushingAgrees
<1>6. k[n + 1] = FlushOne(k[(n + 1) - 1], ds[n + 1])
  BY <1>3, <1>4, Zenon DEF Flushing
<1>7. k[n + 1] = FlushOne(k[n], p)
  BY <1>6, <1>4, <1>1, Zenon
<1> QED BY <1>2, <1>3, <1>5, <1>7, Zenon DEF ds

Payers == Owners \cup {Coinbase}
PrivAccounts == [value : Int, version : Nat, nonce : Nat]
Ledgers == [pub : [Payers -> Int], priv : [Owners -> PrivAccounts]]

(* AddBalance changes one public balance.                                  *)
LEMMA AddBalanceFacts ==
    ASSUME NEW st \in Ledgers, NEW x \in Payers, NEW n \in Int
    PROVE  /\ AddBalance(st, x, n) \in Ledgers
           /\ AddBalance(st, x, n).priv = st.priv
           /\ AddBalance(st, x, n).pub = [st.pub EXCEPT ![x] = st.pub[x] + n]
BY DEF Ledgers, AddBalance

(* SetAccountState changes one private account.                            *)
LEMMA SetAccountFacts ==
    ASSUME NEW st \in Ledgers, NEW x \in Owners, NEW acct \in PrivAccounts
    PROVE  /\ SetAccountState(st, x, acct) \in Ledgers
           /\ SetAccountState(st, x, acct).pub = st.pub
           /\ SetAccountState(st, x, acct).priv = [st.priv EXCEPT ![x] = acct]
<1> DEFINE pr == [st.priv EXCEPT ![x] = acct]
<1>1. st.priv \in [Owners -> PrivAccounts] /\ st.pub \in [Payers -> Int]
      /\ st = [pub |-> st.pub, priv |-> st.priv]
  BY DEF Ledgers
<1>2. pr \in [Owners -> PrivAccounts]
  BY <1>1, Zenon
<1>3. SetAccountState(st, x, acct) = [pub |-> st.pub, priv |-> pr]
  BY <1>1 DEF SetAccountState, Ledgers
<1> HIDE DEF pr
<1>4. SetAccountState(st, x, acct) \in Ledgers
  BY <1>1, <1>2, <1>3 DEF Ledgers
<1>5. /\ SetAccountState(st, x, acct).pub = st.pub
      /\ SetAccountState(st, x, acct).priv = pr
  BY <1>3
<1> QED BY <1>4, <1>5, Zenon DEF pr

(* The account with its nonce advanced.                                    *)
Advanced(acct) == [value |-> acct.value, version |-> acct.version, nonce |-> acct.nonce + 1]

(* IncrementPrivNonce advances one private nonce.                          *)
LEMMA IncrementFacts ==
    ASSUME NEW st \in Ledgers, NEW x \in Owners
    PROVE  /\ IncrementPrivNonce(st, x) \in Ledgers
           /\ IncrementPrivNonce(st, x).pub = st.pub
           /\ IncrementPrivNonce(st, x).priv = [st.priv EXCEPT ![x] = Advanced(st.priv[x])]
<1> DEFINE acct == [st.priv[x] EXCEPT !.nonce = st.priv[x].nonce + 1]
           pr == [st.priv EXCEPT ![x] = Advanced(st.priv[x])]
<1>1. st.priv \in [Owners -> PrivAccounts] /\ st.pub \in [Payers -> Int] /\ st.priv[x] \in PrivAccounts
      /\ st = [pub |-> st.pub, priv |-> st.priv]
  BY DEF Ledgers
<1>2. acct = Advanced(st.priv[x]) /\ acct \in PrivAccounts
  BY <1>1 DEF Advanced, PrivAccounts
<1>3. IncrementPrivNonce(st, x) = [st EXCEPT !.priv = [st.priv EXCEPT ![x] = acct]]
  BY <1>1 DEF IncrementPrivNonce, Ledgers
<1> HIDE DEF acct
<1>4. IncrementPrivNonce(st, x) = [pub |-> st.pub, priv |-> pr]
  BY <1>1, <1>2, <1>3 DEF Ledgers
<1>5. pr \in [Owners -> PrivAccounts]
  BY <1>1, <1>2
<1> HIDE DEF pr
<1>6. IncrementPrivNonce(st, x) \in Ledgers
  BY <1>1, <1>4, <1>5 DEF Ledgers
<1>7. IncrementPrivNonce(st, x).pub = st.pub /\ IncrementPrivNonce(st, x).priv = pr
  BY <1>4
<1> QED BY <1>6, <1>7, Zenon DEF pr

(* What a deposit and a payment make of an account.                        *)
LEMMA AccountFacts ==
    ASSUME NEW acct \in PrivAccounts, NEW n \in Int
    PROVE  /\ Deposited(acct, n) \in PrivAccounts
           /\ Deposited(acct, n).value = acct.value + n /\ Deposited(acct, n).nonce = acct.nonce
           /\ Spent(acct, n) \in PrivAccounts
           /\ Spent(acct, n).value = n /\ Spent(acct, n).nonce = acct.nonce
           /\ Advanced(acct) \in PrivAccounts
           /\ Advanced(acct).value = acct.value /\ Advanced(acct).nonce = acct.nonce + 1
<1>1. /\ Deposited(acct, n) \in PrivAccounts
      /\ Deposited(acct, n).value = acct.value + n /\ Deposited(acct, n).nonce = acct.nonce
  BY DEF PrivAccounts, Deposited
<1>2. /\ Spent(acct, n) \in PrivAccounts
      /\ Spent(acct, n).value = n /\ Spent(acct, n).nonce = acct.nonce
  BY DEF PrivAccounts, Spent
<1>3. /\ Advanced(acct) \in PrivAccounts
      /\ Advanced(acct).value = acct.value /\ Advanced(acct).nonce = acct.nonce + 1
  BY DEF PrivAccounts, Advanced
<1> QED BY <1>1, <1>2, <1>3, Zenon

(*---------------------------- totals --------------------------------------*)

PubTotal(st) == SumFunctionOnSet(st.pub, Payers)
PrivTotal(st) == SumFunctionOnSet([x \in Owners |-> st.priv[x].value], Owners)

(* All value is public or private.                                         *)
LEMMA TotalParts ==
    ASSUME NEW st \in Ledgers
    PROVE  /\ Total(st) = PubTotal(st) + PrivTotal(st)
           /\ PubTotal(st) \in Int /\ PrivTotal(st) \in Int
<1>1. IsFiniteSet(Owners) /\ IsFiniteSet(Payers)
  BY PrivacyAssumption, FS_AddElement, Zenon DEF Payers
<1>2. \A x \in Payers : st.pub[x] \in Int
  BY DEF Ledgers
<1>3. \A x \in Owners : [y \in Owners |-> st.priv[y].value][x] \in Int
  BY DEF Ledgers, PrivAccounts
<1>4. PubTotal(st) \in Int
  BY <1>1, <1>2, SumType, Zenon DEF PubTotal
<1>5. PrivTotal(st) \in Int
  BY <1>1, <1>3, SumType, Zenon DEF PrivTotal
<1> QED BY <1>4, <1>5, Zenon DEF Total, PubTotal, PrivTotal, Payers

(* One public balance changes.                                             *)
LEMMA PubTotalChange ==
    ASSUME NEW st \in Ledgers, NEW nst \in Ledgers, NEW x \in Payers, NEW n \in Int,
           nst.pub = [st.pub EXCEPT ![x] = st.pub[x] + n]
    PROVE  PubTotal(nst) = PubTotal(st) + n
<1>1. IsFiniteSet(Payers)
  BY PrivacyAssumption, FS_AddElement, Zenon DEF Payers
<1>2. \A y \in Payers : st.pub[y] \in Int /\ nst.pub[y] \in Int
  BY DEF Ledgers
<1>3. \A y \in Payers \ {x} : nst.pub[y] = st.pub[y]
  BY DEF Ledgers
<1>4. nst.pub[x] = st.pub[x] + n
  BY DEF Ledgers
<1>5. PubTotal(nst) = PubTotal(st) - st.pub[x] + nst.pub[x]
  <2> DEFINE f == st.pub
             g == nst.pub
  <2>1. \A y \in Payers : f[y] \in Int /\ g[y] \in Int
    BY <1>2, Zenon
  <2>2. \A y \in Payers \ {x} : g[y] = f[y]
    BY <1>3, Zenon
  <2>3. PubTotal(st) = SumFunctionOnSet(f, Payers) /\ PubTotal(nst) = SumFunctionOnSet(g, Payers)
    BY Zenon DEF PubTotal
  <2> HIDE DEF f, g
  <2>4. SumFunctionOnSet(g, Payers) = SumFunctionOnSet(f, Payers) - f[x] + g[x]
    BY <1>1, <2>1, <2>2, SumChange
  <2> QED BY <2>3, <2>4, Zenon DEF f, g
<1>6. PubTotal(st) \in Int
  BY TotalParts, Zenon
<1> QED BY <1>2, <1>4, <1>5, <1>6

(* One private balance changes.                                            *)
LEMMA PrivTotalChange ==
    ASSUME NEW st \in Ledgers, NEW nst \in Ledgers, NEW x \in Owners,
           \A y \in Owners \ {x} : nst.priv[y].value = st.priv[y].value
    PROVE  PrivTotal(nst) = PrivTotal(st) - st.priv[x].value + nst.priv[x].value
<1> DEFINE f == [y \in Owners |-> st.priv[y].value]
           g == [y \in Owners |-> nst.priv[y].value]
<1>1. IsFiniteSet(Owners)
  BY PrivacyAssumption, Zenon
<1>2. \A y \in Owners : st.priv[y].value \in Int /\ nst.priv[y].value \in Int
  BY DEF Ledgers, PrivAccounts
<1>3. \A y \in Owners : f[y] \in Int /\ g[y] \in Int
  BY <1>2, Zenon
<1>4. \A y \in Owners \ {x} : g[y] = f[y]
  BY Zenon
<1>5. f[x] = st.priv[x].value /\ g[x] = nst.priv[x].value
  BY Zenon
<1>6. PrivTotal(st) = SumFunctionOnSet(f, Owners) /\ PrivTotal(nst) = SumFunctionOnSet(g, Owners)
  BY Zenon DEF PrivTotal
<1> HIDE DEF f, g
<1>7. SumFunctionOnSet(g, Owners) = SumFunctionOnSet(f, Owners) - f[x] + g[x]
  BY <1>1, <1>3, <1>4, SumChange
<1> QED BY <1>5, <1>6, <1>7, Zenon

(* What a successful privacy transaction does: it advances its sender's    *)
(* privacy nonce and no other, and if its proofs speak of the state it is  *)
(* applied to and it is no transfer to its sender, value is conserved.     *)
NonceMoves(st, nst, x) ==
    \A y \in Owners :
        nst.priv[y].nonce = IF y = x THEN st.priv[y].nonce + 1 ELSE st.priv[y].nonce

SelfTransfer(tx) == tx.kind = TransferTx /\ tx.from = tx.to

Applies(st, tx, nst) ==
    /\ nst \in Ledgers
    /\ NonceMoves(st, nst, tx.from)
    /\ VerifyProofs(preparePrivacyTxState(st, tx)) /\ ~SelfTransfer(tx) => Total(nst) = Total(st)

(* The fields of a transaction.                                            *)
LEMMA TxTypes ==
    ASSUME NEW tx \in Txs
    PROVE  /\ tx.kind \in {"transfer", "shield", "unshield", "public"}
           /\ tx.from \in Owners /\ tx.to \in Owners
           /\ tx.nonce \in Nat /\ tx.amount \in Nat /\ tx.fee \in Nat /\ tx.limit \in Nat
           /\ tx.source \in Int
BY PrivacyAssumption DEF Transactions

(* The fields of a ledger.                                                 *)
LEMMA LedgerTypes ==
    ASSUME NEW st \in Ledgers
    PROVE  /\ \A y \in Owners : st.priv[y] \in PrivAccounts /\ st.priv[y].value \in Int /\ st.priv[y].nonce \in Nat
           /\ \A y \in Payers : st.pub[y] \in Int
           /\ st.priv \in [Owners -> PrivAccounts] /\ st.pub \in [Payers -> Int]
BY DEF Ledgers, PrivAccounts

(* Advancing a nonce moves no value.                                       *)
LEMMA IncrementMoves ==
    ASSUME NEW st \in Ledgers, NEW x \in Owners
    PROVE  /\ NonceMoves(st, IncrementPrivNonce(st, x), x)
           /\ PrivTotal(IncrementPrivNonce(st, x)) = PrivTotal(st)
           /\ PubTotal(IncrementPrivNonce(st, x)) = PubTotal(st)
<1> DEFINE nst == IncrementPrivNonce(st, x)
<1>1. /\ nst \in Ledgers /\ nst.pub = st.pub
      /\ nst.priv = [st.priv EXCEPT ![x] = Advanced(st.priv[x])]
  BY IncrementFacts, Zenon
<1> HIDE DEF nst
<1>2. st.priv \in [Owners -> PrivAccounts] /\ st.priv[x] \in PrivAccounts
  BY LedgerTypes, Zenon
<1>3. nst.priv[x] = Advanced(st.priv[x]) /\ \A y \in Owners \ {x} : nst.priv[y] = st.priv[y]
  BY <1>1, <1>2, Zenon
<1>4. Advanced(st.priv[x]).value = st.priv[x].value /\ Advanced(st.priv[x]).nonce = st.priv[x].nonce + 1
  <2> DEFINE acct == st.priv[x]
  <2>1. acct \in PrivAccounts
    BY <1>2, Zenon
  <2> HIDE DEF acct
  <2>2. Advanced(acct).value = acct.value /\ Advanced(acct).nonce = acct.nonce + 1
    BY <2>1 DEF PrivAccounts, Advanced
  <2> QED BY <2>2, Zenon DEF acct
<1>5. NonceMoves(st, nst, x)
  BY <1>3, <1>4, Zenon DEF NonceMoves
<1>6. \A y \in Owners \ {x} : nst.priv[y].value = st.priv[y].value
  BY <1>3, Zenon
<1>7. PrivTotal(nst) = PrivTotal(st) - st.priv[x].value + nst.priv[x].value
  BY <1>1, <1>6, PrivTotalChange, Zenon
<1>8. PrivTotal(st) \in Int /\ st.priv[x].value \in Int /\ nst.priv[x].value = st.priv[x].value
  BY <1>3, <1>4, TotalParts, LedgerTypes, Zenon
<1>9. PrivTotal(nst) = PrivTotal(st)
  BY <1>7, <1>8
<1>10. PubTotal(nst) = PubTotal(st)
  BY <1>1, Zenon DEF PubTotal
<1> QED BY <1>5, <1>9, <1>10, Zenon DEF nst

(* Writing an account whose nonce is the one it had.                       *)
LEMMA SetMoves ==
    ASSUME NEW st \in Ledgers, NEW x \in Owners, NEW acct \in PrivAccounts
    PROVE  /\ SetAccountState(st, x, acct) \in Ledgers
           /\ SetAccountState(st, x, acct).pub = st.pub
           /\ SetAccountState(st, x, acct).priv[x] = acct
           /\ \A y \in Owners \ {x} : SetAccountState(st, x, acct).priv[y] = st.priv[y]
           /\ PubTotal(SetAccountState(st, x, acct)) = PubTotal(st)
           /\ PrivTotal(SetAccountState(st, x, acct)) = PrivTotal(st) - st.priv[x].value + acct.value
<1> DEFINE nst == SetAccountState(st, x, acct)
<1>1. nst \in Ledgers /\ nst.pub = st.pub /\ nst.priv = [st.priv EXCEPT ![x] = acct]
  BY SetAccountFacts, Zenon
<1> HIDE DEF nst
<1>2. st.priv \in [Owners -> PrivAccounts]
  BY LedgerTypes, Zenon
<1>3. nst.priv[x] = acct /\ \A y \in Owners \ {x} : nst.priv[y] = st.priv[y]
  BY <1>1, <1>2, Zenon
<1>4. \A y \in Owners \ {x} : nst.priv[y].value = st.priv[y].value
  BY <1>3, Zenon
<1>5. PrivTotal(nst) = PrivTotal(st) - st.priv[x].value + nst.priv[x].value
  BY <1>1, <1>4, PrivTotalChange, Zenon
<1>6. PubTotal(nst) = PubTotal(st)
  BY <1>1, Zenon DEF PubTotal
<1> QED BY <1>1, <1>3, <1>5, <1>6, Zenon DEF nst

(* A credit moves no private value and no nonce.                           *)
LEMMA CreditMoves ==
    ASSUME NEW st \in Ledgers, NEW x \in Payers, NEW n \in Int
    PROVE  /\ AddBalance(st, x, n) \in Ledgers
           /\ AddBalance(st, x, n).priv = st.priv
           /\ PubTotal(AddBalance(st, x, n)) = PubTotal(st) + n
           /\ PrivTotal(AddBalance(st, x, n)) = PrivTotal(st)
<1> DEFINE nst == AddBalance(st, x, n)
<1>1. nst \in Ledgers /\ nst.priv = st.priv /\ nst.pub = [st.pub EXCEPT ![x] = st.pub[x] + n]
  BY AddBalanceFacts
<1> HIDE DEF nst
<1>2. PubTotal(nst) = PubTotal(st) + n
  <2>1. nst \in Ledgers /\ nst.pub = [st.pub EXCEPT ![x] = st.pub[x] + n]
    BY <1>1, Zenon
  <2> QED BY <2>1, PubTotalChange
<1>3. PrivTotal(nst) = PrivTotal(st)
  BY <1>1, Zenon DEF PrivTotal
<1> QED BY <1>1, <1>2, <1>3, Zenon DEF nst

(* A private transfer applies as a privacy transaction should.             *)
LEMMA TransferApplies ==
    ASSUME NEW st \in Ledgers, NEW tx \in Txs, tx.kind = TransferTx
    PROVE  Applies(st, tx, applyPreparedPrivacyExecution(st, preparePrivacyTxState(st, tx)))
<1> DEFINE p == preparePrivacyTxState(st, tx)
           x == tx.from
           z == tx.to
           spent == Spent(st.priv[x], tx.source + p.refund)
           got == Deposited(st.priv[z], tx.amount)
           s1 == SetAccountState(st, x, spent)
           s2 == SetAccountState(s1, z, got)
           s3 == IncrementPrivNonce(s2, x)
           s4 == AddBalance(s3, Coinbase, p.paid)
<1>0. UNOBaseFee \in Nat
  BY PrivacyAssumption, Zenon
<1>1. /\ x \in Owners /\ z \in Owners /\ tx.amount \in Nat /\ tx.fee \in Nat /\ tx.limit \in Nat
      /\ tx.source \in Int
  BY TxTypes, Zenon
<1>2. p = PreparedTransfer(st, tx)
  BY DEF preparePrivacyTxState, TransferTx, ShieldTx, UnshieldTx
<1>3. /\ p.tx = tx /\ p.sender = st.priv[x] /\ p.receiver = st.priv[z]
      /\ p.newBalance = st.priv[x].value - tx.amount - tx.limit
      /\ p.paid = Larger(tx.fee, UNOBaseFee) /\ p.refund = tx.limit - p.paid
  BY <1>2 DEF PreparedTransfer
<1>4. p.paid \in Nat /\ p.refund \in Int /\ tx.source + p.refund \in Int
  BY <1>0, <1>1, <1>3 DEF Larger
<1>5. ApplyState(st, p) = ApplyTransfer(st, p)
  BY <1>3 DEF ApplyState, TransferTx, ShieldTx, UnshieldTx
<1>6. applyPreparedPrivacyExecution(st, p) = s4
  BY <1>3, <1>5, Zenon DEF applyPreparedPrivacyExecution, ApplyTransfer
<1> HIDE DEF p
<1>7. /\ st.priv[x] \in PrivAccounts /\ st.priv[z] \in PrivAccounts
      /\ st.priv[x].value \in Int /\ st.priv[z].value \in Int
  BY <1>1, LedgerTypes, Zenon
<1>8. spent \in PrivAccounts /\ spent.value = tx.source + p.refund /\ spent.nonce = st.priv[x].nonce
  BY <1>4, <1>7, AccountFacts, Zenon
<1>9. got \in PrivAccounts /\ got.value = st.priv[z].value + tx.amount /\ got.nonce = st.priv[z].nonce
  <2>1. tx.amount \in Int
    BY <1>1
  <2> QED BY <2>1, <1>7, AccountFacts, Zenon
<1> HIDE DEF spent, got
<1>10. /\ s1 \in Ledgers /\ s1.priv[x] = spent /\ \A y \in Owners \ {x} : s1.priv[y] = st.priv[y]
       /\ PubTotal(s1) = PubTotal(st)
       /\ PrivTotal(s1) = PrivTotal(st) - st.priv[x].value + spent.value
  BY <1>1, <1>8, SetMoves, Zenon
<1> HIDE DEF s1
<1>11. /\ s2 \in Ledgers /\ s2.priv[z] = got /\ \A y \in Owners \ {z} : s2.priv[y] = s1.priv[y]
       /\ PubTotal(s2) = PubTotal(s1)
       /\ PrivTotal(s2) = PrivTotal(s1) - s1.priv[z].value + got.value
  <2>1. s1 \in Ledgers /\ z \in Owners /\ got \in PrivAccounts
    BY <1>1, <1>9, <1>10, Zenon
  <2> QED BY <2>1, SetMoves
<1> HIDE DEF s2
<1>12. /\ s3 \in Ledgers /\ NonceMoves(s2, s3, x)
       /\ PrivTotal(s3) = PrivTotal(s2) /\ PubTotal(s3) = PubTotal(s2)
  BY <1>1, <1>11, IncrementFacts, IncrementMoves, Zenon
<1> HIDE DEF s3
<1>13. /\ s4 \in Ledgers /\ s4.priv = s3.priv
       /\ PubTotal(s4) = PubTotal(s3) + p.paid /\ PrivTotal(s4) = PrivTotal(s3)
  <2>1. Coinbase \in Payers /\ p.paid \in Int
    BY <1>4 DEF Payers
  <2> QED BY <2>1, <1>12, CreditMoves, Zenon
<1> HIDE DEF s4
<1>14. NonceMoves(st, s4, x)
  <2>1. \A y \in Owners : s2.priv[y].nonce = st.priv[y].nonce
    BY <1>8, <1>9, <1>10, <1>11, Zenon
  <2> QED BY <2>1, <1>12, <1>13, Zenon DEF NonceMoves
<1>15. ASSUME VerifyProofs(p), ~SelfTransfer(tx) PROVE Total(s4) = Total(st)
  <2>1. x # z
    BY <1>15, Zenon DEF SelfTransfer
  <2>2. tx.source = st.priv[x].value - tx.amount - tx.limit
    BY <1>15, <1>3, Zenon DEF VerifyProofs
  <2>3. s1.priv[z].value = st.priv[z].value
    BY <1>1, <1>10, <2>1, Zenon
  <2>4. /\ Total(s4) = PubTotal(s4) + PrivTotal(s4) /\ Total(st) = PubTotal(st) + PrivTotal(st)
        /\ PubTotal(st) \in Int /\ PrivTotal(st) \in Int
    BY <1>13, TotalParts, Zenon
  <2>5. PrivTotal(s4) = PrivTotal(s1) - st.priv[z].value + (st.priv[z].value + tx.amount)
    BY <1>9, <1>11, <1>12, <1>13, <2>3, Zenon
  <2>8. PrivTotal(s1) = PrivTotal(st) - st.priv[x].value + (tx.source + p.refund)
    BY <1>8, <1>10, Zenon
  <2>6. PubTotal(s4) = PubTotal(st) + p.paid
    BY <1>10, <1>11, <1>12, <1>13, Zenon
  <2>7. p.refund = tx.limit - p.paid
    BY <1>3, Zenon
  <2>9. st.priv[x].value \in Int /\ st.priv[z].value \in Int /\ tx.amount \in Int /\ tx.limit \in Int /\ p.paid \in Int
    BY <1>1, <1>4, <1>7
  <2>10. PrivTotal(s1) \in Int
    BY <1>10, TotalParts, Zenon
  <2> HIDE DEF x, z
  <2>11. PrivTotal(s4) = PrivTotal(s1) + tx.amount
    BY <2>5, <2>9, <2>10
  <2>12. PrivTotal(s1) = PrivTotal(st) - tx.amount - p.paid
    BY <2>2, <2>4, <2>7, <2>8, <2>9
  <2> QED BY <2>4, <2>6, <2>9, <2>11, <2>12
<1> QED BY <1>6, <1>13, <1>14, <1>15, Zenon DEF Applies, p

(* So does a shielding.                                                    *)
LEMMA ShieldApplies ==
    ASSUME NEW st \in Ledgers, NEW tx \in Txs, tx.kind = ShieldTx
    PROVE  Applies(st, tx, applyPreparedPrivacyExecution(st, preparePrivacyTxState(st, tx)))
<1> DEFINE p == preparePrivacyTxState(st, tx)
           x == tx.from
           z == tx.to
           got == Deposited(st.priv[z], tx.amount)
           s1 == AddBalance(st, x, -(tx.amount + tx.fee))
           s2 == SetAccountState(s1, z, got)
           s3 == IncrementPrivNonce(s2, x)
           s4 == AddBalance(s3, Coinbase, p.paid)
<1>1. x \in Owners /\ z \in Owners /\ tx.amount \in Nat /\ tx.fee \in Nat
  BY TxTypes, Zenon
<1>2. p = PreparedShield(st, tx)
  BY DEF preparePrivacyTxState, TransferTx, ShieldTx, UnshieldTx
<1>3. p.tx = tx /\ p.receiver = st.priv[z] /\ p.paid = tx.fee
  BY <1>2 DEF PreparedShield
<1>4. p.paid \in Int /\ -(tx.amount + tx.fee) \in Int /\ tx.amount \in Int
  BY <1>1, <1>3
<1>5. ApplyState(st, p) = ApplyShield(st, p)
  BY <1>3 DEF ApplyState, TransferTx, ShieldTx, UnshieldTx
<1>6. applyPreparedPrivacyExecution(st, p) = s4
  BY <1>3, <1>5, Zenon DEF applyPreparedPrivacyExecution, ApplyShield
<1> HIDE DEF p
<1>7. st.priv[z] \in PrivAccounts /\ st.priv[z].value \in Int
  BY <1>1, LedgerTypes, Zenon
<1>9. got \in PrivAccounts /\ got.value = st.priv[z].value + tx.amount /\ got.nonce = st.priv[z].nonce
  BY <1>4, <1>7, AccountFacts, Zenon
<1> HIDE DEF got
<1>10. /\ s1 \in Ledgers /\ s1.priv = st.priv
       /\ PubTotal(s1) = PubTotal(st) + (-(tx.amount + tx.fee)) /\ PrivTotal(s1) = PrivTotal(st)
  <2>1. x \in Payers
    BY <1>1, Zenon DEF Payers
  <2> QED BY <2>1, <1>4, CreditMoves, Zenon
<1> HIDE DEF s1
<1>11. /\ s2 \in Ledgers /\ s2.priv[z] = got /\ \A y \in Owners \ {z} : s2.priv[y] = s1.priv[y]
       /\ PubTotal(s2) = PubTotal(s1)
       /\ PrivTotal(s2) = PrivTotal(s1) - s1.priv[z].value + got.value
  <2>1. s1 \in Ledgers /\ z \in Owners /\ got \in PrivAccounts
    BY <1>1, <1>9, <1>10, Zenon
  <2> QED BY <2>1, SetMoves
<1> HIDE DEF s2
<1>12. /\ s3 \in Ledgers /\ NonceMoves(s2, s3, x)
       /\ PrivTotal(s3) = PrivTotal(s2) /\ PubTotal(s3) = PubTotal(s2)
  BY <1>1, <1>11, IncrementFacts, IncrementMoves, Zenon
<1> HIDE DEF s3
<1>13. /\ s4 \in Ledgers /\ s4.priv = s3.priv
       /\ PubTotal(s4) = PubTotal(s3) + p.paid /\ PrivTotal(s4) = PrivTotal(s3)
  <2>1. Coinbase \in Payers
    BY Zenon DEF Payers
  <2> QED BY <2>1, <1>4, <1>12, CreditMoves, Zenon
<1> HIDE DEF s4
<1>14. NonceMoves(st, s4, x)
  <2>1. \A y \in Owners : s2.priv[y].nonce = st.priv[y].nonce
    BY <1>9, <1>10, <1>11, Zenon
  <2> QED BY <2>1, <1>12, <1>13, Zenon DEF NonceMoves
<1>15. Total(s4) = Total(st)
  <2>1. /\ Total(s4) = PubTotal(s4) + PrivTotal(s4) /\ Total(st) = PubTotal(st) + PrivTotal(st)
        /\ PubTotal(st) \in Int /\ PrivTotal(st) \in Int
    BY <1>13, TotalParts, Zenon
  <2>2. PrivTotal(s4) = PrivTotal(st) - st.priv[z].value + (st.priv[z].value + tx.amount)
    BY <1>9, <1>10, <1>11, <1>12, <1>13, Zenon
  <2>3. PubTotal(s4) = PubTotal(st) + (-(tx.amount + tx.fee)) + tx.fee
    BY <1>3, <1>10, <1>11, <1>12, <1>13, Zenon
  <2> QED BY <1>1, <1>7, <2>1, <2>2, <2>3
<1> QED BY <1>6, <1>13, <1>14, <1>15, Zenon DEF Applies, p

(* So does an unshielding.                                                 *)
LEMMA UnshieldApplies ==
    ASSUME NEW st \in Ledgers, NEW tx \in Txs, tx.kind = UnshieldTx
    PROVE  Applies(st, tx, applyPreparedPrivacyExecution(st, preparePrivacyTxState(st, tx)))
<1> DEFINE p == preparePrivacyTxState(st, tx)
           x == tx.from
           z == tx.to
           spent == Spent(st.priv[x], tx.source)
           s1 == SetAccountState(st, x, spent)
           s2 == IncrementPrivNonce(s1, x)
           s3 == AddBalance(s2, z, tx.amount - tx.fee)
           s4 == AddBalance(s3, Coinbase, p.paid)
<1>1. x \in Owners /\ z \in Owners /\ tx.amount \in Nat /\ tx.fee \in Nat /\ tx.source \in Int
  BY TxTypes, Zenon
<1>2. p = PreparedUnshield(st, tx)
  BY DEF preparePrivacyTxState, TransferTx, ShieldTx, UnshieldTx
<1>3. /\ p.tx = tx /\ p.sender = st.priv[x] /\ p.paid = tx.fee
      /\ p.newBalance = st.priv[x].value - tx.amount
  BY <1>2 DEF PreparedUnshield
<1>4. p.paid \in Int /\ tx.amount - tx.fee \in Int
  BY <1>1, <1>3
<1>5. ApplyState(st, p) = ApplyUnshield(st, p)
  BY <1>3 DEF ApplyState, TransferTx, ShieldTx, UnshieldTx
<1>6. applyPreparedPrivacyExecution(st, p) = s4
  BY <1>3, <1>5, Zenon DEF applyPreparedPrivacyExecution, ApplyUnshield
<1> HIDE DEF p
<1>7. st.priv[x] \in PrivAccounts /\ st.priv[x].value \in Int
  BY <1>1, LedgerTypes, Zenon
<1>8. spent \in PrivAccounts /\ spent.value = tx.source /\ spent.nonce = st.priv[x].nonce
  BY <1>1, <1>7, AccountFacts, Zenon
<1> HIDE DEF spent
<1>10. /\ s1 \in Ledgers /\ s1.priv[x] = spent /\ \A y \in Owners \ {x} : s1.priv[y] = st.priv[y]
       /\ PubTotal(s1) = PubTotal(st)
       /\ PrivTotal(s1) = PrivTotal(st) - st.priv[x].value + spent.value
  BY <1>1, <1>8, SetMoves, Zenon
<1> HIDE DEF s1
<1>11. /\ s2 \in Ledgers /\ NonceMoves(s1, s2, x)
       /\ PrivTotal(s2) = PrivTotal(s1) /\ PubTotal(s2) = PubTotal(s1)
  BY <1>1, <1>10, IncrementFacts, IncrementMoves, Zenon
<1> HIDE DEF s2
<1>12. /\ s3 \in Ledgers /\ s3.priv = s2.priv
       /\ PubTotal(s3) = PubTotal(s2) + (tx.amount - tx.fee) /\ PrivTotal(s3) = PrivTotal(s2)
  <2>1. z \in Payers
    BY <1>1, Zenon DEF Payers
  <2> QED BY <2>1, <1>4, <1>11, CreditMoves, Zenon
<1> HIDE DEF s3
<1>13. /\ s4 \in Ledgers /\ s4.priv = s3.priv
       /\ PubTotal(s4) = PubTotal(s3) + p.paid /\ PrivTotal(s4) = PrivTotal(s3)
  <2>1. Coinbase \in Payers
    BY Zenon DEF Payers
  <2> QED BY <2>1, <1>4, <1>12, CreditMoves, Zenon
<1> HIDE DEF s4
<1>14. NonceMoves(st, s4, x)
  <2>1. \A y \in Owners : s1.priv[y].nonce = st.priv[y].nonce
    BY <1>8, <1>10, Zenon
  <2> QED BY <2>1, <1>11, <1>12, <1>13, Zenon DEF NonceMoves
<1>15. ASSUME VerifyProofs(p) PROVE Total(s4) = Total(st)
  <2>1. /\ Total(s4) = PubTotal(s4) + PrivTotal(s4) /\ Total(st) = PubTotal(st) + PrivTotal(st)
        /\ PubTotal(st) \in Int /\ PrivTotal(st) \in Int
    BY <1>13, TotalParts, Zenon
  <2>2. tx.source = st.priv[x].value - tx.amount
    BY <1>15, <1>3, Zenon DEF VerifyProofs
  <2>3. PrivTotal(s4) = PrivTotal(st) - st.priv[x].value + tx.source
    BY <1>8, <1>10, <1>11, <1>12, <1>13, Zenon
  <2>4. PubTotal(s4) = PubTotal(st) + (tx.amount - tx.fee) + tx.fee
    BY <1>3, <1>10, <1>11, <1>12, <1>13, Zenon
  <2>5. st.priv[x].value \in Int /\ tx.amount \in Int /\ tx.fee \in Int
    BY <1>1, <1>7
  <2> HIDE DEF x
  <2>6. PrivTotal(s4) = PrivTotal(st) - tx.amount
    BY <2>1, <2>2, <2>3, <2>5
  <2>7. PubTotal(s4) = PubTotal(st) + tx.amount
    BY <2>1, <2>4, <2>5
  <2> QED BY <2>1, <2>5, <2>6, <2>7
<1> QED BY <1>6, <1>13, <1>14, <1>15, Zenon DEF Applies, p

(* So does every privacy transaction.                                      *)
LEMMA PrivacyApplies ==
    ASSUME NEW st \in Ledgers, NEW tx \in Txs, isPrivacyTxType(tx)
    PROVE  Applies(st, tx, applyPreparedPrivacyExecution(st, preparePrivacyTxState(st, tx)))
BY TransferApplies, ShieldApplies, UnshieldApplies, Zenon DEF isPrivacyTxType

(* Preparation fits the state it was made on.                              *)
LEMMA FreshIsCurrent ==
    ASSUME NEW st, NEW tx, isPrivacyTxType(tx)
    PROVE  /\ Current(st, preparePrivacyTxState(st, tx))
           /\ preparePrivacyTxState(st, tx).tx = tx
<1> DEFINE p == preparePrivacyTxState(st, tx)
<1>1. CASE tx.kind = TransferTx
  <2>1. p = PreparedTransfer(st, tx)
    BY <1>1 DEF preparePrivacyTxState, TransferTx, ShieldTx, UnshieldTx
  <2>2. p.tx = tx /\ p.sender = st.priv[tx.from] /\ p.receiver = st.priv[tx.to]
    BY <2>1 DEF PreparedTransfer
  <2> HIDE DEF p
  <2>3. Current(st, p)
    BY <2>2, <1>1 DEF Current, TransferTx, ShieldTx, UnshieldTx
  <2> QED BY <2>2, <2>3, Zenon DEF p
<1>2. CASE tx.kind = ShieldTx
  <2>1. p = PreparedShield(st, tx)
    BY <1>2 DEF preparePrivacyTxState, TransferTx, ShieldTx, UnshieldTx
  <2>2. p.tx = tx /\ p.sender = st.pub[tx.from] /\ p.receiver = st.priv[tx.to]
    BY <2>1 DEF PreparedShield
  <2> HIDE DEF p
  <2>3. Current(st, p)
    BY <2>2, <1>2 DEF Current, TransferTx, ShieldTx, UnshieldTx
  <2> QED BY <2>2, <2>3, Zenon DEF p
<1>3. CASE tx.kind = UnshieldTx
  <2>1. p = PreparedUnshield(st, tx)
    BY <1>3 DEF preparePrivacyTxState, TransferTx, ShieldTx, UnshieldTx
  <2>2. p.tx = tx /\ p.sender = st.priv[tx.from] /\ p.receiver = st.pub[tx.to]
    BY <2>1 DEF PreparedUnshield
  <2> HIDE DEF p
  <2>3. Current(st, p)
    BY <2>2, <1>3 DEF Current, TransferTx, ShieldTx, UnshieldTx
  <2> QED BY <2>2, <2>3, Zenon DEF p
<1> QED BY <1>1, <1>2, <1>3, Zenon DEF isPrivacyTxType

(*------------------------------ receipts ----------------------------------*)

ReceiptSet == [status : {"success", "failed"}, from : Payers, nonce : Nat]

(* A receipt tells which nonce of whom a transaction consumed.             *)
Consumes(st, nst, r) ==
    \/ r.from = Coinbase /\ \A y \in Owners : nst.priv[y].nonce = st.priv[y].nonce
    \/ r.from \in Owners /\ r.nonce = st.priv[r.from].nonce /\ NonceMoves(st, nst, r.from)

SpentOf(rs, x) == {i \in DOMAIN rs : rs[i].from = x}

SpentOnce(st, rs) ==
    \A x \in Owners :
        /\ {rs[i].nonce : i \in SpentOf(rs, x)} = 0..(st.priv[x].nonce - 1)
        /\ Cardinality(SpentOf(rs, x)) = st.priv[x].nonce

(* A receipt that consumes the current nonce spends it for the first time. *)
LEMMA SpentMore ==
    ASSUME NEW st \in Ledgers, NEW nst \in Ledgers, NEW rs \in Seq(ReceiptSet), NEW r \in ReceiptSet,
           SpentOnce(st, rs), Consumes(st, nst, r)
    PROVE  SpentOnce(nst, Append(rs, r))
<1> DEFINE qs == Append(rs, r)
           n == Len(rs)
<1>1. /\ n \in Nat /\ DOMAIN rs = 1..n /\ DOMAIN qs = 1..(n + 1)
      /\ qs[n + 1] = r /\ \A i \in 1..n : qs[i] = rs[i]
  OBVIOUS
<1> HIDE DEF qs, n
<1> SUFFICES ASSUME NEW x \in Owners
             PROVE  /\ {qs[i].nonce : i \in SpentOf(qs, x)} = 0..(nst.priv[x].nonce - 1)
                    /\ Cardinality(SpentOf(qs, x)) = nst.priv[x].nonce
  BY Zenon DEF SpentOnce, qs
<1> DEFINE A == SpentOf(rs, x)
           k == st.priv[x].nonce
<1>2. k \in Nat /\ {rs[i].nonce : i \in A} = 0..(k - 1) /\ Cardinality(A) = k
  BY LedgerTypes, Zenon DEF SpentOnce
<1>3. A \subseteq 1..n /\ n + 1 \notin 1..n /\ 1..(n + 1) = 1..n \cup {n + 1}
  BY <1>1 DEF SpentOf
<1>4. IsFiniteSet(A)
  <2>0. 1 \in Int /\ n \in Int
    BY <1>1
  <2>1. IsFiniteSet(1..n)
    BY <2>0, FS_Interval, Zenon
  <2> QED BY <2>1, <1>3, FS_Subset, Zenon
<1>5. {qs[i].nonce : i \in A} = {rs[i].nonce : i \in A}
  BY <1>1, <1>3, Zenon
<1>6. CASE r.from = x
  <2>1. x # Coinbase
    BY PrivacyAssumption, Zenon
  <2>2. r.nonce = k /\ nst.priv[x].nonce = k + 1
    BY <1>6, <2>1, Zenon DEF Consumes, NonceMoves
  <2>3. SpentOf(qs, x) = A \cup {n + 1}
    BY <1>1, <1>3, <1>6, Zenon DEF SpentOf
  <2>4. Cardinality(A \cup {n + 1}) = k + 1
    BY <1>2, <1>3, <1>4, FS_AddElement, Zenon
  <2>5. {qs[i].nonce : i \in A \cup {n + 1}} = 0..(k - 1) \cup {k}
    <3>1. {qs[i].nonce : i \in A \cup {n + 1}} = {qs[i].nonce : i \in A} \cup {qs[n + 1].nonce}
      BY Zenon
    <3> QED BY <3>1, <1>1, <1>2, <1>5, <2>2, Zenon
  <2>6. 0..(k - 1) \cup {k} = 0..((k + 1) - 1)
    <3> HIDE DEF k
    <3> QED BY <1>2
  <2> QED BY <2>2, <2>3, <2>4, <2>5, <2>6, Zenon
<1>7. CASE r.from # x
  <2>1. SpentOf(qs, x) = A
    BY <1>1, <1>3, <1>7, Zenon DEF SpentOf
  <2>2. nst.priv[x].nonce = k
    BY <1>7, Zenon DEF Consumes, NonceMoves
  <2> QED BY <2>1, <2>2, <1>2, <1>5, Zenon
<1> QED BY <1>6, <1>7, Zenon

(* What one transaction leaves behind.                                     *)
GoodOutcome(st, out) ==
    out.st \in Ledgers /\ out.receipt \in ReceiptSet /\ Consumes(st, out.st, out.receipt)

(* Only the current privacy nonce of the sender is prepared.               *)
LEMMA PreparableNonce ==
    ASSUME NEW st, NEW tx, isPrivacyTxType(tx), Preparable(st, tx)
    PROVE  tx.nonce = st.priv[tx.from].nonce
<1>1. CASE tx.kind = TransferTx
  BY <1>1 DEF Preparable, TransferPreparable, NonceMatches, TransferTx, ShieldTx, UnshieldTx
<1>2. CASE tx.kind = ShieldTx
  BY <1>2 DEF Preparable, ShieldPreparable, NonceMatches, TransferTx, ShieldTx, UnshieldTx
<1>3. CASE tx.kind = UnshieldTx
  BY <1>3 DEF Preparable, UnshieldPreparable, NonceMatches, TransferTx, ShieldTx, UnshieldTx
<1> QED BY <1>1, <1>2, <1>3, Zenon DEF isPrivacyTxType

(* The receipt of a successful private transaction names its nonce.        *)
LEMMA SpendingOutcome ==
    ASSUME NEW st, NEW tx \in Txs, isPrivacyTxType(tx)
    PROVE  /\ Outcome(st, tx, "success").st = st
           /\ Outcome(st, tx, "success").receipt \in ReceiptSet
           /\ Outcome(st, tx, "success").receipt.from = tx.from
           /\ Outcome(st, tx, "success").receipt.nonce = tx.nonce
<1>1. tx.from \in Payers /\ tx.nonce \in Nat
  BY TxTypes, Zenon DEF Payers
<1> DEFINE r == [status |-> "success", from |-> tx.from, nonce |-> tx.nonce]
<1>2. Outcome(st, tx, "success") = [st |-> st, receipt |-> r]
  BY Zenon DEF Outcome, Receipt
<1>3. r \in ReceiptSet /\ r.from = tx.from /\ r.nonce = tx.nonce
  BY <1>1 DEF ReceiptSet
<1> HIDE DEF r
<1>4. [st |-> st, receipt |-> r].st = st /\ [st |-> st, receipt |-> r].receipt = r
  OBVIOUS
<1> QED BY <1>2, <1>3, <1>4, Zenon

(* The receipt of a failed or a public transaction consumes no nonce.      *)
LEMMA PlainOutcome ==
    ASSUME NEW st, NEW tx \in Txs, NEW status \in {"success", "failed"},
           ~(status = "success" /\ isPrivacyTxType(tx))
    PROVE  /\ Outcome(st, tx, status).st = st
           /\ Outcome(st, tx, status).receipt \in ReceiptSet
           /\ Outcome(st, tx, status).receipt.from = Coinbase
<1>1. Coinbase \in Payers
  BY Zenon DEF Payers
<1> DEFINE r == [status |-> status, from |-> Coinbase, nonce |-> 0]
<1>2. Outcome(st, tx, status) = [st |-> st, receipt |-> r]
  BY Zenon DEF Outcome, Receipt
<1>3. r \in ReceiptSet /\ r.from = Coinbase
  BY <1>1 DEF ReceiptSet
<1> HIDE DEF r
<1>4. [st |-> st, receipt |-> r].st = st /\ [st |-> st, receipt |-> r].receipt = r
  OBVIOUS
<1> QED BY <1>2, <1>3, <1>4, Zenon

(* A failure leaves the state alone.                                       *)
LEMMA FailureOutcome ==
    ASSUME NEW st \in Ledgers, NEW tx \in Txs
    PROVE  GoodOutcome(st, Outcome(st, tx, "failed")) /\ Outcome(st, tx, "failed").st = st
<1>1. "failed" \in {"success", "failed"} /\ "failed" # "success"
  OBVIOUS
<1>2. /\ Outcome(st, tx, "failed").st = st
      /\ Outcome(st, tx, "failed").receipt \in ReceiptSet
      /\ Outcome(st, tx, "failed").receipt.from = Coinbase
  BY <1>1, PlainOutcome, Zenon
<1> QED BY <1>2, Zenon DEF GoodOutcome, Consumes

(* A success of a transaction that could be prepared.                      *)
LEMMA AppliedOutcome ==
    ASSUME NEW st \in Ledgers, NEW tx \in Txs, isPrivacyTxType(tx), Preparable(st, tx),
           NEW nst, Applies(st, tx, nst)
    PROVE  GoodOutcome(st, Outcome(nst, tx, "success")) /\ Outcome(nst, tx, "success").st = nst
<1>1. "success" \in {"success", "failed"}
  OBVIOUS
<1>2. /\ Outcome(nst, tx, "success").st = nst
      /\ Outcome(nst, tx, "success").receipt \in ReceiptSet
      /\ Outcome(nst, tx, "success").receipt.from = tx.from
      /\ Outcome(nst, tx, "success").receipt.nonce = tx.nonce
  BY <1>1, SpendingOutcome, Zenon
<1>3. tx.from \in Owners /\ tx.nonce = st.priv[tx.from].nonce
  BY TxTypes, PreparableNonce, Zenon
<1>4. nst \in Ledgers /\ NonceMoves(st, nst, tx.from)
  BY Zenon DEF Applies
<1> QED BY <1>2, <1>3, <1>4, Zenon DEF GoodOutcome, Consumes

(* executeSinglePrivacyTx consumes a nonce if it succeeds and conserves    *)
(* value.                                                                  *)
LEMMA SingleOutcome ==
    ASSUME NEW st \in Ledgers, NEW tx \in Txs, isPrivacyTxType(tx)
    PROVE  /\ GoodOutcome(st, executeSinglePrivacyTx(st, tx))
           /\ ~SelfTransfer(tx) => Total(executeSinglePrivacyTx(st, tx).st) = Total(st)
           /\ ~Preparable(st, tx) => executeSinglePrivacyTx(st, tx).st = st
<1> DEFINE p == preparePrivacyTxState(st, tx)
           nst == applyPreparedPrivacyExecution(st, p)
<1>1. Applies(st, tx, nst)
  BY PrivacyApplies, Zenon
<1>2. executeSinglePrivacyTx(st, tx) =
         IF Preparable(st, tx) /\ VerifyProofs(p) /\ Current(st, p)
         THEN Outcome(nst, tx, "success") ELSE Outcome(st, tx, "failed")
  BY Zenon DEF executeSinglePrivacyTx
<1>3. VerifyProofs(p) /\ ~SelfTransfer(tx) => Total(nst) = Total(st)
  BY <1>1, Zenon DEF Applies
<1> HIDE DEF nst, p
<1>4. CASE Preparable(st, tx) /\ VerifyProofs(p) /\ Current(st, p)
  <2>1. executeSinglePrivacyTx(st, tx) = Outcome(nst, tx, "success") /\ Preparable(st, tx)
    BY <1>2, <1>4, Zenon
  <2>2. GoodOutcome(st, Outcome(nst, tx, "success")) /\ Outcome(nst, tx, "success").st = nst
    BY <1>1, <1>4, AppliedOutcome, Zenon
  <2>3. ~SelfTransfer(tx) => Total(nst) = Total(st)
    BY <1>3, <1>4, Zenon
  <2> QED BY <2>1, <2>2, <2>3, Zenon
<1>5. CASE ~(Preparable(st, tx) /\ VerifyProofs(p) /\ Current(st, p))
  BY <1>2, <1>5, FailureOutcome, Zenon
<1> QED BY <1>4, <1>5, Zenon

(* A public transaction consumes no privacy nonce and conserves value.     *)
LEMMA PublicOutcome ==
    ASSUME NEW st \in Ledgers, NEW tx \in Txs, ~isPrivacyTxType(tx)
    PROVE  /\ GoodOutcome(st, publicExecutionResult(st, tx))
           /\ Total(publicExecutionResult(st, tx).st) = Total(st)
<1> DEFINE s1 == AddBalance(st, tx.from, -tx.amount)
           s2 == AddBalance(s1, tx.to, tx.amount)
<1>1. tx.from \in Payers /\ tx.to \in Payers /\ tx.amount \in Nat
  BY TxTypes, Zenon DEF Payers
<1>2. -tx.amount \in Int /\ tx.amount \in Int
  BY <1>1
<1>3. publicExecutionResult(st, tx) =
         IF st.pub[tx.from] >= tx.amount THEN Outcome(s2, tx, "success") ELSE Outcome(st, tx, "failed")
  BY Zenon DEF publicExecutionResult
<1>4. /\ s1 \in Ledgers /\ s1.priv = st.priv
      /\ PubTotal(s1) = PubTotal(st) + (-tx.amount) /\ PrivTotal(s1) = PrivTotal(st)
  BY <1>1, <1>2, CreditMoves, Zenon
<1> HIDE DEF s1
<1>5. /\ s2 \in Ledgers /\ s2.priv = s1.priv
      /\ PubTotal(s2) = PubTotal(s1) + tx.amount /\ PrivTotal(s2) = PrivTotal(s1)
  BY <1>1, <1>2, <1>4, CreditMoves, Zenon
<1> HIDE DEF s2
<1>6. Total(s2) = Total(st)
  <2>1. /\ Total(s2) = PubTotal(s2) + PrivTotal(s2) /\ Total(st) = PubTotal(st) + PrivTotal(st)
        /\ PubTotal(st) \in Int /\ PrivTotal(st) \in Int
    BY <1>5, TotalParts, Zenon
  <2>2. Total(s2) = ((PubTotal(st) + (-tx.amount)) + tx.amount) + PrivTotal(st)
    BY <2>1, <1>4, <1>5, Zenon
  <2>3. \A i, j, n \in Int : ((i + (-n)) + n) + j = i + j
    OBVIOUS
  <2>4. Total(s2) = PubTotal(st) + PrivTotal(st)
    BY <2>1, <2>2, <2>3, <1>2, Zenon
  <2> QED BY <2>1, <2>4, Zenon
<1>7. GoodOutcome(st, Outcome(s2, tx, "success")) /\ Outcome(s2, tx, "success").st = s2
  <2>1. "success" \in {"success", "failed"}
    OBVIOUS
  <2>2. /\ Outcome(s2, tx, "success").st = s2
        /\ Outcome(s2, tx, "success").receipt \in ReceiptSet
        /\ Outcome(s2, tx, "success").receipt.from = Coinbase
    BY <2>1, PlainOutcome, Zenon
  <2> QED BY <2>2, <1>4, <1>5, Zenon DEF GoodOutcome, Consumes
<1> QED BY <1>3, <1>6, <1>7, FailureOutcome, Zenon

(*------------------------------- the flush --------------------------------*)

(* A state of the flush in which every nonce was spent once.               *)
GoodFlush(acc) ==
    acc.st \in Ledgers /\ acc.receipts \in Seq(ReceiptSet) /\ SpentOnce(acc.st, acc.receipts)

(* Recording a good outcome keeps every nonce spent once.                  *)
LEMMA GoodMore ==
    ASSUME NEW st \in Ledgers, NEW rs \in Seq(ReceiptSet), SpentOnce(st, rs),
           NEW out, GoodOutcome(st, out)
    PROVE  /\ Append(rs, out.receipt) \in Seq(ReceiptSet)
           /\ SpentOnce(out.st, Append(rs, out.receipt))
<1>1. out.st \in Ledgers /\ out.receipt \in ReceiptSet /\ Consumes(st, out.st, out.receipt)
  BY Zenon DEF GoodOutcome
<1>2. Append(rs, out.receipt) \in Seq(ReceiptSet)
  BY <1>1
<1>3. SpentOnce(out.st, Append(rs, out.receipt))
  BY <1>1, SpentMore
<1> QED BY <1>2, <1>3, Zenon

(* The fast way and the slow way of a candidate.                           *)
LEMMA FlushOneSlow ==
    ASSUME NEW acc, NEW p, acc.fast = FALSE
    PROVE  FlushOne(acc, p) =
             [st |-> executeSinglePrivacyTx(acc.st, p.tx).st,
              receipts |-> Append(acc.receipts, executeSinglePrivacyTx(acc.st, p.tx).receipt),
              fast |-> FALSE]
BY Zenon DEF FlushOne

(* While the batch holds, a candidate that prepares is applied.            *)
LEMMA FlushOneFast ==
    ASSUME NEW acc, NEW p, acc.fast = TRUE, isPrivacyTxType(p.tx), Preparable(acc.st, p.tx)
    PROVE  FlushOne(acc, p) =
             LET out == Outcome(applyPreparedPrivacyExecution(acc.st, preparePrivacyTxState(acc.st, p.tx)),
                                p.tx, "success")
             IN  [st |-> out.st, receipts |-> Append(acc.receipts, out.receipt), fast |-> TRUE]
<1>1. Current(acc.st, preparePrivacyTxState(acc.st, p.tx))
  BY FreshIsCurrent, Zenon
<1>2. (acc.fast /\ Preparable(acc.st, p.tx) /\ Current(acc.st, preparePrivacyTxState(acc.st, p.tx))) = TRUE
  BY <1>1, Zenon
<1> QED BY <1>2, Zenon DEF FlushOne

(* Flushing one candidate keeps every nonce spent once.                    *)
LEMMA FlushOneGood ==
    ASSUME NEW acc, GoodFlush(acc), NEW p, p.tx \in Txs, isPrivacyTxType(p.tx)
    PROVE  GoodFlush(FlushOne(acc, p))
<1> DEFINE fresh == preparePrivacyTxState(acc.st, p.tx)
           ok == acc.fast /\ Preparable(acc.st, p.tx) /\ Current(acc.st, fresh)
           out == IF ok THEN Outcome(applyPreparedPrivacyExecution(acc.st, fresh), p.tx, "success")
                  ELSE executeSinglePrivacyTx(acc.st, p.tx)
           q == [st |-> out.st, receipts |-> Append(acc.receipts, out.receipt), fast |-> ok]
<1>1. FlushOne(acc, p) = q
  BY Zenon DEF FlushOne
<1>2. acc.st \in Ledgers /\ acc.receipts \in Seq(ReceiptSet) /\ SpentOnce(acc.st, acc.receipts)
  BY Zenon DEF GoodFlush
<1>3. GoodOutcome(acc.st, out)
  <2>1. CASE ok
    <3>1. Applies(acc.st, p.tx, applyPreparedPrivacyExecution(acc.st, fresh))
      BY <1>2, PrivacyApplies, Zenon
    <3>2. Preparable(acc.st, p.tx)
      BY <2>1, Zenon
    <3>3. GoodOutcome(acc.st, Outcome(applyPreparedPrivacyExecution(acc.st, fresh), p.tx, "success"))
      BY <1>2, <3>1, <3>2, AppliedOutcome, Zenon
    <3> QED BY <3>3, <2>1, Zenon
  <2>2. CASE ~ok
    BY <2>2, <1>2, SingleOutcome, Zenon
  <2> QED BY <2>1, <2>2, Zenon
<1> HIDE DEF out, ok
<1>4. Append(acc.receipts, out.receipt) \in Seq(ReceiptSet) /\ SpentOnce(out.st, Append(acc.receipts, out.receipt))
  BY <1>2, <1>3, GoodMore, Zenon
<1>5. q.st = out.st /\ q.receipts = Append(acc.receipts, out.receipt) /\ out.st \in Ledgers
  BY <1>3 DEF GoodOutcome
<1> HIDE DEF q
<1> QED BY <1>1, <1>4, <1>5, Zenon DEF GoodFlush

(* Candidates are prepared privacy transactions.                           *)
Candidates(cs) == \A i \in DOMAIN cs : cs[i].tx \in Txs /\ isPrivacyTxType(cs[i].tx)

(* So does flushing them all.                                              *)
LEMMA FlushAllGood ==
    ASSUME NEW acc, GoodFlush(acc), NEW S, NEW cs \in Seq(S), Candidates(cs)
    PROVE  GoodFlush(FlushAll(acc, cs))
<1> DEFINE n == Len(cs)
<1>1. n \in Nat /\ DOMAIN cs = 1..n
  OBVIOUS
<1>2. PICK h : Flushing(acc, cs, n, h) /\ FlushAll(acc, cs) = h[n]
  BY FlushList, Zenon
<1> HIDE DEF n
<1> DEFINE B == {i \in 0..n : ~GoodFlush(h[i])}
<1>3. B = {}
  <2> SUFFICES ASSUME B # {} PROVE FALSE
    BY Zenon
  <2>1. PICK i \in B : \A j \in B : ~(j < i)
    <3>1. B \subseteq Nat
      BY <1>1
    <3> HIDE DEF B
    <3> QED BY <3>1, LeastNat, Zenon
  <2>2. i \in 0..n /\ ~GoodFlush(h[i])
    BY Zenon
  <2>3. h[i] = IF i = 0 THEN acc ELSE FlushOne(h[i - 1], cs[i])
    BY <2>2, <1>2, Zenon DEF Flushing
  <2>4. i # 0
    BY <2>2, <2>3, Zenon
  <2>5. i \in 1..n /\ i - 1 \in 0..n /\ i - 1 < i
    BY <1>1, <2>2, <2>4
  <2>6. GoodFlush(h[i - 1])
    BY <2>1, <2>5, Zenon
  <2>7. cs[i].tx \in Txs /\ isPrivacyTxType(cs[i].tx)
    BY <1>1, <2>5, Zenon DEF Candidates
  <2>8. GoodFlush(FlushOne(h[i - 1], cs[i]))
    BY <2>6, <2>7, FlushOneGood, Zenon
  <2> QED BY <2>2, <2>3, <2>4, <2>8, Zenon
<1>4. n \in 0..n
  BY <1>1
<1> QED BY <1>2, <1>3, <1>4, Zenon

(*------------------------------ the invariant ------------------------------*)

Prepared == UNION {{preparePrivacyTxState(st, tx) : st \in Ledgers} : tx \in Txs}

FlushFrom(st, rs, fast) == [st |-> st, receipts |-> rs, fast |-> fast]

(* The pending transactions, executed one at a time on the state, lead to  *)
(* the reference; so does applying them at once when all their proofs are  *)
(* good, and the copy is what that leads to.                               *)
ParityOf(st, rs, cs, copy, one) ==
    /\ FlushAll(FlushFrom(st, rs, FALSE), cs) = FlushFrom(one.st, one.receipts, FALSE)
    /\ verifyPreparedPrivacyBatch(cs) =>
          /\ FlushAll(FlushFrom(st, rs, TRUE), cs) = FlushFrom(one.st, one.receipts, TRUE)
          /\ copy = one.st

BatchTypes ==
    /\ stateDB \in Ledgers /\ receipts \in Seq(ReceiptSet)
    /\ pending \in Seq(Prepared) /\ Candidates(pending)
    /\ pendingState \in Ledgers \cup {NoState}
    /\ pending # <<>> => pendingState # NoState
    /\ single.st \in Ledgers
    /\ done => pending = <<>>

BatchInv ==
    /\ BatchTypes
    /\ SpentOnce(stateDB, receipts)
    /\ ~ single.stale =>
          /\ ParityOf(stateDB, receipts, pending, Copied, single)
          /\ ~ single.self => Total(stateDB) = Total(Opening) /\ Total(single.st) = Total(Opening)

(* A ledger is not the absent copy.                                        *)
LEMMA LedgerNotNone ==
    ASSUME NEW st \in Ledgers
    PROVE  st # NoState
<1>1. DOMAIN st.pub = Payers /\ Coinbase \in Payers
  BY DEF Ledgers, Payers
<1>2. NoState.pub = <<>> /\ DOMAIN <<>> = {}
  BY DEF NoState
<1> QED BY <1>1, <1>2, Zenon

(* A flush whose proofs were verified jointly or not ends at the reference. *)
LEMMA FlushParity ==
    ASSUME NEW copy, NEW one, ParityOf(stateDB, receipts, pending, copy, one)
    PROVE  flushPrivacyBatch.st = one.st /\ flushPrivacyBatch.receipts = one.receipts
<1>1. flushPrivacyBatch = FlushAll(FlushFrom(stateDB, receipts, verifyPreparedPrivacyBatch(pending)), pending)
  BY Zenon DEF flushPrivacyBatch, FlushFrom
<1>2. verifyPreparedPrivacyBatch(pending) \in BOOLEAN
  BY Zenon DEF verifyPreparedPrivacyBatch
<1>3. CASE verifyPreparedPrivacyBatch(pending) = TRUE
  <2>1. flushPrivacyBatch = FlushFrom(one.st, one.receipts, TRUE)
    BY <1>1, <1>3, Zenon DEF ParityOf
  <2> QED BY <2>1 DEF FlushFrom
<1>4. CASE verifyPreparedPrivacyBatch(pending) = FALSE
  <2>1. flushPrivacyBatch = FlushFrom(one.st, one.receipts, FALSE)
    BY <1>1, <1>4, Zenon DEF ParityOf
  <2> QED BY <2>1 DEF FlushFrom
<1> QED BY <1>2, <1>3, <1>4, Zenon

(* A flush spends no nonce twice, whatever the copy was.                   *)
LEMMA FlushIsGood ==
    ASSUME BatchTypes, SpentOnce(stateDB, receipts)
    PROVE  GoodFlush(flushPrivacyBatch)
<1> DEFINE acc == FlushFrom(stateDB, receipts, verifyPreparedPrivacyBatch(pending))
<1>1. flushPrivacyBatch = FlushAll(acc, pending)
  BY Zenon DEF flushPrivacyBatch, FlushFrom
<1>2. acc.st = stateDB /\ acc.receipts = receipts
  BY DEF FlushFrom
<1> HIDE DEF acc
<1>3. GoodFlush(acc)
  BY <1>2, Zenon DEF GoodFlush, BatchTypes
<1>4. pending \in Seq(Prepared) /\ Candidates(pending)
  BY Zenon DEF BatchTypes
<1> QED BY <1>1, <1>3, <1>4, FlushAllGood, Zenon

(* With nothing pending, parity is equality.                               *)
LEMMA ParityNone ==
    ASSUME NEW st, NEW rs, NEW copy, NEW one, st = one.st, rs = one.receipts, copy = one.st
    PROVE  ParityOf(st, rs, <<>>, copy, one)
BY FlushNone, Zenon DEF ParityOf

(* The empty batch is a batch, and verifies.                               *)
LEMMA NothingPending ==
    /\ <<>> \in Seq(Prepared) /\ Candidates(<<>>) /\ verifyPreparedPrivacyBatch(<<>>)
<1>1. <<>> \in Seq(Prepared) /\ DOMAIN <<>> = {}
  OBVIOUS
<1> QED BY <1>1, Zenon DEF Candidates, verifyPreparedPrivacyBatch

(* The speculative copy is a ledger.                                       *)
LEMMA CopiedType ==
    ASSUME BatchTypes
    PROVE  Copied \in Ledgers
BY Zenon DEF BatchTypes, Copied

(* One more candidate keeps parity.                                        *)
LEMMA ParityMore ==
    ASSUME NEW st, NEW rs, NEW cs \in Seq(Prepared), NEW copy \in Ledgers, NEW one, NEW two,
           NEW tx \in Txs, isPrivacyTxType(tx), Preparable(copy, tx),
           ParityOf(st, rs, cs, copy, one),
           two.st = executeSinglePrivacyTx(one.st, tx).st,
           two.receipts = Append(one.receipts, executeSinglePrivacyTx(one.st, tx).receipt)
    PROVE  LET p == preparePrivacyTxState(copy, tx)
           IN  ParityOf(st, rs, Append(cs, p), applyPreparedPrivacyExecution(copy, p), two)
<1> DEFINE p == preparePrivacyTxState(copy, tx)
           ds == Append(cs, p)
           slow == FlushFrom(one.st, one.receipts, FALSE)
           fast == FlushFrom(one.st, one.receipts, TRUE)
<1>1. p \in Prepared
  <2> DEFINE Of(t) == {preparePrivacyTxState(u, t) : u \in Ledgers}
  <2>1. p \in Of(tx)
    OBVIOUS
  <2>2. Prepared = UNION {Of(t) : t \in Txs}
    BY Zenon DEF Prepared
  <2> HIDE DEF Of, p
  <2> QED BY <2>1, <2>2, Zenon
<1>2. p.tx = tx
  BY FreshIsCurrent, Zenon
<1>3. \A acc : FlushAll(acc, ds) = FlushOne(FlushAll(acc, cs), p)
  BY <1>1, FlushMore, Zenon
<1>4. /\ slow.st = one.st /\ slow.receipts = one.receipts /\ slow.fast = FALSE
      /\ fast.st = one.st /\ fast.receipts = one.receipts /\ fast.fast = TRUE
  BY DEF FlushFrom
<1>5. FlushAll(FlushFrom(st, rs, FALSE), cs) = slow
  BY Zenon DEF ParityOf
<1> HIDE DEF p
<1>6. FlushAll(FlushFrom(st, rs, FALSE), ds) = FlushFrom(two.st, two.receipts, FALSE)
  <2> HIDE DEF slow, ds
  <2>1. FlushOne(slow, p) = FlushFrom(two.st, two.receipts, FALSE)
    BY <1>2, <1>4, FlushOneSlow, Zenon DEF FlushFrom
  <2> QED BY <1>3, <1>5, <2>1, Zenon
<1>7. ASSUME verifyPreparedPrivacyBatch(ds)
      PROVE  /\ FlushAll(FlushFrom(st, rs, TRUE), ds) = FlushFrom(two.st, two.receipts, TRUE)
             /\ applyPreparedPrivacyExecution(copy, p) = two.st
  <2>1. verifyPreparedPrivacyBatch(cs) /\ VerifyProofs(p)
    <3>1. /\ Len(cs) + 1 \in DOMAIN ds /\ ds[Len(cs) + 1] = p
          /\ \A i \in DOMAIN cs : i \in DOMAIN ds /\ ds[i] = cs[i]
      BY <1>1
    <3> HIDE DEF ds
    <3> QED BY <1>7, <3>1, Zenon DEF verifyPreparedPrivacyBatch
  <2>2. FlushAll(FlushFrom(st, rs, TRUE), cs) = fast /\ copy = one.st
    BY <2>1, Zenon DEF ParityOf
  <2> DEFINE out == Outcome(applyPreparedPrivacyExecution(one.st, preparePrivacyTxState(one.st, tx)), tx, "success")
  <2>3. executeSinglePrivacyTx(one.st, tx) = out
    <3>1. Current(one.st, preparePrivacyTxState(one.st, tx))
      BY FreshIsCurrent, Zenon
    <3>2. Preparable(one.st, tx) /\ VerifyProofs(preparePrivacyTxState(one.st, tx))
      BY <2>1, <2>2, Zenon DEF p
    <3> QED BY <3>1, <3>2, Zenon DEF executeSinglePrivacyTx
  <2>4. out.st = applyPreparedPrivacyExecution(copy, p)
    <3>1. out.st = applyPreparedPrivacyExecution(one.st, preparePrivacyTxState(one.st, tx))
      BY DEF Outcome
    <3> QED BY <3>1, <2>2, Zenon DEF p
  <2>5. FlushOne(fast, p) = FlushFrom(out.st, Append(one.receipts, out.receipt), TRUE)
    <3> HIDE DEF fast
    <3>1. Preparable(fast.st, p.tx) /\ isPrivacyTxType(p.tx)
      BY <1>2, <1>4, <2>2, Zenon
    <3> QED BY <3>1, <1>2, <1>4, FlushOneFast, Zenon DEF FlushFrom
  <2> HIDE DEF out, fast, ds
  <2> QED BY <1>3, <2>2, <2>3, <2>4, <2>5, Zenon
<1> QED BY <1>6, <1>7, Zenon DEF ParityOf, p

(* The invariant holds at first.                                           *)
LEMMA BatchStart == BatchInit => BatchInv
<1> SUFFICES ASSUME BatchInit PROVE BatchInv
  BY Zenon
<1>1. Opening \in Ledgers /\ \A x \in Owners : Opening.priv[x].nonce = 0
  <2>1. Opening.pub \in [Payers -> Int]
    BY PrivacyAssumption DEF Opening, Payers
  <2>2. Opening.priv \in [Owners -> PrivAccounts] /\ \A x \in Owners : Opening.priv[x].nonce = 0
    BY PrivacyAssumption DEF Opening, PrivAccounts
  <2>3. Opening = [pub |-> Opening.pub, priv |-> Opening.priv]
    BY DEF Opening
  <2> QED BY <2>1, <2>2, <2>3 DEF Ledgers
<1>2. /\ stateDB = Opening /\ receipts = <<>> /\ pending = <<>> /\ pendingState = NoState
      /\ single.st = Opening /\ single.receipts = <<>> /\ done = FALSE
  BY DEF BatchInit
<1>3. BatchTypes
  <2>1. <<>> \in Seq(ReceiptSet)
    OBVIOUS
  <2> QED BY <1>1, <1>2, <2>1, NothingPending, Zenon DEF BatchTypes
<1>4. SpentOnce(stateDB, receipts)
  <2>1. \A x \in Owners : SpentOf(receipts, x) = {}
    BY <1>2 DEF SpentOf
  <2>2. Cardinality({}) = 0 /\ 0..(0 - 1) = {}
    BY FS_EmptySet
  <2> QED BY <1>1, <1>2, <2>1, <2>2, Zenon DEF SpentOnce
<1>5. ParityOf(stateDB, receipts, pending, Copied, single)
  BY <1>2, ParityNone, Zenon DEF Copied
<1> QED BY <1>2, <1>3, <1>4, <1>5, Zenon DEF BatchInv

(* What the reference does in a step.                                      *)
LEMMA ReferenceStep ==
    ASSUME NEW tx, Reference(tx)
    PROVE  /\ single'.st = ExecuteOne(single.st, tx).st
           /\ single'.receipts = Append(single.receipts, ExecuteOne(single.st, tx).receipt)
           /\ single'.stale = (single.stale \/ (~isPrivacyTxType(tx) /\ FlushedCopy # NoState))
           /\ single'.self = (single.self \/ SelfTransfer(tx))
BY Zenon DEF Reference, SelfTransfer

(* One-by-one execution has good outcomes too.                             *)
LEMMA ReferenceGood ==
    ASSUME NEW st \in Ledgers, NEW tx \in Txs
    PROVE  /\ GoodOutcome(st, ExecuteOne(st, tx))
           /\ ~SelfTransfer(tx) => Total(ExecuteOne(st, tx).st) = Total(st)
           /\ isPrivacyTxType(tx) => ExecuteOne(st, tx) = executeSinglePrivacyTx(st, tx)
           /\ ~isPrivacyTxType(tx) => ExecuteOne(st, tx) = publicExecutionResult(st, tx)
BY SingleOutcome, PublicOutcome, Zenon DEF ExecuteOne

(* A transaction joins the batch.                                          *)
LEMMA BatchedStep ==
    ASSUME BatchInv, NEW tx \in Txs, Batched(tx)
    PROVE  BatchInv'
<1> DEFINE p == preparePrivacyTxState(Copied, tx)
           nst == applyPreparedPrivacyExecution(Copied, p)
<1>1. /\ ~done /\ isPrivacyTxType(tx) /\ Preparable(Copied, tx)
      /\ pending' = Append(pending, p) /\ pendingState' = nst /\ Reference(tx)
      /\ stateDB' = stateDB /\ receipts' = receipts /\ done' = done
  BY Zenon DEF Batched, Open
<1>2. Copied \in Ledgers /\ BatchTypes /\ single.st \in Ledgers
  BY CopiedType, Zenon DEF BatchInv, BatchTypes
<1>3. nst \in Ledgers
  BY <1>1, <1>2, PrivacyApplies, Zenon DEF Applies
<1>4. nst # NoState
  BY <1>3, LedgerNotNone, Zenon
<1>5. p.tx = tx /\ p \in Prepared
  <2> DEFINE Of(t) == {preparePrivacyTxState(u, t) : u \in Ledgers}
  <2>1. p \in Of(tx)
    BY <1>2
  <2>2. Prepared = UNION {Of(t) : t \in Txs}
    BY Zenon DEF Prepared
  <2>3. p.tx = tx
    BY <1>1, FreshIsCurrent, Zenon
  <2> HIDE DEF Of, p
  <2> QED BY <2>1, <2>2, <2>3, Zenon
<1>6. /\ single'.st = executeSinglePrivacyTx(single.st, tx).st
      /\ single'.receipts = Append(single.receipts, executeSinglePrivacyTx(single.st, tx).receipt)
      /\ single'.stale = (single.stale \/ (~isPrivacyTxType(tx) /\ FlushedCopy # NoState))
      /\ single'.self = (single.self \/ SelfTransfer(tx))
  BY <1>1, <1>2, ReferenceStep, ReferenceGood, Zenon
<1>7. single'.st \in Ledgers /\ (~SelfTransfer(tx) => Total(single'.st) = Total(single.st))
  BY <1>1, <1>2, <1>6, SingleOutcome, Zenon DEF GoodOutcome
<1>8. Copied' = nst
  BY <1>1, <1>4, Zenon DEF Copied
<1>9. pending \in Seq(Prepared) /\ Candidates(pending)
  BY <1>2, Zenon DEF BatchTypes
<1> HIDE DEF p, nst
<1>10. pending' \in Seq(Prepared) /\ Candidates(pending')
  <2>1. /\ pending' \in Seq(Prepared)
        /\ \A i \in DOMAIN pending' : (i \in DOMAIN pending /\ pending'[i] = pending[i]) \/ pending'[i] = p
    BY <1>1, <1>5, <1>9
  <2> QED BY <2>1, <1>1, <1>5, <1>9, Zenon DEF Candidates
<1>11. BatchTypes'
  BY <1>1, <1>2, <1>3, <1>4, <1>7, <1>10, Zenon DEF BatchTypes
<1>12. SpentOnce(stateDB', receipts')
  BY <1>1, Zenon DEF BatchInv
<1>13. ASSUME ~single'.stale
       PROVE  /\ ParityOf(stateDB', receipts', pending', Copied', single')
              /\ ~single'.self => Total(stateDB') = Total(Opening) /\ Total(single'.st) = Total(Opening)
  <2>1. ~single.stale
    BY <1>6, <1>13, Zenon
  <2>2. ParityOf(stateDB, receipts, pending, Copied, single)
    BY <2>1, Zenon DEF BatchInv
  <2>3. ParityOf(stateDB, receipts, Append(pending, p), nst, single')
    BY <1>1, <1>2, <1>6, <1>9, <2>2, ParityMore, Zenon DEF p, nst
  <2>4. ~single'.self => Total(stateDB') = Total(Opening) /\ Total(single'.st) = Total(Opening)
    BY <1>1, <1>6, <1>7, <2>1, Zenon DEF BatchInv
  <2> QED BY <1>1, <1>8, <2>3, <2>4, Zenon
<1> QED BY <1>11, <1>12, <1>13, Zenon DEF BatchInv

(* A transaction is executed after a flush.                                *)
LEMMA AfterFlush ==
    ASSUME BatchInv, NEW tx \in Txs, Reference(tx),
           stateDB' = ExecuteOne(flushPrivacyBatch.st, tx).st,
           receipts' = Append(flushPrivacyBatch.receipts, ExecuteOne(flushPrivacyBatch.st, tx).receipt),
           pending' = <<>>, pendingState' \in Ledgers \cup {NoState}, done' = done,
           ~single.stale /\ ~single'.stale => pendingState' = NoState \/ pendingState' = single'.st
    PROVE  BatchInv'
<1> DEFINE flush == flushPrivacyBatch
           out == ExecuteOne(flush.st, tx)
<1>1. BatchTypes /\ SpentOnce(stateDB, receipts) /\ single.st \in Ledgers
  BY Zenon DEF BatchInv, BatchTypes
<1>2. flush.st \in Ledgers /\ flush.receipts \in Seq(ReceiptSet) /\ SpentOnce(flush.st, flush.receipts)
  BY <1>1, FlushIsGood, Zenon DEF GoodFlush
<1> HIDE DEF flush
<1>3. GoodOutcome(flush.st, out)
  BY <1>2, ReferenceGood, Zenon
<1>4. stateDB' = out.st /\ receipts' = Append(flush.receipts, out.receipt)
  BY Zenon DEF flush
<1> HIDE DEF out
<1>5. /\ stateDB' \in Ledgers /\ receipts' \in Seq(ReceiptSet) /\ SpentOnce(stateDB', receipts')
  BY <1>2, <1>3, <1>4, GoodMore, Zenon DEF GoodOutcome
<1>6. /\ single'.st = ExecuteOne(single.st, tx).st
      /\ single'.receipts = Append(single.receipts, ExecuteOne(single.st, tx).receipt)
      /\ single'.stale = (single.stale \/ (~isPrivacyTxType(tx) /\ FlushedCopy # NoState))
      /\ single'.self = (single.self \/ SelfTransfer(tx))
  BY ReferenceStep, Zenon
<1>7. single'.st \in Ledgers /\ (~SelfTransfer(tx) => Total(single'.st) = Total(single.st))
  BY <1>1, <1>6, ReferenceGood, Zenon DEF GoodOutcome
<1>8. BatchTypes'
  BY <1>5, <1>7, NothingPending, Zenon DEF BatchTypes
<1>9. ASSUME ~single'.stale
      PROVE  /\ ParityOf(stateDB', receipts', pending', Copied', single')
             /\ ~single'.self => Total(stateDB') = Total(Opening) /\ Total(single'.st) = Total(Opening)
  <2>1. ~single.stale
    BY <1>6, <1>9, Zenon
  <2>2. ParityOf(stateDB, receipts, pending, Copied, single)
    BY <2>1, Zenon DEF BatchInv
  <2>3. flush.st = single.st /\ flush.receipts = single.receipts
    BY <2>2, FlushParity, Zenon DEF flush
  <2>4. stateDB' = single'.st /\ receipts' = single'.receipts
    BY <1>4, <1>6, <2>3, Zenon DEF out
  <2>5. Copied' = single'.st
    BY <1>9, <2>1, <2>4, Zenon DEF Copied
  <2>6. ParityOf(stateDB', receipts', pending', Copied', single')
    BY <2>4, <2>5, ParityNone, Zenon
  <2>7. ~single'.self => Total(single'.st) = Total(Opening)
    BY <1>6, <1>7, <2>1, Zenon DEF BatchInv
  <2> QED BY <2>4, <2>6, <2>7, Zenon
<1> QED BY <1>5, <1>8, <1>9, Zenon DEF BatchInv

(* A privacy transaction that does not prepare keeps the invariant.        *)
LEMMA AloneStep ==
    ASSUME BatchInv, NEW tx \in Txs, ExecutedAlone(tx)
    PROVE  BatchInv'
<1>1. /\ ~done /\ isPrivacyTxType(tx) /\ ~Preparable(Copied, tx)
      /\ stateDB' = executeSinglePrivacyTx(flushPrivacyBatch.st, tx).st
      /\ receipts' = Append(flushPrivacyBatch.receipts, executeSinglePrivacyTx(flushPrivacyBatch.st, tx).receipt)
      /\ pendingState' = IF pending = <<>> THEN Copied ELSE NoState
      /\ pending' = <<>> /\ Reference(tx) /\ done' = done
  BY Zenon DEF ExecutedAlone, Open
<1>2. \A st : ExecuteOne(st, tx) = executeSinglePrivacyTx(st, tx)
  BY <1>1, Zenon DEF ExecuteOne
<1>3. BatchTypes /\ Copied \in Ledgers /\ single.st \in Ledgers
  BY CopiedType, Zenon DEF BatchInv, BatchTypes
<1>4. ASSUME ~single.stale, pending = <<>> PROVE Copied = single'.st
  <2>1. ParityOf(stateDB, receipts, <<>>, Copied, single)
    BY <1>4, Zenon DEF BatchInv
  <2>2. Copied = single.st
    BY <2>1, NothingPending, Zenon DEF ParityOf
  <2>3. executeSinglePrivacyTx(single.st, tx).st = single.st
    BY <1>1, <1>3, <2>2, SingleOutcome, Zenon
  <2>4. single'.st = executeSinglePrivacyTx(single.st, tx).st
    BY <1>1, <1>2, ReferenceStep, Zenon
  <2> QED BY <2>2, <2>3, <2>4, Zenon
<1>5. ~single.stale /\ ~single'.stale => pendingState' = NoState \/ pendingState' = single'.st
  BY <1>1, <1>4, Zenon
<1>6. pendingState' \in Ledgers \cup {NoState}
  BY <1>1, <1>3, Zenon
<1>7. /\ stateDB' = ExecuteOne(flushPrivacyBatch.st, tx).st
      /\ receipts' = Append(flushPrivacyBatch.receipts, ExecuteOne(flushPrivacyBatch.st, tx).receipt)
      /\ pending' = <<>> /\ Reference(tx) /\ done' = done
  BY <1>1, <1>2, Zenon
<1> QED BY <1>5, <1>6, <1>7, AfterFlush, Zenon

(* Flushing and executing a public transaction keep the invariant.         *)
LEMMA PublicStep ==
    ASSUME BatchInv, NEW tx \in Txs, ExecutedPublic(tx)
    PROVE  BatchInv'
<1>1. /\ ~done /\ ~isPrivacyTxType(tx)
      /\ stateDB' = publicExecutionResult(flushPrivacyBatch.st, tx).st
      /\ receipts' = Append(flushPrivacyBatch.receipts, publicExecutionResult(flushPrivacyBatch.st, tx).receipt)
      /\ pendingState' = FlushedCopy
      /\ pending' = <<>> /\ Reference(tx) /\ done' = done
  BY Zenon DEF ExecutedPublic, Open
<1>2. \A st : ExecuteOne(st, tx) = publicExecutionResult(st, tx)
  BY <1>1, Zenon DEF ExecuteOne
<1>3. FlushedCopy \in Ledgers \cup {NoState}
  BY Zenon DEF FlushedCopy, BatchInv, BatchTypes
<1>4. ~single'.stale => FlushedCopy = NoState
  BY <1>1, ReferenceStep, Zenon
<1>5. ~single.stale /\ ~single'.stale => pendingState' = NoState \/ pendingState' = single'.st
  BY <1>1, <1>4, Zenon
<1>6. pendingState' \in Ledgers \cup {NoState}
  BY <1>1, <1>3, Zenon
<1>7. /\ stateDB' = ExecuteOne(flushPrivacyBatch.st, tx).st
      /\ receipts' = Append(flushPrivacyBatch.receipts, ExecuteOne(flushPrivacyBatch.st, tx).receipt)
      /\ pending' = <<>> /\ Reference(tx) /\ done' = done
  BY <1>1, <1>2, Zenon
<1> QED BY <1>5, <1>6, <1>7, AfterFlush, Zenon

(* Flushing at the end of the block keeps the invariant.                   *)
LEMMA FinishStep ==
    ASSUME BatchInv, Finish
    PROVE  BatchInv'
<1>1. /\ stateDB' = flushPrivacyBatch.st /\ receipts' = flushPrivacyBatch.receipts
      /\ pending' = <<>> /\ pendingState' = NoState /\ single' = single
  BY Zenon DEF Finish
<1>2. BatchTypes /\ SpentOnce(stateDB, receipts) /\ single.st \in Ledgers
  BY Zenon DEF BatchInv, BatchTypes
<1>3. /\ stateDB' \in Ledgers /\ receipts' \in Seq(ReceiptSet) /\ SpentOnce(stateDB', receipts')
  BY <1>1, <1>2, FlushIsGood, Zenon DEF GoodFlush
<1>4. BatchTypes'
  BY <1>1, <1>2, <1>3, NothingPending, Zenon DEF BatchTypes
<1>5. ASSUME ~single.stale
      PROVE  /\ ParityOf(stateDB', receipts', pending', Copied', single)
             /\ ~single.self => Total(stateDB') = Total(Opening) /\ Total(single.st) = Total(Opening)
  <2>1. stateDB' = single.st /\ receipts' = single.receipts
    BY <1>1, <1>5, FlushParity, Zenon DEF BatchInv
  <2>2. Copied' = single.st
    BY <1>1, <2>1, Zenon DEF Copied
  <2>3. ParityOf(stateDB', receipts', pending', Copied', single)
    BY <1>1, <2>1, <2>2, ParityNone, Zenon
  <2> QED BY <1>5, <2>1, <2>3, Zenon DEF BatchInv
<1> QED BY <1>1, <1>3, <1>4, <1>5, Zenon DEF BatchInv

(* Every step keeps the invariant.                                         *)
LEMMA BatchStep == BatchInv /\ [BatchNext]_batchVars => BatchInv'
<1> SUFFICES ASSUME BatchInv, [BatchNext]_batchVars PROVE BatchInv'
  BY Zenon
<1>1. CASE \E tx \in Txs : Batched(tx) \/ ExecutedAlone(tx) \/ ExecutedPublic(tx)
  BY <1>1, BatchedStep, AloneStep, PublicStep, Zenon
<1>2. CASE Finish
  BY <1>2, FinishStep, Zenon
<1>3. CASE UNCHANGED batchVars
  BY <1>3, Zenon DEF batchVars, BatchInv, BatchTypes, Copied
<1> QED BY <1>1, <1>2, <1>3, Zenon DEF BatchNext, BlockDone

(* The invariant makes the batches sound.                                  *)
LEMMA BatchInvSound == BatchInv => PrivacySound
<1> SUFFICES ASSUME BatchInv PROVE PrivacySound
  BY Zenon
<1>1. BatchParity
  <2>1. ASSUME ~single.stale, done PROVE stateDB = single.st /\ receipts = single.receipts
    <3>1. ParityOf(stateDB, receipts, <<>>, Copied, single)
      BY <2>1, Zenon DEF BatchInv, BatchTypes
    <3>2. FlushFrom(stateDB, receipts, FALSE) = FlushFrom(single.st, single.receipts, FALSE)
      BY <3>1, FlushNone, Zenon DEF ParityOf
    <3>3. /\ FlushFrom(stateDB, receipts, FALSE).st = FlushFrom(single.st, single.receipts, FALSE).st
          /\ FlushFrom(stateDB, receipts, FALSE).receipts = FlushFrom(single.st, single.receipts, FALSE).receipts
      BY <3>2, Zenon
    <3> QED BY <3>3 DEF FlushFrom
  <2> QED BY <2>1, Zenon DEF BatchParity, EndsAsSingle
<1>2. NonceSpentOnce
  BY Zenon DEF NonceSpentOnce, BatchInv, SpentOnce, SpentOf
<1>3. ValueConserved
  BY Zenon DEF ValueConserved, BatchInv
<1> QED BY <1>1, <1>2, <1>3, Zenon DEF PrivacySound

(* For any owners, transactions and proofs: a block with privacy           *)
(* transactions ends as if each was executed on its own and conserves      *)
(* value, but for a copy left behind and transfers to oneself, and spends  *)
(* every privacy nonce once (executeTransactionsSerial).                   *)
THEOREM PrivacyIsSound == BatchSpec => []PrivacySound
<1>1. BatchInit => BatchInv
  BY BatchStart, Zenon
<1>2. BatchInv /\ [BatchNext]_batchVars => BatchInv'
  BY BatchStep, Zenon
<1>3. BatchInv => PrivacySound
  BY BatchInvSound, Zenon
<1> QED BY <1>1, <1>2, <1>3, PTL DEF BatchSpec
=============================================================================
