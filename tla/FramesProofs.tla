--------------------------- MODULE FramesProofs ---------------------------
(***************************************************************************)
(* Proofs about LvmFrames, for any contracts, balances, gas, costs of the  *)
(* primitives and depth of calls.                                          *)
(***************************************************************************)
EXTENDS LvmFrames, Arithmetic

(* What a state, a snapshot and a frame are made of.                       *)
States ==
    [ops : SUBSET Nat, bal : [Holders -> Int], nonce : [Contracts -> Nat],
     code : SUBSET (Contracts \X Int)]
Batches == [scope : Nat, snap : States \cup {NoBatch.snap}, queue : Seq(Entries)]
FrameSet ==
    [self : Contracts, kind : {"call", "static", "delegate", "entry"}, readonly : BOOLEAN,
     depth : Nat, limit : Nat, ceiling : Int, used : Nat, child : Nat, prim : Nat,
     snap : States, scope : Nat, batch : Batches]

BatchesOf(st) ==
    \A i \in 1..Len(st) : IF InBatch(st[i]) THEN st[i].batch.snap \in States ELSE st[i].batch = NoBatch

(* The gas of the frames st, w of it spent: every frame keeps within its   *)
(* limit, gets no more than its caller had left, and all of them together  *)
(* could not spend more than the transaction has.                          *)
FrameGas(f) == f.ceiling = f.limit - f.child - f.prim /\ Spent(f) <= f.limit
GasOf(st, w) ==
    /\ \A i \in 1..Len(st) : FrameGas(st[i])
    /\ \A i \in 2..Len(st) : st[i].limit <= Available(st[i - 1])
    /\ \A i \in 1..Len(st) : SpentBy(st, i - 1) + st[i].limit <= Gas
    /\ st # <<>> => w = SpentBy(st, Len(st))

(* The rollback levels that are open, from the outermost: a frame's, then  *)
(* its batch's.                                                            *)
FrameLevel(st, i) == [scope |-> st[i].scope, ops |-> st[i].snap.ops, pos |-> 2 * i]
BatchLevel(st, i) ==
    [scope |-> st[i].batch.scope, ops |-> st[i].batch.snap.ops, pos |-> 2 * i + 1]
Batching(st) == {i \in 1..Len(st) : InBatch(st[i])}
Levels(st) ==
    {FrameLevel(st, i) : i \in 1..Len(st)} \cup {BatchLevel(st, i) : i \in Batching(st)}

(* ops are the writes ws, a level's snapshot has those made outside of it, *)
(* and a write made inside of a level was made inside of those around it.  *)
Effects(ops, L, ws) ==
    /\ ops = {w.op : w \in ws}
    /\ \A l \in L : l.scope # 0 /\ l.ops = {w.op : w \in {x \in ws : l.scope \notin x.in}}
    /\ \A l, m \in L : l.scope = m.scope <=> l.pos = m.pos
    /\ \A w \in ws : w.in \subseteq {l.scope : l \in L} \cup {0}
    /\ \A l, m \in L, w \in ws : l.pos < m.pos /\ m.scope \in w.in => l.scope \in w.in

(* Static frames: every frame above one is static as well, none has a      *)
(* batch, and the state is the one they found.                             *)
ReadonlyOf(st, d) ==
    /\ \A i \in 1..Len(st) : st[i].readonly => st[i].snap = d /\ ~InBatch(st[i])
    /\ \A i, j \in 1..Len(st) : i <= j /\ st[i].readonly => st[j].readonly
    /\ \A i \in 1..Len(st) : st[i].kind = "static" => st[i].readonly
    /\ \A i \in 1..Len(st) : st[i].kind = "entry" => i > 1 /\ InBatch(st[i - 1]) /\ ~st[i].readonly

(* The inductive invariant, of the frames st over the state d with the gas *)
(* w spent and the writes ws to keep.                                      *)
Sound(st, d, w, ws) ==
    /\ d \in States
    /\ st \in Seq(FrameSet)
    /\ w \in Nat
    /\ ws \in SUBSET [op : Nat, in : SUBSET Nat]
    /\ IsFiniteSet(ws)
    /\ BatchesOf(st)
    /\ GasOf(st, w)
    /\ Effects(d.ops, Levels(st), ws)
    /\ ReadonlyOf(st, d)

FramesInv ==
    /\ Sound(stack, stateDB, work, writes)
    /\ charged \in Int
    /\ stack = <<>> => work <= charged /\ charged <= Gas

-----------------------------------------------------------------------------
(* Gas.                                                                    *)

(* No frames have spent nothing.                                           *)
LEMMA SpentNone ==
    ASSUME NEW st
    PROVE  SpentBy(st, 0) = 0
<1>1. 1..0 = {}
  OBVIOUS
<1> QED BY <1>1, SumEmpty, Zenon DEF SpentBy

(* One frame more adds what it spent.                                      *)
LEMMA SpentNext ==
    ASSUME NEW st, NEW k \in Nat, \A i \in 1..(k + 1) : Spent(st[i]) \in Nat
    PROVE  /\ SpentBy(st, k) \in Nat
           /\ SpentBy(st, k + 1) = SpentBy(st, k) + Spent(st[k + 1])
<1> DEFINE f == [i \in 1..k |-> Spent(st[i])]
           g == [i \in 1..(k + 1) |-> Spent(st[i])]
<1>1. IsFiniteSet(1..k) /\ 1..(k + 1) = (1..k) \cup {k + 1} /\ k + 1 \notin 1..k
  <2>1. IsFiniteSet(1..k)
    BY FS_Interval
  <2> QED BY <2>1
<1>2. /\ \A i \in 1..k : f[i] \in Nat /\ f[i] \in Int /\ g[i] = f[i]
      /\ \A i \in 1..(k + 1) : g[i] \in Int
      /\ g[k + 1] = Spent(st[k + 1])
  OBVIOUS
<1> HIDE DEF f, g
<1>3. SumFunctionOnSet(f, 1..k) \in Nat
  BY <1>1, <1>2, SumNat, Zenon
<1>4. SumFunctionOnSet(g, 1..k) = SumFunctionOnSet(f, 1..k)
  <2>1. \A i \in 1..k : f[i] \in Int /\ g[i] = f[i]
    BY <1>2, Zenon
  <2> QED BY <1>1, <2>1, SumEqual, Zenon
<1>5. SumFunctionOnSet(g, (1..k) \cup {k + 1}) = SumFunctionOnSet(g, 1..k) + g[k + 1]
  BY <1>1, <1>2, SumAdd, Zenon
<1> QED BY <1>1, <1>2, <1>3, <1>4, <1>5, Zenon DEF SpentBy, f, g

(* The sum depends on what each frame spent only.                          *)
LEMMA SpentSame ==
    ASSUME NEW st, NEW su, NEW k \in Nat, \A i \in 1..k : Spent(su[i]) = Spent(st[i])
    PROVE  SpentBy(su, k) = SpentBy(st, k)
<1>1. [i \in 1..k |-> Spent(su[i])] = [i \in 1..k |-> Spent(st[i])]
  BY Zenon
<1> QED BY <1>1, Zenon DEF SpentBy

(* The counters of a frame are numbers.                                    *)
LEMMA FrameNumbers ==
    ASSUME NEW f \in FrameSet
    PROVE  /\ f.used \in Nat /\ f.child \in Nat /\ f.prim \in Nat /\ f.limit \in Nat
           /\ f.ceiling \in Int
           /\ Spent(f) \in Nat
<1>1. /\ f.used \in Nat /\ f.child \in Nat /\ f.prim \in Nat /\ f.limit \in Nat
      /\ f.ceiling \in Int
  BY Zenon DEF FrameSet
<1> QED BY <1>1 DEF Spent

(* The running frame changed, its limit did not.                           *)
LEMMA GasTop ==
    ASSUME NEW st \in Seq(FrameSet), NEW w \in Nat, GasOf(st, w), st # <<>>,
           NEW n, n = Len(st),
           NEW g \in FrameSet, FrameGas(g), g.limit = st[n].limit,
           NEW d \in Nat, Spent(g) = Spent(st[n]) + d
    PROVE  GasOf([st EXCEPT ![n] = g], w + d)
<1> DEFINE su == [st EXCEPT ![n] = g]
<1>1. /\ n \in Nat \ {0} /\ su \in Seq(FrameSet) /\ Len(su) = n /\ su[n] = g
      /\ \A i \in 1..(n - 1) : su[i] = st[i]
      /\ \A i \in 1..n : st[i] \in FrameSet /\ su[i] \in FrameSet
  OBVIOUS
<1>2. \A f \in FrameSet : Spent(f) \in Nat /\ f.limit \in Nat
  BY FrameNumbers, Zenon
<1> HIDE DEF su
<1>3. \A i \in 1..n : FrameGas(su[i]) /\ su[i].limit = st[i].limit
  <2>1. \A i \in 1..n : FrameGas(st[i])
    BY Zenon DEF GasOf
  <2>2. \A i \in 1..n : i = n \/ i \in 1..(n - 1)
    BY <1>1
  <2> QED BY <1>1, <2>1, <2>2, Zenon
<1>4. \A i \in 2..n : su[i].limit <= Available(su[i - 1])
  <2>1. \A i \in 2..n : su[i - 1] = st[i - 1] /\ st[i].limit <= Available(st[i - 1])
    BY <1>1 DEF GasOf
  <2> QED BY <1>3, <2>1
<1>5. \A i \in 1..n : SpentBy(su, i - 1) = SpentBy(st, i - 1)
  <2> TAKE i \in 1..n
  <2>1. i - 1 \in Nat /\ \A j \in 1..(i - 1) : Spent(su[j]) = Spent(st[j])
    BY <1>1
  <2> QED BY <2>1, SpentSame, Zenon
<1>6. \A i \in 1..n : SpentBy(su, i - 1) + su[i].limit <= Gas
  BY <1>1, <1>3, <1>5, Zenon DEF GasOf
<1>7. w + d = SpentBy(su, n)
  <2> DEFINE k == n - 1
  <2>1. k \in Nat /\ k + 1 = n
    BY <1>1
  <2>2. SpentBy(su, k) = SpentBy(st, k)
    BY <1>1, <1>5
  <2> HIDE DEF k
  <2>a. \A i \in 1..(k + 1) : Spent(st[i]) \in Nat /\ Spent(su[i]) \in Nat
    BY <1>1, <1>2, <2>1, Zenon
  <2>3. /\ SpentBy(st, k) \in Nat
        /\ SpentBy(st, n) = SpentBy(st, k) + Spent(st[n])
    BY <2>1, <2>a, SpentNext, Zenon
  <2>4. SpentBy(su, n) = SpentBy(su, k) + Spent(su[n])
    BY <2>1, <2>a, SpentNext, Zenon
  <2>5. w = SpentBy(st, n)
    BY <1>1, Zenon DEF GasOf
  <2>6. Spent(st[n]) \in Nat
    BY <1>1, <1>2
  <2> QED BY <1>1, <2>2, <2>3, <2>4, <2>5, <2>6
<1>8. GasOf(su, w + d)
  BY <1>1, <1>3, <1>4, <1>6, <1>7, Zenon DEF GasOf
<1> QED BY <1>8, Zenon DEF su

(* A callee gets some of what its caller has left.                         *)
LEMMA GasPush ==
    ASSUME NEW st \in Seq(FrameSet), NEW w \in Nat, GasOf(st, w), st # <<>>,
           NEW c \in FrameSet, FrameGas(c), Spent(c) = 0, c.limit <= Available(st[Len(st)])
    PROVE  GasOf(Append(st, c), w)
<1> DEFINE su == Append(st, c)
           n == Len(st)
<1>1. /\ n \in Nat \ {0} /\ su \in Seq(FrameSet) /\ Len(su) = n + 1 /\ su[n + 1] = c
      /\ \A i \in 1..n : su[i] = st[i]
      /\ \A i \in 1..n : st[i] \in FrameSet
      /\ \A i \in 1..(n + 1) : su[i] \in FrameSet
      /\ c.limit <= Available(st[n])
  OBVIOUS
<1>2. \A f \in FrameSet : Spent(f) \in Nat /\ f.limit \in Nat
  BY FrameNumbers, Zenon
<1>a. w = SpentBy(st, n)
  BY <1>1, Zenon DEF GasOf
<1> HIDE DEF su, n
<1>b. n = Len(st)
  BY Zenon DEF n
<1>3. \A i \in 1..(n + 1) : FrameGas(su[i])
  BY <1>1, <1>b DEF GasOf
<1>4. \A i \in 2..(n + 1) : su[i].limit <= Available(su[i - 1])
  <2> TAKE i \in 2..(n + 1)
  <2>1. CASE i = n + 1
    BY <1>1, <2>1
  <2>2. CASE i # n + 1
    <3>1. i \in 2..n /\ su[i - 1] = st[i - 1] /\ su[i] = st[i]
      BY <1>1, <2>2
    <3> QED BY <1>b, <3>1, Zenon DEF GasOf
  <2> QED BY <2>1, <2>2, Zenon
<1>5. \A k \in 0..n : SpentBy(su, k) = SpentBy(st, k)
  <2> TAKE k \in 0..n
  <2>1. k \in Nat /\ \A j \in 1..k : Spent(su[j]) = Spent(st[j])
    BY <1>1
  <2> QED BY <2>1, SpentSame, Zenon
<1>6. SpentBy(st, n) + c.limit <= Gas
  <2> DEFINE k == n - 1
  <2>1. k \in Nat /\ k + 1 = n
    BY <1>1
  <2>2. SpentBy(st, k) + st[n].limit <= Gas
    BY <1>1, <1>b DEF GasOf
  <2> HIDE DEF k
  <2>3. /\ SpentBy(st, k) \in Nat
        /\ SpentBy(st, n) = SpentBy(st, k) + Spent(st[n])
    BY <1>1, <1>2, <2>1, SpentNext, Zenon
  <2>4. Spent(st[n]) \in Nat /\ st[n].limit \in Nat /\ c.limit \in Nat
    BY <1>1, <1>2
  <2>5. c.limit <= st[n].limit - Spent(st[n])
    BY <1>1, Zenon DEF Available
  <2>6. Gas \in Nat
    BY FramesAssumption, Zenon
  <2> QED BY <2>2, <2>3, <2>4, <2>5, <2>6
<1>7. \A i \in 1..(n + 1) : SpentBy(su, i - 1) + su[i].limit <= Gas
  <2> TAKE i \in 1..(n + 1)
  <2>0. SpentBy(su, i - 1) = SpentBy(st, i - 1)
    BY <1>1, <1>5
  <2>1. CASE i = n + 1
    BY <1>1, <1>6, <2>0, <2>1
  <2>2. CASE i # n + 1
    <3>1. i \in 1..n /\ su[i] = st[i]
      BY <1>1, <2>2
    <3> QED BY <1>b, <2>0, <3>1, Zenon DEF GasOf
  <2> QED BY <2>1, <2>2, Zenon
<1>8. w = SpentBy(su, n + 1)
  <2>1. SpentBy(su, n + 1) = SpentBy(su, n) + Spent(su[n + 1]) /\ SpentBy(su, n) \in Nat
    BY <1>1, <1>2, SpentNext, Zenon
  <2> QED BY <1>1, <1>5, <1>a, <2>1
<1>9. GasOf(su, w)
  BY <1>1, <1>3, <1>4, <1>7, <1>8, Zenon DEF GasOf
<1> QED BY <1>9, Zenon DEF su

(* A frame ends and its caller takes over what it spent.                   *)
LEMMA GasPop ==
    ASSUME NEW st \in Seq(FrameSet), NEW w \in Nat, GasOf(st, w), NEW n, n = Len(st), n > 1
    PROVE  /\ Spent(st[n - 1]) + Spent(st[n]) <= st[n - 1].limit
           /\ \A p \in FrameSet :
                 /\ FrameGas(p) /\ p.limit = st[n - 1].limit
                 /\ Spent(p) = Spent(st[n - 1]) + Spent(st[n])
                 => GasOf([SubSeq(st, 1, n - 1) EXCEPT ![n - 1] = p], w)
<1> DEFINE m == n - 1
           sb == SubSeq(st, 1, m)
<1>1. /\ n \in Nat /\ m \in Nat \ {0} /\ m + 1 = n
      /\ sb \in Seq(FrameSet) /\ Len(sb) = m
      /\ \A i \in 1..m : sb[i] = st[i]
      /\ \A i \in 1..n : st[i] \in FrameSet
      /\ \A i \in 1..m : sb[i] \in FrameSet
  OBVIOUS
<1>2. \A f \in FrameSet : Spent(f) \in Nat /\ f.limit \in Nat
  BY FrameNumbers, Zenon
<1> HIDE DEF m, sb
<1>3. Spent(st[m]) + Spent(st[n]) <= st[m].limit
  <2>1. n \in 2..Len(st) /\ n - 1 = m
    BY <1>1 DEF m
  <2>2. st[n].limit <= st[m].limit - Spent(st[m]) /\ Spent(st[n]) <= st[n].limit
    BY <1>1, <2>1 DEF GasOf, Available, FrameGas
  <2> QED BY <1>1, <1>2, <2>2
<1>4. ASSUME NEW p \in FrameSet, FrameGas(p), p.limit = st[m].limit,
             Spent(p) = Spent(st[m]) + Spent(st[n])
      PROVE  GasOf([sb EXCEPT ![m] = p], w)
  <2>1. \A k \in 0..m : SpentBy(sb, k) = SpentBy(st, k)
    <3> TAKE k \in 0..m
    <3>1. k \in Nat /\ \A j \in 1..k : Spent(sb[j]) = Spent(st[j])
      BY <1>1
    <3> QED BY <3>1, SpentSame, Zenon
  <2>2. SpentBy(st, n) = SpentBy(st, m) + Spent(st[n]) /\ SpentBy(st, m) \in Nat
    BY <1>1, <1>2, SpentNext
  <2>3. w = SpentBy(st, n)
    BY <1>1 DEF GasOf
  <2>4. GasOf(sb, SpentBy(sb, m))
    <3>1. \A i \in 1..m : FrameGas(sb[i])
      BY <1>1 DEF GasOf
    <3>2. \A i \in 2..m : sb[i].limit <= Available(sb[i - 1])
      <4> TAKE i \in 2..m
      <4>1. sb[i] = st[i] /\ sb[i - 1] = st[i - 1] /\ i \in 2..Len(st)
        BY <1>1
      <4> QED BY <4>1, Zenon DEF GasOf
    <3>3. \A i \in 1..m : SpentBy(sb, i - 1) + sb[i].limit <= Gas
      <4> TAKE i \in 1..m
      <4>1. sb[i] = st[i] /\ SpentBy(sb, i - 1) = SpentBy(st, i - 1) /\ i \in 1..Len(st)
        BY <1>1, <2>1
      <4> QED BY <4>1, Zenon DEF GasOf
    <3> QED BY <1>1, <3>1, <3>2, <3>3, Zenon DEF GasOf
  <2>5. SpentBy(sb, m) \in Nat /\ SpentBy(sb, m) + Spent(st[n]) = w /\ Spent(st[n]) \in Nat
    BY <1>1, <1>2, <2>1, <2>2, <2>3
  <2>6. sb # <<>> /\ sb[m] = st[m] /\ m = Len(sb)
    BY <1>1
  <2>7. GasOf([sb EXCEPT ![m] = p], SpentBy(sb, m) + Spent(st[n]))
    BY <1>1, <1>4, <2>4, <2>5, <2>6, GasTop, Zenon
  <2> QED BY <2>5, <2>7, Zenon
<1> QED BY <1>3, <1>4, Zenon DEF m, sb

-----------------------------------------------------------------------------
(* Levels.                                                                 *)

(* A write inside of all levels.                                           *)
LEMMA EffectsWrite ==
    ASSUME NEW ops, NEW L, NEW ws, Effects(ops, L, ws), NEW o, NEW S,
           {l.scope : l \in L} \subseteq S, S \subseteq {l.scope : l \in L} \cup {0}
    PROVE  Effects(ops \cup {o}, L, ws \cup {[op |-> o, in |-> S]})
<1> DEFINE v == [op |-> o, in |-> S]
           wt == ws \cup {v}
<1>1. v.op = o /\ v.in = S /\ \A l \in L : l.scope \in v.in
  BY Zenon
<1> HIDE DEF v
<1>2. ops \cup {o} = {w.op : w \in wt}
  BY <1>1 DEF Effects
<1>3. \A l \in L : l.scope # 0 /\ l.ops = {w.op : w \in {x \in wt : l.scope \notin x.in}}
  <2> TAKE l \in L
  <2>1. {x \in wt : l.scope \notin x.in} = {x \in ws : l.scope \notin x.in}
    BY <1>1, Zenon
  <2> QED BY <2>1, Zenon DEF Effects
<1>4. \A w \in wt : w.in \subseteq {l.scope : l \in L} \cup {0}
  BY <1>1, Zenon DEF Effects
<1>5. \A l, m \in L, w \in wt : l.pos < m.pos /\ m.scope \in w.in => l.scope \in w.in
  BY <1>1, Zenon DEF Effects
<1>6. Effects(ops \cup {o}, L, wt)
  BY <1>2, <1>3, <1>4, <1>5, Zenon DEF Effects
<1> QED BY <1>6, Zenon DEF v

(* A level is opened inside of the others.                                 *)
LEMMA EffectsOpen ==
    ASSUME NEW ops, NEW L, NEW ws, Effects(ops, L, ws), NEW k,
           k.scope # 0, k.ops = ops, k.pos \in Int,
           \A l \in L : l.scope # k.scope /\ l.pos \in Int /\ l.pos < k.pos
    PROVE  Effects(ops, L \cup {k}, ws)
<1> DEFINE K == L \cup {k}
<1>1. \A w \in ws : k.scope \notin w.in
  BY DEF Effects
<1>2. \A l \in K : l.scope # 0 /\ l.ops = {w.op : w \in {x \in ws : l.scope \notin x.in}}
  <2>1. {x \in ws : k.scope \notin x.in} = ws
    BY <1>1, Zenon
  <2> QED BY <2>1, Zenon DEF Effects
<1>3. \A l, m \in K : l.scope = m.scope <=> l.pos = m.pos
  BY DEF Effects
<1>4. \A w \in ws : w.in \subseteq {l.scope : l \in K} \cup {0}
  BY DEF Effects
<1>5. \A l, m \in K, w \in ws : l.pos < m.pos /\ m.scope \in w.in => l.scope \in w.in
  <2> TAKE l, m \in K, w \in ws
  <2>1. CASE m = k
    BY <1>1, <2>1, Zenon
  <2>2. CASE m \in L
    <3>1. ASSUME l = k PROVE ~(l.pos < m.pos)
      BY <2>2, <3>1
    <3> QED BY <2>2, <3>1, Zenon DEF Effects
  <2> QED BY <2>1, <2>2, Zenon
<1> QED BY <1>2, <1>3, <1>4, <1>5, Zenon DEF Effects

Outside(L, k) == {l \in L : l.pos < k.pos}

(* The writes when the scope s ends, and when the scopes C fail.           *)
PassedOn(ws, s) == {[w EXCEPT !.in = @ \ {s}] : w \in ws}
Dropped(ws, C) == {w \in ws : w.in \cap C = {}}

(* The innermost level ends and keeps its writes.                          *)
LEMMA EffectsKeep ==
    ASSUME NEW ops, NEW L, NEW ws \in SUBSET [op : Nat, in : SUBSET Nat], Effects(ops, L, ws),
           NEW k \in L, \A l \in L : l.pos \in Int /\ l.pos <= k.pos
    PROVE  Effects(ops, Outside(L, k), PassedOn(ws, k.scope))
<1> DEFINE M == Outside(L, k)
           less(w) == [w EXCEPT !.in = @ \ {k.scope}]
           wt == {less(w) : w \in ws}
<1>1. \A w \in ws : less(w).op = w.op /\ less(w).in = w.in \ {k.scope}
  BY Zenon
<1>2. \A l \in M : l \in L /\ l.scope # k.scope
  BY DEF Effects, Outside
<1>3. \A l \in L : l \in M \/ l.scope = k.scope
  BY DEF Effects, Outside
<1> HIDE DEF less
<1>4. ops = {w.op : w \in wt}
  BY <1>1 DEF Effects
<1>5. \A l \in M : l.scope # 0 /\ l.ops = {w.op : w \in {x \in wt : l.scope \notin x.in}}
  <2> TAKE l \in M
  <2>1. {w.op : w \in {x \in wt : l.scope \notin x.in}} = {w.op : w \in {x \in ws : l.scope \notin x.in}}
    BY <1>1, <1>2
  <2> QED BY <1>2, <2>1, Zenon DEF Effects
<1>6. \A l, m \in M : l.scope = m.scope <=> l.pos = m.pos
  BY <1>2 DEF Effects
<1>7. \A w \in wt : w.in \subseteq {l.scope : l \in M} \cup {0}
  <2> SUFFICES ASSUME NEW w \in ws, NEW x \in less(w).in, x # 0 PROVE x \in {l.scope : l \in M}
    BY Zenon
  <2>1. x \in w.in /\ x # k.scope
    BY <1>1, Zenon
  <2>2. \E l \in L : x = l.scope
    BY <2>1, Zenon DEF Effects
  <2> QED BY <1>3, <2>1, <2>2, Zenon
<1>8. \A l, m \in M, w \in wt : l.pos < m.pos /\ m.scope \in w.in => l.scope \in w.in
  <2> SUFFICES ASSUME NEW l \in M, NEW m \in M, NEW w \in ws, l.pos < m.pos, m.scope \in less(w).in
               PROVE  l.scope \in less(w).in
    BY Zenon
  <2>1. m.scope \in w.in
    BY <1>1, Zenon
  <2>2. l.scope \in w.in
    BY <1>2, <2>1, Zenon DEF Effects
  <2> QED BY <1>1, <1>2, <2>2, Zenon
<1> HIDE DEF M, wt
<1>9. Effects(ops, M, wt)
  BY <1>4, <1>5, <1>6, <1>7, <1>8, Zenon DEF Effects
<1> QED BY <1>9, Zenon DEF M, wt, less, PassedOn

(* A level fails, with all that is inside of it.                           *)
LEMMA EffectsUndo ==
    ASSUME NEW ops, NEW L, NEW ws, Effects(ops, L, ws), NEW k \in L,
           \A l \in L : l.pos \in Int,
           NEW C, k.scope \in C,
           \A c \in C : c = k.scope \/ \E l \in L : k.pos < l.pos /\ l.scope = c
    PROVE  Effects(k.ops, Outside(L, k), Dropped(ws, C))
<1> DEFINE M == Outside(L, k)
           wt == {w \in ws : w.in \cap C = {}}
<1>1. \A w \in ws : w \in wt <=> k.scope \notin w.in
  BY DEF Effects
<1>2. \A l \in M : l \in L /\ l.pos < k.pos
  BY Zenon DEF Outside
<1>3. \A l \in L : l \in M \/ l.scope = k.scope \/ k.pos < l.pos
  BY DEF Effects, Outside
<1>a. wt \subseteq ws
  BY Zenon
<1> HIDE DEF wt, M
<1>4. k.ops = {w.op : w \in wt}
  BY <1>1, <1>a DEF Effects
<1>5. \A l \in M : l.scope # 0 /\ l.ops = {w.op : w \in {x \in wt : l.scope \notin x.in}}
  <2> TAKE l \in M
  <2>1. \A x \in ws : l.scope \notin x.in => x \in wt
    BY <1>1, <1>2, Zenon DEF Effects
  <2>2. {x \in wt : l.scope \notin x.in} = {x \in ws : l.scope \notin x.in}
    BY <2>1, <1>a, Zenon
  <2> QED BY <1>2, <2>2 DEF Effects
<1>6. \A l, m \in M : l.scope = m.scope <=> l.pos = m.pos
  BY <1>2 DEF Effects
<1>7. \A w \in wt : w.in \subseteq {l.scope : l \in M} \cup {0}
  <2> SUFFICES ASSUME NEW w \in wt, NEW x \in w.in, x # 0 PROVE x \in {l.scope : l \in M}
    BY Zenon
  <2>1. w \in ws /\ k.scope \notin w.in
    BY <1>1, <1>a, Zenon
  <2>2. PICK l \in L : x = l.scope
    BY <2>1 DEF Effects
  <2>3. ~(k.pos < l.pos)
    BY <2>1, <2>2, Zenon DEF Effects
  <2> QED BY <1>3, <2>1, <2>2, <2>3, Zenon
<1>8. \A l, m \in M, w \in wt : l.pos < m.pos /\ m.scope \in w.in => l.scope \in w.in
  BY <1>2, <1>a, Zenon DEF Effects
<1>9. Effects(k.ops, M, wt)
  BY <1>4, <1>5, <1>6, <1>7, <1>8, Zenon DEF Effects
<1> QED BY <1>9, Zenon DEF M, wt, Dropped


-----------------------------------------------------------------------------
(* The levels of a stack.                                                  *)

(* The fields of a level of the stack.                                     *)
LEMMA LevelFields ==
    ASSUME NEW st, NEW i
    PROVE  /\ FrameLevel(st, i).scope = st[i].scope
           /\ FrameLevel(st, i).ops = st[i].snap.ops
           /\ FrameLevel(st, i).pos = 2 * i
           /\ BatchLevel(st, i).scope = st[i].batch.scope
           /\ BatchLevel(st, i).ops = st[i].batch.snap.ops
           /\ BatchLevel(st, i).pos = 2 * i + 1
BY Zenon DEF FrameLevel, BatchLevel

(* The levels of a stack lie within it.                                    *)
LEMMA LevelPlaces ==
    ASSUME NEW st, NEW n \in Nat, Len(st) = n
    PROVE  /\ \A l \in Levels(st) : l.pos \in Int /\ l.pos <= 2 * n + 1
           /\ \A l \in Levels(st) : (n = 0 \/ ~InBatch(st[n])) => l.pos <= 2 * n
<1> SUFFICES ASSUME NEW l \in Levels(st)
             PROVE  /\ l.pos \in Int /\ l.pos <= 2 * n + 1
                    /\ (n = 0 \/ ~InBatch(st[n])) => l.pos <= 2 * n
  BY Zenon
<1>1. CASE l \in {FrameLevel(st, i) : i \in 1..Len(st)}
  <2>1. PICK i \in 1..n : l = FrameLevel(st, i)
    BY <1>1, Zenon
  <2>2. l.pos = 2 * i
    BY <2>1, LevelFields, Zenon
  <2> QED BY <2>2
<1>2. CASE l \in {BatchLevel(st, i) : i \in Batching(st)}
  <2>1. PICK i \in Batching(st) : l = BatchLevel(st, i)
    BY <1>2, Zenon
  <2>2. l.pos = 2 * i + 1 /\ i \in 1..n /\ InBatch(st[i])
    BY <2>1, LevelFields, Zenon DEF Batching
  <2> QED BY <2>2
<1> QED BY <1>1, <1>2, Zenon DEF Levels

(* Frames that differ in nothing a level takes from them.                  *)
SameLevels(f, g) ==
    /\ g.scope = f.scope /\ g.snap = f.snap
    /\ g.batch.scope = f.batch.scope /\ g.batch.snap = f.batch.snap

(* Frames that differ in their counters only have the same levels.         *)
LEMMA LevelsSame ==
    ASSUME NEW st, NEW su, Len(su) = Len(st), \A i \in 1..Len(st) : SameLevels(st[i], su[i])
    PROVE  Levels(su) = Levels(st)
<1>1. \A i \in 1..Len(st) : FrameLevel(su, i) = FrameLevel(st, i) /\ BatchLevel(su, i) = BatchLevel(st, i)
  BY Zenon DEF SameLevels, FrameLevel, BatchLevel
<1>2. Batching(su) = Batching(st) /\ Batching(st) \subseteq 1..Len(st)
  BY Zenon DEF SameLevels, Batching, InBatch
<1> QED BY <1>1, <1>2, Zenon DEF Levels

(* One frame more.                                                         *)
LEMMA LevelsPush ==
    ASSUME NEW st, NEW su, NEW n \in Nat, Len(st) = n, Len(su) = n + 1,
           \A i \in 1..n : SameLevels(st[i], su[i]), ~InBatch(su[n + 1])
    PROVE  Levels(su) = Levels(st) \cup {FrameLevel(su, n + 1)}
<1>1. \A i \in 1..n : FrameLevel(su, i) = FrameLevel(st, i) /\ BatchLevel(su, i) = BatchLevel(st, i)
  BY Zenon DEF SameLevels, FrameLevel, BatchLevel
<1>2. 1..(n + 1) = (1..n) \cup {n + 1}
  OBVIOUS
<1>3. Batching(su) = Batching(st) /\ Batching(st) \subseteq 1..n
  BY <1>2, Zenon DEF SameLevels, Batching, InBatch
<1> QED BY <1>1, <1>2, <1>3 DEF Levels

(* The running frame opens a batch.                                        *)
LEMMA LevelsBatch ==
    ASSUME NEW st, NEW su, NEW n \in Nat \ {0}, Len(st) = n, Len(su) = n,
           \A i \in 1..(n - 1) : SameLevels(st[i], su[i]),
           su[n].scope = st[n].scope, su[n].snap = st[n].snap,
           ~InBatch(st[n]), InBatch(su[n])
    PROVE  Levels(su) = Levels(st) \cup {BatchLevel(su, n)}
<1>2. 1..n = (1..(n - 1)) \cup {n} /\ n \notin 1..(n - 1)
  OBVIOUS
<1>1. /\ \A i \in 1..n : FrameLevel(su, i) = FrameLevel(st, i)
      /\ \A i \in 1..(n - 1) : BatchLevel(su, i) = BatchLevel(st, i)
  BY <1>2, Zenon DEF SameLevels, FrameLevel, BatchLevel
<1>3. Batching(su) = Batching(st) \cup {n} /\ Batching(st) \subseteq 1..(n - 1)
  BY <1>2 DEF SameLevels, Batching, InBatch
<1> QED BY <1>1, <1>2, <1>3 DEF Levels

(* The levels outside of a frame: those of the frames below it.            *)
LEMMA LevelsPop ==
    ASSUME NEW st, NEW su, NEW n \in Nat \ {0}, n <= Len(st), Len(st) \in Nat, Len(su) = n - 1,
           \A i \in 1..(n - 1) : SameLevels(st[i], su[i])
    PROVE  Levels(su) = Outside(Levels(st), FrameLevel(st, n))
<1>1. \A i \in 1..(n - 1) : FrameLevel(su, i) = FrameLevel(st, i) /\ BatchLevel(su, i) = BatchLevel(st, i)
  BY Zenon DEF SameLevels, FrameLevel, BatchLevel
<1>2. \A i \in 1..(n - 1) : i \in Batching(su) <=> i \in Batching(st)
  BY DEF SameLevels, Batching, InBatch
<1>3. FrameLevel(st, n).pos = 2 * n
  BY LevelFields
<1>4. ASSUME NEW l \in Levels(su) PROVE l \in Levels(st) /\ l.pos < 2 * n
  <2>1. CASE \E i \in 1..(n - 1) : l = FrameLevel(su, i)
    <3>1. PICK i \in 1..(n - 1) : l = FrameLevel(su, i)
      BY <2>1, Zenon
    <3>2. l = FrameLevel(st, i) /\ l.pos = 2 * i
      BY <1>1, <3>1, LevelFields
    <3> QED BY <3>2 DEF Levels
  <2>2. CASE \E i \in Batching(su) : l = BatchLevel(su, i)
    <3>1. PICK i \in Batching(su) : l = BatchLevel(su, i)
      BY <2>2, Zenon
    <3>2. i \in 1..(n - 1) /\ i \in Batching(st)
      BY <1>2, <3>1, Zenon DEF Batching
    <3>3. l = BatchLevel(st, i) /\ l.pos = 2 * i + 1
      BY <1>1, <3>1, <3>2, LevelFields
    <3> QED BY <3>2, <3>3 DEF Levels
  <2> QED BY <1>4, <2>1, <2>2, Zenon DEF Levels
<1>5. ASSUME NEW l \in Levels(st), l.pos < 2 * n PROVE l \in Levels(su)
  <2>1. CASE \E i \in 1..Len(st) : l = FrameLevel(st, i)
    <3>1. PICK i \in 1..Len(st) : l = FrameLevel(st, i)
      BY <2>1, Zenon
    <3>2. i \in 1..(n - 1)
      BY <1>5, <3>1, LevelFields
    <3>3. l = FrameLevel(su, i) /\ i \in 1..Len(su)
      BY <1>1, <3>1, <3>2, Zenon
    <3> QED BY <3>3, Zenon DEF Levels
  <2>2. CASE \E i \in Batching(st) : l = BatchLevel(st, i)
    <3>1. PICK i \in Batching(st) : l = BatchLevel(st, i)
      BY <2>2, Zenon
    <3>2. i \in 1..Len(st) /\ l.pos = 2 * i + 1
      BY <3>1, LevelFields DEF Batching
    <3>3. i \in 1..(n - 1)
      BY <1>5, <3>2
    <3>4. l = BatchLevel(su, i) /\ i \in Batching(su)
      BY <1>1, <1>2, <3>1, <3>3, Zenon
    <3> QED BY <3>4, Zenon DEF Levels
  <2> QED BY <1>5, <2>1, <2>2, Zenon DEF Levels
<1> QED BY <1>3, <1>4, <1>5, Zenon DEF Outside

(* The levels outside of a batch: those of its frame and below.            *)
LEMMA LevelsUnbatch ==
    ASSUME NEW st, NEW su, NEW n \in Nat \ {0}, n <= Len(st), Len(st) \in Nat, Len(su) = n,
           \A i \in 1..(n - 1) : SameLevels(st[i], su[i]),
           su[n].scope = st[n].scope, su[n].snap = st[n].snap, ~InBatch(su[n])
    PROVE  Levels(su) = Outside(Levels(st), BatchLevel(st, n))
<1>0. 1..n = (1..(n - 1)) \cup {n} /\ n \notin 1..(n - 1)
  OBVIOUS
<1>1. /\ \A i \in 1..n : FrameLevel(su, i) = FrameLevel(st, i)
      /\ \A i \in 1..(n - 1) : BatchLevel(su, i) = BatchLevel(st, i)
  BY <1>0 DEF SameLevels, FrameLevel, BatchLevel
<1>2. /\ \A i \in 1..(n - 1) : i \in Batching(su) <=> i \in Batching(st)
      /\ Batching(su) \subseteq 1..(n - 1)
  BY <1>0 DEF SameLevels, Batching, InBatch
<1>3. BatchLevel(st, n).pos = 2 * n + 1
  BY LevelFields
<1>4. ASSUME NEW l \in Levels(su) PROVE l \in Levels(st) /\ l.pos < 2 * n + 1
  <2>1. CASE \E i \in 1..n : l = FrameLevel(su, i)
    <3>1. PICK i \in 1..n : l = FrameLevel(su, i)
      BY <2>1, Zenon
    <3>2. l = FrameLevel(st, i) /\ l.pos = 2 * i
      BY <1>1, <3>1, LevelFields
    <3> QED BY <3>2 DEF Levels
  <2>2. CASE \E i \in Batching(su) : l = BatchLevel(su, i)
    <3>1. PICK i \in Batching(su) : l = BatchLevel(su, i)
      BY <2>2, Zenon
    <3>2. i \in 1..(n - 1) /\ i \in Batching(st)
      BY <1>2, <3>1, Zenon
    <3>3. l = BatchLevel(st, i) /\ l.pos = 2 * i + 1
      BY <1>1, <3>1, <3>2, LevelFields
    <3> QED BY <3>2, <3>3 DEF Levels
  <2> QED BY <1>4, <2>1, <2>2, Zenon DEF Levels
<1>5. ASSUME NEW l \in Levels(st), l.pos < 2 * n + 1 PROVE l \in Levels(su)
  <2>1. CASE \E i \in 1..Len(st) : l = FrameLevel(st, i)
    <3>1. PICK i \in 1..Len(st) : l = FrameLevel(st, i)
      BY <2>1, Zenon
    <3>2. i \in 1..n
      BY <1>5, <3>1, LevelFields
    <3>3. l = FrameLevel(su, i) /\ i \in 1..Len(su)
      BY <1>1, <3>1, <3>2, Zenon
    <3> QED BY <3>3, Zenon DEF Levels
  <2>2. CASE \E i \in Batching(st) : l = BatchLevel(st, i)
    <3>1. PICK i \in Batching(st) : l = BatchLevel(st, i)
      BY <2>2, Zenon
    <3>2. i \in 1..Len(st) /\ l.pos = 2 * i + 1
      BY <3>1, LevelFields DEF Batching
    <3>3. i \in 1..(n - 1)
      BY <1>5, <3>2
    <3>4. l = BatchLevel(su, i) /\ i \in Batching(su)
      BY <1>1, <1>2, <3>1, <3>3, Zenon
    <3> QED BY <3>4, Zenon DEF Levels
  <2> QED BY <1>5, <2>1, <2>2, Zenon DEF Levels
<1> QED BY <1>3, <1>4, <1>5, Zenon DEF Outside


-----------------------------------------------------------------------------
(* Static frames.                                                          *)

(* The running frame changed, and the state only if the frame may.         *)
LEMMA ReadonlyTop ==
    ASSUME NEW st \in Seq(FrameSet), NEW n \in Nat \ {0}, n = Len(st), NEW d, ReadonlyOf(st, d),
           NEW g \in FrameSet, g.readonly = st[n].readonly, g.kind = st[n].kind,
           g.snap = st[n].snap, InBatch(g) => ~g.readonly,
           NEW e, st[n].readonly => e = d
    PROVE  ReadonlyOf([st EXCEPT ![n] = g], e)
<1> DEFINE su == [st EXCEPT ![n] = g]
<1>1. /\ Len(su) = n /\ su[n] = g
      /\ \A i \in 1..n : i = n \/ (i \in 1..(n - 1) /\ su[i] = st[i])
  OBVIOUS
<1> HIDE DEF su
<1>2. \A i \in 1..n : su[i].readonly = st[i].readonly /\ su[i].kind = st[i].kind /\ su[i].snap = st[i].snap
  BY <1>1, Zenon
<1>3. \A i \in 1..n : st[i].readonly => e = d
  BY DEF ReadonlyOf
<1>4. \A i \in 1..n : su[i].readonly => su[i].snap = e /\ ~InBatch(su[i])
  BY <1>1, <1>2, <1>3 DEF ReadonlyOf
<1>5. \A i \in 1..n : su[i].kind = "entry" => i > 1 /\ InBatch(su[i - 1]) /\ ~su[i].readonly
  <2> SUFFICES ASSUME NEW i \in 1..n, su[i].kind = "entry"
               PROVE  i > 1 /\ InBatch(su[i - 1]) /\ ~su[i].readonly
    BY Zenon
  <2>1. i > 1 /\ InBatch(st[i - 1]) /\ ~su[i].readonly
    BY <1>2, Zenon DEF ReadonlyOf
  <2>2. i - 1 \in 1..n /\ i - 1 # n
    BY <2>1
  <2> QED BY <1>1, <2>1, <2>2, Zenon
<1>6. ReadonlyOf(su, e)
  <2>1. \A i, j \in 1..n : i <= j /\ su[i].readonly => su[j].readonly
    BY <1>2 DEF ReadonlyOf
  <2>2. \A i \in 1..n : su[i].kind = "static" => su[i].readonly
    BY <1>2 DEF ReadonlyOf
  <2> QED BY <1>1, <1>4, <1>5, <2>1, <2>2, Zenon DEF ReadonlyOf
<1> QED BY <1>6, Zenon DEF su

(* A frame is opened on the running one.                                   *)
LEMMA ReadonlyPush ==
    ASSUME NEW st \in Seq(FrameSet), NEW n \in Nat \ {0}, n = Len(st), NEW d, ReadonlyOf(st, d),
           NEW c \in FrameSet, ~InBatch(c), st[n].readonly => c.readonly,
           c.kind = "static" => c.readonly,
           c.kind = "entry" => InBatch(st[n]) /\ ~c.readonly,
           NEW e, c.readonly => c.snap = e /\ e = d
    PROVE  ReadonlyOf(Append(st, c), e)
<1> DEFINE su == Append(st, c)
<1>1. /\ Len(su) = n + 1 /\ su[n + 1] = c
      /\ \A i \in 1..(n + 1) : i = n + 1 \/ (i \in 1..n /\ su[i] = st[i])
      /\ \A i \in 1..n : su[i] = st[i]
  OBVIOUS
<1> HIDE DEF su
<1>2. \A i \in 1..n : st[i].readonly => c.readonly
  BY DEF ReadonlyOf
<1>3. \A i \in 1..(n + 1) : su[i].readonly => su[i].snap = e /\ ~InBatch(su[i])
  BY <1>1, <1>2 DEF ReadonlyOf
<1>4. \A i, j \in 1..(n + 1) : i <= j /\ su[i].readonly => su[j].readonly
  <2> SUFFICES ASSUME NEW i \in 1..(n + 1), NEW j \in 1..(n + 1), i <= j, su[i].readonly
               PROVE  su[j].readonly
    BY Zenon
  <2>1. CASE j = n + 1
    BY <1>1, <1>2, <2>1, Zenon
  <2>2. CASE j # n + 1
    <3>1. i \in 1..n /\ j \in 1..n
      BY <2>2
    <3> QED BY <1>1, <3>1, Zenon DEF ReadonlyOf
  <2> QED BY <2>1, <2>2, Zenon
<1>5. \A i \in 1..(n + 1) : su[i].kind = "static" => su[i].readonly
  BY <1>1, Zenon DEF ReadonlyOf
<1>6. \A i \in 1..(n + 1) : su[i].kind = "entry" => i > 1 /\ InBatch(su[i - 1]) /\ ~su[i].readonly
  <2> SUFFICES ASSUME NEW i \in 1..(n + 1), su[i].kind = "entry"
               PROVE  i > 1 /\ InBatch(su[i - 1]) /\ ~su[i].readonly
    BY Zenon
  <2>1. CASE i = n + 1
    <3>1. su[i - 1] = st[n] /\ i > 1
      BY <1>1, <2>1
    <3> QED BY <1>1, <2>1, <3>1, Zenon
  <2>2. CASE i # n + 1
    <3>1. i \in 1..n /\ su[i] = st[i]
      BY <1>1, <2>2, Zenon
    <3>2. i > 1 /\ InBatch(st[i - 1]) /\ ~st[i].readonly
      BY <3>1, Zenon DEF ReadonlyOf
    <3>3. su[i - 1] = st[i - 1]
      BY <1>1, <3>1, <3>2
    <3> QED BY <3>1, <3>2, <3>3, Zenon
  <2> QED BY <2>1, <2>2, Zenon
<1>7. ReadonlyOf(su, e)
  BY <1>1, <1>3, <1>4, <1>5, <1>6, Zenon DEF ReadonlyOf
<1> QED BY <1>7, Zenon DEF su

(* The running frame ends.                                                 *)
LEMMA ReadonlyPop ==
    ASSUME NEW st \in Seq(FrameSet), NEW n \in Nat, n = Len(st), n > 1, NEW d, ReadonlyOf(st, d)
    PROVE  ReadonlyOf(SubSeq(st, 1, n - 1), d)
<1> DEFINE su == SubSeq(st, 1, n - 1)
<1>1. Len(su) = n - 1 /\ \A i \in 1..(n - 1) : i \in 1..n /\ su[i] = st[i]
  OBVIOUS
<1> HIDE DEF su
<1>2. \A i \in 1..(n - 1) : su[i].kind = "entry" => i > 1 /\ InBatch(su[i - 1]) /\ ~su[i].readonly
  <2> SUFFICES ASSUME NEW i \in 1..(n - 1), su[i].kind = "entry"
               PROVE  i > 1 /\ InBatch(su[i - 1]) /\ ~su[i].readonly
    BY Zenon
  <2>1. i > 1 /\ InBatch(st[i - 1]) /\ ~st[i].readonly
    BY <1>1, Zenon DEF ReadonlyOf
  <2>2. su[i - 1] = st[i - 1] /\ su[i] = st[i]
    BY <1>1, <2>1
  <2> QED BY <2>1, <2>2, Zenon
<1>3. ReadonlyOf(su, d)
  BY <1>1, <1>2, Zenon DEF ReadonlyOf
<1> QED BY <1>3, Zenon DEF su

-----------------------------------------------------------------------------
(* Fresh numbers.                                                          *)

(* A finite set leaves a number unused.                                    *)
LEMMA Unused ==
    ASSUME NEW T, IsFiniteSet(T)
    PROVE  LET n == CHOOSE n \in 1..(Cardinality(T) + 1) : n \notin T
           IN  n \in Nat \ {0} /\ n \notin T
<1> DEFINE k == Cardinality(T)
<1>1. k \in Nat
  BY FS_CardinalityType, Zenon
<1>2. \E n \in 1..(k + 1) : n \notin T
  <2>1. SUFFICES ASSUME 1..(k + 1) \subseteq T PROVE FALSE
    BY Zenon
  <2>2. Cardinality(1..(k + 1)) <= k
    BY <2>1, FS_Subset, Zenon
  <2> HIDE DEF k
  <2>3. Cardinality(1..(k + 1)) = k + 1
    BY <1>1, FS_Interval
  <2> QED BY <1>1, <2>2, <2>3
<1> HIDE DEF k
<1>3. DEFINE m == CHOOSE n \in 1..(k + 1) : n \notin T
<1>4. m \in 1..(k + 1) /\ m \notin T
  BY <1>2, Zenon
<1>5. m \in Nat \ {0}
  BY <1>1, <1>4
<1> QED BY <1>4, <1>5, Zenon DEF k

(* The scopes in use are those of the levels of the stack.                 *)
LEMMA ScopesOpen ==
    ASSUME FramesInv
    PROVE  /\ {l.scope : l \in Levels(stack)} \subseteq Scopes
           /\ Scopes \subseteq {l.scope : l \in Levels(stack)} \cup {0}
           /\ Scopes \subseteq Nat
           /\ IsFiniteSet(Scopes)
<1> DEFINE D == 1..Len(stack)
<1>1. DOMAIN stack = D /\ Len(stack) \in Nat /\ \A i \in D : stack[i] \in FrameSet
  BY DEF FramesInv, Sound
<1>2. \A i \in D : stack[i].scope \in Nat /\ stack[i].batch.scope \in Nat
  BY <1>1, Zenon DEF FrameSet, Batches
<1>3. \A x : x \in Scopes <=> \E i \in D : x = stack[i].scope \/ x = stack[i].batch.scope
  BY <1>1 DEF Scopes
<1>4. {l.scope : l \in Levels(stack)} \subseteq Scopes
  <2> SUFFICES ASSUME NEW l \in Levels(stack) PROVE l.scope \in Scopes
    BY Zenon
  <2>1. CASE \E i \in D : l = FrameLevel(stack, i)
    BY <1>3, <2>1, LevelFields
  <2>2. CASE \E i \in Batching(stack) : l = BatchLevel(stack, i)
    BY <1>3, <2>2, LevelFields DEF Batching
  <2> QED BY <2>1, <2>2, Zenon DEF Levels
<1>5. Scopes \subseteq {l.scope : l \in Levels(stack)} \cup {0}
  <2> SUFFICES ASSUME NEW x \in Scopes, x # 0 PROVE \E l \in Levels(stack) : x = l.scope
    BY Zenon
  <2>1. PICK i \in D : x = stack[i].scope \/ x = stack[i].batch.scope
    BY <1>3, Zenon
  <2>2. CASE x = stack[i].scope
    <3>1. FrameLevel(stack, i) \in Levels(stack)
      BY Zenon DEF Levels
    <3> QED BY <2>2, <3>1, LevelFields
  <2>3. CASE x = stack[i].batch.scope
    <3>1. i \in Batching(stack)
      BY <2>3, Zenon DEF Batching, InBatch
    <3>2. BatchLevel(stack, i) \in Levels(stack)
      BY <3>1, Zenon DEF Levels
    <3> QED BY <2>3, <3>2, LevelFields
  <2> QED BY <2>1, <2>2, <2>3, Zenon
<1>6. Scopes \subseteq Nat
  BY <1>2, <1>3
<1>7. IsFiniteSet(Scopes)
  <2> DEFINE f == [i \in D |-> stack[i].scope]
             g == [i \in D |-> stack[i].batch.scope]
             F == {f[i] : i \in D}
             G == {g[i] : i \in D}
  <2>1. f \in Surjection(D, F) /\ g \in Surjection(D, G) /\ IsFiniteSet(D)
    <3>1. IsFiniteSet(D)
      BY <1>1, FS_Interval
    <3> QED BY <3>1, Zenon DEF Surjection
  <2>2. Scopes = F \cup G
    BY <1>3
  <2> HIDE DEF D, f, g, F, G
  <2>3. IsFiniteSet(F) /\ IsFiniteSet(G)
    BY <2>1, FS_Surjection, Zenon
  <2> QED BY <2>2, <2>3, FS_Union, Zenon
<1> QED BY <1>4, <1>5, <1>6, <1>7, Zenon

(* Fresh is a scope not in use.                                            *)
LEMMA FreshIsNew ==
    ASSUME FramesInv
    PROVE  Fresh \in Nat \ {0} /\ Fresh \notin Scopes
<1> DEFINE D == 1..Len(stack)
           Snaps == UNION {stack[i].snap.ops \cup stack[i].batch.snap.ops : i \in DOMAIN stack}
           W == {w.op : w \in writes}
           taken == stateDB.ops \cup Scopes \cup W \cup Snaps
<1>1. DOMAIN stack = D /\ IsFiniteSet(writes)
      /\ \A i \in D : ~InBatch(stack[i]) => stack[i].batch = NoBatch
  BY DEF FramesInv, Sound, BatchesOf
<1>2. stateDB.ops = W
  BY Zenon DEF FramesInv, Sound, Effects
<1>3. IsFiniteSet(W)
  <2> DEFINE f == [w \in writes |-> w.op]
             F == {f[w] : w \in writes}
  <2>1. f \in Surjection(writes, F) /\ F = W
    BY Zenon DEF Surjection
  <2> HIDE DEF f, F
  <2>2. IsFiniteSet(F)
    BY <1>1, <2>1, FS_Surjection, Zenon
  <2> QED BY <2>1, <2>2, Zenon
<1>4. \A l \in Levels(stack) : l.ops \subseteq W
  <2> HIDE DEF W
  <2>1. \A l \in Levels(stack) : l.ops = {w.op : w \in {x \in writes : l.scope \notin x.in}}
    BY Zenon DEF FramesInv, Sound, Effects
  <2> QED BY <2>1 DEF W
<1>5. Snaps \subseteq W
  <2> HIDE DEF W
  <2> SUFFICES ASSUME NEW i \in D PROVE stack[i].snap.ops \cup stack[i].batch.snap.ops \subseteq W
    BY <1>1, Zenon
  <2>1. stack[i].snap.ops \subseteq W
    <3>1. FrameLevel(stack, i) \in Levels(stack)
      BY Zenon DEF Levels
    <3> QED BY <1>4, <3>1, LevelFields
  <2>2. stack[i].batch.snap.ops \subseteq W
    <3>1. CASE InBatch(stack[i])
      <4>1. BatchLevel(stack, i) \in Levels(stack)
        BY <3>1, Zenon DEF Levels, Batching
      <4> QED BY <1>4, <4>1, LevelFields
    <3>2. CASE ~InBatch(stack[i])
      BY <1>1, <3>2 DEF NoBatch
    <3> QED BY <3>1, <3>2, Zenon
  <2> QED BY <2>1, <2>2, Zenon
<1>6. IsFiniteSet(Scopes)
  BY ScopesOpen, Zenon
<1> HIDE DEF W, Snaps
<1>7. IsFiniteSet(taken)
  <2>1. taken = Scopes \cup W
    BY <1>2, <1>5, Zenon
  <2>2. IsFiniteSet(Scopes \cup W)
    BY <1>3, <1>6, FS_Union, Zenon
  <2> QED BY <2>1, <2>2, Zenon
<1>8. Fresh = CHOOSE n \in 1..(Cardinality(taken) + 1) : n \notin taken
  BY Zenon DEF Fresh, W, Snaps
<1>9. Scopes \subseteq taken
  BY Zenon
<1> HIDE DEF taken
<1> QED BY <1>7, <1>8, <1>9, Unused, Zenon


-----------------------------------------------------------------------------
(* The steps on the frames.                                                *)

(* The frame f goes on as g after spending k.                              *)
Replaces(f, g, k) ==
    /\ g \in FrameSet /\ FrameGas(g) /\ k \in Nat
    /\ Spent(g) = Spent(f) + k
    /\ g.limit = f.limit /\ g.kind = f.kind /\ g.readonly = f.readonly
    /\ g.snap = f.snap /\ g.scope = f.scope
    /\ \/ g.batch = f.batch
       \/ InBatch(f) /\ g.batch.scope = f.batch.scope /\ g.batch.snap = f.batch.snap

(* Spending in the top frame keeps the stack sound.                        *)
LEMMA SoundTop ==
    ASSUME NEW st, NEW d, NEW w, NEW ws, Sound(st, d, w, ws), NEW n \in Nat \ {0}, n = Len(st),
           NEW g, NEW k, Replaces(st[n], g, k)
    PROVE  /\ Sound([st EXCEPT ![n] = g], d, w + k, ws)
           /\ Levels([st EXCEPT ![n] = g]) = Levels(st)
<1> DEFINE su == [st EXCEPT ![n] = g]
<1>0. /\ st \in Seq(FrameSet) /\ g \in FrameSet /\ k \in Nat /\ w \in Nat /\ st # <<>>
      /\ Spent(g) = Spent(st[n]) + k /\ g.limit = st[n].limit /\ FrameGas(g)
  BY Zenon DEF Sound, Replaces
<1>1. /\ su \in Seq(FrameSet) /\ Len(su) = n /\ su[n] = g
      /\ \A i \in 1..n : i = n \/ su[i] = st[i]
  BY <1>0
<1>2. GasOf(su, w + k)
  BY <1>0, GasTop, Zenon DEF Sound
<1>3. ReadonlyOf(su, d)
  <2>1. /\ g.readonly = st[n].readonly /\ g.kind = st[n].kind /\ g.snap = st[n].snap
        /\ InBatch(g) => InBatch(st[n])
    BY Zenon DEF Replaces, InBatch
  <2>2. ReadonlyOf(st, d) /\ (InBatch(g) => ~g.readonly)
    BY <2>1 DEF Sound, ReadonlyOf
  <2> QED BY <1>0, <2>1, <2>2, ReadonlyTop, Zenon
<1> HIDE DEF su
<1>4. \A i \in 1..n : SameLevels(st[i], su[i])
  BY <1>1, Zenon DEF SameLevels, Replaces
<1>5. Levels(su) = Levels(st)
  BY <1>1, <1>4, LevelsSame, Zenon
<1>6. BatchesOf(su)
  <2>1. InBatch(g) <=> InBatch(st[n])
    BY Zenon DEF Replaces, InBatch
  <2>2. IF InBatch(g) THEN g.batch.snap \in States ELSE g.batch = NoBatch
    BY <2>1 DEF Sound, BatchesOf, Replaces
  <2> QED BY <1>1, <2>2, Zenon DEF Sound, BatchesOf
<1>7. Sound(su, d, w + k, ws)
  BY <1>0, <1>1, <1>2, <1>3, <1>5, <1>6 DEF Sound
<1> QED BY <1>5, <1>7, Zenon DEF su

(* The running frame writes.                                               *)
LEMMA SoundWrite ==
    ASSUME NEW st, NEW d, NEW w, NEW ws, Sound(st, d, w, ws), NEW n \in Nat \ {0}, n = Len(st),
           ~st[n].readonly, NEW e \in States, NEW o \in Nat, e.ops = d.ops \cup {o},
           NEW S \in SUBSET Nat, {l.scope : l \in Levels(st)} \subseteq S,
           S \subseteq {l.scope : l \in Levels(st)} \cup {0}
    PROVE  Sound(st, e, w, ws \cup {[op |-> o, in |-> S]})
<1>1. Effects(e.ops, Levels(st), ws \cup {[op |-> o, in |-> S]})
  <2>1. Effects(d.ops, Levels(st), ws)
    BY Zenon DEF Sound
  <2>2. Effects(d.ops \cup {o}, Levels(st), ws \cup {[op |-> o, in |-> S]})
    BY <2>1, EffectsWrite, Zenon
  <2> QED BY <2>2, Zenon
<1>2. \A i \in 1..n : ~st[i].readonly
  BY DEF Sound, ReadonlyOf
<1>3. ReadonlyOf(st, e)
  BY <1>2, Zenon DEF Sound, ReadonlyOf
<1>4. IsFiniteSet(ws \cup {[op |-> o, in |-> S]})
  <2>1. IsFiniteSet(ws)
    BY Zenon DEF Sound
  <2> DEFINE v == [op |-> o, in |-> S]
  <2> HIDE DEF v
  <2>2. IsFiniteSet(ws \cup {v})
    BY <2>1, FS_AddElement, Zenon
  <2> QED BY <2>2, Zenon DEF v
<1>5. ws \cup {[op |-> o, in |-> S]} \in SUBSET [op : Nat, in : SUBSET Nat]
  <2>1. ws \in SUBSET [op : Nat, in : SUBSET Nat]
    BY Zenon DEF Sound
  <2>2. [op |-> o, in |-> S] \in [op : Nat, in : SUBSET Nat]
    BY Zenon
  <2> QED BY <2>1, <2>2, Zenon
<1> QED BY <1>1, <1>3, <1>4, <1>5, Zenon DEF Sound

(* The running frame opens another one.                                    *)
LEMMA SoundPush ==
    ASSUME NEW st, NEW d, NEW w, NEW ws, Sound(st, d, w, ws), NEW n \in Nat \ {0}, n = Len(st),
           NEW c \in FrameSet, c.batch = NoBatch, c.snap = d, FrameGas(c), Spent(c) = 0,
           c.limit <= Available(st[n]), c.scope # 0, c.scope \notin {l.scope : l \in Levels(st)},
           st[n].readonly => c.readonly, c.kind = "static" => c.readonly,
           c.kind = "entry" => InBatch(st[n]) /\ ~c.readonly
    PROVE  /\ Sound(Append(st, c), d, w, ws)
           /\ Levels(Append(st, c)) = Levels(st) \cup {FrameLevel(Append(st, c), n + 1)}
           /\ FrameLevel(Append(st, c), n + 1).scope = c.scope
<1> DEFINE su == Append(st, c)
           k == FrameLevel(su, n + 1)
<1>0. st \in Seq(FrameSet) /\ st # <<>> /\ w \in Nat /\ ~InBatch(c)
  BY DEF Sound, InBatch, NoBatch
<1>1. /\ su \in Seq(FrameSet) /\ Len(su) = n + 1 /\ su[n + 1] = c
      /\ \A i \in 1..(n + 1) : i = n + 1 \/ (i \in 1..n /\ su[i] = st[i])
      /\ \A i \in 1..n : su[i] = st[i]
  BY <1>0
<1>2. GasOf(su, w)
  BY <1>0, GasPush, Zenon DEF Sound
<1>3. ReadonlyOf(su, d)
  BY <1>0, ReadonlyPush, Zenon DEF Sound
<1> HIDE DEF su
<1>4. Levels(su) = Levels(st) \cup {k}
  <2>1. \A i \in 1..n : SameLevels(st[i], su[i])
    BY <1>1, Zenon DEF SameLevels
  <2> QED BY <1>0, <1>1, <2>1, LevelsPush
<1>5. k.scope = c.scope /\ k.ops = d.ops /\ k.pos = 2 * (n + 1)
  <2>1. k.scope = su[n + 1].scope /\ k.ops = su[n + 1].snap.ops /\ k.pos = 2 * (n + 1)
    <3> DEFINE m == n + 1
    <3>1. k = FrameLevel(su, m) /\ m = n + 1
      BY Zenon
    <3> HIDE DEF m, k
    <3>2. k.scope = su[m].scope /\ k.ops = su[m].snap.ops /\ k.pos = 2 * m
      BY <3>1, LevelFields
    <3> QED BY <3>1, <3>2, Zenon
  <2> QED BY <1>1, <2>1, Zenon
<1>6. Effects(d.ops, Levels(su), ws)
  <2>1. \A l \in Levels(st) : l.scope # k.scope /\ l.pos \in Int /\ l.pos < k.pos
    <3> SUFFICES ASSUME NEW l \in Levels(st) PROVE l.scope # k.scope /\ l.pos \in Int /\ l.pos < k.pos
      BY Zenon
    <3>1. l.pos \in Int /\ l.pos <= 2 * n + 1
      BY LevelPlaces, Zenon
    <3> QED BY <1>5, <3>1
  <2>2. k.scope # 0 /\ k.pos \in Int
    BY <1>5
  <2>3. Effects(d.ops, Levels(st), ws)
    BY Zenon DEF Sound
  <2> HIDE DEF k
  <2>4. Effects(d.ops, Levels(st) \cup {k}, ws)
    BY <1>5, <2>1, <2>2, <2>3, EffectsOpen, Zenon
  <2> QED BY <1>4, <2>4, Zenon
<1>7. BatchesOf(su)
  BY <1>0, <1>1 DEF Sound, BatchesOf
<1>8. Sound(su, d, w, ws)
  BY <1>1, <1>2, <1>3, <1>6, <1>7, Zenon DEF Sound
<1> QED BY <1>4, <1>5, <1>8, Zenon DEF su

(* The premises of SoundPush, as one.                                      *)
CanPush(st, d, w, ws, n, c) ==
    /\ Sound(st, d, w, ws) /\ n \in Nat \ {0} /\ n = Len(st)
    /\ c \in FrameSet /\ c.batch = NoBatch /\ c.snap = d /\ FrameGas(c) /\ Spent(c) = 0
    /\ c.limit <= Available(st[n]) /\ c.scope # 0 /\ c.scope \notin {l.scope : l \in Levels(st)}
    /\ st[n].readonly => c.readonly
    /\ c.kind = "static" => c.readonly
    /\ c.kind = "entry" => InBatch(st[n]) /\ ~c.readonly

(* The same, with its conditions in one.                                   *)
LEMMA SoundPushed ==
    ASSUME NEW st, NEW d, NEW w, NEW ws, NEW n, NEW c, CanPush(st, d, w, ws, n, c)
    PROVE  /\ Sound(Append(st, c), d, w, ws)
           /\ Levels(Append(st, c)) = Levels(st) \cup {FrameLevel(Append(st, c), n + 1)}
           /\ FrameLevel(Append(st, c), n + 1).scope = c.scope
<1>1. Sound(st, d, w, ws) /\ n \in Nat \ {0} /\ n = Len(st)
  BY Zenon DEF CanPush
<1>2. c \in FrameSet /\ c.batch = NoBatch /\ c.snap = d /\ FrameGas(c) /\ Spent(c) = 0
  BY Zenon DEF CanPush
<1>3. c.limit <= Available(st[n]) /\ c.scope # 0 /\ c.scope \notin {l.scope : l \in Levels(st)}
  BY Zenon DEF CanPush
<1>4. /\ st[n].readonly => c.readonly
      /\ c.kind = "static" => c.readonly
      /\ c.kind = "entry" => InBatch(st[n]) /\ ~c.readonly
  BY Zenon DEF CanPush
<1> QED BY <1>1, <1>2, <1>3, <1>4, SoundPush


(* Handing writes on or dropping them leaves a finite set of writes.       *)
LEMMA WritesLeft ==
    ASSUME NEW ws \in SUBSET [op : Nat, in : SUBSET Nat], IsFiniteSet(ws), NEW s, NEW C
    PROVE  /\ PassedOn(ws, s) \in SUBSET [op : Nat, in : SUBSET Nat]
           /\ IsFiniteSet(PassedOn(ws, s))
           /\ Dropped(ws, C) \in SUBSET [op : Nat, in : SUBSET Nat]
           /\ IsFiniteSet(Dropped(ws, C))
<1>1. PassedOn(ws, s) \in SUBSET [op : Nat, in : SUBSET Nat]
  BY Zenon DEF PassedOn
<1>2. IsFiniteSet(PassedOn(ws, s))
  <2> DEFINE f == [w \in ws |-> [w EXCEPT !.in = @ \ {s}]]
             F == {f[w] : w \in ws}
  <2>1. f \in Surjection(ws, F) /\ F = PassedOn(ws, s)
    BY Zenon DEF Surjection, PassedOn
  <2> HIDE DEF f, F
  <2>2. IsFiniteSet(F)
    BY <2>1, FS_Surjection, Zenon
  <2> QED BY <2>1, <2>2, Zenon
<1>3. Dropped(ws, C) \subseteq ws
  BY Zenon DEF Dropped
<1>4. IsFiniteSet(Dropped(ws, C))
  BY <1>3, FS_Subset, Zenon
<1> QED BY <1>1, <1>2, <1>3, <1>4, Zenon

(* The level of the running frame ends.                                    *)
LEMMA FrameLevelEnds ==
    ASSUME NEW st, NEW n \in Nat \ {0}, Len(st) = n, NEW ops,
           NEW ws \in SUBSET [op : Nat, in : SUBSET Nat], Effects(ops, Levels(st), ws)
    PROVE  /\ ~InBatch(st[n]) => Effects(ops, Outside(Levels(st), FrameLevel(st, n)),
                                         PassedOn(ws, st[n].scope))
           /\ Effects(st[n].snap.ops, Outside(Levels(st), FrameLevel(st, n)),
                      Dropped(ws, {st[n].scope}))
<1> DEFINE k == FrameLevel(st, n)
           L == Levels(st)
<1>0. Effects(ops, L, ws)
  BY Zenon
<1>1. k \in L
  BY DEF Levels
<1>2. k.scope = st[n].scope /\ k.ops = st[n].snap.ops /\ k.pos = 2 * n
  BY LevelFields
<1>3. \A l \in L : l.pos \in Int
  BY LevelPlaces, Zenon
<1>4. ~InBatch(st[n]) => \A l \in L : l.pos \in Int /\ l.pos <= k.pos
  BY <1>2, LevelPlaces, Zenon
<1> HIDE DEF k, L
<1>5. ASSUME ~InBatch(st[n]) PROVE Effects(ops, Outside(L, k), PassedOn(ws, st[n].scope))
  <2>1. Effects(ops, Outside(L, k), PassedOn(ws, k.scope))
    BY <1>0, <1>1, <1>4, <1>5, EffectsKeep, Zenon
  <2> QED BY <1>2, <2>1, Zenon
<1>6. Effects(st[n].snap.ops, Outside(L, k), Dropped(ws, {st[n].scope}))
  <2> DEFINE C == {k.scope}
  <2>1. k.scope \in C /\ \A c \in C : c = k.scope \/ \E l \in L : k.pos < l.pos /\ l.scope = c
    BY Zenon
  <2> HIDE DEF C
  <2>2. Effects(k.ops, Outside(L, k), Dropped(ws, C))
    BY <1>0, <1>1, <1>3, <2>1, EffectsUndo, Zenon
  <2>3. C = {st[n].scope}
    BY <1>2, Zenon DEF C
  <2> QED BY <1>2, <2>2, <2>3, Zenon
<1> QED BY <1>5, <1>6, Zenon DEF k, L

(* The level of a batch ends, while its frame or an entry of it runs.      *)
LEMMA BatchLevelEnds ==
    ASSUME NEW st, NEW m \in Nat \ {0}, Len(st) \in Nat, m <= Len(st), InBatch(st[m]), NEW ops,
           NEW ws \in SUBSET [op : Nat, in : SUBSET Nat], Effects(ops, Levels(st), ws)
    PROVE  /\ Len(st) = m => Effects(ops, Outside(Levels(st), BatchLevel(st, m)),
                                     PassedOn(ws, st[m].batch.scope))
           /\ Effects(st[m].batch.snap.ops, Outside(Levels(st), BatchLevel(st, m)),
                      Dropped(ws, {st[m].batch.scope}))
           /\ Len(st) = m + 1 => Effects(st[m].batch.snap.ops, Outside(Levels(st), BatchLevel(st, m)),
                                         Dropped(ws, {st[m + 1].scope, st[m].batch.scope}))
<1> DEFINE k == BatchLevel(st, m)
           L == Levels(st)
<1>0. Effects(ops, L, ws)
  BY Zenon
<1>1. k \in L
  BY DEF Levels, Batching
<1>2. k.scope = st[m].batch.scope /\ k.ops = st[m].batch.snap.ops /\ k.pos = 2 * m + 1
  BY LevelFields
<1>3. \A l \in L : l.pos \in Int
  BY LevelPlaces, Zenon
<1>4. Len(st) = m => \A l \in L : l.pos \in Int /\ l.pos <= k.pos
  BY <1>2, LevelPlaces, Zenon
<1>5. Len(st) = m + 1 => \E l \in L : k.pos < l.pos /\ l.scope = st[m + 1].scope
  <2> SUFFICES ASSUME Len(st) = m + 1 PROVE \E l \in L : k.pos < l.pos /\ l.scope = st[m + 1].scope
    BY Zenon
  <2> DEFINE i == m + 1
             l == FrameLevel(st, i)
  <2>1. l \in L
    BY DEF Levels
  <2>2. i = m + 1 /\ l.scope = st[i].scope /\ l.pos = 2 * i
    <3> HIDE DEF i
    <3>1. l.scope = st[i].scope /\ l.pos = 2 * i
      BY LevelFields
    <3> QED BY <3>1, Zenon DEF i
  <2> HIDE DEF l, i, k, L
  <2>3. k.pos < l.pos /\ l.scope = st[m + 1].scope
    BY <1>2, <2>2
  <2> QED BY <2>1, <2>3, Zenon
<1> HIDE DEF k, L
<1>6. ASSUME Len(st) = m PROVE Effects(ops, Outside(L, k), PassedOn(ws, st[m].batch.scope))
  <2>1. Effects(ops, Outside(L, k), PassedOn(ws, k.scope))
    BY <1>0, <1>1, <1>4, <1>6, EffectsKeep, Zenon
  <2> QED BY <1>2, <2>1, Zenon
<1>7. ASSUME NEW C, k.scope \in C,
             \A c \in C : c = k.scope \/ \E l \in L : k.pos < l.pos /\ l.scope = c
      PROVE  Effects(st[m].batch.snap.ops, Outside(L, k), Dropped(ws, C))
  <2>1. Effects(k.ops, Outside(L, k), Dropped(ws, C))
    BY <1>0, <1>1, <1>3, <1>7, EffectsUndo, Zenon
  <2> QED BY <1>2, <2>1, Zenon
<1>8. Effects(st[m].batch.snap.ops, Outside(L, k), Dropped(ws, {st[m].batch.scope}))
  BY <1>2, <1>7, Zenon
<1>9. ASSUME Len(st) = m + 1
      PROVE  Effects(st[m].batch.snap.ops, Outside(L, k), Dropped(ws, {st[m + 1].scope, st[m].batch.scope}))
  <2> DEFINE C == {st[m + 1].scope, st[m].batch.scope}
  <2>1. k.scope \in C /\ \A c \in C : c = k.scope \/ \E l \in L : k.pos < l.pos /\ l.scope = c
    BY <1>2, <1>5, <1>9, Zenon
  <2> HIDE DEF C
  <2>2. Effects(st[m].batch.snap.ops, Outside(L, k), Dropped(ws, C))
    BY <1>7, <2>1, Zenon
  <2> QED BY <2>2, Zenon DEF C
<1> QED BY <1>6, <1>8, <1>9, Zenon DEF k, L


(* A frame whose batch is over.                                            *)
LEMMA EmptyBatch ==
    ASSUME NEW p \in FrameSet
    PROVE  LET q == [p EXCEPT !.batch = NoBatch]
           IN  /\ q \in FrameSet /\ (FrameGas(p) => FrameGas(q)) /\ q.limit = p.limit
               /\ Spent(q) = Spent(p) /\ q.kind = p.kind /\ q.readonly = p.readonly
               /\ q.snap = p.snap /\ q.scope = p.scope /\ q.self = p.self
               /\ q.batch = NoBatch /\ ~InBatch(q)
<1> DEFINE q == [p EXCEPT !.batch = NoBatch]
<1>1. NoBatch \in Batches
  <2>1. <<>> \in Seq(Entries)
    OBVIOUS
  <2> QED BY <2>1, Zenon DEF NoBatch, Batches
<1>2. /\ q.limit = p.limit /\ q.ceiling = p.ceiling /\ q.used = p.used /\ q.child = p.child
      /\ q.prim = p.prim /\ q.kind = p.kind /\ q.readonly = p.readonly
      /\ q.snap = p.snap /\ q.scope = p.scope /\ q.self = p.self /\ q.batch = NoBatch
  BY Zenon DEF FrameSet
<1>3. q \in FrameSet
  BY <1>1, Zenon DEF FrameSet
<1> HIDE DEF q
<1>4. (FrameGas(p) => FrameGas(q)) /\ Spent(q) = Spent(p) /\ ~InBatch(q)
  BY <1>2 DEF FrameGas, Spent, InBatch, NoBatch
<1> QED BY <1>2, <1>3, <1>4, Zenon DEF q

(* What remains of the frames when the running one ends and its caller     *)
(* goes on as p over the state e.                                          *)
Popped(st, p) == [SubSeq(st, 1, Len(st) - 1) EXCEPT ![Len(st) - 1] = p]

(* The stack after a return, and its gas.                                  *)
LEMMA PopParts ==
    ASSUME NEW st, NEW d, NEW w, NEW ws, Sound(st, d, w, ws), NEW n \in Nat, n = Len(st), n > 1,
           NEW p \in FrameSet, FrameGas(p), p.limit = st[n - 1].limit,
           Spent(p) = Spent(st[n - 1]) + Spent(st[n])
    PROVE  /\ Popped(st, p) \in Seq(FrameSet) /\ Len(Popped(st, p)) = n - 1
           /\ Popped(st, p)[n - 1] = p
           /\ \A i \in 1..(n - 1) : i = n - 1 \/ (i \in 1..(n - 2) /\ Popped(st, p)[i] = st[i])
           /\ GasOf(Popped(st, p), w)
<1>0. st \in Seq(FrameSet) /\ w \in Nat /\ GasOf(st, w)
  BY Zenon DEF Sound
<1>1. GasOf(Popped(st, p), w)
  BY <1>0, GasPop, Zenon DEF Popped
<1>2. /\ Popped(st, p) \in Seq(FrameSet) /\ Len(Popped(st, p)) = n - 1
      /\ Popped(st, p)[n - 1] = p
      /\ \A i \in 1..(n - 1) : i = n - 1 \/ (i \in 1..(n - 2) /\ Popped(st, p)[i] = st[i])
  <2> DEFINE sb == SubSeq(st, 1, n - 1)
  <2>1. sb \in Seq(FrameSet) /\ Len(sb) = n - 1 /\ \A i \in 1..(n - 1) : sb[i] = st[i]
    BY <1>0
  <2>2. Popped(st, p) = [sb EXCEPT ![n - 1] = p]
    BY Zenon DEF Popped
  <2> HIDE DEF sb
  <2> QED BY <2>1, <2>2
<1> QED BY <1>1, <1>2, Zenon

(* Static frames stay unwritten when the frame above them returns.         *)
LEMMA PopReadonly ==
    ASSUME NEW st \in Seq(FrameSet), NEW d, ReadonlyOf(st, d), NEW n \in Nat, n = Len(st), n > 1,
           NEW p \in FrameSet, p.kind = st[n - 1].kind, p.readonly = st[n - 1].readonly,
           p.snap = st[n - 1].snap, InBatch(p) => ~p.readonly, NEW e, st[n - 1].readonly => e = d
    PROVE  ReadonlyOf(Popped(st, p), e)
<1> DEFINE sb == SubSeq(st, 1, n - 1)
           m == n - 1
<1>1. /\ sb \in Seq(FrameSet) /\ Len(sb) = m /\ m \in Nat \ {0}
      /\ sb[m] = st[n - 1] /\ Popped(st, p) = [sb EXCEPT ![m] = p]
  BY DEF Popped
<1>2. ReadonlyOf(sb, d)
  BY ReadonlyPop, Zenon
<1> HIDE DEF sb, m
<1>3. ReadonlyOf([sb EXCEPT ![m] = p], e)
  <2>1. /\ sb \in Seq(FrameSet) /\ m \in Nat \ {0} /\ m = Len(sb)
        /\ p.readonly = sb[m].readonly /\ p.kind = sb[m].kind /\ p.snap = sb[m].snap
        /\ sb[m].readonly => e = d
    BY <1>1, Zenon
  <2> QED BY <2>1, <1>2, ReadonlyTop, Zenon
<1> QED BY <1>1, <1>3, Zenon

(* A return keeps the stack sound, whether the frame's writes stay or are  *)
(* undone.                                                                 *)
LEMMA SoundReturn ==
    ASSUME NEW st, NEW d, NEW w, NEW ws, Sound(st, d, w, ws), NEW n \in Nat, n = Len(st), n > 1,
           NEW p, Replaces(st[n - 1], p, Spent(st[n]))
    PROVE  /\ ~InBatch(st[n]) => Sound(Popped(st, p), d, w, PassedOn(ws, st[n].scope))
           /\ Sound(Popped(st, p), st[n].snap, w, Dropped(ws, {st[n].scope}))
<1> DEFINE su == Popped(st, p)
           f == st[n - 1]
<1>1. /\ p \in FrameSet /\ FrameGas(p) /\ p.limit = f.limit /\ Spent(p) = Spent(f) + Spent(st[n])
      /\ p.kind = f.kind /\ p.readonly = f.readonly /\ p.snap = f.snap
      /\ InBatch(p) <=> InBatch(f)
  BY Zenon DEF Replaces, InBatch
<1>2. /\ d \in States /\ w \in Nat /\ ws \in SUBSET [op : Nat, in : SUBSET Nat] /\ IsFiniteSet(ws)
      /\ BatchesOf(st) /\ ReadonlyOf(st, d) /\ Effects(d.ops, Levels(st), ws) /\ st \in Seq(FrameSet)
  BY Zenon DEF Sound
<1>3. /\ InBatch(p) => ~p.readonly
      /\ f.readonly => st[n].snap = d
  <2>1. n - 1 \in 1..n /\ n \in 1..n /\ n - 1 <= n
    OBVIOUS
  <2> QED BY <1>1, <1>2, <2>1, Zenon DEF ReadonlyOf
<1>4. /\ su \in Seq(FrameSet) /\ Len(su) = n - 1 /\ su[n - 1] = p
      /\ \A i \in 1..(n - 1) : i = n - 1 \/ (i \in 1..(n - 2) /\ su[i] = st[i])
      /\ GasOf(su, w)
  BY <1>1, PopParts
<1>5. ReadonlyOf(su, d) /\ ReadonlyOf(su, st[n].snap)
  BY <1>1, <1>2, <1>3, PopReadonly, Zenon
<1> HIDE DEF su
<1>6. \A i \in 1..(n - 1) : SameLevels(st[i], su[i])
  BY <1>4, Zenon DEF SameLevels, Replaces
<1>7. Levels(su) = Outside(Levels(st), FrameLevel(st, n))
  BY <1>4, <1>6, LevelsPop
<1>8. BatchesOf(su)
  <2>1. IF InBatch(p) THEN p.batch.snap \in States ELSE p.batch = NoBatch
    <3>1. n - 1 \in 1..n
      OBVIOUS
    <3> QED BY <1>1, <1>2, <3>1, Zenon DEF BatchesOf, Replaces
  <2>2. \A i \in 1..(n - 2) : i \in 1..n
    OBVIOUS
  <2> QED BY <1>2, <1>4, <2>1, <2>2, Zenon DEF BatchesOf
<1>9. st[n].snap \in States
  <2>1. st[n] \in FrameSet
    BY <1>2
  <2> QED BY <2>1, Zenon DEF FrameSet
<1>10. ASSUME ~InBatch(st[n]) PROVE Sound(su, d, w, PassedOn(ws, st[n].scope))
  <2>1. Effects(d.ops, Levels(su), PassedOn(ws, st[n].scope))
    <3>1. n \in Nat \ {0}
      OBVIOUS
    <3>2. Effects(d.ops, Outside(Levels(st), FrameLevel(st, n)), PassedOn(ws, st[n].scope))
      BY <1>2, <1>10, <3>1, FrameLevelEnds, Zenon
    <3> QED BY <1>7, <3>2, Zenon
  <2> QED BY <1>2, <1>4, <1>5, <1>8, <2>1, WritesLeft, Zenon DEF Sound
<1>11. Sound(su, st[n].snap, w, Dropped(ws, {st[n].scope}))
  <2>1. Effects(st[n].snap.ops, Levels(su), Dropped(ws, {st[n].scope}))
    BY <1>2, <1>7, FrameLevelEnds
  <2> QED BY <1>2, <1>4, <1>5, <1>8, <1>9, <2>1, WritesLeft, Zenon DEF Sound
<1> QED BY <1>10, <1>11, Zenon DEF su

(* A failing entry ends with the batch it belongs to.                      *)
LEMMA SoundFailBatch ==
    ASSUME NEW st, NEW d, NEW w, NEW ws, Sound(st, d, w, ws), NEW n \in Nat, n = Len(st), n > 1,
           InBatch(st[n - 1]), NEW p, Replaces(st[n - 1], p, Spent(st[n]))
    PROVE  Sound(Popped(st, [p EXCEPT !.batch = NoBatch]),
                 st[n - 1].batch.snap, w, Dropped(ws, {st[n].scope, st[n - 1].batch.scope}))
<1> DEFINE m == n - 1
           q == [p EXCEPT !.batch = NoBatch]
           su == Popped(st, q)
           f == st[n - 1]
           e == f.batch.snap
<1>1. /\ p \in FrameSet /\ FrameGas(p) /\ p.limit = f.limit /\ Spent(p) = Spent(f) + Spent(st[n])
      /\ p.kind = f.kind /\ p.readonly = f.readonly /\ p.snap = f.snap /\ p.scope = f.scope
  BY Zenon DEF Replaces
<1>2. /\ q \in FrameSet /\ FrameGas(q) /\ q.limit = f.limit /\ Spent(q) = Spent(f) + Spent(st[n])
      /\ q.kind = f.kind /\ q.readonly = f.readonly /\ q.snap = f.snap /\ q.scope = f.scope
      /\ q.batch = NoBatch /\ ~InBatch(q)
  BY <1>1, EmptyBatch, Zenon
<1>3. /\ d \in States /\ w \in Nat /\ ws \in SUBSET [op : Nat, in : SUBSET Nat] /\ IsFiniteSet(ws)
      /\ BatchesOf(st) /\ ReadonlyOf(st, d) /\ Effects(d.ops, Levels(st), ws) /\ st \in Seq(FrameSet)
  BY Zenon DEF Sound
<1>4. ~f.readonly /\ e \in States
  <2>1. n - 1 \in 1..n
    OBVIOUS
  <2> QED BY <1>3, <2>1, Zenon DEF ReadonlyOf, BatchesOf
<1> HIDE DEF q
<1>5. /\ su \in Seq(FrameSet) /\ Len(su) = n - 1 /\ su[n - 1] = q
      /\ \A i \in 1..(n - 1) : i = n - 1 \/ (i \in 1..(n - 2) /\ su[i] = st[i])
      /\ GasOf(su, w)
  BY <1>2, PopParts
<1>10. ReadonlyOf(su, e)
  BY <1>2, <1>3, <1>4, PopReadonly, Zenon
<1> HIDE DEF su
<1>6. Levels(su) = Outside(Levels(st), BatchLevel(st, m))
  <2>1. m \in Nat \ {0} /\ m <= Len(st) /\ Len(st) \in Nat /\ Len(su) = m
    BY <1>5
  <2>2. \A i \in 1..(m - 1) : SameLevels(st[i], su[i])
    <3> SUFFICES ASSUME NEW i \in 1..(m - 1) PROVE SameLevels(st[i], su[i])
      BY Zenon
    <3>1. i \in 1..(n - 1) /\ i # n - 1
      OBVIOUS
    <3> QED BY <1>5, <3>1, Zenon DEF SameLevels
  <2>3. su[m].scope = st[m].scope /\ su[m].snap = st[m].snap /\ ~InBatch(su[m])
    BY <1>2, <1>5, Zenon
  <2> HIDE DEF m
  <2> QED BY <2>1, <2>2, <2>3, LevelsUnbatch, Zenon
<1>7. Effects(e.ops, Levels(su), Dropped(ws, {st[n].scope, f.batch.scope}))
  <2>1. m \in Nat \ {0} /\ m <= Len(st) /\ Len(st) \in Nat /\ Len(st) = m + 1 /\ InBatch(st[m])
        /\ e = st[m].batch.snap /\ st[n] = st[m + 1] /\ f = st[m]
    OBVIOUS
  <2> HIDE DEF m, e, f
  <2>2. Effects(st[m].batch.snap.ops, Outside(Levels(st), BatchLevel(st, m)),
                Dropped(ws, {st[m + 1].scope, st[m].batch.scope}))
    BY <1>3, <2>1, BatchLevelEnds, Zenon
  <2> QED BY <1>6, <2>1, <2>2, Zenon
<1>8. BatchesOf(su)
  <2>1. \A i \in 1..(n - 2) : i \in 1..n
    OBVIOUS
  <2>2. \A i \in 1..(n - 1) : InBatch(su[i]) => su[i].batch.snap \in States
    BY <1>2, <1>3, <1>5, <2>1, Zenon DEF BatchesOf
  <2>3. \A i \in 1..(n - 1) : ~InBatch(su[i]) => su[i].batch = NoBatch
    BY <1>2, <1>3, <1>5, <2>1 DEF BatchesOf
  <2> QED BY <1>5, <2>2, <2>3, Zenon DEF BatchesOf
<1>9. Sound(su, e, w, Dropped(ws, {st[n].scope, f.batch.scope}))
  BY <1>3, <1>4, <1>5, <1>7, <1>8, <1>10, WritesLeft, Zenon DEF Sound
<1> QED BY <1>9, Zenon DEF su, q


(* The running frame opens a batch with its own snapshot.                  *)
LEMMA SoundOpen ==
    ASSUME NEW st, NEW d, NEW w, NEW ws, Sound(st, d, w, ws), NEW n \in Nat \ {0}, n = Len(st),
           ~InBatch(st[n]), ~st[n].readonly,
           NEW b \in Batches, b.snap = d, b.scope # 0,
           b.scope \notin {l.scope : l \in Levels(st)}
    PROVE  Sound([st EXCEPT ![n] = [st[n] EXCEPT !.batch = b]], d, w, ws)
<1> DEFINE g == [st[n] EXCEPT !.batch = b]
           su == [st EXCEPT ![n] = g]
           k == BatchLevel(su, n)
<1>0. /\ st \in Seq(FrameSet) /\ st # <<>> /\ w \in Nat /\ st[n] \in FrameSet /\ d \in States
      /\ Effects(d.ops, Levels(st), ws) /\ BatchesOf(st) /\ GasOf(st, w) /\ ReadonlyOf(st, d)
  BY DEF Sound
<1>1. /\ g \in FrameSet /\ g.limit = st[n].limit /\ g.kind = st[n].kind
      /\ g.readonly = st[n].readonly /\ g.snap = st[n].snap /\ g.scope = st[n].scope /\ g.batch = b
      /\ g.ceiling = st[n].ceiling /\ g.used = st[n].used /\ g.child = st[n].child /\ g.prim = st[n].prim
  BY <1>0, Zenon DEF FrameSet
<1> HIDE DEF g
<1>2. FrameGas(g) /\ Spent(g) = Spent(st[n]) /\ InBatch(g) /\ Spent(st[n]) \in Nat
  <2>1. FrameGas(st[n])
    BY <1>0 DEF GasOf
  <2> QED BY <1>0, <1>1, <2>1, FrameNumbers, Zenon DEF FrameGas, Spent, InBatch
<1>3. GasOf(su, w)
  <2>1. GasOf(su, w + 0)
    <3>1. Spent(g) = Spent(st[n]) + 0
      BY <1>2
    <3> QED BY <1>0, <1>1, <1>2, <3>1, GasTop, Zenon
  <2> QED BY <1>0, <2>1
<1>4. ReadonlyOf(su, d)
  BY <1>0, <1>1, ReadonlyTop, Zenon
<1>5. /\ su \in Seq(FrameSet) /\ Len(su) = n /\ su[n] = g
      /\ \A i \in 1..n : i = n \/ (i \in 1..(n - 1) /\ su[i] = st[i])
      /\ \A i \in 1..(n - 1) : su[i] = st[i]
  BY <1>0, <1>1
<1> HIDE DEF su
<1>6. Levels(su) = Levels(st) \cup {k}
  <2>1. \A i \in 1..(n - 1) : SameLevels(st[i], su[i])
    BY <1>5, Zenon DEF SameLevels
  <2>2. su[n].scope = st[n].scope /\ su[n].snap = st[n].snap /\ InBatch(su[n]) /\ Len(st) = n
    BY <1>1, <1>2, <1>5, Zenon
  <2> QED BY <1>5, <2>1, <2>2, LevelsBatch
<1>7. k.scope = b.scope /\ k.ops = d.ops /\ k.pos = 2 * n + 1
  <2>1. k.scope = su[n].batch.scope /\ k.ops = su[n].batch.snap.ops /\ k.pos = 2 * n + 1
    BY Zenon DEF BatchLevel
  <2> HIDE DEF k
  <2> QED BY <1>1, <1>5, <2>1, Zenon
<1>8. \A l \in Levels(st) : l.scope # k.scope /\ l.pos \in Int /\ l.pos < k.pos
  BY <1>7, LevelPlaces
<1>9. k.scope # 0 /\ k.pos \in Int
  BY <1>7
<1> HIDE DEF k
<1>10. Effects(d.ops, Levels(su), ws)
  BY <1>0, <1>6, <1>7, <1>8, <1>9, EffectsOpen
<1>11. BatchesOf(su)
  <2>1. g.batch.snap \in States
    BY <1>0, <1>1, Zenon
  <2>2. \A i \in 1..n : InBatch(su[i]) => su[i].batch.snap \in States
    BY <1>0, <1>5, <2>1, Zenon DEF BatchesOf
  <2>3. \A i \in 1..n : ~InBatch(su[i]) => su[i].batch = NoBatch
    BY <1>0, <1>2, <1>5, Zenon DEF BatchesOf
  <2> QED BY <1>5, <2>2, <2>3, Zenon DEF BatchesOf
<1>12. Sound(su, d, w, ws)
  BY <1>3, <1>4, <1>5, <1>10, <1>11, Zenon DEF Sound
<1> QED BY <1>12, Zenon DEF su, g

(* The batch of the running frame ends: undone, or kept.                   *)
LEMMA SoundBatchEnd ==
    ASSUME NEW st, NEW d, NEW w, NEW ws, Sound(st, d, w, ws), NEW n \in Nat \ {0}, n = Len(st),
           InBatch(st[n]), NEW sv, sv = [st EXCEPT ![n] = [st[n] EXCEPT !.batch = NoBatch]]
    PROVE  /\ Sound(sv, st[n].batch.snap, w, Dropped(ws, {st[n].batch.scope}))
           /\ Sound(sv, d, w, PassedOn(ws, st[n].batch.scope))
<1> DEFINE g == [st[n] EXCEPT !.batch = NoBatch]
           su == [st EXCEPT ![n] = g]
           e == st[n].batch.snap
<1>0. /\ st \in Seq(FrameSet) /\ st # <<>> /\ w \in Nat /\ st[n] \in FrameSet /\ d \in States
      /\ ws \in SUBSET [op : Nat, in : SUBSET Nat] /\ IsFiniteSet(ws)
      /\ Effects(d.ops, Levels(st), ws) /\ BatchesOf(st) /\ GasOf(st, w) /\ ReadonlyOf(st, d)
  BY DEF Sound
<1>1. /\ g \in FrameSet /\ FrameGas(g) /\ g.limit = st[n].limit /\ Spent(g) = Spent(st[n])
      /\ g.kind = st[n].kind /\ g.readonly = st[n].readonly /\ g.snap = st[n].snap
      /\ g.scope = st[n].scope /\ g.batch = NoBatch /\ ~InBatch(g)
  <2>1. FrameGas(st[n])
    BY <1>0 DEF GasOf
  <2> QED BY <1>0, <2>1, EmptyBatch, Zenon
<1>2. ~st[n].readonly /\ e \in States
  BY <1>0 DEF ReadonlyOf, BatchesOf
<1> HIDE DEF g
<1>3. GasOf(su, w)
  <2>1. GasOf(su, w + 0)
    <3>1. Spent(g) = Spent(st[n]) + 0
      BY <1>0, <1>1, FrameNumbers
    <3> QED BY <1>0, <1>1, <3>1, GasTop, Zenon
  <2> QED BY <1>0, <2>1
<1>4. ReadonlyOf(su, d) /\ ReadonlyOf(su, e)
  BY <1>0, <1>1, <1>2, ReadonlyTop, Zenon
<1>5. /\ su \in Seq(FrameSet) /\ Len(su) = n /\ su[n] = g
      /\ \A i \in 1..n : i = n \/ (i \in 1..(n - 1) /\ su[i] = st[i])
      /\ \A i \in 1..(n - 1) : su[i] = st[i]
  BY <1>0, <1>1
<1> HIDE DEF su
<1>6. Levels(su) = Outside(Levels(st), BatchLevel(st, n))
  <2>1. \A i \in 1..(n - 1) : SameLevels(st[i], su[i])
    BY <1>5, Zenon DEF SameLevels
  <2>2. n <= Len(st) /\ Len(st) \in Nat
    OBVIOUS
  <2> QED BY <1>1, <1>5, <2>1, <2>2, LevelsUnbatch
<1>7. /\ Effects(d.ops, Levels(su), PassedOn(ws, st[n].batch.scope))
      /\ Effects(e.ops, Levels(su), Dropped(ws, {st[n].batch.scope}))
  <2>1. n <= Len(st) /\ Len(st) \in Nat
    OBVIOUS
  <2>2. /\ Effects(d.ops, Outside(Levels(st), BatchLevel(st, n)), PassedOn(ws, st[n].batch.scope))
        /\ Effects(st[n].batch.snap.ops, Outside(Levels(st), BatchLevel(st, n)),
                   Dropped(ws, {st[n].batch.scope}))
    BY <1>0, <2>1, BatchLevelEnds, Zenon
  <2> QED BY <1>6, <2>2, Zenon
<1>8. BatchesOf(su)
  BY <1>0, <1>1, <1>5 DEF BatchesOf
<1>9. /\ Sound(su, e, w, Dropped(ws, {st[n].batch.scope}))
      /\ Sound(su, d, w, PassedOn(ws, st[n].batch.scope))
  BY <1>0, <1>2, <1>3, <1>4, <1>5, <1>7, <1>8, WritesLeft, Zenon DEF Sound
<1>10. sv = su
  BY Zenon DEF su, g
<1> QED BY <1>9, <1>10, Zenon


-----------------------------------------------------------------------------
(* Gas arithmetic.                                                         *)

(* The subtraction of uint64 does not wrap for a smaller subtrahend.       *)
LEMMA NoWrap ==
    ASSUME NEW a \in Nat, NEW b \in Nat, b <= a, a < Word
    PROVE  Sub64(a, b) = a - b
<1> DEFINE c == a - b
<1>1. c \in Nat /\ c < Word /\ Word \in Nat \ {0} /\ c = 0 * Word + c
  BY FramesAssumption
<1> HIDE DEF c
<1>2. c % Word = c
  BY <1>1, DivisionUnique
<1> QED BY <1>2, Zenon DEF Sub64, c

(* One opcode.                                                             *)
LEMMA TickReplaces ==
    ASSUME NEW f \in FrameSet, FrameGas(f), CanTick(f)
    PROVE  Replaces(f, Tick(f), 1) /\ Tick(f).self = f.self /\ Tick(f).depth = f.depth
           /\ Tick(f).batch = f.batch
<1> DEFINE g == Tick(f)
<1>1. /\ f.used \in Nat /\ f.child \in Nat /\ f.prim \in Nat /\ f.limit \in Nat /\ f.ceiling \in Int
  BY FrameNumbers, Zenon
<1>2. g \in FrameSet
  BY <1>1 DEF Tick, FrameSet
<1>3. /\ g.limit = f.limit /\ g.kind = f.kind /\ g.readonly = f.readonly /\ g.snap = f.snap
      /\ g.scope = f.scope /\ g.batch = f.batch /\ g.self = f.self /\ g.depth = f.depth
      /\ g.ceiling = f.ceiling /\ g.child = f.child /\ g.prim = f.prim /\ g.used = f.used + 1
  BY Zenon DEF Tick, FrameSet
<1> HIDE DEF g
<1>4. FrameGas(g) /\ Spent(g) = Spent(f) + 1
  BY <1>1, <1>3 DEF FrameGas, Spent, CanTick
<1> QED BY <1>2, <1>3, <1>4, Zenon DEF Replaces, g

(* A primitive: no subtraction wraps, and the ceiling falls by its cost.   *)
LEMMA ChargeReplaces ==
    ASSUME NEW f \in FrameSet, FrameGas(f), f.limit < Word, NEW cost \in Nat, CanCharge(f, cost)
    PROVE  Replaces(f, Charge(f, cost), cost) /\ Charge(f, cost).self = f.self
<1> DEFINE g == Charge(f, cost)
           left == f.limit - f.used
           less == f.limit - f.used - f.child
           prim == f.prim + cost
           room == f.limit - f.child
<1>1. /\ f.used \in Nat /\ f.child \in Nat /\ f.prim \in Nat /\ f.limit \in Nat /\ f.ceiling \in Int
      /\ Spent(f) <= f.limit /\ Spent(f) = f.used + f.child + f.prim
  BY FrameNumbers, Zenon DEF FrameGas, Spent
<1>0. Word \in Nat
  BY FramesAssumption, Zenon
<1>a. /\ left \in Nat /\ less \in Nat /\ room \in Nat /\ prim \in Nat
      /\ f.used <= f.limit /\ f.child <= left /\ f.prim <= less /\ f.child <= f.limit
      /\ left < Word /\ less < Word /\ room < Word /\ less = left - f.child
  BY <1>0, <1>1
<1>2. Sub64(f.limit, f.used) = left
  BY <1>1, <1>a, NoWrap, Zenon
<1>3. Sub64(left, f.child) = less
  <2> HIDE DEF left, less
  <2> QED BY <1>1, <1>a, NoWrap, Zenon
<1>4. Sub64(less, f.prim) = less - f.prim
  <2> HIDE DEF less
  <2> QED BY <1>1, <1>a, NoWrap, Zenon
<1>5. cost <= f.limit - f.used - f.child - f.prim
  BY <1>2, <1>3, <1>4, Zenon DEF CanCharge
<1>b. prim <= room /\ f.used <= room - prim
  BY <1>1, <1>5
<1>6. Sub64(f.limit, f.child) = room
  BY <1>1, <1>a, NoWrap, Zenon
<1>7. Sub64(room, prim) = room - prim /\ f.used <= room - prim
  <2> HIDE DEF room, prim
  <2> QED BY <1>a, <1>b, NoWrap, Zenon
<1>8. g = [f EXCEPT !.prim = prim, !.ceiling = room - prim]
  BY <1>6, <1>7, Zenon DEF Charge
<1>9. prim \in Nat /\ room - prim \in Int /\ prim = f.prim + cost /\ room - prim = f.limit - f.child - prim
  BY <1>1
<1> HIDE DEF g, left, less, prim, room
<1>10. g \in FrameSet
  BY <1>8, <1>9, Zenon DEF FrameSet
<1>11. /\ g.limit = f.limit /\ g.kind = f.kind /\ g.readonly = f.readonly /\ g.snap = f.snap
       /\ g.scope = f.scope /\ g.batch = f.batch /\ g.self = f.self
       /\ g.ceiling = room - prim /\ g.child = f.child /\ g.prim = prim /\ g.used = f.used
  BY <1>8, Zenon DEF FrameSet
<1>12. FrameGas(g) /\ Spent(g) = Spent(f) + cost
  BY <1>1, <1>5, <1>9, <1>11 DEF FrameGas, Spent
<1> QED BY <1>10, <1>11, <1>12, Zenon DEF Replaces, g

(* The caller takes over what its child spent.                             *)
LEMMA AbsorbReplaces ==
    ASSUME NEW f \in FrameSet, FrameGas(f), NEW s \in Nat, Spent(f) + s <= f.limit
    PROVE  Replaces(f, Absorb(f, s), s)
<1> DEFINE g == Absorb(f, s)
           child == f.child + s
           ceiling == f.limit - child - f.prim
<1>1. /\ f.used \in Nat /\ f.child \in Nat /\ f.prim \in Nat /\ f.limit \in Nat /\ f.ceiling \in Int
      /\ Spent(f) = f.used + f.child + f.prim
  BY FrameNumbers, Zenon DEF Spent
<1>2. child \in Nat /\ ceiling \in Int /\ child = f.child + s /\ ceiling = f.limit - child - f.prim
  BY <1>1
<1>3. g = [f EXCEPT !.child = child, !.ceiling = ceiling]
  <2> DEFINE total == f.used + child + f.prim
  <2>1. (IF total < f.limit THEN f.used + (f.limit - total) ELSE f.used) = ceiling
    BY <1>1
  <2>2. g = [f EXCEPT !.child = child,
                      !.ceiling = IF total < f.limit THEN f.used + (f.limit - total) ELSE f.used]
    BY Zenon DEF Absorb
  <2> HIDE DEF g, child, ceiling, total
  <2> QED BY <2>1, <2>2, Zenon
<1> HIDE DEF g, child, ceiling
<1>4. g \in FrameSet
  BY <1>2, <1>3, Zenon DEF FrameSet
<1>5. /\ g.limit = f.limit /\ g.kind = f.kind /\ g.readonly = f.readonly /\ g.snap = f.snap
      /\ g.scope = f.scope /\ g.batch = f.batch
      /\ g.ceiling = ceiling /\ g.child = child /\ g.prim = f.prim /\ g.used = f.used
  BY <1>3, Zenon DEF FrameSet
<1>6. FrameGas(g) /\ Spent(g) = Spent(f) + s
  BY <1>1, <1>2, <1>5 DEF FrameGas, Spent
<1> QED BY <1>4, <1>5, <1>6, Zenon DEF Replaces, g

(* Spending twice is spending the sum.                                     *)
LEMMA ReplacesTwice ==
    ASSUME NEW f \in FrameSet, NEW g, NEW h, NEW j, NEW k, Replaces(f, g, j), Replaces(g, h, k)
    PROVE  Replaces(f, h, j + k)
<1>1. Spent(f) \in Nat /\ j \in Nat /\ k \in Nat /\ Spent(h) = Spent(f) + (j + k)
  BY FrameNumbers DEF Replaces
<1>2. \/ h.batch = f.batch
      \/ InBatch(f) /\ h.batch.scope = f.batch.scope /\ h.batch.snap = f.batch.snap
  BY Zenon DEF Replaces, InBatch
<1> QED BY <1>1, <1>2 DEF Replaces

(* Every frame's limit is within the transaction's gas.                    *)
LEMMA WithinGas ==
    ASSUME NEW st, NEW d, NEW w, NEW ws, Sound(st, d, w, ws), NEW i \in 1..Len(st)
    PROVE  st[i] \in FrameSet /\ FrameGas(st[i]) /\ st[i].limit \in Nat
           /\ st[i].limit <= Gas /\ st[i].limit < Word
<1>1. st \in Seq(FrameSet) /\ GasOf(st, w)
  BY Zenon DEF Sound
<1>2. st[i] \in FrameSet /\ FrameGas(st[i]) /\ st[i].limit \in Nat
  BY <1>1, FrameNumbers DEF GasOf
<1>3. SpentBy(st, i - 1) \in Nat
  <2> DEFINE k == i - 1
  <2>1. k \in Nat /\ \A x \in 1..(k + 1) : x \in 1..Len(st)
    BY <1>1
  <2>2. \A x \in 1..(k + 1) : Spent(st[x]) \in Nat
    BY <1>1, <2>1, FrameNumbers
  <2> HIDE DEF k
  <2>3. SpentBy(st, k) \in Nat
    BY <2>1, <2>2, SpentNext, Zenon
  <2> QED BY <2>3, Zenon DEF k
<1>4. SpentBy(st, i - 1) + st[i].limit <= Gas
  BY <1>1, Zenon DEF GasOf
<1>5. Gas \in Nat /\ Word \in Nat /\ Word > 2 * Gas
  BY FramesAssumption, Zenon
<1>6. st[i].limit <= Gas
  BY <1>2, <1>3, <1>4, <1>5
<1>7. st[i].limit < Word
  BY <1>2, <1>5, <1>6
<1> QED BY <1>2, <1>6, <1>7, Zenon

(* A child gets at most what its caller has left.                          *)
LEMMA ChildShare ==
    ASSUME NEW a \in Nat, NEW x \in GasArgs
    PROVE  childFrameGasLimit(a, x) \in Nat /\ childFrameGasLimit(a, x) <= a
<1> DEFINE q == a \div GasFraction
<1>1. q \in Nat /\ q <= a
  <2>1. GasFraction \in Nat \ {0}
    BY FramesAssumption, Zenon
  <2> QED BY <2>1, Division, DivisionOrder
<1>2. x \in Nat \/ x = None
  BY FramesAssumption, Zenon DEF GasArgs
<1>3. childFrameGasLimit(a, x) = IF x # None /\ x < a - q THEN x ELSE a - q
  BY Zenon DEF childFrameGasLimit
<1> HIDE DEF q
<1> QED BY <1>1, <1>2, <1>3 DEF None


-----------------------------------------------------------------------------
(* What a step can come to.                                                *)

(* The running frame has become g after spending k.                        *)
Replaced(g, k) == stack # <<>> /\ Replaces(Top, g, k) /\ work' = work + k

(* The invariant holds again, and a static frame left the state alone.     *)
Preserved == FramesInv' /\ (Top.readonly => stateDB' = stateDB)

(* The frame on top of the stack.                                          *)
LEMMA TopFacts ==
    ASSUME FramesInv, stack # <<>>
    PROVE  /\ Len(stack) \in Nat \ {0} /\ Len(stack) \in 1..Len(stack)
           /\ Top = stack[Len(stack)] /\ Top \in FrameSet /\ FrameGas(Top) /\ Top.limit < Word
           /\ Sound(stack, stateDB, work, writes)
           /\ work \in Nat /\ stateDB \in States /\ charged \in Int
<1>1. /\ Sound(stack, stateDB, work, writes) /\ stack \in Seq(FrameSet)
      /\ work \in Nat /\ stateDB \in States /\ charged \in Int
  BY Zenon DEF FramesInv, Sound
<1>2. Len(stack) \in Nat \ {0} /\ Len(stack) \in 1..Len(stack) /\ Top = stack[Len(stack)]
  BY <1>1 DEF Top
<1>3. stack[Len(stack)] \in FrameSet /\ FrameGas(stack[Len(stack)]) /\ stack[Len(stack)].limit < Word
  BY <1>1, <1>2, WithinGas, Zenon
<1> QED BY <1>1, <1>2, <1>3, Zenon

(* The stack after its top frame has spent.                                *)
LEMMA ReplacedFrames ==
    ASSUME FramesInv, NEW g, NEW k, Replaced(g, k)
    PROVE  /\ Sound(WithTop(g), stateDB, work', writes)
           /\ Levels(WithTop(g)) = Levels(stack)
           /\ WithTop(g) \in Seq(FrameSet) /\ Len(WithTop(g)) = Len(stack)
           /\ WithTop(g)[Len(stack)] = g
           /\ \A i \in 1..Len(stack) : i = Len(stack) \/ WithTop(g)[i] = stack[i]
<1>1. stack # <<>> /\ Replaces(Top, g, k) /\ work' = work + k
  BY Zenon DEF Replaced
<1>2. /\ Len(stack) \in Nat \ {0} /\ Top = stack[Len(stack)]
      /\ Sound(stack, stateDB, work, writes)
  BY <1>1, TopFacts, Zenon
<1>3. Sound(WithTop(g), stateDB, work + k, writes) /\ Levels(WithTop(g)) = Levels(stack)
  BY <1>1, <1>2, SoundTop, Zenon DEF WithTop
<1>4. stack \in Seq(FrameSet) /\ g \in FrameSet
  BY <1>1, <1>2, Zenon DEF Sound, Replaces
<1>5. /\ WithTop(g) \in Seq(FrameSet) /\ Len(WithTop(g)) = Len(stack)
      /\ WithTop(g)[Len(stack)] = g
      /\ \A i \in 1..Len(stack) : i = Len(stack) \/ WithTop(g)[i] = stack[i]
  BY <1>2, <1>4 DEF WithTop
<1> QED BY <1>1, <1>3, <1>5, Zenon

(* A step after which the frame goes on keeps the invariant.               *)
LEMMA GoesOn ==
    ASSUME FramesInv, NEW g, NEW k, Replaced(g, k), SoftFalse(g)
    PROVE  Preserved
<1>1. stack' = WithTop(g) /\ stateDB' = stateDB /\ charged' = charged /\ writes' = writes
  BY Zenon DEF SoftFalse
<1>2. Sound(stack', stateDB', work', writes')
  BY <1>1, ReplacedFrames, Zenon
<1>3. charged \in Int /\ Len(WithTop(g)) = Len(stack) /\ Len(stack) # 0
  BY TopFacts, ReplacedFrames, Zenon DEF Replaced
<1>4. stack' # <<>>
  BY <1>1, <1>3, Zenon
<1> QED BY <1>1, <1>2, <1>3, <1>4, Zenon DEF Preserved, FramesInv

(* The last frame ends.                                                    *)
LEMMA SoundEmpty ==
    ASSUME NEW st, NEW d, NEW w, NEW ws, Sound(st, d, w, ws), Len(st) = 1
    PROVE  /\ ~InBatch(st[1]) => Sound(<<>>, d, w, PassedOn(ws, st[1].scope))
           /\ Sound(<<>>, st[1].snap, w, Dropped(ws, {st[1].scope}))
           /\ w = Spent(st[1]) /\ w <= st[1].limit /\ st[1].limit <= Gas
           /\ w \in Nat /\ st[1].limit \in Nat
<1>1. /\ d \in States /\ st \in Seq(FrameSet) /\ w \in Nat
      /\ ws \in SUBSET [op : Nat, in : SUBSET Nat] /\ IsFiniteSet(ws)
      /\ GasOf(st, w) /\ Effects(d.ops, Levels(st), ws)
  BY Zenon DEF Sound
<1>2. st[1] \in FrameSet /\ FrameGas(st[1]) /\ st[1].limit \in Nat /\ st[1].limit <= Gas
  <2>1. 1 \in 1..Len(st)
    OBVIOUS
  <2> QED BY <2>1, WithinGas, Zenon
<1>3. w = Spent(st[1])
  <2>1. st # <<>> /\ w = SpentBy(st, 1)
    <3>1. st # <<>>
      BY <1>1
    <3>2. w = SpentBy(st, Len(st))
      BY <1>1, <3>1, Zenon DEF GasOf
    <3> QED BY <3>1, <3>2, Zenon
  <2>2. Spent(st[1]) \in Nat
    BY <1>2, FrameNumbers, Zenon
  <2>3. SpentBy(st, 0 + 1) = SpentBy(st, 0) + Spent(st[0 + 1])
    <3>1. \A i \in 1..(0 + 1) : Spent(st[i]) \in Nat
      BY <2>2
    <3> QED BY <3>1, SpentNext, Zenon
  <2> QED BY <2>1, <2>2, <2>3, SpentNone
<1>4. w <= st[1].limit
  BY <1>2, <1>3, Zenon DEF FrameGas
<1>5. /\ <<>> \in Seq(FrameSet) /\ Len(<<>>) = 0
      /\ BatchesOf(<<>>) /\ GasOf(<<>>, w) /\ \A e : ReadonlyOf(<<>>, e)
  BY DEF BatchesOf, GasOf, ReadonlyOf
<1>6. Levels(<<>>) = Outside(Levels(st), FrameLevel(st, 1))
  <2> DEFINE su == <<>>
  <2>1. Len(su) = 1 - 1 /\ \A i \in 1..(1 - 1) : SameLevels(st[i], su[i])
    OBVIOUS
  <2>2. 1 \in Nat \ {0} /\ 1 <= Len(st) /\ Len(st) \in Nat
    OBVIOUS
  <2> HIDE DEF su
  <2>3. Levels(su) = Outside(Levels(st), FrameLevel(st, 1))
    BY <2>1, <2>2, LevelsPop, Zenon
  <2> QED BY <2>3, Zenon DEF su
<1>7. /\ ~InBatch(st[1]) => Effects(d.ops, Levels(<<>>), PassedOn(ws, st[1].scope))
      /\ Effects(st[1].snap.ops, Levels(<<>>), Dropped(ws, {st[1].scope}))
  <2>1. 1 \in Nat \ {0}
    OBVIOUS
  <2>2. /\ ~InBatch(st[1]) => Effects(d.ops, Outside(Levels(st), FrameLevel(st, 1)), PassedOn(ws, st[1].scope))
        /\ Effects(st[1].snap.ops, Outside(Levels(st), FrameLevel(st, 1)), Dropped(ws, {st[1].scope}))
    BY <1>1, <2>1, FrameLevelEnds, Zenon
  <2> QED BY <1>6, <2>2, Zenon
<1>8. st[1].snap \in States
  BY <1>2, Zenon DEF FrameSet
<1>9. ~InBatch(st[1]) => Sound(<<>>, d, w, PassedOn(ws, st[1].scope))
  BY <1>1, <1>5, <1>7, WritesLeft, Zenon DEF Sound
<1>10. Sound(<<>>, st[1].snap, w, Dropped(ws, {st[1].scope}))
  BY <1>1, <1>5, <1>7, <1>8, WritesLeft, Zenon DEF Sound
<1> QED BY <1>1, <1>2, <1>3, <1>4, <1>9, <1>10, Zenon


(* The frame that ends, after g, whether or not its batch was closed.      *)
SameEnd(f, g) ==
    /\ f.snap = g.snap /\ f.scope = g.scope /\ f.limit = g.limit /\ f.kind = g.kind
    /\ Spent(f) = Spent(g)

(* A static frame, the frames around which are static or not, ends with    *)
(* the state it found; an entry of a batch is not static.                  *)
LEMMA TopReadonly ==
    ASSUME FramesInv, stack # <<>>
    PROVE  /\ Top.readonly => Top.snap = stateDB /\ ~InBatch(Top) /\ Top.kind # "entry"
           /\ Top.kind = "static" => Top.readonly
           /\ Top.kind = "entry" => Len(stack) > 1 /\ InBatch(stack[Len(stack) - 1])
           /\ \A i \in 1..Len(stack) : stack[i].readonly => Top.readonly
<1>1. /\ Len(stack) \in Nat \ {0} /\ Len(stack) \in 1..Len(stack) /\ Top = stack[Len(stack)]
      /\ Sound(stack, stateDB, work, writes)
  BY TopFacts, Zenon
<1>2. ReadonlyOf(stack, stateDB)
  BY <1>1, Zenon DEF Sound
<1> QED BY <1>1, <1>2 DEF ReadonlyOf

(* The end of the outermost frame keeps the invariant.                     *)
LEMMA EndsTx ==
    ASSUME FramesInv, NEW g, NEW k, Replaced(g, k), NEW f, SameEnd(f, g), NEW ok \in BOOLEAN,
           ok => ~InBatch(Top), Len(stack) = 1, EndTx(ok, f)
    PROVE  Preserved
<1> DEFINE su == WithTop(g)
<1>1. /\ Sound(su, stateDB, work', writes) /\ Len(su) = 1 /\ su[1] = g
  BY ReplacedFrames, Zenon
<1>2. stack # <<>> /\ Replaces(Top, g, k) /\ stateDB \in States
  <2>1. stack # <<>> /\ Replaces(Top, g, k)
    BY Zenon DEF Replaced
  <2> QED BY <2>1, TopFacts, Zenon
<1>3. g.snap = Top.snap /\ (InBatch(g) <=> InBatch(Top))
  BY <1>2, Zenon DEF Replaces, InBatch
<1> HIDE DEF su
<1>4. /\ ~InBatch(g) => Sound(<<>>, stateDB, work', PassedOn(writes, g.scope))
      /\ Sound(<<>>, g.snap, work', Dropped(writes, {g.scope}))
      /\ work' = Spent(g) /\ work' <= g.limit /\ g.limit <= Gas /\ work' \in Nat /\ g.limit \in Nat
  BY <1>1, SoundEmpty, Zenon
<1>5. /\ stack' = <<>> /\ stateDB' = IF ok THEN stateDB ELSE f.snap
      /\ charged' = IF ok THEN Spent(f) ELSE f.limit
      /\ writes' = IF ok THEN PassedOn(writes, f.scope) ELSE Dropped(writes, {f.scope})
  BY Zenon DEF EndTx, Close, PassedOn, Dropped
<1>6. f.snap = g.snap /\ f.scope = g.scope /\ f.limit = g.limit /\ Spent(f) = Spent(g)
  BY Zenon DEF SameEnd
<1>7. Gas \in Nat
  BY FramesAssumption, Zenon
<1>8. charged' \in Int /\ work' <= charged' /\ charged' <= Gas
  BY <1>4, <1>5, <1>6, <1>7
<1>9. Sound(stack', stateDB', work', writes')
  <2>1. CASE ok
    BY <1>3, <1>4, <1>5, <1>6, <2>1, Zenon
  <2>2. CASE ~ok
    BY <1>4, <1>5, <1>6, <2>2, Zenon
  <2> QED BY <2>1, <2>2, Zenon
<1>10. Top.readonly => stateDB' = stateDB
  BY <1>2, <1>3, <1>5, <1>6, TopReadonly, Zenon
<1> QED BY <1>8, <1>9, <1>10, Zenon DEF Preserved, FramesInv

(* The end of a nested frame keeps the invariant.                          *)
LEMMA EndsNested ==
    ASSUME FramesInv, NEW g, NEW k, Replaced(g, k), NEW f, SameEnd(f, g), NEW ok \in BOOLEAN,
           ok => ~InBatch(Top), Len(stack) # 1, EndNested(ok, f)
    PROVE  Preserved
<1> DEFINE n == Len(stack)
           su == WithTop(g)
           q == stack[n - 1]
           p == Absorb(q, Spent(f))
<1>1. /\ Sound(su, stateDB, work', writes) /\ su \in Seq(FrameSet) /\ Len(su) = n /\ su[n] = g
      /\ \A i \in 1..n : i = n \/ su[i] = stack[i]
  BY ReplacedFrames, Zenon
<1>2. /\ stack # <<>> /\ Replaces(Top, g, k) /\ stateDB \in States /\ charged \in Int
      /\ n \in Nat /\ n > 1 /\ Sound(stack, stateDB, work, writes)
  <2>1. stack # <<>> /\ Replaces(Top, g, k)
    BY Zenon DEF Replaced
  <2>2. stateDB \in States /\ charged \in Int /\ n \in Nat \ {0} /\ Sound(stack, stateDB, work, writes)
    BY <2>1, TopFacts, Zenon
  <2>3. n # 1
    BY Zenon
  <2> HIDE DEF n
  <2>4. n > 1
    BY <2>2, <2>3
  <2> QED BY <2>1, <2>2, <2>4, Zenon
<1>3. /\ f.snap = g.snap /\ f.scope = g.scope /\ f.kind = Top.kind /\ Spent(f) = Spent(g)
      /\ g.snap = Top.snap /\ (InBatch(g) <=> InBatch(Top))
  BY <1>2, Zenon DEF Replaces, InBatch, SameEnd
<1>4. stack \in Seq(FrameSet)
  BY <1>2, Zenon DEF Sound
<1>5. /\ Below = SubSeq(su, 1, n - 1) /\ Len(Below) = n - 1 /\ Below[Len(Below)] = q
      /\ su[n - 1] = q
  <2>1. su[n - 1] = q
    BY <1>1, <1>2
  <2>2. Len(Below) = n - 1 /\ \A i \in 1..(n - 1) : Below[i] = stack[i]
    BY <1>2, <1>4 DEF Below
  <2>3. Below[Len(Below)] = q
    BY <1>2, <2>2
  <2>4. Below = SubSeq(su, 1, n - 1)
    <3>1. Below = [i \in 1..(n - 1) |-> stack[i]]
      BY <1>2, <1>4 DEF Below
    <3>2. SubSeq(su, 1, n - 1) = [i \in 1..(n - 1) |-> su[i]]
      BY <1>1, <1>2
    <3>3. \A i \in 1..(n - 1) : su[i] = stack[i]
      BY <1>1, <1>2
    <3> HIDE DEF su
    <3> QED BY <3>1, <3>2, <3>3, Zenon
  <2> QED BY <2>1, <2>2, <2>3, <2>4, Zenon
<1>6. Replaces(q, p, Spent(g))
  <2>1. q \in FrameSet /\ FrameGas(q)
    <3>1. n - 1 \in 1..Len(su)
      BY <1>1, <1>2
    <3> QED BY <1>1, <1>5, <3>1, WithinGas, Zenon
  <2>2. Spent(g) \in Nat
    BY <1>2, FrameNumbers, Zenon DEF Replaces
  <2>3. Spent(q) + Spent(g) <= q.limit
    <3>1. work' \in Nat /\ GasOf(su, work')
      BY <1>1, Zenon DEF Sound
    <3> HIDE DEF su, q, n
    <3>2. Spent(su[n - 1]) + Spent(su[n]) <= su[n - 1].limit
      BY <1>1, <1>2, <3>1, GasPop, Zenon
    <3> QED BY <1>1, <1>5, <3>2, Zenon
  <2> HIDE DEF q
  <2> QED BY <1>3, <2>1, <2>2, <2>3, AbsorbReplaces, Zenon
<1> HIDE DEF p, q
<1>7. /\ stateDB' = CASE f.kind = "static" -> f.snap
                      [] f.kind = "entry" -> IF ok THEN stateDB ELSE p.batch.snap
                      [] OTHER -> IF ok THEN stateDB ELSE f.snap
      /\ Close(ok, IF f.kind = "entry" /\ ~ok THEN {f.scope, p.batch.scope} ELSE {f.scope})
      /\ stack' = [Below EXCEPT ![Len(Below)] =
                     IF f.kind = "entry" /\ ~ok THEN [p EXCEPT !.batch = NoBatch] ELSE p]
      /\ charged' = charged
  BY <1>5, Zenon DEF EndNested, ChildCharge, AfterStatic, AfterEntry, AfterCall, p
<1>8. /\ Top.readonly => Top.snap = stateDB /\ Top.kind # "entry"
      /\ Top.kind = "static" => Top.readonly
      /\ Top.kind = "entry" => InBatch(q)
  BY <1>2, TopReadonly, Zenon DEF q
<1>9. \A x : [Below EXCEPT ![Len(Below)] = x] = Popped(su, x)
  BY <1>1, <1>5, Zenon DEF Popped
<1> HIDE DEF su
<1>10. /\ ~InBatch(g) => Sound(Popped(su, p), stateDB, work', PassedOn(writes, g.scope))
       /\ Sound(Popped(su, p), g.snap, work', Dropped(writes, {g.scope}))
  <2> HIDE DEF n
  <2>1. Replaces(su[n - 1], p, Spent(su[n])) /\ n = Len(su)
    BY <1>1, <1>5, <1>6, Zenon
  <2> QED BY <1>1, <1>2, <2>1, SoundReturn, Zenon
<1>11. InBatch(q) => Sound(Popped(su, [p EXCEPT !.batch = NoBatch]), q.batch.snap, work',
                           Dropped(writes, {g.scope, q.batch.scope}))
  <2> HIDE DEF n
  <2>1. Replaces(su[n - 1], p, Spent(su[n])) /\ n = Len(su) /\ q = su[n - 1]
    BY <1>1, <1>5, <1>6, Zenon
  <2> QED BY <1>1, <1>2, <2>1, SoundFailBatch, Zenon
<1>12. InBatch(q) => p.batch.scope = q.batch.scope /\ p.batch.snap = q.batch.snap
  BY <1>6, Zenon DEF Replaces
<1>13. /\ Sound(stack', stateDB', work', writes')
       /\ stack' = Popped(su, p) \/ stack' = Popped(su, [p EXCEPT !.batch = NoBatch])
       /\ Top.readonly => stateDB' = stateDB
  <2>1. CASE ok
    <3>1. stack' = Popped(su, p) /\ writes' = PassedOn(writes, f.scope)
      BY <1>7, <1>9, <2>1, Zenon DEF Close, PassedOn
    <3>2. stateDB' = stateDB
      BY <1>3, <1>7, <1>8, <2>1, Zenon
    <3> QED BY <1>3, <1>10, <2>1, <3>1, <3>2, Zenon
  <2>2. CASE ~ok /\ f.kind # "entry"
    <3>1. stack' = Popped(su, p) /\ writes' = Dropped(writes, {f.scope})
      BY <1>7, <1>9, <2>2, Zenon DEF Close, Dropped
    <3>2. stateDB' = f.snap
      BY <1>7, <2>2, Zenon
    <3> QED BY <1>3, <1>8, <1>10, <3>1, <3>2, Zenon
  <2>3. CASE ~ok /\ f.kind = "entry"
    <3>1. /\ stack' = Popped(su, [p EXCEPT !.batch = NoBatch])
          /\ writes' = Dropped(writes, {f.scope, p.batch.scope})
      BY <1>7, <1>9, <2>3, Zenon DEF Close, Dropped
    <3>2. stateDB' = p.batch.snap
      BY <1>7, <2>3, Zenon
    <3>3. InBatch(q) /\ ~Top.readonly
      BY <1>3, <1>8, <2>3, Zenon
    <3> QED BY <1>3, <1>11, <1>12, <3>1, <3>2, <3>3, Zenon
  <2> QED BY <2>1, <2>2, <2>3, Zenon
<1>14. stack' # <<>>
  <2>1. /\ Len(Below) = n - 1 /\ n - 1 # 0
    BY <1>2, <1>5
  <2>2. stack' = [Below EXCEPT ![Len(Below)] =
                     IF f.kind = "entry" /\ ~ok THEN [p EXCEPT !.batch = NoBatch] ELSE p]
    BY <1>7, Zenon
  <2>3. Below \in Seq(FrameSet)
    BY <1>2, <1>4 DEF Below
  <2>4. DOMAIN Below = 1..(n - 1) /\ DOMAIN stack' = DOMAIN Below
    BY <2>1, <2>2, <2>3
  <2> QED BY <1>2, <2>4
<1> QED BY <1>2, <1>7, <1>13, <1>14, Zenon DEF Preserved, FramesInv

(* The end of any frame keeps the invariant.                               *)
LEMMA Ends ==
    ASSUME FramesInv, NEW g, NEW k, Replaced(g, k), NEW f, SameEnd(f, g), NEW ok \in BOOLEAN,
           ok => ~InBatch(Top), End(ok, f)
    PROVE  Preserved
BY EndsTx, EndsNested, Zenon DEF End

(* A raised error, caught or not, keeps the invariant.                     *)
LEMMA Raises ==
    ASSUME FramesInv, NEW g, NEW k, Replaced(g, k), Raise(g)
    PROVE  Preserved
<1>1. CASE SoftFalse(g)
  BY <1>1, GoesOn, Zenon
<1>2. CASE End(FALSE, g)
  <2>1. SameEnd(g, g)
    BY Zenon DEF SameEnd
  <2> QED BY <1>2, <2>1, Ends, Zenon
<1> QED BY <1>1, <1>2, Zenon DEF Raise, SoftFalse


(* The running frame goes on as g and changes the state.                   *)
LEMMA Writes ==
    ASSUME FramesInv, NEW g, NEW k, Replaced(g, k), ~Top.readonly,
           stateDB' \in States, stateDB'.ops = stateDB.ops \cup {Fresh}, Wrote(Fresh, Scopes),
           stack' = WithTop(g), UNCHANGED charged
    PROVE  Preserved
<1> DEFINE n == Len(stack)
           su == WithTop(g)
<1>1. /\ Sound(su, stateDB, work', writes) /\ Levels(su) = Levels(stack)
      /\ Len(su) = n /\ su[n] = g
  BY ReplacedFrames, Zenon
<1>2. stack # <<>> /\ g.readonly = Top.readonly
  BY Zenon DEF Replaced, Replaces
<1>3. n \in Nat \ {0} /\ charged \in Int
  BY <1>2, TopFacts, Zenon
<1>4. /\ {l.scope : l \in Levels(su)} \subseteq Scopes
      /\ Scopes \subseteq {l.scope : l \in Levels(su)} \cup {0}
      /\ Scopes \in SUBSET Nat /\ Fresh \in Nat
  BY <1>1, ScopesOpen, FreshIsNew, Zenon
<1> HIDE DEF su
<1>5. su = stack'
  BY Zenon DEF su
<1> HIDE DEF n
<1>6. Sound(su, stateDB', work', writes \cup {[op |-> Fresh, in |-> Scopes]})
  <2>1. ~su[n].readonly /\ n = Len(su)
    BY <1>1, <1>2, Zenon
  <2> QED BY <1>1, <1>3, <1>4, <2>1, SoundWrite, Zenon
<1>7. su # <<>>
  BY <1>1, <1>3, Zenon
<1> QED BY <1>3, <1>5, <1>6, <1>7, Zenon DEF Preserved, FramesInv, Wrote

(* Moving value keeps balances numbers.                                    *)
LEMMA MoveType ==
    ASSUME NEW b \in [Holders -> Int], NEW from \in Holders, NEW to \in Holders, NEW v \in Int
    PROVE  Move(b, from, to, v) \in [Holders -> Int]
<1>1. [b EXCEPT ![from] = @ - v] \in [Holders -> Int]
  OBVIOUS
<1> QED BY <1>1 DEF Move

(* What Enter pushes is a frame.                                           *)
Opened(c, kind, readonly, gas, d, scope) ==
    /\ c \in FrameSet /\ c.batch = NoBatch /\ c.snap = d /\ c.scope = scope
    /\ c.limit = gas /\ c.kind = kind /\ c.readonly = readonly
    /\ FrameGas(c) /\ Spent(c) = 0

(* The fields of a new frame.                                              *)
LEMMA NewFrame ==
    ASSUME NEW self \in Contracts, NEW kind \in {"call", "static", "delegate", "entry"},
           NEW readonly \in BOOLEAN, NEW depth \in Nat, NEW gas \in Nat, NEW d \in States,
           NEW scope \in Nat, NEW c, c = Frame(self, kind, readonly, depth, gas, d, scope)
    PROVE  Opened(c, kind, readonly, gas, d, scope)
<1>1. NoBatch \in Batches
  <2>1. <<>> \in Seq(Entries)
    OBVIOUS
  <2> QED BY <2>1, Zenon DEF NoBatch, Batches
<1>2. /\ c \in FrameSet /\ c.batch = NoBatch /\ c.snap = d /\ c.scope = scope
      /\ c.limit = gas /\ c.kind = kind /\ c.readonly = readonly
      /\ c.ceiling = gas /\ c.used = 0 /\ c.child = 0 /\ c.prim = 0
  BY <1>1 DEF Frame, FrameSet
<1>3. Spent(c) = 0 /\ FrameGas(c)
  BY <1>2 DEF Spent, FrameGas
<1> QED BY <1>2, <1>3, Zenon DEF Opened

(* The running frame goes on as g and opens another one, or pays an        *)
(* account without code.                                                   *)
LEMMA Enters ==
    ASSUME FramesInv, NEW g, NEW k, Replaced(g, k), NEW callee \in Holders,
           NEW kind \in {"call", "static", "delegate", "entry"}, NEW readonly \in BOOLEAN,
           NEW gas \in Nat, gas <= Available(g), NEW value \in Nat, value > 0 => readonly = FALSE,
           Top.readonly => readonly = TRUE, kind = "static" => readonly = TRUE,
           kind = "entry" => InBatch(Top) /\ readonly = FALSE,
           Enter(callee, kind, readonly, gas, value, g)
    PROVE  Preserved
<1> DEFINE n == Len(stack)
           su == WithTop(g)
           paid == [stateDB EXCEPT !.ops = @ \cup {Fresh}, !.bal = Move(@, g.self, callee, value)]
           c == Frame(IF kind = "delegate" THEN g.self ELSE callee, kind,
                      readonly, g.depth + 1, gas, stateDB, Fresh)
<1>1. /\ Sound(su, stateDB, work', writes) /\ Levels(su) = Levels(stack)
      /\ su \in Seq(FrameSet) /\ Len(su) = n /\ su[n] = g
  BY ReplacedFrames, Zenon
<1>2. /\ stack # <<>> /\ g.readonly = Top.readonly /\ (InBatch(g) <=> InBatch(Top))
      /\ g \in FrameSet
  BY Zenon DEF Replaced, Replaces, InBatch
<1>3. n \in Nat \ {0} /\ charged \in Int /\ stateDB \in States
  BY <1>2, TopFacts, Zenon
<1>4. /\ {l.scope : l \in Levels(su)} \subseteq Scopes
      /\ Scopes \subseteq {l.scope : l \in Levels(su)} \cup {0}
      /\ Scopes \in SUBSET Nat /\ Fresh \in Nat \ {0} /\ Fresh \notin Scopes
  BY <1>1, ScopesOpen, FreshIsNew, Zenon
<1>5. g.self \in Contracts /\ g.depth \in Nat
  BY <1>2, Zenon DEF FrameSet
<1>6. paid \in States /\ paid.ops = stateDB.ops \cup {Fresh}
  <2>1. stateDB.bal \in [Holders -> Int] /\ g.self \in Holders
    BY <1>3, <1>5, Zenon DEF States, Holders
  <2>2. Move(stateDB.bal, g.self, callee, value) \in [Holders -> Int]
    <3>1. value \in Int
      OBVIOUS
    <3> QED BY <2>1, <3>1, MoveType, Zenon
  <2> QED BY <1>3, <1>4, <2>2, Zenon DEF States
<1>7. /\ value > 0 => stateDB' = paid
      /\ ~(value > 0) => stateDB' = stateDB /\ writes' = writes
      /\ value > 0 => Wrote(Fresh, Scopes \cup (IF callee \in Contracts THEN {Fresh} ELSE {}))
      /\ stack' = IF callee \in Contracts THEN Append(su, c) ELSE su
      /\ charged' = charged
  BY Zenon DEF Enter
<1> HIDE DEF paid, c
<1>8. CASE callee \notin Contracts
  <2>1. CASE value > 0
    <3>1. /\ ~Top.readonly /\ stateDB' \in States /\ stateDB'.ops = stateDB.ops \cup {Fresh}
          /\ Wrote(Fresh, Scopes) /\ stack' = WithTop(g) /\ UNCHANGED charged
      BY <1>6, <1>7, <1>8, <2>1, Zenon
    <3> QED BY <3>1, Writes, Zenon
  <2>2. CASE ~(value > 0)
    <3>1. SoftFalse(g)
      BY <1>7, <1>8, <2>2, Zenon DEF SoftFalse
    <3> QED BY <3>1, GoesOn, Zenon
  <2> QED BY <2>1, <2>2, Zenon
<1>9. CASE callee \in Contracts
  <2> DEFINE sv == Append(su, c)
  <2>1. /\ c \in FrameSet /\ c.batch = NoBatch /\ c.snap = stateDB /\ c.scope = Fresh
        /\ c.limit = gas /\ c.kind = kind /\ c.readonly = readonly
        /\ FrameGas(c) /\ Spent(c) = 0
    <3> DEFINE who == IF kind = "delegate" THEN g.self ELSE callee
               deep == g.depth + 1
    <3>1. who \in Contracts /\ deep \in Nat /\ c = Frame(who, kind, readonly, deep, gas, stateDB, Fresh)
      BY <1>5, <1>9 DEF c
    <3> HIDE DEF who, deep
    <3>2. Fresh \in Nat /\ stateDB \in States
      BY <1>3, <1>4, Zenon
    <3>3. Opened(c, kind, readonly, gas, stateDB, Fresh)
      BY <3>1, <3>2, NewFrame, Zenon
    <3> QED BY <3>3, Zenon DEF Opened
  <2>2. /\ Sound(sv, stateDB, work', writes)
        /\ Levels(sv) = Levels(su) \cup {FrameLevel(sv, n + 1)}
        /\ FrameLevel(sv, n + 1).scope = Fresh
    <3> HIDE DEF su, n
    <3>1. /\ n = Len(su) /\ c.limit <= Available(su[n]) /\ c.scope # 0
          /\ c.scope \notin {l.scope : l \in Levels(su)}
          /\ su[n].readonly => c.readonly
          /\ c.kind = "static" => c.readonly
          /\ c.kind = "entry" => InBatch(su[n]) /\ ~c.readonly
      BY <1>1, <1>2, <1>4, <2>1, Zenon
    <3>2. n \in Nat \ {0} /\ Sound(su, stateDB, work', writes)
      BY <1>1, <1>3, Zenon
    <3>3. /\ Sound(Append(su, c), stateDB, work', writes)
          /\ Levels(Append(su, c)) = Levels(su) \cup {FrameLevel(Append(su, c), n + 1)}
          /\ FrameLevel(Append(su, c), n + 1).scope = c.scope
      <4>1. CanPush(su, stateDB, work', writes, n, c)
        BY <2>1, <3>1, <3>2, Zenon DEF CanPush
      <4> QED BY <4>1, SoundPushed
    <3> QED BY <2>1, <3>3, Zenon
  <2>3. Len(sv) = n + 1 /\ sv[n + 1] = c /\ n + 1 \in Nat \ {0} /\ sv # <<>>
    BY <1>1, <1>3, <2>1
  <2>4. CASE value > 0
    <3>1. ~sv[n + 1].readonly /\ ~Top.readonly
      BY <2>1, <2>3, <2>4, Zenon
    <3>2. {l.scope : l \in Levels(sv)} = {l.scope : l \in Levels(su)} \cup {Fresh}
      <4> HIDE DEF sv, su, n
      <4> QED BY <2>2, Zenon
    <3> DEFINE m == n + 1
               S == Scopes \cup {Fresh}
    <3>3. /\ S \in SUBSET Nat /\ {l.scope : l \in Levels(sv)} \subseteq S
          /\ S \subseteq {l.scope : l \in Levels(sv)} \cup {0}
      BY <1>4, <3>2, Zenon
    <3>4. stateDB' \in States /\ stateDB'.ops = stateDB.ops \cup {Fresh} /\ Wrote(Fresh, S)
      BY <1>6, <1>7, <1>9, <2>4, Zenon
    <3>5. m = Len(sv) /\ m \in Nat \ {0} /\ ~sv[m].readonly
      BY <2>3, <3>1, Zenon
    <3> HIDE DEF sv, S, m
    <3>6. Sound(sv, stateDB', work', writes \cup {[op |-> Fresh, in |-> S]})
      BY <1>4, <2>2, <3>3, <3>4, <3>5, SoundWrite, Zenon
    <3>7. stack' = sv
      BY <1>7, <1>9, Zenon DEF sv
    <3> QED BY <1>3, <1>7, <2>3, <3>1, <3>4, <3>6, <3>7, Zenon DEF Preserved, FramesInv, Wrote
  <2>5. CASE ~(value > 0)
    <3>1. stack' = sv
      BY <1>7, <1>9, Zenon
    <3> HIDE DEF sv
    <3> QED BY <1>3, <1>7, <2>2, <2>3, <2>5, <3>1, Zenon DEF Preserved, FramesInv
  <2> QED BY <2>4, <2>5, Zenon
<1> QED BY <1>8, <1>9, Zenon


-----------------------------------------------------------------------------
(* The actions.                                                            *)

(* An opcode counts as one.                                                *)
LEMMA Ticked ==
    ASSUME FramesInv, CanStep, work' = work + 1
    PROVE  /\ Replaced(Tick(Top), 1)
           /\ Tick(Top).self = Top.self /\ Tick(Top).batch = Top.batch
           /\ Tick(Top).readonly = Top.readonly /\ Tick(Top).limit = Top.limit
           /\ Tick(Top) \in FrameSet
<1>1. stack # <<>> /\ CanTick(Top)
  BY Zenon DEF CanStep, Running
<1>2. Top \in FrameSet /\ FrameGas(Top)
  BY <1>1, TopFacts, Zenon
<1>3. /\ Replaces(Top, Tick(Top), 1) /\ Tick(Top).self = Top.self /\ Tick(Top).batch = Top.batch
  BY <1>1, <1>2, TickReplaces, Zenon
<1> QED BY <1>1, <1>3, Zenon DEF Replaced, Replaces

(* An admitted primitive costs its price and is not in a static frame.     *)
LEMMA Paid ==
    ASSUME FramesInv, NEW cost \in Nat, Admitted(cost)
    PROVE  /\ Replaced(Paying(cost), 1 + cost) /\ ~Top.readonly
           /\ Paying(cost).self = Top.self /\ Top.self \in Contracts
<1>1. /\ stack # <<>> /\ CanTick(Top) /\ ~Top.readonly
      /\ CanCharge(Tick(Top), cost) /\ work' = work + 1 + cost
  BY Zenon DEF Admitted, CanStep, Running
<1>2. Top \in FrameSet /\ FrameGas(Top) /\ Top.limit < Word /\ work \in Nat
  BY <1>1, TopFacts, Zenon
<1>3. Replaces(Top, Tick(Top), 1) /\ Tick(Top).self = Top.self
  BY <1>1, <1>2, TickReplaces, Zenon
<1>4. Tick(Top) \in FrameSet /\ FrameGas(Tick(Top)) /\ Tick(Top).limit < Word
  BY <1>2, <1>3, Zenon DEF Replaces
<1>5. Replaces(Tick(Top), Paying(cost), cost) /\ Paying(cost).self = Tick(Top).self
  BY <1>1, <1>4, ChargeReplaces, Zenon DEF Paying
<1>6. Replaces(Top, Paying(cost), 1 + cost)
  BY <1>2, <1>3, <1>5, ReplacesTwice, Zenon
<1>7. work' = work + (1 + cost) /\ Top.self \in Contracts
  BY <1>1, <1>2 DEF FrameSet
<1> QED BY <1>1, <1>3, <1>5, <1>6, <1>7, Zenon DEF Replaced

(* A refused primitive keeps the invariant.                                *)
LEMMA RefusedStep ==
    ASSUME FramesInv, NEW cost, Refused(cost)
    PROVE  Preserved
<1>1. Replaced(Tick(Top), 1) /\ Raise(Tick(Top))
  BY Ticked, Zenon DEF Refused
<1> QED BY <1>1, Raises, Zenon

(* A host function that pays for a state change.                           *)
LEMMA PaidWrite ==
    ASSUME FramesInv, NEW cost \in Nat, Admitted(cost), stateDB' \in States,
           stateDB'.ops = stateDB.ops \cup {Fresh}, Wrote(Fresh, Scopes),
           stack' = WithTop(Paying(cost)), UNCHANGED charged
    PROVE  Preserved
<1>1. Replaced(Paying(cost), 1 + cost) /\ ~Top.readonly
  BY Paid, Zenon
<1> QED BY <1>1, Writes, Zenon

(* A running frame may end as it is.                                       *)
LEMMA RunningFacts ==
    ASSUME FramesInv, stack # <<>>
    PROVE  /\ Replaced(Top, 0) <=> work' = work
           /\ SameEnd(Top, Top)
           /\ stateDB \in States /\ Fresh \in Nat
<1>1. Top \in FrameSet /\ FrameGas(Top) /\ work \in Nat /\ stateDB \in States
  BY TopFacts, Zenon
<1>2. Spent(Top) \in Nat
  BY <1>1, FrameNumbers, Zenon
<1>3. Replaces(Top, Top, 0)
  BY <1>1, <1>2 DEF Replaces
<1>4. Replaced(Top, 0) <=> work' = work
  BY <1>1, <1>3 DEF Replaced
<1> QED BY <1>1, <1>4, FreshIsNew, Zenon DEF SameEnd

(* Return and abort keep the invariant.                                    *)
LEMMA ReturnStep ==
    ASSUME FramesInv, Return \/ Abort
    PROVE  Preserved
<1>1. stack # <<>> /\ ~InBatch(Top) /\ work' = work
  BY Zenon DEF Return, Abort, Running
<1>2. Replaced(Top, 0) /\ SameEnd(Top, Top)
  BY <1>1, RunningFacts, Zenon
<1>3. CASE Return
  BY <1>1, <1>2, <1>3, Ends, Zenon DEF Return
<1>4. CASE Abort
  BY <1>1, <1>2, <1>4, Ends, Zenon DEF Abort
<1> QED BY <1>3, <1>4, Zenon

(* An opcode keeps the invariant.                                          *)
LEMMA OpcodeStep ==
    ASSUME FramesInv, Opcode
    PROVE  Preserved
<1>1. Replaced(Tick(Top), 1) /\ SoftFalse(Tick(Top))
  BY Ticked, Zenon DEF Opcode, CanStep
<1> QED BY <1>1, GoesOn, Zenon

(* A storage write keeps the invariant.                                    *)
LEMMA SstoreStep ==
    ASSUME FramesInv, HostSstore
    PROVE  Preserved
<1>1. CASE Refused(SStoreGas)
  BY <1>1, RefusedStep, Zenon
<1>2. CASE Admitted(SStoreGas) /\ Stored(Paying(SStoreGas))
  <2>1. stack # <<>> /\ SStoreGas \in Nat
    BY <1>2, FramesAssumption, Zenon DEF Admitted, CanStep, Running
  <2>2. stateDB \in States /\ Fresh \in Nat
    BY <2>1, RunningFacts, Zenon
  <2>3. /\ stateDB' = [stateDB EXCEPT !.ops = @ \cup {Fresh}] /\ Wrote(Fresh, Scopes)
        /\ stack' = WithTop(Paying(SStoreGas)) /\ UNCHANGED charged
    BY <1>2, Zenon DEF Stored
  <2>4. stateDB' \in States /\ stateDB'.ops = stateDB.ops \cup {Fresh}
    BY <2>2, <2>3, Zenon DEF States
  <2> QED BY <1>2, <2>1, <2>3, <2>4, PaidWrite, Zenon
<1> QED BY <1>1, <1>2, Zenon DEF HostSstore

(* A transfer keeps the invariant.                                         *)
LEMMA TransferStep ==
    ASSUME FramesInv, NEW to \in Holders, NEW v \in Nat, HostTransfer(to, v)
    PROVE  Preserved
<1>1. CASE Refused(TransferGas)
  BY <1>1, RefusedStep, Zenon
<1>2. CASE Admitted(TransferGas) /\ Sent(to, v, Paying(TransferGas))
  <2> DEFINE f == Paying(TransferGas)
  <2>1. stack # <<>> /\ TransferGas \in Nat
    BY <1>2, FramesAssumption, Zenon DEF Admitted, CanStep, Running
  <2>2. stateDB \in States /\ Fresh \in Nat
    BY <2>1, RunningFacts, Zenon
  <2>3. Replaced(f, 1 + TransferGas) /\ f.self \in Contracts
    BY <1>2, <2>1, Paid, Zenon
  <2> HIDE DEF f
  <2>4. CASE Raise(f)
    BY <2>3, <2>4, Raises, Zenon
  <2>5. CASE ~Raise(f)
    <3>1. /\ stateDB' = [stateDB EXCEPT !.ops = @ \cup {Fresh}, !.bal = Move(@, f.self, to, v)]
          /\ Wrote(Fresh, Scopes) /\ stack' = WithTop(f) /\ UNCHANGED charged
      BY <1>2, <2>5, Zenon DEF Sent, f
    <3>2. stateDB.bal \in [Holders -> Int] /\ f.self \in Holders
      BY <2>2, <2>3, Zenon DEF States, Holders
    <3>3. Move(stateDB.bal, f.self, to, v) \in [Holders -> Int]
      BY <3>2, MoveType
    <3>4. stateDB' \in States /\ stateDB'.ops = stateDB.ops \cup {Fresh}
      BY <2>2, <3>1, <3>3, Zenon DEF States
    <3> QED BY <1>2, <2>1, <3>1, <3>4, PaidWrite, Zenon DEF f
  <2> QED BY <2>4, <2>5, Zenon
<1> QED BY <1>1, <1>2, Zenon DEF HostTransfer

(* A deployment keeps the invariant.                                       *)
LEMMA DeploymentStep ==
    ASSUME FramesInv, NEW newAddr \in Contracts \X Int, NEW cost \in Nat, NEW activates,
           Deployment(newAddr, cost, activates)
    PROVE  Preserved
<1>1. CASE CanStep /\ work' = work + 1 /\ Raise(Tick(Top))
  BY <1>1, Ticked, Raises, Zenon
<1>2. CASE Refused(DeployGas)
  BY <1>2, RefusedStep, Zenon
<1>3. CASE Admitted(DeployGas) /\ Deployed(newAddr, cost, activates, Paying(DeployGas))
  <2> DEFINE f == Paying(DeployGas)
  <2>1. stack # <<>> /\ DeployGas \in Nat
    BY <1>3, FramesAssumption, Zenon DEF Admitted, CanStep, Running
  <2>2. stateDB \in States /\ Fresh \in Nat
    BY <2>1, RunningFacts, Zenon
  <2>3. Replaced(f, 1 + DeployGas) /\ f.self \in Contracts
    BY <1>3, <2>1, Paid, Zenon
  <2> HIDE DEF f
  <2>4. CASE Raise(f)
    BY <2>3, <2>4, Raises, Zenon
  <2>5. CASE ~Raise(f)
    <3>1. /\ stateDB' = [stateDB EXCEPT !.ops = @ \cup {Fresh},
                             !.bal = Move(@, f.self, Plain, cost),
                             !.nonce[f.self] = @ + 1,
                             !.code = @ \cup {newAddr}]
          /\ Wrote(Fresh, Scopes) /\ stack' = WithTop(f) /\ UNCHANGED charged
      BY <1>3, <2>5, Zenon DEF Deployed, f
    <3>2. /\ stateDB.bal \in [Holders -> Int] /\ f.self \in Holders /\ Plain \in Holders
          /\ stateDB.nonce \in [Contracts -> Nat]
      BY <2>2, <2>3, Zenon DEF States, Holders
    <3>3. /\ Move(stateDB.bal, f.self, Plain, cost) \in [Holders -> Int]
          /\ [stateDB.nonce EXCEPT ![f.self] = @ + 1] \in [Contracts -> Nat]
      <4>1. Move(stateDB.bal, f.self, Plain, cost) \in [Holders -> Int]
        <5>1. cost \in Int
          OBVIOUS
        <5>2. \A b \in [Holders -> Int], from \in Holders, to \in Holders, v \in Int :
                  Move(b, from, to, v) \in [Holders -> Int]
          BY MoveType, Zenon
        <5> QED BY <3>2, <5>1, <5>2, Zenon
      <4>2. [stateDB.nonce EXCEPT ![f.self] = @ + 1] \in [Contracts -> Nat]
        BY <2>3, <3>2
      <4> QED BY <4>1, <4>2, Zenon
    <3>4. stateDB' \in States /\ stateDB'.ops = stateDB.ops \cup {Fresh}
      BY <2>2, <3>1, <3>3, Zenon DEF States
    <3> QED BY <1>3, <2>1, <3>1, <3>4, PaidWrite, Zenon DEF f
  <2> QED BY <2>4, <2>5, Zenon
<1> QED BY <1>1, <1>2, <1>3, Zenon DEF Deployment

(* The addresses of new contracts.                                         *)
LEMMA Addresses ==
    ASSUME FramesInv, stack # <<>>
    PROVE  CreateAddress(Top) \in Contracts \X Int /\ CreateAddress2(Top) \in Contracts \X Int
<1>1. Top.self \in Contracts /\ stateDB.nonce \in [Contracts -> Nat]
  BY TopFacts, Zenon DEF FrameSet, States
<1> QED BY <1>1 DEF CreateAddress, CreateAddress2, Salt

(* The four ways to create a contract keep the invariant.                  *)
LEMMA CreateStep ==
    ASSUME FramesInv, NEW activates,
           Create(0) \/ Create2(0) \/ CreateX(activates) \/ Create2X(activates)
    PROVE  Preserved
<1>1. stack # <<>>
  BY Zenon DEF Create, Create2, CreateX, Create2X, Deployment, CanStep, Running
<1>2. CreateAddress(Top) \in Contracts \X Int /\ CreateAddress2(Top) \in Contracts \X Int
  BY <1>1, Addresses, Zenon
<1> QED BY <1>2, DeploymentStep, Zenon DEF Create, Create2, CreateX, Create2X


(* A refused call keeps the invariant.                                     *)
LEMMA CallRefusedStep ==
    ASSUME FramesInv, NEW callee, CallRefused(callee)
    PROVE  Preserved
<1>1. Replaced(Tick(Top), 1)
  BY Ticked, Zenon DEF CallRefused
<1>2. Raise(Tick(Top)) \/ SoftFalse(Tick(Top))
  BY Zenon DEF CallRefused
<1> QED BY <1>1, <1>2, Raises, GoesOn, Zenon

(* What is left of a frame's gas is shared with its child.                 *)
LEMMA EnterShare ==
    ASSUME NEW f \in FrameSet, FrameGas(f), NEW x \in GasArgs
    PROVE  /\ childFrameGasLimit(Available(f), x) \in Nat
           /\ childFrameGasLimit(Available(f), x) <= Available(f)
<1>1. Spent(f) \in Nat /\ f.limit \in Nat /\ Spent(f) <= f.limit
  BY FrameNumbers, Zenon DEF FrameGas
<1>2. Available(f) \in Nat
  BY <1>1 DEF Available
<1> QED BY <1>2, ChildShare, Zenon

(* Entering a callee with its gas keeps the invariant.                     *)
LEMMA EnterStep ==
    ASSUME FramesInv, NEW callee \in Holders, CallChecked(callee),
           NEW kind \in {"call", "static", "delegate"}, NEW readonly \in BOOLEAN,
           NEW explicit \in GasArgs, NEW value \in Nat, value > 0 => readonly = FALSE,
           Top.readonly => readonly = TRUE, kind = "static" => readonly = TRUE,
           EnterWithGas(callee, kind, readonly, explicit, value, Tick(Top))
    PROVE  Preserved
<1> DEFINE f == Tick(Top)
           gas == childFrameGasLimit(Available(f), explicit)
<1>1. Replaced(f, 1) /\ f \in FrameSet
  BY Ticked, Zenon DEF CallChecked
<1>2. FrameGas(f)
  BY <1>1, Zenon DEF Replaced, Replaces
<1>3. gas \in Nat /\ gas <= Available(f)
  BY <1>1, <1>2, EnterShare, Zenon
<1>4. Raise(f) \/ Enter(callee, kind, readonly, gas, value, f)
  BY Zenon DEF EnterWithGas
<1> HIDE DEF f, gas
<1>5. CASE Raise(f)
  BY <1>1, <1>5, Raises, Zenon
<1>6. CASE Enter(callee, kind, readonly, gas, value, f)
  BY <1>1, <1>3, <1>6, Enters, Zenon
<1> QED BY <1>4, <1>5, <1>6, Zenon

(* The calling frame has counted the call.                                 *)
LEMMA CallFrame ==
    ASSUME FramesInv, NEW callee, CallChecked(callee)
    PROVE  /\ Replaced(Tick(Top), 1) /\ Tick(Top).readonly = Top.readonly
           /\ Top.readonly \in BOOLEAN
<1>1. CanStep /\ work' = work + 1 /\ stack # <<>>
  BY Zenon DEF CallChecked, CanStep, Running
<1>2. Top.readonly \in BOOLEAN
  BY <1>1, TopFacts, Zenon DEF FrameSet
<1> QED BY <1>1, <1>2, Ticked, Zenon

(* A call keeps the invariant.                                             *)
LEMMA CallStep ==
    ASSUME FramesInv, NEW callee \in Holders, NEW v \in Nat, NEW explicit \in GasArgs,
           Call(callee, v, explicit)
    PROVE  Preserved
<1> DEFINE f == Tick(Top)
<1>1. CASE CallRefused(callee)
  BY <1>1, CallRefusedStep, Zenon
<1>2. CASE ~CallRefused(callee)
  <2>1. /\ CallChecked(callee)
        /\ \/ SoftFalse(f)
           \/ /\ ~(f.readonly /\ v > 0)
              /\ EnterWithGas(callee, "call", f.readonly, explicit, v, f)
    BY <1>2, Zenon DEF Call
  <2>2. Replaced(f, 1) /\ f.readonly = Top.readonly /\ Top.readonly \in BOOLEAN
    BY <2>1, CallFrame, Zenon
  <2>3. CASE SoftFalse(f)
    BY <2>2, <2>3, GoesOn, Zenon
  <2>4. CASE ~(f.readonly /\ v > 0) /\ EnterWithGas(callee, "call", f.readonly, explicit, v, f)
    <3>1. /\ v > 0 => Top.readonly = FALSE
          /\ Top.readonly => Top.readonly = TRUE
          /\ EnterWithGas(callee, "call", Top.readonly, explicit, v, Tick(Top))
      BY <2>2, <2>4, Zenon
    <3> QED BY <2>1, <2>2, <3>1, EnterStep, Zenon
  <2> QED BY <2>1, <2>3, <2>4, Zenon
<1> QED BY <1>1, <1>2, Zenon

(* Static, delegate and package calls keep the invariant.                  *)
LEMMA OtherCalls ==
    ASSUME FramesInv, NEW callee \in Holders, NEW explicit \in GasArgs,
           \/ Staticcall(callee, explicit) \/ Delegatecall(callee, explicit)
           \/ PackageCall(callee, explicit)
    PROVE  Preserved
<1> DEFINE f == Tick(Top)
<1>1. CASE CallRefused(callee)
  BY <1>1, CallRefusedStep, Zenon
<1>2. CASE ~CallRefused(callee)
  <2>1. CallChecked(callee)
    BY <1>2, Zenon DEF Staticcall, Delegatecall, PackageCall
  <2>2. Replaced(f, 1) /\ f.readonly = Top.readonly /\ Top.readonly \in BOOLEAN
    BY <2>1, CallFrame, Zenon
  <2>3. \/ EnterWithGas(callee, "static", TRUE, explicit, 0, f)
        \/ EnterWithGas(callee, "delegate", Top.readonly, explicit, 0, f)
        \/ EnterWithGas(callee, "call", Top.readonly, explicit, 0, f)
        \/ SoftFalse(f)
    BY <1>2, <2>2, Zenon DEF Staticcall, Delegatecall, PackageCall
  <2>4. CASE EnterWithGas(callee, "static", TRUE, explicit, 0, f)
    <3>1. \E ro \in BOOLEAN : ro = TRUE /\ EnterWithGas(callee, "static", ro, explicit, 0, Tick(Top))
      BY <2>4, Zenon
    <3>2. PICK ro \in BOOLEAN : ro = TRUE /\ EnterWithGas(callee, "static", ro, explicit, 0, Tick(Top))
      BY <3>1, Zenon
    <3>3. 0 \in Nat /\ ~(0 > 0) /\ (Top.readonly => ro = TRUE)
      BY <3>2
    <3> QED BY <2>1, <3>2, <3>3, EnterStep, Zenon
  <2>5. CASE EnterWithGas(callee, "delegate", Top.readonly, explicit, 0, f)
    <3>1. /\ 0 \in Nat /\ ~(0 > 0) /\ Top.readonly \in BOOLEAN /\ (Top.readonly => Top.readonly = TRUE)
          /\ EnterWithGas(callee, "delegate", Top.readonly, explicit, 0, Tick(Top))
      BY <2>2, <2>5
    <3> QED BY <2>1, <3>1, EnterStep, Zenon
  <2>6. CASE EnterWithGas(callee, "call", Top.readonly, explicit, 0, f)
    <3>1. /\ 0 \in Nat /\ ~(0 > 0) /\ Top.readonly \in BOOLEAN /\ (Top.readonly => Top.readonly = TRUE)
          /\ EnterWithGas(callee, "call", Top.readonly, explicit, 0, Tick(Top))
      BY <2>2, <2>6
    <3> QED BY <2>1, <3>1, EnterStep, Zenon
  <2>7. CASE SoftFalse(f)
    BY <2>2, <2>7, GoesOn, Zenon
  <2> QED BY <2>3, <2>4, <2>5, <2>6, <2>7, Zenon
<1> QED BY <1>1, <1>2, Zenon

(* tos.multicall opens its batch.                                          *)
LEMMA MulticallStep ==
    ASSUME FramesInv, NEW queue \in Seq(Entries), Multicall(queue)
    PROVE  Preserved
<1> DEFINE n == Len(stack)
           f == Tick(Top)
           b == [scope |-> Fresh, snap |-> stateDB, queue |-> queue]
           su == WithTop(f)
           sv == WithTop([f EXCEPT !.batch = b])
<1>1. /\ Running /\ CanStep /\ work' = work + 1
      /\ \/ Raise(f)
         \/ ~f.readonly /\ stack' = sv /\ UNCHANGED <<stateDB, charged, writes>>
  BY Zenon DEF Multicall, CanStep
<1>2. /\ Replaced(f, 1) /\ f.batch = Top.batch /\ f.readonly = Top.readonly
  BY <1>1, Ticked, Zenon
<1>3. CASE Raise(f)
  BY <1>2, <1>3, Raises, Zenon
<1>4. CASE ~f.readonly /\ stack' = sv /\ UNCHANGED <<stateDB, charged, writes>>
  <2>1. /\ Sound(su, stateDB, work', writes) /\ Levels(su) = Levels(stack)
        /\ su \in Seq(FrameSet) /\ Len(su) = n /\ su[n] = f
    BY <1>2, ReplacedFrames, Zenon
  <2>2. n \in Nat \ {0} /\ charged \in Int /\ stateDB \in States /\ stack \in Seq(FrameSet)
    BY <1>1, TopFacts, Zenon DEF Running, Sound
  <2>3. ~InBatch(su[n]) /\ ~su[n].readonly
    BY <1>1, <1>2, <1>4, <2>1, Zenon DEF InBatch, Running
  <2>4. Fresh \in Nat \ {0} /\ Fresh \notin {l.scope : l \in Levels(su)}
    BY <2>1, FreshIsNew, ScopesOpen, Zenon
  <2>5. b \in Batches /\ b.snap = stateDB /\ b.scope = Fresh
    BY <2>2, <2>4, Zenon DEF Batches
  <2> HIDE DEF b
  <2>6. sv = [su EXCEPT ![n] = [su[n] EXCEPT !.batch = b]]
    <3> HIDE DEF f
    <3> QED BY <2>1, <2>2, Zenon DEF WithTop
  <2>7. Sound(sv, stateDB, work', writes)
    <3> HIDE DEF su, n, sv
    <3> QED BY <2>1, <2>2, <2>3, <2>4, <2>5, <2>6, SoundOpen, Zenon
  <2>8. sv # <<>>
    BY <2>2 DEF WithTop
  <2> QED BY <1>4, <2>2, <2>7, <2>8, Zenon DEF Preserved, FramesInv
<1> QED BY <1>1, <1>3, <1>4, Zenon

(* The batch of the running frame is over.                                 *)
LEMMA BatchEnds ==
    ASSUME FramesInv, stack # <<>>, InBatch(Top), work' = work, UNCHANGED charged,
           stack' = WithTop([Top EXCEPT !.batch = NoBatch]),
           \/ stateDB' = Top.batch.snap /\ Close(FALSE, {Top.batch.scope})
           \/ stateDB' = stateDB /\ Close(TRUE, {Top.batch.scope})
    PROVE  Preserved
<1> DEFINE n == Len(stack)
           su == [stack EXCEPT ![n] = [stack[n] EXCEPT !.batch = NoBatch]]
<1>1. /\ n \in Nat \ {0} /\ Top = stack[n] /\ charged \in Int
      /\ Sound(stack, stateDB, work, writes) /\ stack \in Seq(FrameSet)
  BY TopFacts, Zenon DEF Sound
<1>2. /\ Sound(su, Top.batch.snap, work, Dropped(writes, {Top.batch.scope}))
      /\ Sound(su, stateDB, work, PassedOn(writes, Top.batch.scope))
  <2>1. InBatch(stack[n])
    BY <1>1, Zenon
  <2>2. PICK sv : sv = su
    BY Zenon
  <2>3. sv = [stack EXCEPT ![n] = [stack[n] EXCEPT !.batch = NoBatch]] /\ n = Len(stack)
    BY <2>2, Zenon
  <2> HIDE DEF n, su
  <2>4. /\ Sound(sv, stack[n].batch.snap, work, Dropped(writes, {stack[n].batch.scope}))
        /\ Sound(sv, stateDB, work, PassedOn(writes, stack[n].batch.scope))
    BY <1>1, <2>1, <2>3, SoundBatchEnd, Zenon
  <2> QED BY <1>1, <2>2, <2>4, Zenon
<1>3. stack' = su /\ su # <<>>
  BY <1>1 DEF WithTop
<1>4. \/ stateDB' = Top.batch.snap /\ writes' = Dropped(writes, {Top.batch.scope})
      \/ stateDB' = stateDB /\ writes' = PassedOn(writes, Top.batch.scope)
  BY Zenon DEF Close, Dropped, PassedOn
<1>5. ~Top.readonly
  BY TopReadonly, Zenon
<1> HIDE DEF su
<1>6. Sound(stack', stateDB', work', writes')
  BY <1>2, <1>3, <1>4, Zenon
<1> QED BY <1>1, <1>3, <1>5, <1>6, Zenon DEF Preserved, FramesInv

(* Undoing a batch keeps the invariant.                                    *)
LEMMA LeaveBatchStep ==
    ASSUME FramesInv, stack # <<>>, InBatch(Top), work' = work, NEW raises, LeaveBatch(raises)
    PROVE  Preserved
<1> DEFINE f == [Top EXCEPT !.batch = NoBatch]
<1>1. CASE stateDB' = Top.batch.snap /\ stack' = WithTop(f) /\ Close(FALSE, {Top.batch.scope})
           /\ UNCHANGED charged
  BY <1>1, BatchEnds, Zenon
<1>2. CASE End(FALSE, f)
  <2>1. Top \in FrameSet
    BY TopFacts, Zenon
  <2>2. SameEnd(f, Top)
    BY <2>1, EmptyBatch, Zenon DEF SameEnd
  <2>3. Replaced(Top, 0)
    BY RunningFacts, Zenon
  <2> HIDE DEF f
  <2> QED BY <1>2, <2>2, <2>3, Ends, Zenon
<1> QED BY <1>1, <1>2, Zenon DEF LeaveBatch

(* The fields of an entry of a batch.                                      *)
LEMMA EntryFields ==
    ASSUME NEW e \in Entries
    PROVE  e.to \in Holders /\ e.value \in Nat
<1>1. CASE e \in [to : Holders, value : {1}, malformed : {FALSE}]
  BY <1>1
<1>2. CASE e = Malformed
  <2>1. e.to = Plain /\ e.value = 0
    BY <1>2, Zenon DEF Malformed
  <2> QED BY <2>1 DEF Holders
<1> QED BY <1>1, <1>2, Zenon DEF Entries

(* Starting an entry of a batch keeps the invariant.                       *)
LEMMA BatchEntryStep ==
    ASSUME FramesInv, BatchEntry
    PROVE  Preserved
<1> DEFINE e == Head(Top.batch.queue)
           f == [Top EXCEPT !.batch.queue = Tail(@)]
           gas == childFrameGasLimit(Available(f), None)
<1>1. stack # <<>> /\ InBatch(Top) /\ Top.batch.queue # <<>> /\ work' = work
  BY Zenon DEF BatchEntry
<1>2. Top \in FrameSet /\ FrameGas(Top) /\ work \in Nat
  BY <1>1, TopFacts, Zenon
<1>3. Top.batch.queue \in Seq(Entries) /\ Top.batch \in Batches
  BY <1>2, Zenon DEF FrameSet, Batches
<1>4. e \in Entries /\ Tail(Top.batch.queue) \in Seq(Entries)
  BY <1>1, <1>3
<1>5. e.to \in Holders /\ e.value \in Nat
  BY <1>4, EntryFields, Zenon
<1>6. /\ f \in FrameSet /\ f.batch.scope = Top.batch.scope /\ f.batch.snap = Top.batch.snap
      /\ f.used = Top.used /\ f.child = Top.child /\ f.prim = Top.prim /\ f.limit = Top.limit
      /\ f.ceiling = Top.ceiling /\ f.kind = Top.kind /\ f.readonly = Top.readonly
      /\ f.snap = Top.snap /\ f.scope = Top.scope
  <2>1. [Top.batch EXCEPT !.queue = Tail(@)] \in Batches
    BY <1>3, <1>4, Zenon DEF Batches
  <2> QED BY <1>2, <1>3, <2>1, Zenon DEF FrameSet, Batches
<1>7. ~Top.readonly
  BY <1>1, TopReadonly, Zenon
<1>8. \/ LeaveBatch(TRUE) \/ LeaveBatch(FALSE)
      \/ Enter(e.to, "entry", f.readonly, gas, e.value, f)
  BY Zenon DEF BatchEntry
<1> HIDE DEF f, e, gas
<1>9. CASE LeaveBatch(TRUE) \/ LeaveBatch(FALSE)
  BY <1>1, <1>9, LeaveBatchStep, Zenon
<1>10. CASE Enter(e.to, "entry", f.readonly, gas, e.value, f)
  <2>1. Spent(f) = Spent(Top) /\ Spent(Top) \in Nat /\ FrameGas(f)
    <3>1. Spent(Top) \in Nat
      BY <1>2, FrameNumbers, Zenon
    <3> QED BY <1>2, <1>6, <3>1, Zenon DEF Spent, FrameGas
  <2>2. Replaced(f, 0)
    BY <1>1, <1>2, <1>6, <2>1 DEF Replaced, Replaces
  <2>3. gas \in Nat /\ gas <= Available(f)
    BY <1>6, <2>1, EnterShare, Zenon DEF gas, GasArgs
  <2>4. f.readonly = FALSE
    BY <1>2, <1>6, <1>7, Zenon DEF FrameSet
  <2>5. Enter(e.to, "entry", FALSE, gas, e.value, f)
    BY <1>10, <2>4, Zenon
  <2> QED BY <1>1, <1>5, <1>7, <2>2, <2>3, <2>5, Enters, Zenon
<1> QED BY <1>8, <1>9, <1>10, Zenon

(* The end of a batch keeps the invariant.                                 *)
LEMMA BatchDoneStep ==
    ASSUME FramesInv, BatchDone
    PROVE  Preserved
BY BatchEnds, Zenon DEF BatchDone


(* The invariant holds at first.                                           *)
LEMMA FramesStart == FramesInit => FramesInv
<1> SUFFICES ASSUME FramesInit PROVE FramesInv
  BY Zenon
<1> DEFINE before == [stateDB EXCEPT !.ops = {}, !.bal = [a \in Holders |-> Endowment]]
           c == Frame(Entry, "call", FALSE, 1, Gas, before, 1)
<1>1. PICK v \in 0..1 :
          stateDB = [ops |-> IF v > 0 THEN {1} ELSE {},
                bal |-> [a \in Holders |-> IF a = Entry THEN Endowment + v ELSE Endowment],
                nonce |-> [a \in Contracts |-> 0], code |-> {}]
  BY Zenon DEF FramesInit
<1>2. stack = <<c>> /\ charged = -1 /\ work = 0 /\ writes = {[op |-> o, in |-> {1}] : o \in stateDB.ops}
  BY Zenon DEF FramesInit, None
<1>3. Endowment \in Nat /\ Gas \in Nat /\ Entry \in Contracts
  BY FramesAssumption, Zenon
<1>4. stateDB \in States /\ stateDB.ops \in {{}, {1}}
  BY <1>1, <1>3 DEF States
<1>5. before \in States /\ before.ops = {}
  <2>1. [a \in Holders |-> Endowment] \in [Holders -> Int]
    BY <1>3
  <2> QED BY <1>4, <2>1, Zenon DEF States
<1> HIDE DEF before
<1>61. Opened(c, "call", FALSE, Gas, before, 1)
  BY <1>3, <1>5, NewFrame, Zenon
<1>6. /\ c \in FrameSet /\ c.batch = NoBatch /\ c.snap = before /\ c.scope = 1
      /\ c.limit = Gas /\ c.kind = "call" /\ c.readonly = FALSE
      /\ FrameGas(c) /\ Spent(c) = 0
  BY <1>61, Zenon DEF Opened
<1> HIDE DEF c
<1>7. stack \in Seq(FrameSet) /\ Len(stack) = 1 /\ stack[1] = c /\ stack # <<>>
  BY <1>2, <1>6
<1>8. \A i \in 1..Len(stack) : i = 1 /\ stack[i] = c
  BY <1>7
<1>9. ~InBatch(c)
  BY <1>6 DEF InBatch, NoBatch
<1>10. BatchesOf(stack) /\ ReadonlyOf(stack, stateDB)
  BY <1>6, <1>8, <1>9, Zenon DEF BatchesOf, ReadonlyOf
<1>11. GasOf(stack, work)
  <2>1. SpentBy(stack, 0) = 0
    BY SpentNone, Zenon
  <2>2. SpentBy(stack, 0 + 1) = SpentBy(stack, 0) + Spent(stack[0 + 1])
    <3>1. \A i \in 1..(0 + 1) : Spent(stack[i]) \in Nat
      BY <1>6, <1>7
    <3> QED BY <3>1, SpentNext, Zenon
  <2>3. SpentBy(stack, 1) = 0
    BY <1>6, <1>7, <2>1, <2>2
  <2>4. \A i \in 1..Len(stack) : FrameGas(stack[i]) /\ SpentBy(stack, i - 1) + stack[i].limit <= Gas
    <3>1. \A i \in 1..Len(stack) : i - 1 = 0
      BY <1>8
    <3> QED BY <1>3, <1>6, <1>8, <2>1, <3>1
  <2> QED BY <1>2, <1>7, <2>3, <2>4 DEF GasOf
<1>12. writes \in SUBSET [op : Nat, in : SUBSET Nat] /\ IsFiniteSet(writes)
       /\ writes \subseteq {[op |-> 1, in |-> {1}]}
  <2>1. writes \subseteq {[op |-> 1, in |-> {1}]}
    BY <1>2, <1>4, Zenon
  <2>2. IsFiniteSet({[op |-> 1, in |-> {1}]})
    BY FS_Singleton, Zenon
  <2>3. IsFiniteSet(writes)
    BY <2>1, <2>2, FS_Subset, Zenon
  <2> QED BY <2>1, <2>3
<1>13. Effects(stateDB.ops, Levels(stack), writes)
  <2>1. Batching(stack) = {}
    BY <1>8, <1>9, Zenon DEF Batching
  <2>2. FrameLevel(stack, 1) = [scope |-> 1, ops |-> {}, pos |-> 2]
    <3>1. stack[1].scope = 1 /\ stack[1].snap.ops = {} /\ 2 * 1 = 2
      BY <1>5, <1>6, <1>7
    <3> QED BY <3>1, Zenon DEF FrameLevel
  <2>3. Levels(stack) = {[scope |-> 1, ops |-> {}, pos |-> 2]}
    <3>1. 1..Len(stack) = {1}
      BY <1>7
    <3> QED BY <2>1, <2>2, <3>1, Zenon DEF Levels
  <2>4. \A w \in writes : w.op = 1 /\ w.in = {1}
    BY <1>12
  <2>5. stateDB.ops = {w.op : w \in writes}
    <3>1. \A w \in writes : w.op \in stateDB.ops
      BY <1>2
    <3>2. ASSUME NEW o \in stateDB.ops PROVE \E w \in writes : w.op = o
      <4>1. [op |-> o, in |-> {1}] \in writes
        BY <1>2, Zenon
      <4> QED BY <4>1, Zenon
    <3> QED BY <3>1, <3>2, Zenon
  <2> HIDE DEF c
  <2>6. \A l \in Levels(stack) : l.scope = 1 /\ l.ops = {} /\ l.pos = 2
    BY <2>3
  <2>7. {w.op : w \in {x \in writes : 1 \notin x.in}} = {}
    BY <2>4, Zenon
  <2>8. {l.scope : l \in Levels(stack)} = {1}
    BY <2>3
  <2> QED BY <2>4, <2>5, <2>6, <2>7, <2>8 DEF Effects
<1>14. Sound(stack, stateDB, work, writes)
  BY <1>2, <1>4, <1>7, <1>10, <1>11, <1>12, <1>13, Zenon DEF Sound
<1> QED BY <1>2, <1>7, <1>14 DEF FramesInv

(* Every step of a running transaction.                                    *)
LEMMA FramesStep ==
    ASSUME FramesInv, [FramesNext]_framesVars
    PROVE  FramesInv' /\ (stack # <<>> /\ Top.readonly => stateDB' = stateDB)
<1> USE DEF Preserved
<1>1. CASE Return \/ Abort
  BY <1>1, ReturnStep, Zenon
<1>2. CASE Opcode
  BY <1>2, OpcodeStep, Zenon
<1>3. CASE HostSstore
  BY <1>3, SstoreStep, Zenon
<1>4. CASE BatchEntry
  BY <1>4, BatchEntryStep, Zenon
<1>5. CASE BatchDone
  BY <1>5, BatchDoneStep, Zenon
<1>6. CASE UNCHANGED framesVars
  <2>1. stateDB' = stateDB /\ stack' = stack /\ charged' = charged /\ work' = work /\ writes' = writes
    BY <1>6, Zenon DEF framesVars
  <2> QED BY <2>1, Zenon DEF FramesInv
<1>7. CASE \E a \in Holders : HostTransfer(a, 1)
  BY <1>7, TransferStep, Zenon
<1>8. CASE \/ Create(0) \/ Create2(0)
           \/ \E activates \in BOOLEAN : CreateX(activates) \/ Create2X(activates)
  BY <1>8, CreateStep, Zenon
<1>9. CASE \E a \in Holders, v \in {0, 1}, g \in GasArgs : Call(a, v, g)
  BY <1>9, CallStep, Zenon
<1>10. CASE \E a \in Holders, g \in GasArgs :
                Staticcall(a, g) \/ Delegatecall(a, g) \/ PackageCall(a, g)
  BY <1>10, OtherCalls, Zenon
<1>11. CASE \E e1, e2 \in Entries : Multicall(<<e1, e2>>)
  <2>1. PICK e1 \in Entries, e2 \in Entries : Multicall(<<e1, e2>>)
    BY <1>11, Zenon
  <2>2. <<e1, e2>> \in Seq(Entries)
    OBVIOUS
  <2> QED BY <2>1, <2>2, MulticallStep, Zenon
<1> QED BY <1>1, <1>2, <1>3, <1>4, <1>5, <1>6, <1>7, <1>8, <1>9, <1>10, <1>11, Zenon DEF FramesNext, Ended

(* All frames together spent no more than the transaction has.             *)
LEMMA GasWithin ==
    ASSUME FramesInv, stack # <<>>
    PROVE  work <= Gas
<1> DEFINE n == Len(stack) - 1
<1>1. /\ stack \in Seq(FrameSet) /\ Len(stack) \in Nat \ {0} /\ GasOf(stack, work)
  BY TopFacts, Zenon DEF Sound
<1>2. n \in Nat /\ n + 1 = Len(stack)
  BY <1>1
<1>3. \A i \in 1..(n + 1) : stack[i] \in FrameSet
  BY <1>1, <1>2
<1> HIDE DEF n
<1>4. \A i \in 1..(n + 1) : Spent(stack[i]) \in Nat /\ stack[i].limit \in Nat
  BY <1>3, FrameNumbers, Zenon
<1>5. SpentBy(stack, n + 1) = SpentBy(stack, n) + Spent(stack[n + 1]) /\ SpentBy(stack, n) \in Nat
  BY <1>2, <1>4, SpentNext, Zenon
<1>6. n + 1 \in 1..Len(stack) /\ (n + 1) - 1 = n
  BY <1>2
<1>7. /\ work = SpentBy(stack, n + 1) /\ SpentBy(stack, n) + stack[n + 1].limit <= Gas
      /\ Spent(stack[n + 1]) <= stack[n + 1].limit
  BY <1>1, <1>2, <1>6, Zenon DEF GasOf, FrameGas
<1>8. Gas \in Nat /\ Spent(stack[n + 1]) \in Nat /\ stack[n + 1].limit \in Nat
  BY <1>2, <1>4, <1>6, FramesAssumption, Zenon
<1> QED BY <1>5, <1>7, <1>8

(* The invariant makes the frames sound.                                   *)
LEMMA FramesInvSound == FramesInv => FramesSound
<1> SUFFICES ASSUME FramesInv PROVE FramesSound
  BY Zenon
<1>1. /\ Sound(stack, stateDB, work, writes) /\ stack \in Seq(FrameSet) /\ work \in Nat
      /\ charged \in Int /\ (stack = <<>> => work <= charged /\ charged <= Gas)
  BY Zenon DEF FramesInv, Sound
<1>2. GasOf(stack, work) /\ Effects(stateDB.ops, Levels(stack), writes)
  BY <1>1, Zenon DEF Sound
<1>3. CeilingExact
  BY <1>1, <1>2 DEF CeilingExact, GasOf, FrameGas
<1>4. Gas \in Nat
  BY FramesAssumption, Zenon
<1>5. work <= Gas
  <2>1. CASE stack = <<>>
    BY <1>1, <1>4, <2>1
  <2>2. CASE stack # <<>>
    BY <1>1, <1>2, <2>2, GasWithin, Zenon
  <2> QED BY <2>1, <2>2, Zenon
<1>6. GasAccounted
  BY <1>1, <1>2, <1>5, Zenon DEF GasAccounted, GasOf
<1>7. CommittedEffects
  BY <1>2, Zenon DEF CommittedEffects, Effects
<1> QED BY <1>3, <1>6, <1>7, Zenon DEF FramesSound

(* Whatever contracts call, catch and batch, for any gas, costs, depth and *)
(* accounts: the opcode ceiling of every frame is exact, the gas spent in  *)
(* all frames is within the transaction's and is paid for, and the state   *)
(* holds the effects of the frames that all succeeded (LVM.Call, Execute). *)
THEOREM FramesAreSound == FramesSpec => []FramesSound
<1>1. FramesInit => FramesInv
  BY FramesStart, Zenon
<1>2. FramesInv /\ [FramesNext]_framesVars => FramesInv'
  BY FramesStep, Zenon
<1>3. FramesInv => FramesSound
  BY FramesInvSound, Zenon
<1> QED BY <1>1, <1>2, <1>3, PTL DEF FramesSpec

(* While a static frame is on the stack no step changes the state, however *)
(* deep and through whichever calls (tos.staticcall, CallCtx.Readonly).    *)
THEOREM StaticNeverWrites == FramesSpec => ReadonlyNeverWrites
<1>1. FramesInit => FramesInv
  BY FramesStart, Zenon
<1>2. FramesInv /\ [FramesNext]_framesVars => FramesInv'
  BY FramesStep, Zenon
<1>3. FramesInv /\ [FramesNext]_framesVars
        => [(\E i \in DOMAIN stack : stack[i].readonly) => stateDB' = stateDB]_framesVars
  <2> SUFFICES ASSUME FramesInv, [FramesNext]_framesVars,
                      NEW i \in DOMAIN stack, stack[i].readonly
               PROVE  stateDB' = stateDB
    BY Zenon
  <2>1. stack \in Seq(FrameSet)
    BY Zenon DEF FramesInv, Sound
  <2>2. stack # <<>> /\ i \in 1..Len(stack)
    BY <2>1
  <2>3. Top.readonly
    BY <2>2, TopReadonly, Zenon
  <2> QED BY <2>2, <2>3, FramesStep, Zenon
<1> QED BY <1>1, <1>2, <1>3, PTL DEF FramesSpec, ReadonlyNeverWrites
=============================================================================
