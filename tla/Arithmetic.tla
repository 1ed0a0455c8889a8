----------------------------- MODULE Arithmetic -----------------------------
(***************************************************************************)
(* Lemmas about sums over finite sets, in terms of the community           *)
(* operators SumFunction and SumFunctionOnSet, and about division. The     *)
(* folds behind the sums are unfolded in the order of CHOOSE; SumRemove    *)
(* shows that the order does not matter. The inductions are arguments      *)
(* about a least counterexample: LeastNat and SmallestSet.                 *)
(***************************************************************************)
EXTENDS Integers, Functions, FiniteSetTheorems, TLAPS

(* The choice with which the folds of module Functions take an element.    *)
Pick(s) == CHOOSE x \in s : TRUE

(* h satisfies the equation that defines a sum of f, on every set of t.    *)
SumsOn(f, h, t) ==
    \A s \in t : h[s] = IF s = {} THEN 0 ELSE f[Pick(s)] + h[s \ {Pick(s)}]

(* h is a solution on all subsets of S.                                     *)
Solves(f, h, S) ==
    h = [s \in SUBSET S |-> IF s = {} THEN 0 ELSE f[Pick(s)] + h[s \ {Pick(s)}]]

(* A non-empty set of numbers has a least element: with it, induction      *)
(* over numbers is an argument about a least counterexample.               *)
LEMMA LeastNat ==
    ASSUME NEW B, B \subseteq Nat, B # {}
    PROVE  \E n \in B : \A m \in B : ~(m < n)
<1>1. PICK n \in B : \A m \in B : ~(<<m, n>> \in OpToRel(<, Nat))
  BY NatLessThanWellFounded, WFMin, Zenon
<1>2. \A m \in B : ~(m < n)
  BY <1>1, Zenon DEF OpToRel
<1> QED BY <1>2, Zenon

(* A non-empty family of subsets of a finite set has a minimal member:     *)
(* induction over finite sets.                                             *)
LEMMA SmallestSet ==
    ASSUME NEW S, IsFiniteSet(S), NEW B, B \subseteq SUBSET S, B # {}
    PROVE  \E T \in B : \A U \in B : ~(U \subseteq T /\ U # T)
<1>0. B \subseteq FiniteSubsetsOf(S)
  BY FS_FiniteSubsetsOfFinite, Zenon
<1>1. PICK T \in B : \A U \in B : ~(<<U, T>> \in StrictSubsetOrdering(S))
  BY <1>0, FS_StrictSubsetOrderingWellFounded, WFMin, Zenon
<1>2. \A U \in B : ~(U \subseteq T /\ U # T)
  BY <1>1, Zenon DEF StrictSubsetOrdering
<1> QED BY <1>2, Zenon

(* The equation has a solution on all subsets of a finite set: solutions    *)
(* for the sets of up to n elements are extended by one.                   *)
LEMMA SumsExist ==
    ASSUME NEW f, NEW S, IsFiniteSet(S)
    PROVE  \E h : Solves(f, h, S)
<1> DEFINE Upto(n) == {s \in SUBSET S : Cardinality(s) <= n}
           Ok(n) == \E h : DOMAIN h = SUBSET S /\ SumsOn(f, h, Upto(n))
           Next(h) == [s \in SUBSET S |->
                         IF s = {} THEN 0 ELSE f[Pick(s)] + h[s \ {Pick(s)}]]
           B == {n \in Nat : ~Ok(n)}
<1>a. \A s \in SUBSET S : IsFiniteSet(s) /\ Cardinality(s) \in Nat
  BY FS_Subset, FS_CardinalityType, Zenon
<1>b. \A s \in SUBSET S : s # {} =>
         /\ Pick(s) \in s /\ s \ {Pick(s)} \in SUBSET S
         /\ Cardinality(s \ {Pick(s)}) = Cardinality(s) - 1
  BY <1>a, FS_RemoveElement, Zenon DEF Pick
<1>0. Ok(0)
  <2> DEFINE h == [s \in SUBSET S |-> 0]
  <2>1. \A s \in Upto(0) : s = {}
    BY <1>a, FS_EmptySet
  <2>2. SumsOn(f, h, Upto(0))
    BY <2>1, Zenon DEF SumsOn
  <2> QED BY <2>2, Zenon
<1>1. ASSUME NEW n \in Nat, Ok(n) PROVE Ok(n + 1)
  <2>1. PICK h : DOMAIN h = SUBSET S /\ SumsOn(f, h, Upto(n))
    BY <1>1, Zenon
  <2> DEFINE k == Next(h)
  <2>2. \A t \in Upto(n) : k[t] = h[t]
    BY <2>1, Zenon DEF SumsOn
  <2>3. ASSUME NEW s \in Upto(n + 1), s # {}
        PROVE  k[s] = f[Pick(s)] + k[s \ {Pick(s)}]
    <3>1. s \ {Pick(s)} \in Upto(n)
      BY <1>a, <1>b, <2>3
    <3>2. k[s \ {Pick(s)}] = h[s \ {Pick(s)}]
      BY <2>2, <3>1, Zenon
    <3> QED BY <3>2, <2>3, Zenon
  <2>4. SumsOn(f, k, Upto(n + 1))
    BY <2>3, Zenon DEF SumsOn
  <2> QED BY <2>4, Zenon
<1>2. \A n \in Nat : Ok(n)
  <2> SUFFICES ASSUME B # {} PROVE FALSE
    BY Zenon
  <2>1. PICK n \in B : \A m \in B : ~(m < n)
    BY LeastNat, Zenon
  <2>2. n # 0
    BY <1>0, Zenon
  <2>3. n - 1 \in Nat /\ n - 1 < n
    BY <2>2
  <2>4. Ok(n - 1)
    BY <2>1, <2>3, Zenon
  <2>5. Ok((n - 1) + 1)
    BY <1>1, <2>3, <2>4, Zenon
  <2>6. (n - 1) + 1 = n
    BY <2>3
  <2> QED BY <2>5, <2>6, <2>1, Zenon
<1>3. PICK h : DOMAIN h = SUBSET S /\ SumsOn(f, h, Upto(Cardinality(S)))
  BY <1>2, <1>a, Zenon
<1>4. SUBSET S = Upto(Cardinality(S))
  BY FS_Subset, Zenon
<1>5. Solves(f, Next(h), S)
  <2>1. \A s \in SUBSET S : Next(h)[s] = h[s]
    BY <1>3, <1>4, Zenon DEF SumsOn
  <2> QED BY <2>1, <1>b, Zenon DEF Solves
<1> QED BY <1>5, Zenon

(* What SumFunctionOnSet takes is the value of such a function at the      *)
(* whole set.                                                              *)
LEMMA SumIter ==
    ASSUME NEW f, NEW S, IsFiniteSet(S)
    PROVE  \E h : /\ Solves(f, h, S)
                  /\ SumFunctionOnSet(f, S) = h[S]
<1> DEFINE it == CHOOSE h : Solves(f, h, S)
<1>1. Solves(f, it, S)
  BY SumsExist, Zenon
<1>2. SumFunctionOnSet(f, S) = it[S]
  BY Zenon DEF SumFunctionOnSet, FoldFunctionOnSet, MapThenFoldSet, Pick, Solves
<1> QED BY <1>1, <1>2, Zenon

(* Two solutions agree where both are defined.                              *)
LEMMA SumsAgree ==
    ASSUME NEW f, NEW S, IsFiniteSet(S), NEW T \in SUBSET S, NEW h, NEW k,
           Solves(f, h, S),
           Solves(f, k, T)
    PROVE  h[T] = k[T]
<1> DEFINE B == {s \in SUBSET T : h[s] # k[s]}
<1> SUFFICES ASSUME B # {} PROVE FALSE
  BY Zenon
<1>1. PICK s \in B : \A U \in B : ~(U \subseteq s /\ U # s)
  <2>1. B \subseteq SUBSET T /\ IsFiniteSet(T)
    BY FS_Subset, Zenon
  <2> HIDE DEF B
  <2> QED BY <2>1, SmallestSet
<1>2. s # {} /\ h[s] = f[Pick(s)] + h[s \ {Pick(s)}] /\ k[s] = f[Pick(s)] + k[s \ {Pick(s)}]
  BY <1>1, Zenon DEF Solves
<1>3. Pick(s) \in s
  BY <1>2, Zenon DEF Pick
<1>4. s \ {Pick(s)} \in SUBSET T /\ s \ {Pick(s)} \notin B
  BY <1>1, <1>3, Zenon
<1> QED BY <1>1, <1>2, <1>4, Zenon

(* The sum takes one element after the other, in the order CHOOSE gives.   *)
LEMMA SumUnfold ==
    ASSUME NEW f, NEW S, IsFiniteSet(S)
    PROVE  SumFunctionOnSet(f, S) =
             IF S = {} THEN 0 ELSE f[Pick(S)] + SumFunctionOnSet(f, S \ {Pick(S)})
<1>1. PICK h : /\ Solves(f, h, S)
               /\ SumFunctionOnSet(f, S) = h[S]
  BY SumIter, Zenon
<1>2. CASE S = {}
  BY <1>1, <1>2, Zenon DEF Solves
<1>3. CASE S # {}
  <2> DEFINE T == S \ {Pick(S)}
  <2>1. IsFiniteSet(T)
    BY FS_Subset, Zenon
  <2>2. PICK k : /\ Solves(f, k, T)
                 /\ SumFunctionOnSet(f, T) = k[T]
    BY <2>1, SumIter, Zenon
  <2>3. h[T] = k[T]
    <3>1. T \in SUBSET S
      BY Zenon
    <3> HIDE DEF T
    <3> QED BY <1>1, <2>2, <3>1, SumsAgree
  <2>4. h[S] = f[Pick(S)] + h[T]
    BY <1>1, <1>3, Zenon DEF Solves
  <2> QED BY <1>1, <1>3, <2>2, <2>3, <2>4, Zenon
<1> QED BY <1>2, <1>3, Zenon

(* A sum of integers is an integer.                                        *)
LEMMA SumType ==
    ASSUME NEW f, NEW S, IsFiniteSet(S), \A x \in S : f[x] \in Int
    PROVE  SumFunctionOnSet(f, S) \in Int
<1> DEFINE B == {s \in SUBSET S : SumFunctionOnSet(f, s) \notin Int}
<1> SUFFICES ASSUME B # {} PROVE FALSE
  BY Zenon
<1>1. PICK s \in B : \A U \in B : ~(U \subseteq s /\ U # s)
  <2>1. B \subseteq SUBSET S
    BY Zenon
  <2> HIDE DEF B
  <2> QED BY <2>1, SmallestSet
<1>2. IsFiniteSet(s)
  BY FS_Subset, Zenon
<1>3. SumFunctionOnSet(f, s) =
         IF s = {} THEN 0 ELSE f[Pick(s)] + SumFunctionOnSet(f, s \ {Pick(s)})
  BY <1>2, SumUnfold, Zenon
<1>4. s # {} 
  BY <1>1, <1>3
<1>5. Pick(s) \in s
  BY <1>4, Zenon DEF Pick
<1>6. SumFunctionOnSet(f, s \ {Pick(s)}) \in Int
  BY <1>1, <1>5
<1> QED BY <1>1, <1>3, <1>4, <1>5, <1>6

(* Any element may be taken out first.                                      *)
LEMMA SumRemove ==
    ASSUME NEW f, NEW S, IsFiniteSet(S), \A x \in S : f[x] \in Int, NEW e \in S
    PROVE  SumFunctionOnSet(f, S) = f[e] + SumFunctionOnSet(f, S \ {e})
<1> DEFINE Good(s) == \A x \in s : SumFunctionOnSet(f, s) = f[x] + SumFunctionOnSet(f, s \ {x})
           B == {s \in SUBSET S : ~Good(s)}
<1> SUFFICES ASSUME B # {} PROVE FALSE
  BY Zenon
<1>1. PICK s \in B : \A U \in B : ~(U \subseteq s /\ U # s)
  <2>1. B \subseteq SUBSET S
    BY Zenon
  <2> HIDE DEF B
  <2> QED BY <2>1, SmallestSet
<1>2. PICK x \in s : SumFunctionOnSet(f, s) # f[x] + SumFunctionOnSet(f, s \ {x})
  BY <1>1, Zenon
<1> DEFINE c == Pick(s)
<1>3. IsFiniteSet(s) /\ IsFiniteSet(s \ {x}) /\ IsFiniteSet(s \ {c}) /\ IsFiniteSet((s \ {x}) \ {c})
  BY FS_Subset, Zenon
<1>4. c \in s
  BY <1>2, Zenon DEF Pick
<1>5. SumFunctionOnSet(f, s) = f[c] + SumFunctionOnSet(f, s \ {c})
  BY <1>2, <1>3, SumUnfold, Zenon
<1>6. c # x
  BY <1>2, <1>5, Zenon
<1>7. Good(s \ {c}) /\ Good(s \ {x})
  BY <1>1, <1>2, <1>4
<1>8. SumFunctionOnSet(f, s \ {c}) = f[x] + SumFunctionOnSet(f, (s \ {c}) \ {x})
  BY <1>7, <1>6, <1>2, Zenon
<1>9. SumFunctionOnSet(f, s \ {x}) = f[c] + SumFunctionOnSet(f, (s \ {x}) \ {c})
  BY <1>7, <1>6, <1>4, Zenon
<1>10. (s \ {c}) \ {x} = (s \ {x}) \ {c}
  BY Zenon
<1>11. SumFunctionOnSet(f, (s \ {x}) \ {c}) \in Int
  <2>1. \A y \in (s \ {x}) \ {c} : f[y] \in Int
    BY Zenon
  <2> QED BY <2>1, <1>3, SumType, Zenon
<1>13. SumFunctionOnSet(f, (s \ {c}) \ {x}) = SumFunctionOnSet(f, (s \ {x}) \ {c})
  BY <1>10, Zenon
<1>12. f[c] \in Int /\ f[x] \in Int
  BY <1>4, Zenon
<1> HIDE DEF c, B
<1> QED BY <1>2, <1>5, <1>8, <1>9, <1>11, <1>12, <1>13

(* The sum over nothing.                                                   *)
LEMMA SumEmpty ==
    ASSUME NEW f
    PROVE  SumFunctionOnSet(f, {}) = 0
BY FS_EmptySet, SumUnfold, Zenon

(* One element more.                                                       *)
LEMMA SumAdd ==
    ASSUME NEW f, NEW S, IsFiniteSet(S), NEW e, e \notin S,
           \A x \in S \cup {e} : f[x] \in Int
    PROVE  SumFunctionOnSet(f, S \cup {e}) = SumFunctionOnSet(f, S) + f[e]
<1>1. IsFiniteSet(S \cup {e})
  BY FS_AddElement, Zenon
<1>2. (S \cup {e}) \ {e} = S
  BY Zenon
<1>3. SumFunctionOnSet(f, S \cup {e}) = f[e] + SumFunctionOnSet(f, (S \cup {e}) \ {e})
  BY <1>1, SumRemove
<1>4. SumFunctionOnSet(f, S) \in Int
  BY SumType, Zenon
<1>5. SumFunctionOnSet(f, (S \cup {e}) \ {e}) = SumFunctionOnSet(f, S)
  BY <1>2, Zenon
<1>6. f[e] \in Int
  BY Zenon
<1> QED BY <1>3, <1>4, <1>5, <1>6

(* A sum of natural numbers is one, and no less than any part of it.        *)
LEMMA SumNat ==
    ASSUME NEW f, NEW S, IsFiniteSet(S), \A x \in S : f[x] \in Nat
    PROVE  SumFunctionOnSet(f, S) \in Nat
<1> DEFINE B == {s \in SUBSET S : SumFunctionOnSet(f, s) \notin Nat}
<1> SUFFICES ASSUME B # {} PROVE FALSE
  BY Zenon
<1>1. PICK s \in B : \A U \in B : ~(U \subseteq s /\ U # s)
  <2>1. B \subseteq SUBSET S
    BY Zenon
  <2> HIDE DEF B
  <2> QED BY <2>1, SmallestSet
<1>2. s # {}
  <2> SUFFICES ASSUME s = {} PROVE FALSE
    BY Zenon
  <2>1. SumFunctionOnSet(f, s) = 0
    BY SumEmpty, Zenon
  <2> QED BY <1>1, <2>1
<1>3. PICK x : x \in s
  BY <1>2, Zenon
<1>4. IsFiniteSet(s) /\ \A y \in s : f[y] \in Int
  BY FS_Subset
<1>5. SumFunctionOnSet(f, s) = f[x] + SumFunctionOnSet(f, s \ {x})
  BY <1>3, <1>4, SumRemove
<1>6. SumFunctionOnSet(f, s \ {x}) \in Nat
  BY <1>1, <1>3
<1> QED BY <1>1, <1>3, <1>5, <1>6

(* The sum depends on the values over the set only.                        *)
LEMMA SumEqual ==
    ASSUME NEW f, NEW g, NEW S, IsFiniteSet(S),
           \A x \in S : f[x] \in Int /\ g[x] = f[x]
    PROVE  SumFunctionOnSet(g, S) = SumFunctionOnSet(f, S)
<1> DEFINE B == {s \in SUBSET S : SumFunctionOnSet(g, s) # SumFunctionOnSet(f, s)}
<1> SUFFICES ASSUME B # {} PROVE FALSE
  BY Zenon
<1>1. PICK s \in B : \A U \in B : ~(U \subseteq s /\ U # s)
  <2>1. B \subseteq SUBSET S
    BY Zenon
  <2> HIDE DEF B
  <2> QED BY <2>1, SmallestSet
<1>2. s # {}
  BY <1>1, SumEmpty, Zenon
<1>3. PICK x : x \in s
  BY <1>2, Zenon
<1>4. IsFiniteSet(s) /\ \A y \in s : f[y] \in Int /\ g[y] \in Int
  BY FS_Subset, Zenon
<1>5. /\ SumFunctionOnSet(f, s) = f[x] + SumFunctionOnSet(f, s \ {x})
      /\ SumFunctionOnSet(g, s) = g[x] + SumFunctionOnSet(g, s \ {x})
  BY <1>3, <1>4, SumRemove
<1>6. SumFunctionOnSet(g, s \ {x}) = SumFunctionOnSet(f, s \ {x})
  BY <1>1, <1>3
<1> QED BY <1>1, <1>3, <1>5, <1>6, Zenon

(* One value of the function changes.                                       *)
LEMMA SumChange ==
    ASSUME NEW f, NEW g, NEW S, IsFiniteSet(S), NEW e \in S,
           \A x \in S : f[x] \in Int /\ g[x] \in Int,
           \A x \in S \ {e} : g[x] = f[x]
    PROVE  SumFunctionOnSet(g, S) = SumFunctionOnSet(f, S) - f[e] + g[e]
<1>1. IsFiniteSet(S \ {e})
  BY FS_Subset, Zenon
<1>2. /\ SumFunctionOnSet(f, S) = f[e] + SumFunctionOnSet(f, S \ {e})
      /\ SumFunctionOnSet(g, S) = g[e] + SumFunctionOnSet(g, S \ {e})
  BY SumRemove
<1>3. SumFunctionOnSet(g, S \ {e}) = SumFunctionOnSet(f, S \ {e})
  BY <1>1, SumEqual
<1>4. SumFunctionOnSet(f, S \ {e}) \in Int
  BY <1>1, SumType, Zenon
<1> QED BY <1>2, <1>3, <1>4

(* The sum over two disjoint sets.                                          *)
LEMMA SumSplit ==
    ASSUME NEW f, NEW S, IsFiniteSet(S), NEW T \in SUBSET S, \A x \in S : f[x] \in Int
    PROVE  SumFunctionOnSet(f, S) = SumFunctionOnSet(f, T) + SumFunctionOnSet(f, S \ T)
<1> DEFINE Good(U) == SumFunctionOnSet(f, (S \ T) \cup U) =
                          SumFunctionOnSet(f, U) + SumFunctionOnSet(f, S \ T)
           B == {U \in SUBSET T : ~Good(U)}
<1>0. (S \ T) \cup T = S /\ (S \ T) \cup {} = S \ T
  BY Zenon
<1> SUFFICES ASSUME B # {} PROVE FALSE
  BY <1>0, Zenon
<1>1. PICK U \in B : \A V \in B : ~(V \subseteq U /\ V # U)
  <2>1. B \subseteq SUBSET S
    BY Zenon
  <2> HIDE DEF B
  <2> QED BY <2>1, SmallestSet
<1>2. IsFiniteSet(S \ T) /\ IsFiniteSet(U) /\ IsFiniteSet((S \ T) \cup U)
  BY FS_Subset, Zenon
<1>3. SumFunctionOnSet(f, S \ T) \in Int /\ SumFunctionOnSet(f, U) \in Int
  BY <1>2, SumType, Zenon
<1>4. U # {}
  <2> SUFFICES ASSUME U = {} PROVE FALSE
    BY Zenon
  <2>1. SumFunctionOnSet(f, U) = 0
    BY SumEmpty, Zenon
  <2>2. (S \ T) \cup U = S \ T
    BY Zenon
  <2>3. SumFunctionOnSet(f, (S \ T) \cup U) = SumFunctionOnSet(f, S \ T)
    BY <2>2, Zenon
  <2>4. ~Good(U)
    BY <1>1, Zenon
  <2> HIDE DEF B
  <2> QED BY <1>3, <2>1, <2>3, <2>4
<1>5. PICK x : x \in U
  BY <1>4, Zenon
<1>6. Good(U \ {x})
  <2>1. U \ {x} \in SUBSET T /\ U \ {x} \notin B
    BY <1>1, <1>5, Zenon
  <2> HIDE DEF Good
  <2> QED BY <2>1, Zenon
<1>7. SumFunctionOnSet(f, U) = f[x] + SumFunctionOnSet(f, U \ {x})
  BY <1>2, <1>5, SumRemove
<1>8. SumFunctionOnSet(f, (S \ T) \cup U) = f[x] + SumFunctionOnSet(f, ((S \ T) \cup U) \ {x})
  BY <1>2, <1>5, SumRemove
<1>9. ((S \ T) \cup U) \ {x} = (S \ T) \cup (U \ {x})
  BY <1>5, Zenon
<1>10. SumFunctionOnSet(f, U \ {x}) \in Int /\ f[x] \in Int
  <2>1. IsFiniteSet(U \ {x})
    BY <1>2, FS_Subset, Zenon
  <2> QED BY <2>1, <1>5, SumType, Zenon
<1>11. SumFunctionOnSet(f, ((S \ T) \cup U) \ {x}) = SumFunctionOnSet(f, (S \ T) \cup (U \ {x}))
  BY <1>9, Zenon
<1>12. ~Good(U)
  BY <1>1, Zenon
<1> HIDE DEF B
<1> QED BY <1>3, <1>6, <1>7, <1>8, <1>10, <1>11, <1>12

(* A part of a sum of naturals is at most the whole.                       *)
LEMMA SumPart ==
    ASSUME NEW f, NEW S, IsFiniteSet(S), NEW T \in SUBSET S, \A x \in S : f[x] \in Nat
    PROVE  SumFunctionOnSet(f, T) <= SumFunctionOnSet(f, S)
<1>1. IsFiniteSet(T) /\ IsFiniteSet(S \ T)
  BY FS_Subset, Zenon
<1>2. SumFunctionOnSet(f, T) \in Nat /\ SumFunctionOnSet(f, S \ T) \in Nat
  BY <1>1, SumNat, Zenon
<1>3. SumFunctionOnSet(f, S) = SumFunctionOnSet(f, T) + SumFunctionOnSet(f, S \ T)
  BY SumSplit
<1> QED BY <1>2, <1>3

\* Nothing adds up to nothing.
LEMMA SumZero ==
    ASSUME NEW S, IsFiniteSet(S)
    PROVE  SumFunctionOnSet([x \in S |-> 0], S) = 0
<1> DEFINE f == [x \in S |-> 0]
           B == {s \in SUBSET S : SumFunctionOnSet(f, s) # 0}
<1> SUFFICES ASSUME B # {} PROVE FALSE
  BY Zenon
<1>1. PICK s \in B : \A U \in B : ~(U \subseteq s /\ U # s)
  <2>1. B \subseteq SUBSET S
    BY Zenon
  <2> HIDE DEF B
  <2> QED BY <2>1, SmallestSet
<1>2. CASE s = {}
  BY <1>2, SumEmpty, Zenon
<1>3. CASE s # {}
  <2>1. PICK e \in s : TRUE
    BY <1>3, Zenon
  <2>2. IsFiniteSet(s) /\ f[e] = 0 /\ \A x \in s : f[x] \in Int
    BY FS_Subset
  <2>3. SumFunctionOnSet(f, s \ {e}) = 0
    <3>1. s \ {e} \in SUBSET S /\ s \ {e} \subseteq s /\ s \ {e} # s
      BY <2>1, Zenon
    <3> QED BY <1>1, <3>1, Zenon
  <2>4. SumFunctionOnSet(f, s) # 0
    BY Zenon
  <2> HIDE DEF f, B
  <2>5. SumFunctionOnSet(f, s) = f[e] + SumFunctionOnSet(f, s \ {e})
    BY <2>2, SumRemove
  <2> QED BY <2>2, <2>3, <2>4, <2>5
<1> QED BY <1>2, <1>3, Zenon

\* One value of a function grows by d.
LEMMA SumGrow ==
    ASSUME NEW S, IsFiniteSet(S), NEW f \in [S -> Int], NEW e \in S, NEW d \in Int
    PROVE  SumFunction([f EXCEPT ![e] = @ + d]) = SumFunction(f) + d
<1> DEFINE g == [f EXCEPT ![e] = @ + d]
<1>1. /\ \A x \in S : f[x] \in Int /\ g[x] \in Int
      /\ \A x \in S \ {e} : g[x] = f[x]
      /\ g[e] = f[e] + d /\ f[e] \in Int /\ DOMAIN g = S /\ DOMAIN f = S
  OBVIOUS
<1> HIDE DEF g
<1>2. SumFunctionOnSet(g, S) = SumFunctionOnSet(f, S) - f[e] + g[e]
  BY <1>1, SumChange
<1>3. SumFunctionOnSet(f, S) \in Int
  BY <1>1, SumType, Zenon
<1>4. SumFunctionOnSet(g, S) = SumFunctionOnSet(f, S) + d
  BY <1>1, <1>2, <1>3
<1>5. SumFunction(g) = SumFunctionOnSet(g, S) /\ SumFunction(f) = SumFunctionOnSet(f, S)
  BY <1>1, Zenon DEF SumFunction
<1>6. SumFunction(g) = SumFunction(f) + d
  BY <1>4, <1>5, Zenon
<1> QED BY <1>6, Zenon DEF g

\* One value of a function shrinks by d.
LEMMA SumShrink ==
    ASSUME NEW S, IsFiniteSet(S), NEW f \in [S -> Int], NEW e \in S, NEW d \in Int
    PROVE  SumFunction([f EXCEPT ![e] = @ - d]) = SumFunction(f) - d
<1>1. [f EXCEPT ![e] = @ - d] = [f EXCEPT ![e] = @ + (-d)]
  BY Zenon
<1>2. -d \in Int
  OBVIOUS
<1>3. SumFunction([f EXCEPT ![e] = @ + (-d)]) = SumFunction(f) + (-d)
  BY <1>2, SumGrow, Zenon
<1>4. SumFunction([f EXCEPT ![e] = @ - d]) = SumFunction([f EXCEPT ![e] = @ + (-d)])
  BY <1>1, Zenon
<1>5. SumFunction(f) \in Int
  BY SumType, Zenon DEF SumFunction
<1> QED BY <1>3, <1>4, <1>5, Zenon

\* The values of a function add up to a number of their kind.
LEMMA SumFunctionType ==
    ASSUME NEW S, IsFiniteSet(S), NEW f \in [S -> Int]
    PROVE  SumFunction(f) \in Int
<1>1. DOMAIN f = S /\ \A x \in S : f[x] \in Int
  BY Zenon
<1>2. SumFunctionOnSet(f, S) \in Int
  BY <1>1, SumType, Zenon
<1> QED BY <1>1, <1>2, Zenon DEF SumFunction

(* The sum over one element.                                               *)
LEMMA SumSingle ==
    ASSUME NEW f, NEW e, f[e] \in Int
    PROVE  SumFunctionOnSet(f, {e}) = f[e]
<1>1. IsFiniteSet({e}) /\ \A x \in {e} : f[x] \in Int
  BY FS_Singleton, Zenon
<1>2. SumFunctionOnSet(f, {e}) = f[e] + SumFunctionOnSet(f, {e} \ {e})
  BY <1>1, SumRemove, Zenon
<1>3. {e} \ {e} = {}
  BY Zenon
<1>4. SumFunctionOnSet(f, {e} \ {e}) = 0
  BY <1>3, SumEmpty, Zenon
<1> QED BY <1>2, <1>4

(* Disjoint sets of t elements: as many as there are in U take at least    *)
(* t times as many of its elements.                                        *)
LEMMA Pigeonhole ==
    ASSUME NEW S, IsFiniteSet(S), NEW U, IsFiniteSet(U), NEW t \in Nat, NEW F,
           \A v \in S : F[v] \subseteq U /\ Cardinality(F[v]) >= t,
           \A v \in S, w \in S : v # w => F[v] \cap F[w] = {}
    PROVE  t * Cardinality(S) <= Cardinality(U)
<1> DEFINE G(C) == UNION {F[v] : v \in C}
           Good(C) == t * Cardinality(C) <= Cardinality(G(C))
           B == {C \in SUBSET S : ~Good(C)}
<1>1. \A C \in SUBSET S : /\ IsFiniteSet(C) /\ Cardinality(C) \in Nat
                          /\ G(C) \subseteq U /\ IsFiniteSet(G(C)) /\ Cardinality(G(C)) \in Nat
                          /\ Cardinality(G(C)) <= Cardinality(U)
  <2> SUFFICES ASSUME NEW C \in SUBSET S
               PROVE  /\ IsFiniteSet(C) /\ Cardinality(C) \in Nat
                      /\ G(C) \subseteq U /\ IsFiniteSet(G(C)) /\ Cardinality(G(C)) \in Nat
                      /\ Cardinality(G(C)) <= Cardinality(U)
    BY Zenon
  <2>1. G(C) \subseteq U
    BY Zenon
  <2> HIDE DEF G
  <2> QED BY <2>1, FS_Subset, FS_CardinalityType, Zenon
<1>2. B = {}
  <2> SUFFICES ASSUME B # {} PROVE FALSE
    BY Zenon
  <2>1. B \subseteq SUBSET S
    BY Zenon
  <2>2. PICK T \in B : \A V \in B : ~(V \subseteq T /\ V # T)
    <3> HIDE DEF B
    <3> QED BY <2>1, SmallestSet, Zenon
  <2>3. T \in SUBSET S /\ ~Good(T)
    BY <2>2, Zenon
  <2>4. T # {}
    <3> SUFFICES ASSUME T = {} PROVE FALSE
      BY Zenon
    <3>1. Cardinality(T) = 0
      BY FS_EmptySet, Zenon
    <3>2. t * Cardinality(T) = 0 /\ Cardinality(G(T)) >= 0
      <4> HIDE DEF G
      <4> QED BY <1>1, <2>3, <3>1
    <3> HIDE DEF G
    <3> QED BY <1>1, <2>3, <3>2, Zenon
  <2>5. PICK x : x \in T
    BY <2>4, Zenon
  <2> DEFINE C == T \ {x}
  <2>6. C \in SUBSET S /\ Good(C)
    <3>1. C \in SUBSET S /\ C \subseteq T /\ C # T
      BY <2>3, <2>5, Zenon
    <3> HIDE DEF C, Good
    <3> QED BY <2>2, <3>1, Zenon
  <2>7. G(T) = G(C) \cup F[x] /\ G(C) \cap F[x] = {}
    BY <2>3, <2>5, Zenon
  <2>8. Cardinality(T) = Cardinality(C) + 1
    <3>1. IsFiniteSet(T) /\ Cardinality(T) \in Nat
      <4> HIDE DEF G
      <4> QED BY <1>1, <2>3, Zenon
    <3>2. Cardinality(T \ {x}) = Cardinality(T) - 1
      BY <2>5, <3>1, FS_RemoveElement, Zenon
    <3> QED BY <3>1, <3>2
  <2>9. /\ IsFiniteSet(F[x]) /\ Cardinality(F[x]) \in Nat /\ Cardinality(F[x]) >= t
    <3>1. F[x] \subseteq U /\ Cardinality(F[x]) >= t
      BY <2>3, <2>5, Zenon
    <3> QED BY <3>1, FS_Subset, FS_CardinalityType, Zenon
  <2>10. Cardinality(G(T)) = Cardinality(G(C)) + Cardinality(F[x])
    <3>1. IsFiniteSet(G(C)) /\ Cardinality(G(C)) \in Nat
      BY <1>1, <2>6, Zenon
    <3> HIDE DEF G, C
    <3>2. Cardinality(G(C) \cup F[x])
            = Cardinality(G(C)) + Cardinality(F[x]) - Cardinality(G(C) \cap F[x])
      BY <2>9, <3>1, FS_Union, Zenon
    <3>3. Cardinality(G(C) \cap F[x]) = 0
      BY <2>7, FS_EmptySet, Zenon
    <3> QED BY <2>7, <2>9, <3>1, <3>2, <3>3
  <2> DEFINE c == Cardinality(C)
             g == Cardinality(G(C))
             f == Cardinality(F[x])
  <2>11. c \in Nat /\ g \in Nat /\ f \in Nat /\ f >= t /\ t * c <= g
    <3>1. c \in Nat /\ g \in Nat
      BY <1>1, <2>6, Zenon
    <3> QED BY <3>1, <2>6, <2>9, Zenon
  <2> HIDE DEF c, g, f
  <2>12. t * (c + 1) <= g + f
    BY <2>11
  <2>13. t * Cardinality(T) <= Cardinality(G(T))
    BY <2>8, <2>10, <2>12, Zenon DEF c, g, f
  <2> QED BY <2>3, <2>13, Zenon
<1>3. Good(S)
  <2> HIDE DEF Good
  <2> QED BY <1>2, Zenon
<1>4. Cardinality(S) \in Nat /\ Cardinality(G(S)) \in Nat /\ Cardinality(G(S)) <= Cardinality(U)
  BY <1>1, Zenon
<1>5. Cardinality(U) \in Nat /\ t * Cardinality(S) \in Int
  <2> HIDE DEF G
  <2> QED BY <1>4, FS_CardinalityType
<1> HIDE DEF G
<1> QED BY <1>3, <1>4, <1>5

-----------------------------------------------------------------------------
(* The quotient and what it says of the dividend.                          *)
LEMMA Division ==
    ASSUME NEW n \in Nat, NEW d \in Nat \ {0}
    PROVE  n \div d \in Nat /\ d * (n \div d) <= n /\ n < d * (n \div d) + d
<1> DEFINE q == n \div d
           r == n % d
<1>1. q \in Int /\ r \in 0 .. (d - 1) /\ n = d * q + r
  OBVIOUS
<1>2. q >= 0
  <2>1. SUFFICES ASSUME q <= -1 PROVE FALSE
    BY <1>1
  <2> HIDE DEF q, r
  <2>2. d * q <= -d
    BY <1>1, <2>1
  <2> QED BY <1>1, <2>2
<1> HIDE DEF q, r
<1>3. q \in Nat /\ d * q <= n /\ n < d * q + d
  BY <1>1, <1>2
<1> QED BY <1>3, Zenon DEF q

(* Multiplication with a positive number keeps the order.                  *)
LEMMA TimesOrder ==
    ASSUME NEW d \in Nat \ {0}, NEW p \in Int, NEW q \in Int, p <= q
    PROVE  d * p <= d * q
<1>1. q - p >= 0 /\ d * q = d * p + d * (q - p)
  OBVIOUS
<1>2. d * (q - p) >= 0
  BY <1>1
<1> QED BY <1>1, <1>2

(* Division keeps the order.                                               *)
LEMMA DivisionOrder ==
    ASSUME NEW m \in Nat, NEW n \in Nat, NEW d \in Nat \ {0}, m <= n
    PROVE  m \div d <= n \div d
<1> DEFINE p == m \div d
           q == n \div d
<1>1. p \in Nat /\ q \in Nat /\ d * p <= m /\ n < d * q + d
  BY Division, Zenon
<1> HIDE DEF p, q
<1>2. SUFFICES ASSUME q + 1 <= p PROVE FALSE
  BY <1>1 DEF p, q
<1>3. d * (q + 1) <= d * p
  BY <1>1, <1>2, TimesOrder
<1>4. d * (q + 1) = d * q + d
  BY <1>1
<1> QED BY <1>1, <1>3, <1>4

(* A share of at most one of an amount is at most the amount.              *)
LEMMA ShareBound ==
    ASSUME NEW n \in Nat, NEW a \in Nat, NEW b \in Nat \ {0}, a <= b
    PROVE  (n * a) \div b \in Nat /\ (n * a) \div b <= n
<1> DEFINE m == n * a
           q == (n * a) \div b
<1>1. n * a \in Nat /\ n * a <= b * n
  <2>1. n * (b - a) >= 0 /\ n * a \in Nat
    OBVIOUS
  <2> QED BY <2>1
<1>2. q \in Nat /\ b * q <= n * a
  BY <1>1, Division, Zenon
<1> HIDE DEF q
<1>3. SUFFICES ASSUME n + 1 <= q PROVE FALSE
  BY <1>2 DEF q
<1>4. b * (n + 1) <= b * q /\ b * (n + 1) = b * n + b
  BY <1>2, <1>3, TimesOrder
<1> QED BY <1>1, <1>2, <1>4

(* Quotient and remainder are determined.                                  *)
LEMMA DivisionUnique ==
    ASSUME NEW q \in Int, NEW p \in Int, NEW e \in Nat \ {0},
           NEW r \in 0 .. (e - 1), NEW s \in 0 .. (e - 1), e * q + r = e * p + s
    PROVE  r = s
<1>1. e * (q - p) = s - r
  OBVIOUS
<1>2. CASE q - p >= 1
  <2>1. e * (q - p) >= e
    BY <1>2
  <2> QED BY <1>1, <2>1
<1>3. CASE q - p <= -1
  <2>1. e * (q - p) <= -e
    BY <1>3
  <2> QED BY <1>1, <2>1
<1> QED BY <1>1, <1>2, <1>3

(* Within an epoch the first block of the epoch stays the same.            *)
LEMMA SameEpoch ==
    ASSUME NEW n \in Nat, NEW e \in Nat \ {0}, (n + 1) % e # 0
    PROVE  (n + 1) - ((n + 1) % e) = n - (n % e)
<1> DEFINE q == n \div e
           r == n % e
           p == (n + 1) \div e
           s == (n + 1) % e
<1>1. q \in Int /\ r \in 0 .. (e - 1) /\ n = e * q + r
  OBVIOUS
<1>2. p \in Int /\ s \in 0 .. (e - 1) /\ n + 1 = e * p + s
  OBVIOUS
<1>3. s # 0
  BY Zenon
<1> HIDE DEF q, r, p, s
<1>4. s - 1 \in 0 .. (e - 1) /\ e * q + r = e * p + (s - 1)
  BY <1>1, <1>2, <1>3
<1>5. r = s - 1
  BY <1>1, <1>2, <1>4, DivisionUnique, Zenon
<1>6. (n + 1) - s = n - r
  BY <1>1, <1>2, <1>5
<1> QED BY <1>6, Zenon DEF r, s
=============================================================================
