----------------------------- MODULE SumProofs -----------------------------
(***************************************************************************)
(* What the proofs need to know of SumFunctionOnSet, the sum of a function *)
(* over a finite set of indices.  The operator is a fold, defined by        *)
(* recursion over the subsets of the index set.  Induction is done on sets: *)
(* a non-empty set of counterexamples among the subsets of a finite set has *)
(* a minimal member, and the defining equation contradicts it.              *)
(***************************************************************************)
EXTENDS Integers, FiniteSets, Functions, FiniteSetTheorems, WellFoundedInduction, TLAPS

\* The index the fold takes first.
Pick(s) == CHOOSE x \in s : TRUE

\* One step of the fold, with g for the sums of smaller sets.
Body(f, g, s) == IF s = {} THEN 0 ELSE f[Pick(s)] + g[s \ {Pick(s)}]

\* g is the function the fold is computed with.
IsSum(f, S, g) == g = [s \in SUBSET S |-> Body(f, g, s)]

\* The sum is that function's value.
LEMMA SumUnfold ==
    ASSUME NEW f, NEW S
    PROVE  SumFunctionOnSet(f, S) = (CHOOSE g : IsSum(f, S, g))[S]
BY DEF SumFunctionOnSet, FoldFunctionOnSet, MapThenFoldSet, IsSum, Body, Pick

\* Every non-empty set of subsets of a finite set has a minimal member.
LEMMA Minimal ==
    ASSUME NEW S, IsFiniteSet(S), NEW B \in SUBSET (SUBSET S), B # {}
    PROVE  \E m \in B : \A t \in B : t \subseteq m => t = m
<1>1. IsWellFoundedOn(StrictSubsetOrdering(S), SUBSET S)
  BY FS_StrictSubsetOrderingWellFounded, FS_FiniteSubsetsOfFinite
<1>2. PICK m \in B : \A t \in B : ~(<<t, m>> \in StrictSubsetOrdering(S))
  BY <1>1, WFMin
<1>3. QED
  BY <1>2 DEF StrictSubsetOrdering

\* Two sums agree wherever both are defined.
LEMMA SumUnique ==
    ASSUME NEW f, NEW S, IsFiniteSet(S), NEW T, NEW g, NEW h,
           IsSum(f, S, g), IsSum(f, T, h), NEW u \in SUBSET S, u \subseteq T
    PROVE  g[u] = h[u]
<1> DEFINE B == {v \in SUBSET S : v \subseteq T /\ g[v] # h[v]}
<1> SUFFICES ASSUME B # {} PROVE FALSE
  OBVIOUS
<1>0. B \in SUBSET (SUBSET S)
  OBVIOUS
<1>1. PICK m \in B : \A t \in B : t \subseteq m => t = m
  <2> HIDE DEF B
  <2> QED
    BY <1>0, Minimal
<1>2. g[m] = Body(f, g, m) /\ h[m] = Body(f, h, m)
  BY DEF IsSum
<1>3. m # {} /\ Pick(m) \in m
  BY <1>2 DEF Body, Pick
<1>4. g[m \ {Pick(m)}] = h[m \ {Pick(m)}]
  BY <1>1, <1>3
<1>5. QED
  BY <1>2, <1>3, <1>4 DEF Body

\* The defining equation has a solution on the subsets of a finite set.
LEMMA SumExists ==
    ASSUME NEW f, NEW S, IsFiniteSet(S)
    PROVE  \E g : IsSum(f, S, g)
<1> DEFINE B == {t \in SUBSET S : ~\E g : IsSum(f, t, g)}
           total(t) == (CHOOSE g : IsSum(f, t, g))[t]
<1> SUFFICES ASSUME B # {} PROVE FALSE
  OBVIOUS
<1>0. B \in SUBSET (SUBSET S)
  OBVIOUS
<1>1. PICK m \in B : \A t \in B : t \subseteq m => t = m
  <2> HIDE DEF B
  <2> QED
    BY <1>0, Minimal
<1>2. ASSUME NEW u \in SUBSET m, u # m
      PROVE  IsSum(f, u, CHOOSE g : IsSum(f, u, g))
  BY <1>1, <1>2
<1> DEFINE g == [s \in SUBSET m |-> IF s = {} THEN 0 ELSE f[Pick(s)] + total(s \ {Pick(s)})]
<1>3. ASSUME NEW u \in SUBSET m, u # m PROVE g[u] = total(u)
  <2> DEFINE h == CHOOSE k : IsSum(f, u, k)
             v == u \ {Pick(u)}
  <2>1. IsSum(f, u, h)
    BY <1>2, <1>3
  <2>2. h[u] = Body(f, h, u)
    BY <2>1 DEF IsSum
  <2>3. CASE u = {}
    BY <2>2, <2>3 DEF Body
  <2>4. CASE u # {}
    <3>1. Pick(u) \in u
      BY <2>4 DEF Pick
    <3>2. v \in SUBSET m /\ v # m /\ v \subseteq u
      BY <1>3, <3>1
    <3>3. IsSum(f, v, CHOOSE k : IsSum(f, v, k))
      BY <1>2, <3>2
    <3>4. IsFiniteSet(u)
      BY FS_Subset
    <3>5. h[v] = total(v)
      <4> HIDE DEF h, v
      <4>1. \A k, l : IsSum(f, u, k) /\ IsSum(f, v, l) => k[v] = l[v]
        BY <3>2, <3>4, SumUnique
      <4>2. QED
        BY <2>1, <3>3, <4>1
    <3>6. QED
      BY <2>2, <2>4, <3>5 DEF Body
  <2>5. QED
    BY <2>3, <2>4
<1>4. ASSUME NEW s \in SUBSET m PROVE g[s] = Body(f, g, s)
  <2>1. CASE s = {}
    BY <2>1 DEF Body
  <2>2. CASE s # {}
    <3> DEFINE v == s \ {Pick(s)}
    <3>1. Pick(s) \in s
      BY <2>2 DEF Pick
    <3>2. v \in SUBSET m /\ v # m
      BY <1>4, <3>1
    <3>3. g[v] = total(v)
      BY <1>3, <3>2
    <3>4. QED
      BY <1>4, <2>2, <3>3 DEF Body
  <2>3. QED
    BY <2>1, <2>2
<1>5. IsSum(f, m, g)
  BY <1>4 DEF IsSum
<1>6. QED
  BY <1>5

\* The sum over the empty set, and over a set from which one index is taken.
LEMMA SumEquation ==
    ASSUME NEW f, NEW S, IsFiniteSet(S)
    PROVE  SumFunctionOnSet(f, S) =
             IF S = {} THEN 0
             ELSE f[Pick(S)] + SumFunctionOnSet(f, S \ {Pick(S)})
<1> DEFINE g == CHOOSE k : IsSum(f, S, k)
           R == S \ {Pick(S)}
           h == CHOOSE k : IsSum(f, R, k)
<1>1. IsSum(f, S, g)
  BY SumExists
<1>2. IsFiniteSet(R)
  BY FS_RemoveElement
<1>3. IsSum(f, R, h)
  BY <1>2, SumExists
<1>4. SumFunctionOnSet(f, S) = g[S] /\ SumFunctionOnSet(f, R) = h[R]
  BY SumUnfold
<1>5. g[S] = Body(f, g, S)
  BY <1>1 DEF IsSum
<1>6. g[R] = h[R]
  <2>0. R \in SUBSET S /\ R \subseteq R
    OBVIOUS
  <2> HIDE DEF g, h, R
  <2>1. \A k, l : IsSum(f, S, k) /\ IsSum(f, R, l) => k[R] = l[R]
    BY <2>0, SumUnique
  <2>2. QED
    BY <1>1, <1>3, <2>1
<1>7. QED
  BY <1>4, <1>5, <1>6 DEF Body

-----------------------------------------------------------------------------
(* The facts the component proofs cite.                                    *)

\* Nothing sums to zero.
LEMMA SumEmpty == \A f : SumFunctionOnSet(f, {}) = 0
BY SumEquation, FS_EmptySet

\* A sum of integers is an integer, and a sum of naturals a natural.
LEMMA SumType ==
    ASSUME NEW S, IsFiniteSet(S), NEW N \in {Nat, Int}, NEW f, \A x \in S : f[x] \in N
    PROVE  SumFunctionOnSet(f, S) \in N
<1> DEFINE B == {t \in SUBSET S : SumFunctionOnSet(f, t) \notin N}
<1> SUFFICES ASSUME B # {} PROVE FALSE
  OBVIOUS
<1>0. B \in SUBSET (SUBSET S)
  OBVIOUS
<1>1. PICK m \in B : \A t \in B : t \subseteq m => t = m
  <2> HIDE DEF B
  <2> QED
    BY <1>0, Minimal
<1>2. IsFiniteSet(m)
  BY FS_Subset
<1>3. m # {} /\ Pick(m) \in m
  BY SumEmpty DEF Pick
<1>4. SumFunctionOnSet(f, m \ {Pick(m)}) \in N
  BY <1>1, <1>3
<1>5. SumFunctionOnSet(f, m) = f[Pick(m)] + SumFunctionOnSet(f, m \ {Pick(m)})
  BY <1>2, <1>3, SumEquation
<1>6. QED
  BY <1>3, <1>4, <1>5

\* Any index can be taken out of a sum.
LEMMA SumRemove ==
    ASSUME NEW S, IsFiniteSet(S), NEW f, \A x \in S : f[x] \in Int, NEW y \in S
    PROVE  SumFunctionOnSet(f, S) = f[y] + SumFunctionOnSet(f, S \ {y})
<1> DEFINE Sum(t) == SumFunctionOnSet(f, t)
           B == {t \in SUBSET S : \E x \in t : Sum(t) # f[x] + Sum(t \ {x})}
<1> SUFFICES ASSUME B # {} PROVE FALSE
  OBVIOUS
<1>0. B \in SUBSET (SUBSET S)
  OBVIOUS
<1>1. PICK m \in B : \A t \in B : t \subseteq m => t = m
  <2> HIDE DEF B
  <2> QED
    BY <1>0, Minimal
<1>2. PICK x \in m : Sum(m) # f[x] + Sum(m \ {x})
  OBVIOUS
<1> DEFINE c == Pick(m)
           r == (m \ {x}) \ {c}
<1>3. c \in m /\ x \in m /\ m \subseteq S
  BY DEF Pick
<1>4. Sum(m) = f[c] + Sum(m \ {c})
  <2>1. IsFiniteSet(m)
    BY FS_Subset
  <2>2. QED
    BY <1>3, <2>1, SumEquation
<1>5. c # x
  BY <1>2, <1>4
<1> HIDE DEF c
<1>6. \A t \in SUBSET m : t # m => \A z \in t : Sum(t) = f[z] + Sum(t \ {z})
  BY <1>1
<1>7. Sum(m \ {x}) = f[c] + Sum(r)
  BY <1>3, <1>5, <1>6
<1>8. Sum(m \ {c}) = f[x] + Sum(r)
  <2>1. (m \ {c}) \ {x} = r
    OBVIOUS
  <2>2. QED
    BY <1>3, <1>5, <1>6, <2>1
<1>9. f[c] \in Int /\ f[x] \in Int /\ Sum(r) \in Int
  <2>1. IsFiniteSet(r)
    BY FS_Subset
  <2>2. \A z \in r : f[z] \in Int
    OBVIOUS
  <2>3. SumFunctionOnSet(f, r) \in Int
    <3> HIDE DEF r
    <3> QED
      BY <2>1, <2>2, SumType
  <2>4. QED
    BY <1>3, <2>3
<1>10. QED
  BY <1>2, <1>4, <1>7, <1>8, <1>9

\* Functions that agree on the indices have the same sum.
LEMMA SumSame ==
    ASSUME NEW S, IsFiniteSet(S), NEW f, NEW g, \A x \in S : f[x] = g[x]
    PROVE  SumFunctionOnSet(f, S) = SumFunctionOnSet(g, S)
<1> DEFINE B == {t \in SUBSET S : SumFunctionOnSet(f, t) # SumFunctionOnSet(g, t)}
<1> SUFFICES ASSUME B # {} PROVE FALSE
  OBVIOUS
<1>0. B \in SUBSET (SUBSET S)
  OBVIOUS
<1>1. PICK m \in B : \A t \in B : t \subseteq m => t = m
  <2> HIDE DEF B
  <2> QED
    BY <1>0, Minimal
<1>2. IsFiniteSet(m)
  BY FS_Subset
<1>3. m # {} /\ Pick(m) \in m
  BY SumEmpty DEF Pick
<1>4. SumFunctionOnSet(f, m \ {Pick(m)}) = SumFunctionOnSet(g, m \ {Pick(m)})
  BY <1>1, <1>3
<1>5. /\ SumFunctionOnSet(f, m) = f[Pick(m)] + SumFunctionOnSet(f, m \ {Pick(m)})
      /\ SumFunctionOnSet(g, m) = g[Pick(m)] + SumFunctionOnSet(g, m \ {Pick(m)})
  BY <1>2, <1>3, SumEquation
<1>6. QED
  BY <1>3, <1>4, <1>5

\* Terms that are all zero sum to zero.
LEMMA SumZero ==
    ASSUME NEW S, IsFiniteSet(S), NEW f, \A x \in S : f[x] = 0
    PROVE  SumFunctionOnSet(f, S) = 0
<1> DEFINE B == {t \in SUBSET S : SumFunctionOnSet(f, t) # 0}
<1> SUFFICES ASSUME B # {} PROVE FALSE
  OBVIOUS
<1>0. B \in SUBSET (SUBSET S)
  OBVIOUS
<1>1. PICK m \in B : \A t \in B : t \subseteq m => t = m
  <2> HIDE DEF B
  <2> QED
    BY <1>0, Minimal
<1>2. IsFiniteSet(m)
  BY FS_Subset
<1>3. m # {} /\ Pick(m) \in m
  BY SumEmpty DEF Pick
<1>4. SumFunctionOnSet(f, m \ {Pick(m)}) = 0
  BY <1>1, <1>3
<1>5. SumFunctionOnSet(f, m) = f[Pick(m)] + SumFunctionOnSet(f, m \ {Pick(m)})
  BY <1>2, <1>3, SumEquation
<1>6. QED
  BY <1>3, <1>4, <1>5

\* Changing one term changes the sum by as much.
LEMMA SumChange ==
    ASSUME NEW S, IsFiniteSet(S), NEW f, NEW g, NEW y \in S,
           \A x \in S : f[x] \in Int /\ g[x] \in Int,
           \A x \in S \ {y} : g[x] = f[x]
    PROVE  SumFunctionOnSet(g, S) = SumFunctionOnSet(f, S) + (g[y] - f[y])
<1>1. IsFiniteSet(S \ {y})
  BY FS_RemoveElement
<1>2. SumFunctionOnSet(f, S \ {y}) = SumFunctionOnSet(g, S \ {y})
  BY <1>1, SumSame
<1>3. SumFunctionOnSet(f, S \ {y}) \in Int
  BY <1>1, SumType
<1>4. /\ SumFunctionOnSet(f, S) = f[y] + SumFunctionOnSet(f, S \ {y})
      /\ SumFunctionOnSet(g, S) = g[y] + SumFunctionOnSet(g, S \ {y})
  BY SumRemove
<1>5. QED
  BY <1>2, <1>3, <1>4

-----------------------------------------------------------------------------
(* Sums by parts.                                                          *)

\* A non-empty set of natural numbers has a least member.
LEMMA Least ==
    ASSUME NEW B \in SUBSET Nat, B # {}
    PROVE  \E m \in B : \A k \in B : m <= k
<1>1. PICK m \in B : \A k \in B : ~(<<k, m>> \in OpToRel(<, Nat))
  BY NatLessThanWellFounded, WFMin
<1>2. \A k \in B : ~(k < m)
  BY <1>1 DEF OpToRel
<1>3. QED
  BY <1>2

\* The sum over two sets of indices that share none.
LEMMA SumDisjoint ==
    ASSUME NEW A, IsFiniteSet(A), NEW B, IsFiniteSet(B), A \cap B = {},
           NEW f, \A x \in A \cup B : f[x] \in Int
    PROVE  SumFunctionOnSet(f, A \cup B) = SumFunctionOnSet(f, A) + SumFunctionOnSet(f, B)
<1> DEFINE Sum(t) == SumFunctionOnSet(f, t)
           Bad == {t \in SUBSET B : Sum(A \cup t) # Sum(A) + Sum(t)}
<1> SUFFICES ASSUME Bad # {} PROVE FALSE
  BY DEF Bad
<1>1. PICK t \in Bad : \A u \in Bad : u \subseteq t => u = t
  <2>1. Bad \in SUBSET (SUBSET B)
    OBVIOUS
  <2> HIDE DEF Bad
  <2>2. QED
    BY <2>1, Minimal
<1>2. t \in SUBSET B /\ Sum(A \cup t) # Sum(A) + Sum(t)
  OBVIOUS
<1>3. /\ Sum(A) \in Int /\ \A u \in SUBSET B : IsFiniteSet(u) /\ IsFiniteSet(A \cup u) /\ Sum(u) \in Int
  <2>1. \A u \in SUBSET B : IsFiniteSet(u) /\ IsFiniteSet(A \cup u)
    BY FS_Subset, FS_Union
  <2>2. QED
    BY <2>1, SumType
<1>4. t # {}
  <2>1. A \cup {} = A
    OBVIOUS
  <2>2. QED
    BY <1>2, <1>3, <2>1, SumEmpty
<1>5. PICK y \in t : TRUE
  BY <1>4
<1>6. Sum(t) = f[y] + Sum(t \ {y})
  BY <1>2, <1>3, SumRemove
<1>7. Sum(A \cup t) = f[y] + Sum(A \cup (t \ {y}))
  <2>1. (A \cup t) \ {y} = A \cup (t \ {y})
    BY <1>2
  <2> DEFINE U == A \cup t
  <2>2. IsFiniteSet(U) /\ y \in U /\ \A x \in U : f[x] \in Int
    BY <1>2, <1>3
  <2>3. SumFunctionOnSet(f, U) = f[y] + SumFunctionOnSet(f, U \ {y})
    <3> HIDE DEF U
    <3>1. QED
      BY <2>2, SumRemove
  <2>4. QED
    BY <2>1, <2>3
<1>8. t \ {y} \in SUBSET B /\ t \ {y} # t
  BY <1>2
<1>9. Sum(A \cup (t \ {y})) = Sum(A) + Sum(t \ {y})
  BY <1>1, <1>8
<1>10. f[y] \in Int /\ Sum(t \ {y}) \in Int
  BY <1>2, <1>3, <1>8
<1> HIDE DEF Sum
<1>11. QED
  BY <1>2, <1>3, <1>6, <1>7, <1>9, <1>10

\* The m sets part[n] are a partition of D, and h[n] is the sum of f over part[n].
Partitions(part, m, D) ==
    /\ m \in Nat
    /\ \A n \in 1..m : part[n] \subseteq D
    /\ \A j, k \in 1..m : j < k => part[j] \cap part[k] = {}
    /\ \A i \in D : \E n \in 1..m : i \in part[n]

SumsOf(h, f, part, m) == \A n \in 1..m : h[n] = SumFunctionOnSet(f, part[n])

\* Summing part by part is summing over the parts together.
LEMMA SumParts ==
    ASSUME NEW D, IsFiniteSet(D), NEW f, \A i \in D : f[i] \in Int,
           NEW m, NEW part, Partitions(part, m, D), NEW h, SumsOf(h, f, part, m)
    PROVE  SumFunctionOnSet(h, 1..m) = SumFunctionOnSet(f, D)
<1> USE DEF Partitions, SumsOf
<1> DEFINE Upto(k) == {i \in D : \E n \in 1..k : i \in part[n]}
           Bad == {k \in 0..m : SumFunctionOnSet(h, 1..k) # SumFunctionOnSet(f, Upto(k))}
<1>1. \A k \in 1..m : h[k] \in Int /\ IsFiniteSet(part[k]) /\ IsFiniteSet(Upto(k - 1))
  <2>1. \A k \in 1..m : IsFiniteSet(part[k]) /\ IsFiniteSet(Upto(k - 1))
    BY FS_Subset
  <2> HIDE DEF Upto
  <2>2. \A k \in 1..m : SumFunctionOnSet(f, part[k]) \in Int
    BY <2>1, SumType
  <2>3. QED
    BY <2>1, <2>2
<1>2. Bad = {}
  <2> SUFFICES ASSUME Bad # {} PROVE FALSE
    OBVIOUS
  <2>1. PICK k \in Bad : \A j \in Bad : k <= j
    <3>1. Bad \in SUBSET Nat
      OBVIOUS
    <3> HIDE DEF Bad
    <3>2. QED
      BY <3>1, Least
  <2>2. k \in 0..m /\ SumFunctionOnSet(h, 1..k) # SumFunctionOnSet(f, Upto(k))
    OBVIOUS
  <2>3. k # 0
    <3>1. 1..0 = {} /\ Upto(0) = {}
      OBVIOUS
    <3>2. QED
      BY <2>2, <3>1, SumEmpty
  <2>4. k \in 1..m /\ k - 1 \in 0..m /\ k - 1 \notin Bad
    BY <2>1, <2>2, <2>3
  <2>5. SumFunctionOnSet(h, 1..(k - 1)) = SumFunctionOnSet(f, Upto(k - 1))
    BY <2>4
  <2>6. SumFunctionOnSet(h, 1..k) = h[k] + SumFunctionOnSet(h, 1..(k - 1))
    <3> DEFINE K == 1..k
    <3>1. K \ {k} = 1..(k - 1) /\ k \in K
      BY <2>4
    <3>2. \A x \in K : x \in 1..m
      BY <2>4
    <3>3. \A x \in K : h[x] \in Int
      <4> HIDE DEF K, Upto
      <4>1. QED
        BY <1>1, <3>2
    <3>4. IsFiniteSet(K)
      BY <2>4, FS_Interval
    <3>5. SumFunctionOnSet(h, K) = h[k] + SumFunctionOnSet(h, K \ {k})
      <4> HIDE DEF K, Bad, Upto
      <4>1. QED
        BY <3>1, <3>3, <3>4, SumRemove
    <3>6. QED
      BY <3>1, <3>5
  <2>7. Upto(k) = part[k] \cup Upto(k - 1) /\ part[k] \cap Upto(k - 1) = {}
    <3>1. \A n : n \in 1..k <=> n \in 1..(k - 1) \/ n = k
      BY <2>4
    <3>2. \A n \in 1..(k - 1) : n \in 1..m /\ n < k
      BY <2>4
    <3>3. \A n \in 1..(k - 1) : part[n] \cap part[k] = {}
      BY <2>4, <3>2
    <3>4. part[k] \subseteq D
      BY <2>4
    <3>5. QED
      BY <3>1, <3>3, <3>4
  <2>8. SumFunctionOnSet(f, Upto(k)) = SumFunctionOnSet(f, part[k]) + SumFunctionOnSet(f, Upto(k - 1))
    <3> DEFINE X == part[k]
               Y == Upto(k - 1)
    <3>1. \A x \in X \cup Y : f[x] \in Int
      BY <2>4
    <3>2. IsFiniteSet(X) /\ IsFiniteSet(Y)
      BY <1>1, <2>4
    <3>3. Upto(k) = X \cup Y /\ X \cap Y = {}
      BY <2>7
    <3> HIDE DEF X, Y, Bad, Upto
    <3>4. SumFunctionOnSet(f, X \cup Y) = SumFunctionOnSet(f, X) + SumFunctionOnSet(f, Y)
      BY <3>1, <3>2, <3>3, SumDisjoint
    <3>5. QED
      BY <3>3, <3>4 DEF X, Y
  <2>9. h[k] = SumFunctionOnSet(f, part[k])
    BY <2>4
  <2>10. QED
    BY <2>2, <2>5, <2>6, <2>8, <2>9
<1>3. m \in 0..m /\ Upto(m) = D
  OBVIOUS
<1>4. QED
  BY <1>2, <1>3

\* s lists the N members of S, each once.
Lists(s, N, S) ==
    /\ N \in Nat /\ s \in [1..N -> S]
    /\ \A x \in S : \E n \in 1..N : s[n] = x
    /\ \A m, n \in 1..N : m < n => s[m] # s[n]

\* Summing in another order is summing.
LEMMA SumPermuted ==
    ASSUME NEW D, IsFiniteSet(D), NEW f, \A i \in D : f[i] \in Int,
           NEW m, NEW s, Lists(s, m, D), NEW h, \A n \in 1..m : h[n] = f[s[n]]
    PROVE  SumFunctionOnSet(h, 1..m) = SumFunctionOnSet(f, D)
<1> DEFINE part == [n \in 1..m |-> {s[n]}]
<1>1. /\ m \in Nat /\ \A n \in 1..m : s[n] \in D
      /\ \A j, k \in 1..m : j < k => s[j] # s[k]
      /\ \A i \in D : \E n \in 1..m : s[n] = i
  BY DEF Lists
<1>2. \A x \in D : SumFunctionOnSet(f, {x}) = f[x]
  <2> TAKE x \in D
  <2> DEFINE X == {x}
  <2>1. IsFiniteSet(X) /\ x \in X /\ X \ {x} = {} /\ \A y \in X : f[y] \in Int
    BY FS_Singleton
  <2> HIDE DEF X
  <2>2. SumFunctionOnSet(f, X) = f[x] + SumFunctionOnSet(f, {})
    BY <2>1, SumRemove
  <2>3. QED
    BY <2>2, SumEmpty DEF X
<1>3. /\ \A n \in 1..m : part[n] \subseteq D /\ h[n] = SumFunctionOnSet(f, part[n])
      /\ \A j, k \in 1..m : j < k => part[j] \cap part[k] = {}
      /\ \A i \in D : \E n \in 1..m : i \in part[n]
  <2>1. \A n \in 1..m : part[n] = {s[n]}
    OBVIOUS
  <2> HIDE DEF part
  <2>2. \A n \in 1..m : part[n] \subseteq D /\ h[n] = SumFunctionOnSet(f, part[n])
    <3> TAKE n \in 1..m
    <3>1. s[n] \in D /\ h[n] = f[s[n]] /\ part[n] = {s[n]}
      BY <1>1, <2>1
    <3>2. SumFunctionOnSet(f, {s[n]}) = f[s[n]]
      BY <1>2, <3>1
    <3>3. QED
      BY <3>1, <3>2
  <2>3. QED
    BY <1>1, <2>1, <2>2
<1> HIDE DEF part
<1>4. Partitions(part, m, D) /\ SumsOf(h, f, part, m)
  BY <1>1, <1>3 DEF Partitions, SumsOf
<1>5. QED
  BY <1>4, SumParts
=============================================================================
